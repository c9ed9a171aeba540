---------------------------- MODULE ConfigProofs ----------------------------
(***************************************************************************)
(* Proofs about Config, for any documents, command lines, socket names and *)
(* contents of freed memory: the inductive invariant ConfigInv, and from   *)
(* it every property the run config checks.                                *)
(***************************************************************************)
EXTENDS Config, SequenceTheorems, TLAPS

\* What Fetch gives thread t, the volume the document gives the output, and the
\* name it gives a server.
Fetched(t) == [k \in Keys |-> get_audio_attribute(HalfOf(t), k)]

DocumentVolume ==
    LET item == get_audio_attribute("AO", "SetVol")
    IN InRange(IF item = NULL THEN 90 ELSE item.int, -30, 120, 90)

Path(t) == Truncated[config_get_socket_path(t)]

\* Where main is before it has started each thread.
Before == {"getopt", "load", "validate", "enable", "control"}
NotYet == [control |-> Before, input |-> Before \cup {"input"},
           output |-> Before \cup {"input", "output"},
           play |-> Before \cup {"input", "output", "play"}]

\* main loads and validates before it starts a thread, and a thread that has not
\* started has left no trace.
Stages ==
    /\ \A t \in Threads : pc \in NotYet[t] => thread[t] = "off"
    /\ pc \in {"getopt", "load", "validate"} => ~accepted
    /\ \A t \in Servers :
           thread[t] \in {"off", "paths", "bind"} => bound[t] = NULL
    /\ thread.input \in {"fetch", "use"} => bound.input = NULL
    /\ thread.output \in {"fetch", "use", "receive", "listen"} => bound.output # NULL
    /\ thread.play \notin {"paths", "bind", "listen", "receive"}
    /\ thread.input = "off" => device.AI = NULL
    /\ thread.play = "off" => device.AO = NULL
    /\ pc \in Before => names = DefaultName

\* DisabledStaysOff, of the threads, and before main has got there.
Off ==
    /\ options.disable_ai => thread.input = "off"
    /\ options.disable_ao => thread.output = "off" /\ thread.play = "off"

\* items and device have an entry for each thread and for each half.
Domains == DOMAIN items = Threads /\ DOMAIN device = Halves

\* What a thread is about to read is an int, and the document's until it is freed.
Reads ==
    \A t \in Threads : thread[t] = "use" =>
        /\ \A k \in Keys : items[t][k] # NULL => items[t][k].int \in Int
        /\ handler = NULL => items[t] = Fetched(t)

\* VolumeKept holds because there is one volume to set; and the output's buffer
\* has the size the document gives it.
OutputSettings ==
    handler = NULL /\ device.AO # NULL =>
        /\ device.AO.vol \in {DocumentVolume, NULL}
        /\ device.AO.buffer = config_get_ao_frame_size

\* An accepted document is the validated one.
Accepted == accepted /\ handler = NULL => validate_json(get_audio_config)

\* A name is the default or the document's; by the time a server binds, all are
\* the document's, unless a call has failed.
NamesRead ==
    accepted /\ handler = NULL =>
        /\ \A s \in Servers : names[s] \in {Path(s), DefaultName[s]}
        /\ faults = 0 /\ (\E t \in Servers : thread[t] = "bind") =>
               \A s \in Servers : names[s] = Path(s)

ConfigInv ==
    /\ TypeOK /\ Stages /\ Off /\ Domains
    /\ Reads /\ SettingsInRange /\ OutputSettings
    /\ Accepted /\ AcceptedCrashesOnConnection /\ NamesRead /\ NamesServe

-------------------------------------------------------------------------------
\* The document is a constant: what is read of it changes with config_root only.
LEMMA DocumentSame ==
  ASSUME config_root' = config_root
  PROVE  /\ \A t \in Threads : Fetched(t)' = Fetched(t)
         /\ DocumentVolume' = DocumentVolume
         /\ config_get_ao_frame_size' = config_get_ao_frame_size
         /\ \A t \in Servers : Path(t)' = Path(t)
         /\ Distinct' = Distinct
         /\ validate_json(get_audio_config)' = validate_json(get_audio_config)
<1>1. get_audio_config' = get_audio_config
  BY DEF get_audio_config
<1>2. \A h, k : get_audio_attribute(h, k)' = get_audio_attribute(h, k)
  BY <1>1 DEF get_audio_attribute
<1>3. \A t \in Servers : config_get_socket_path(t)' = config_get_socket_path(t)
  BY <1>1 DEF config_get_socket_path
<1>4. QED
  BY <1>1, <1>2, <1>3
     DEF Fetched, DocumentVolume, config_get_ao_frame_size, Path, Distinct, validate_json,
         Section, ValidAO, ValidAIStart, ValidAgc, Have

\* What the document gives is an int, and a name that Truncated covers.
LEMMA DocumentTyped ==
  ASSUME config_root \in Documents \cup {NULL}
  PROVE  /\ \A h \in Halves, k \in Keys :
                get_audio_attribute(h, k) # NULL => get_audio_attribute(h, k).int \in Int
         /\ config_get_ao_frame_size \in Int
         /\ \A t \in Servers :
                config_get_socket_path(t) # NULL => config_get_socket_path(t) \in DOMAIN Truncated
<1>1. \A h \in Halves, k \in Keys :
          get_audio_attribute(h, k) # NULL => get_audio_attribute(h, k).int \in Int
  <2>1. CASE config_root = NULL
    BY <2>1 DEF get_audio_attribute, get_audio_config, Item, Section
  <2>2. CASE config_root # NULL
    BY <2>2, DocumentAssumption DEF get_audio_attribute, get_audio_config
  <2>3. QED
    BY <2>1, <2>2
<1>2. config_get_ao_frame_size \in Int
  BY <1>1 DEF config_get_ao_frame_size, Is, Halves, Keys
<1>3. \A t \in Servers :
          config_get_socket_path(t) # NULL => config_get_socket_path(t) \in DOMAIN Truncated
  <2>1. CASE config_root = NULL
    BY <2>1 DEF get_audio_config, config_get_socket_path, Item, Is
  <2>2. CASE config_root # NULL
    BY <2>2, DocumentAssumption DEF get_audio_config, config_get_socket_path, Is
  <2>3. QED
    BY <2>1, <2>2
<1>4. QED
  BY <1>1, <1>2, <1>3

\* The two keys strcmp is called with are strings in a document that validates,
\* and so are the names of the servers.
LEMMA Validated ==
  ASSUME validate_json(get_audio_config), config_root \in Documents \cup {NULL}
  PROVE  /\ \A h \in Halves, k \in {"bitwidth", "soundmode"} :
                Is("string", get_audio_attribute(h, k))
         /\ \A t \in Servers : /\ config_get_socket_path(t) # NULL
                               /\ config_get_socket_path(t) \in DOMAIN Truncated
                               /\ Path(t) \in DOMAIN Truncated
                               /\ Path(t) # NULL
<1>1. ASSUME NEW k \in {"bitwidth", "soundmode"}
      PROVE  Is("string", get_audio_attribute("AO", k))
  <2>1. Have(Section(get_audio_config, "AO"), Attributes(ao_attributes, 1, 14))
    BY DEF validate_json, ValidAO
  <2>2. <<k, "string">> \in Attributes(ao_attributes, 1, 14)
    <3>1. ao_attributes[6] = <<"bitwidth", "string">>
          /\ ao_attributes[7] = <<"soundmode", "string">>
      BY DEF ao_attributes
    <3>2. QED
      BY <3>1 DEF Attributes
  <2>3. QED
    BY <2>1, <2>2 DEF Have, get_audio_attribute
<1>2. ASSUME NEW k \in {"bitwidth", "soundmode"}
      PROVE  Is("string", get_audio_attribute("AI", k))
  <2>1. Have(Section(get_audio_config, "AI"), Attributes(ai_attributes, 1, 15))
    BY DEF validate_json, ValidAIStart
  <2>2. <<k, "string">> \in Attributes(ai_attributes, 1, 15)
    <3>1. ai_attributes[6] = <<"bitwidth", "string">>
          /\ ai_attributes[7] = <<"soundmode", "string">>
      BY DEF ai_attributes
    <3>2. QED
      BY <3>1 DEF Attributes
  <2>3. QED
    BY <2>1, <2>2 DEF Have, get_audio_attribute
<1>3. ASSUME NEW t \in Servers
      PROVE  /\ config_get_socket_path(t) \in DOMAIN Truncated
             /\ config_get_socket_path(t) # NULL
  <2>1. Is("string", Item(Item(get_audio_config, "network"), network_keys[t]))
    BY DEF validate_json
  <2>2. config_root # NULL
    BY <2>1 DEF get_audio_config, Item, Is
  <2>3. QED
    BY <2>1, <2>2, DocumentAssumption, ConfigAssumption
       DEF config_get_socket_path, get_audio_config
<1>4. QED
  BY <1>1, <1>2, <1>3, ConfigAssumption DEF Halves, Path

-------------------------------------------------------------------------------
(***************************************************************************)
(* The settings.                                                           *)
(***************************************************************************)
\* What item->valueint gives a thread, of its document or of freed memory.
LEMMA ValueTyped ==
  ASSUME Reads, NEW t \in Threads, thread[t] = "use", NEW freed \in FreedMemory,
         NEW key \in Keys, NEW default \in Int
  PROVE  Value(t, freed, key, default) \in Int
<1>1. freed[key] \in Int
  BY ConfigAssumption
<1>2. QED
  BY <1>1 DEF Reads, Value

\* Whatever is read, the volume is one the SDK takes, ...
LEMMA VolumeInRange ==
  ASSUME Reads, NEW t \in Threads, thread[t] = "use", NEW freed \in FreedMemory
  PROVE  /\ Volume(t, freed) \in -30 .. 120
         /\ t = "output" => ConnectionVolume(freed) \in -30 .. 120
<1>1. Value(t, freed, "SetVol", 100) \in Int /\ Value(t, freed, "SetVol", 90) \in Int
  BY ValueTyped DEF Keys
<1>2. QED
  BY <1>1 DEF Volume, ConnectionVolume, InRange

\* ... and so is everything else the device is given.
LEMMA SettingsTyped ==
  ASSUME TypeOK, Reads, NEW t \in Threads, thread[t] = "use", NEW freed \in FreedMemory,
         NEW failed \in SUBSET {"vol", "gain"}
  PROVE  LET s == Given(Settings(t, freed), failed) IN
         /\ s \in SettingsRecord
         /\ s.samplerate \in ValidRates /\ s.vol \in -30 .. 120 \cup {NULL}
         /\ s.gain \in 0 .. 31 \cup {NULL} /\ s.chnCnt \leq 1
         /\ s.vol \in {Volume(t, freed), NULL}
         /\ s.buffer = BufferSize(t, freed)
<1> DEFINE rate   == Value(t, freed, "sample_rate", 48000)
           valid  == IF rate \in ValidRates THEN rate ELSE 48000
           chnCnt == Value(t, freed, "chnCnt", 1)
           gain   == Value(t, freed, "SetGain", 25)
           frmNum == Value(t, freed, "frmNum", IF t = "input" THEN 40 ELSE 20)
<1>1. /\ chnCnt \in Int /\ gain \in Int /\ frmNum \in Int
      /\ Value(t, freed, "usrFrmDepth", 40) \in Int
  BY ValueTyped DEF Keys
<1>2. valid \in ValidRates /\ compute_numPerFrm(valid) \in Nat
  <2>1. valid \in ValidRates
    BY DEF ValidRates
  <2>2. \A r \in ValidRates : compute_numPerFrm(r) \in Nat
    BY DEF ValidRates, compute_numPerFrm
  <2>3. QED
    BY <2>1, <2>2
<1>3. InRange(gain, 0, 31, 25) \in 0 .. 31
  BY <1>1 DEF InRange
<1>4. Volume(t, freed) \in -30 .. 120
  BY VolumeInRange
<1>5. BufferSize(t, freed) \in Int
  BY <1>1, DocumentTyped DEF BufferSize, TypeOK
<1>6. Settings(t, freed) =
        [samplerate |-> valid, numPerFrm |-> compute_numPerFrm(valid), frmNum |-> frmNum,
         buffer |-> BufferSize(t, freed), chnCnt |-> IF chnCnt > 1 THEN 1 ELSE chnCnt,
         gain |-> InRange(gain, 0, 31, 25), vol |-> Volume(t, freed)]
  BY DEF Settings
<1> HIDE DEF rate, valid, chnCnt, gain, frmNum
<1>7. /\ Settings(t, freed) \in SettingsRecord
      /\ Settings(t, freed).samplerate \in ValidRates
      /\ Settings(t, freed).vol = Volume(t, freed)
      /\ Settings(t, freed).gain \in 0 .. 31
      /\ Settings(t, freed).chnCnt \leq 1
      /\ Settings(t, freed).buffer = BufferSize(t, freed)
  BY <1>1, <1>2, <1>3, <1>4, <1>5, <1>6 DEF SettingsRecord
<1> DEFINE given == Given(Settings(t, freed), failed)
<1>8. /\ given \in SettingsRecord
      /\ given.samplerate = Settings(t, freed).samplerate
      /\ given.vol \in {Settings(t, freed).vol, NULL}
      /\ given.gain \in {Settings(t, freed).gain, NULL}
      /\ given.chnCnt = Settings(t, freed).chnCnt
      /\ given.buffer = Settings(t, freed).buffer
  <2> DEFINE set == Settings(t, freed)
  <2>1. set \in SettingsRecord
    BY <1>7
  <2>2. given = [set EXCEPT !.vol  = IF "vol" \in failed THEN NULL ELSE set.vol,
                            !.gain = IF "gain" \in failed THEN NULL ELSE set.gain]
    BY <2>1 DEF Given, SettingsRecord
  <2> HIDE DEF set, given
  <2>3. QED
    BY <2>1, <2>2 DEF SettingsRecord, set
<1>9. QED
  BY <1>4, <1>7, <1>8

\* Until the document is freed, both the play thread and the output server set
\* the volume it gives.
LEMMA VolumeIsTheDocuments ==
  ASSUME Reads, NEW t \in {"play", "output"}, thread[t] = "use", handler = NULL,
         NEW freed \in FreedMemory
  PROVE  /\ Volume(t, freed) = DocumentVolume
         /\ t = "output" => ConnectionVolume(freed) = DocumentVolume
<1>1. items[t]["SetVol"] = get_audio_attribute("AO", "SetVol")
  BY DEF Reads, Fetched, HalfOf, Keys, Threads
<1>2. QED
  BY <1>1 DEF Volume, ConnectionVolume, Value, DocumentVolume

\* Until then, an accepted document gives strcmp strings.
LEMMA StringsAreRead ==
  ASSUME TypeOK, Reads, Accepted, accepted, handler = NULL,
         NEW t \in {"input", "play"}, thread[t] = "use"
  PROVE  StringsRead(t) /\ ~Dangling(t)
<1>1. \A k \in {"bitwidth", "soundmode"} : Is("string", items[t][k])
  <2>1. items[t] = Fetched(t) /\ HalfOf(t) \in Halves
    BY DEF Reads, HalfOf, Halves, Threads
  <2>2. \A k \in {"bitwidth", "soundmode"} : Is("string", get_audio_attribute(HalfOf(t), k))
    BY <2>1, Validated DEF Accepted, TypeOK
  <2>3. QED
    BY <2>1, <2>2 DEF Fetched, Keys
<1>2. QED
  BY <1>1 DEF StringsRead, Dangling

-------------------------------------------------------------------------------
(***************************************************************************)
(* The steps.                                                              *)
(***************************************************************************)
LEMMA ConfigInvInit == Init => ConfigInv
<1> SUFFICES ASSUME Init PROVE ConfigInv
  OBVIOUS
<1>1. TypeOK
  <2>1. argv \in Seq(OptionWords)
    BY ConfigAssumption DEF Init
  <2>2. names \in [Servers -> DOMAIN Truncated]
    BY ConfigAssumption DEF Init, DefaultName, Servers
  <2>3. faults \in 0 .. MaxFaults
    BY ConfigAssumption DEF Init
  <2>4. options \in [config_file_path: {"absolute", "relative"}, disable_ai: BOOLEAN,
                    disable_ao: BOOLEAN, daemonize: BOOLEAN]
    BY DEF Init
  <2>5. /\ bound \in [Servers -> DOMAIN Truncated \cup {NULL}]
        /\ \A h \in Halves : device[h] = NULL \/ device[h] \in SettingsRecord
        /\ \A t \in Threads : items[t] = NULL \/ DOMAIN items[t] = Keys
        /\ thread \in [Threads -> {"off", "fetch", "use", "paths", "bind", "listen",
                                   "receive", "play", "over"}]
    BY DEF Init
  <2>6. QED
    BY <2>1, <2>2, <2>3, <2>4, <2>5 DEF Init, TypeOK, MainPCs
<1>2. Stages /\ Off /\ Reads /\ Domains
  BY DEF Init, Stages, Off, Reads, Domains, Threads, Servers, Halves, Before
<1>3. SettingsInRange /\ OutputSettings
  BY DEF Init, SettingsInRange, OutputSettings, Halves
<1>4. Accepted /\ AcceptedCrashesOnConnection /\ NamesRead /\ NamesServe
  BY DEF Init, Accepted, AcceptedCrashesOnConnection, NamesRead, NamesServe
<1>5. QED
  BY <1>1, <1>2, <1>3, <1>4 DEF ConfigInv

\* NamesServe, with the name the document gives written Path.
ServesAs(t) ==
    /\ bound[t] # NULL => bound[t] = Path(t) \/ (bound[t] = DefaultName[t] /\ faults > 0)
    /\ thread[t] = "over" /\ bound[t] = NULL => faults > 0

LEMMA NamesServeIs ==
  /\ NamesServe <=> (accepted /\ handler = NULL /\ Distinct =>
                        \A t \in Servers : ServesAs(t))
  /\ NamesServe' <=> (accepted' /\ handler' = NULL /\ Distinct' =>
                        \A t \in Servers : ServesAs(t)')
  BY DEF NamesServe, ServesAs, Path

\* A step that binds nothing and ends no server that has not bound its name.
LEMMA ServeKeeps ==
  ASSUME NamesServe, UNCHANGED <<config_root, accepted, handler, bound>>, faults \in Nat,
         faults' = faults \/ faults' = faults + 1,
         \A t \in Servers : thread'[t] = "over" /\ bound[t] = NULL => thread[t] = "over"
  PROVE  NamesServe'
<1>1. /\ Distinct' = Distinct
      /\ \A t \in Servers : Path(t)' = Path(t)
  BY DocumentSame
<1>2. \A t \in Servers : ServesAs(t) => ServesAs(t)'
  BY <1>1 DEF ServesAs
<1>3. QED
  BY <1>1, <1>2, NamesServeIs

\* The calls that fail are counted, and the count only grows.
LEMMA Counted ==
  ASSUME TypeOK, faults' = faults \/ Fail \/ \E failed : MayFail(failed)
  PROVE  /\ faults' \in 0 .. MaxFaults
         /\ faults \in Nat /\ (faults' = faults \/ faults' = faults + 1)
  BY ConfigAssumption DEF TypeOK, Fail, MayFail

\* A step that copies no name and brings no server to its bind.
LEMMA NamesReadKeeps ==
  ASSUME NamesRead, UNCHANGED <<config_root, accepted, handler, names>>, faults \in Nat,
         faults' = faults \/ faults' = faults + 1,
         \A t \in Servers : thread'[t] = "bind" => thread[t] = "bind"
  PROVE  NamesRead'
  BY DocumentSame DEF NamesRead

\* The steps of main before the threads.
LEMMA StartKeeps ==
  ASSUME ConfigInv,
         \/ Option \/ OptionRefused \/ Daemonize \/ StartRefused
         \/ Load \/ LoadFails \/ Validate \/ Decide,
         proc = "running"
  PROVE  ConfigInv'
<1> USE DEF ConfigInv
<1>1. /\ UNCHANGED <<threadVars, handler>>
      /\ \A t \in Threads : thread[t] = "off"
      /\ \A t \in Servers : bound[t] = NULL
      /\ device.AI = NULL /\ device.AO = NULL
      /\ pc \in Before /\ names = DefaultName
      /\ pc' \in {"getopt", "load", "validate", "enable", "control", "over"}
      /\ proc' \in {"running", "exited"}
  <2>1. /\ UNCHANGED <<threadVars, handler>> /\ pc \in Before
        /\ pc' \in {"getopt", "load", "validate", "enable", "control", "over"}
        /\ proc' \in {"running", "exited"}
    BY DEF Option, OptionRefused, Daemonize, StartRefused, Load, LoadFails, Validate,
       Decide,
           MainGoes, Ends, Before
  <2>2. QED
    BY <2>1 DEF Stages, Threads, Servers, NotYet, Before
<1>2. faults' \in 0 .. MaxFaults
  BY Counted
     DEF Option, OptionRefused, Daemonize, StartRefused, Load, LoadFails, Validate, Decide
<1>3. /\ argv' \in Seq(OptionWords)
      /\ options' \in [config_file_path: {"absolute", "relative"}, disable_ai: BOOLEAN,
                        disable_ao: BOOLEAN, daemonize: BOOLEAN]
      /\ cwd' \in {"start", "/"}
  <2>1. CASE Option
    <3>1. Head(argv) \in OptionWords \ {"-d other", "-h", "-?"} /\ argv' \in Seq(OptionWords)
      <4>1. argv \in Seq(OptionWords) /\ argv # <<>>
        BY <2>1 DEF Option, TypeOK
      <4>2. Head(argv) \in OptionWords /\ Tail(argv) \in Seq(OptionWords)
        BY <4>1, HeadTailProperties
      <4>3. QED
        BY <2>1, <4>2 DEF Option
    <3>2. QED
      BY <2>1, <3>1 DEF Option, TypeOK, Parsed, OptionWords
  <2>2. CASE \/ OptionRefused \/ Daemonize \/ StartRefused \/ Load \/ LoadFails \/ Validate
             \/ Decide
    BY <2>2 DEF TypeOK, OptionRefused, Daemonize, StartRefused, Load, LoadFails, Validate,
                Decide, startVars
  <2>3. QED
    BY <2>1, <2>2
<1>4. config_root' \in Documents \cup {NULL} /\ accepted' \in BOOLEAN
  BY DEF TypeOK, Option, OptionRefused, Daemonize, StartRefused, Load, LoadFails, Validate,
         Decide, loadVars, validate_json, ValidAO, ValidAIStart, Have, Is, ValidAgc
<1>5. TypeOK'
  BY <1>1, <1>2, <1>3, <1>4 DEF TypeOK, threadVars, MainPCs, Threads
<1>6. Accepted'
  <2>1. CASE Validate
    <3>1. validate_json(get_audio_config)' = validate_json(get_audio_config)
      BY <2>1, DocumentSame DEF Validate
    <3>2. QED
      BY <2>1, <3>1 DEF Validate, Accepted
  <2>2. CASE Load
    BY <2>2 DEF Load, Stages, MainGoes, Accepted
  <2>3. CASE \/ Option \/ OptionRefused \/ Daemonize \/ StartRefused \/ LoadFails
    BY <2>3 DEF Option, OptionRefused, Daemonize, StartRefused, LoadFails, Stages, MainGoes,
                loadVars, Accepted
  <2>4. CASE Decide
    BY <2>4, DocumentSame DEF Decide, Accepted, loadVars
  <2>5. QED
    BY <2>1, <2>2, <2>3, <2>4
<1>7. Stages'
  <2>1. pc' \in {"getopt", "load", "validate"} => ~accepted'
    BY DEF Stages, Option, OptionRefused, Daemonize, StartRefused, Load, LoadFails,
       Validate,
           Decide, MainGoes, loadVars
  <2>2. QED
    BY <1>1, <2>1 DEF Stages, threadVars, Threads, Servers
<1>8. Off' /\ Reads' /\ SettingsInRange' /\ OutputSettings' /\ NamesRead' /\ Domains'
  BY <1>1 DEF Off, Reads, Domains, SettingsInRange, OutputSettings, NamesRead,
     threadVars, Threads, Servers,
              Halves
<1>9. AcceptedCrashesOnConnection' /\ NamesServe'
  BY <1>1 DEF AcceptedCrashesOnConnection, NamesServe, threadVars, Threads, Servers
<1>10. QED
  BY <1>5, <1>6, <1>7, <1>8, <1>9

\* A step that leaves the document, the threads and the devices alone.
LEMMA CreateKeeps ==
  ASSUME ConfigInv, NEW t \in Threads, Create(t) \/ DoNotCreate(t) \/ CreateFails(t),
         proc = "running"
  PROVE  ConfigInv'
<1> USE DEF ConfigInv
<1>1. /\ UNCHANGED <<startVars, loadVars, names, items, bound, device, handler>>
      /\ pc = t /\ pc' \in {After[t], "over"} /\ proc' \in {"running", "exited"}
  BY DEF Create, DoNotCreate, CreateFails, MainGoes, threadVars, Ends, After, Threads
<1>2. /\ \A u \in Threads \ {t} : thread'[u] = thread[u]
      /\ thread[t] = "off"
      /\ \/ thread'[t] = "off"
         \/ /\ thread'[t] = FirstStep[t] /\ FirstStep[t] \in {"paths", "fetch"}
            /\ ~Disabled(t)
      /\ thread' \in [Threads -> {"off", "fetch", "use", "paths", "bind", "listen",
                                  "receive", "play", "over"}]
  <2>1. thread[t] = "off"
    BY <1>1 DEF Stages, NotYet, Before, Threads
  <2>2. FirstStep[t] \in {"paths", "fetch"}
    BY DEF FirstStep, Threads
  <2>3. QED
    BY <2>1, <2>2 DEF Create, DoNotCreate, CreateFails, threadVars, TypeOK
<1>3. /\ faults' \in 0 .. MaxFaults
      /\ faults \in Nat /\ (faults' = faults \/ faults' = faults + 1)
  BY Counted DEF Create, DoNotCreate, CreateFails
<1>4. TypeOK'
  BY <1>1, <1>2, <1>3 DEF TypeOK, startVars, loadVars, MainPCs, After, Threads
<1>5. Stages'
  <2>1. \A u \in Threads : pc' \in NotYet[u] => thread'[u] = "off"
    BY <1>1, <1>2 DEF Stages, NotYet, Before, After, Threads
  <2>2. \A u \in Servers : thread'[u] \in {"off", "paths", "bind"} => bound'[u] = NULL
    BY <1>1, <1>2 DEF Stages, Servers, Threads
  <2>3. /\ thread'.input \in {"fetch", "use"} => bound'.input = NULL
        /\ thread'.output \in {"fetch", "use", "receive", "listen"} => bound'.output # NULL
        /\ thread'.play \notin {"paths", "bind", "listen", "receive"}
        /\ thread'.input = "off" => device'.AI = NULL
        /\ thread'.play = "off" => device'.AO = NULL
    BY <1>1, <1>2 DEF Stages, Servers, Threads, FirstStep
  <2>4. pc' \in {"getopt", "load", "validate"} => ~accepted'
    BY <1>1 DEF After, Threads
  <2>5. pc' \notin Before
    BY <1>1 DEF After, Threads, Before
  <2>6. QED
    BY <2>1, <2>2, <2>3, <2>4, <2>5 DEF Stages
<1>6. Off'
  BY <1>1, <1>2 DEF Off, Disabled, Threads, startVars
<1>7. Reads' /\ Accepted' /\ OutputSettings' /\ SettingsInRange' /\ Domains'
  BY <1>1, <1>2, DocumentSame
     DEF Reads, Domains, Accepted, OutputSettings, SettingsInRange, loadVars, Threads,
     Servers
<1>71. NamesRead'
  BY <1>1, <1>2, <1>3, NamesReadKeeps DEF loadVars, Servers, Threads
<1>8. AcceptedCrashesOnConnection' /\ NamesServe'
  <2>1. AcceptedCrashesOnConnection'
    BY <1>1 DEF AcceptedCrashesOnConnection
  <2>2. \A u \in Servers : thread'[u] = "over" => thread[u] = "over"
    BY <1>2 DEF Servers, Threads
  <2>3. QED
    BY <1>1, <1>3, <2>1, <2>2, ServeKeeps DEF loadVars
<1>9. QED
  BY <1>4, <1>5, <1>6, <1>7, <1>71, <1>8

\* A step of thread t that leaves main and the document alone, and moves t from
\* one place to another that is not "off".
LEMMA ThreadKeeps ==
  ASSUME ConfigInv, NEW t \in Threads, NEW from, NEW to, Goes(t, from, to),
         from # "off",
         to \in {"fetch", "use", "paths", "bind", "listen", "receive", "play", "over"},
         UNCHANGED <<startVars, pc, loadVars, handler>>
  PROVE  /\ thread' \in [Threads -> {"off", "fetch", "use", "paths", "bind", "listen",
                                     "receive", "play", "over"}]
         /\ thread[t] = from /\ thread'[t] = to
         /\ \A u \in Threads \ {t} : thread'[u] = thread[u]
         /\ \A u \in Threads : pc' \in NotYet[u] => thread'[u] = "off"
         /\ pc' \in {"getopt", "load", "validate"} => ~accepted'
         /\ \A u \in Threads : thread'[u] = "off" <=> thread[u] = "off"
         /\ Off' /\ Accepted'
<1> USE DEF ConfigInv
<1>1. /\ thread' \in [Threads -> {"off", "fetch", "use", "paths", "bind", "listen",
                                  "receive", "play", "over"}]
      /\ thread[t] = from /\ thread'[t] = to
      /\ \A u \in Threads \ {t} : thread'[u] = thread[u]
  BY DEF Goes, TypeOK
<1>2. \A u \in Threads : thread'[u] = "off" <=> thread[u] = "off"
  BY <1>1
<1>3. /\ \A u \in Threads : pc' \in NotYet[u] => thread'[u] = "off"
      /\ pc' \in {"getopt", "load", "validate"} => ~accepted'
  BY <1>2 DEF Stages, loadVars
<1>4. Off'
  BY <1>2 DEF Off, startVars, Threads
<1>5. Accepted'
  BY DocumentSame DEF Accepted, loadVars
<1>6. QED
  BY <1>1, <1>2, <1>3, <1>4, <1>5

\* Fetch, and the steps that lead back to it.
LEMMA FetchKeeps ==
  ASSUME ConfigInv, NEW t \in Threads, Fetch(t), proc = "running"
  PROVE  ConfigInv'
<1> USE DEF ConfigInv
<1>1. /\ UNCHANGED <<startVars, pc, loadVars, names, bound, device, handler, proc, faults>>
      /\ Goes(t, "fetch", "use")
      /\ items' = [items EXCEPT ![t] = Fetched(t)]
  BY DEF Fetch, Fetched
<1>2. /\ items'[t] = Fetched(t)
      /\ \A u \in Threads \ {t} : items'[u] = items[u]
      /\ Domains'
  BY <1>1 DEF Domains
<1>3. \A k \in Keys : Fetched(t)[k] # NULL => Fetched(t)[k].int \in Int
  BY DocumentTyped DEF Fetched, TypeOK, HalfOf, Halves
<1>4. TypeOK'
  BY <1>1, <1>2, ThreadKeeps DEF TypeOK, startVars, loadVars, Fetched
<1>5. Stages' /\ Off' /\ Accepted'
  BY <1>1, ThreadKeeps DEF Stages, Threads, Servers
<1>6. Reads'
  BY <1>1, <1>2, <1>3, ThreadKeeps, DocumentSame DEF Reads, loadVars
<1>7. SettingsInRange' /\ OutputSettings' /\ AcceptedCrashesOnConnection'
  BY <1>1, DocumentSame DEF SettingsInRange, OutputSettings,
     AcceptedCrashesOnConnection, loadVars
<1>8. NamesRead'
  BY <1>1, ThreadKeeps, Counted, NamesReadKeeps DEF loadVars, Servers, Threads
<1>9. NamesServe'
  BY <1>1, ThreadKeeps, Counted, ServeKeeps DEF loadVars, Servers, Threads
<1>10. QED
  BY <1>2, <1>4, <1>5, <1>6, <1>7, <1>8, <1>9

\* The device gets its settings.
LEMMA InitializeKeeps ==
  ASSUME ConfigInv, NEW t \in Threads, Initialize(t), proc = "running"
  PROVE  ConfigInv'
<1> USE DEF ConfigInv
<1>1. /\ UNCHANGED <<startVars, pc, loadVars, names, bound, handler, proc>>
      /\ t \in {"input", "play"}
      /\ Goes(t, "use", IF t = "input" THEN "paths" ELSE "play")
      /\ items' = [items EXCEPT ![t] = NULL]
  BY DEF Initialize
<1>2. PICK freed \in FreedMemory, failed \in SUBSET {"vol", "gain"} :
          /\ device' = [device EXCEPT ![HalfOf(t)] = Given(Settings(t, freed), failed)]
          /\ MayFail(failed)
  BY DEF Initialize
<1> DEFINE given == Given(Settings(t, freed), failed)
<1>3. thread[t] = "use" /\ HalfOf(t) \in Halves /\ HalfOf(t) = IF t = "input" THEN "AI" ELSE "AO"
  BY <1>1 DEF Goes, HalfOf, Halves
<1>4. /\ device'[HalfOf(t)] = given
      /\ \A h \in Halves \ {HalfOf(t)} : device'[h] = device[h]
      /\ items'[t] = NULL /\ \A u \in Threads \ {t} : items'[u] = items[u]
      /\ Domains'
  BY <1>1, <1>2, <1>3 DEF Domains
<1>5. /\ given \in SettingsRecord
      /\ given.samplerate \in ValidRates /\ given.vol \in -30 .. 120 \cup {NULL}
      /\ given.gain \in 0 .. 31 \cup {NULL} /\ given.chnCnt \leq 1
      /\ given.vol \in {Volume(t, freed), NULL}
      /\ given.buffer = BufferSize(t, freed)
  BY <1>3, SettingsTyped
<1> HIDE DEF given
<1>51. /\ faults' \in 0 .. MaxFaults
       /\ faults \in Nat /\ (faults' = faults \/ faults' = faults + 1)
  BY <1>2, Counted
<1>6. TypeOK'
  BY <1>1, <1>4, <1>5, <1>51, ThreadKeeps DEF TypeOK, startVars, loadVars
<1>7. Stages' /\ Off' /\ Accepted'
  BY <1>1, <1>3, <1>4, ThreadKeeps DEF Stages, Threads, Servers, Halves
<1>8. Reads'
  BY <1>1, <1>4, ThreadKeeps, DocumentSame DEF Reads, loadVars
<1>9. SettingsInRange'
  BY <1>4, <1>5 DEF SettingsInRange
<1>10. OutputSettings'
  <2>1. CASE t = "play" /\ handler = NULL
    <3>1. given.vol \in {DocumentVolume, NULL} /\ given.buffer = config_get_ao_frame_size
      BY <2>1, <1>3, <1>5, VolumeIsTheDocuments DEF BufferSize
    <3>2. QED
      BY <2>1, <3>1, <1>1, <1>3, <1>4, DocumentSame DEF OutputSettings, loadVars
  <2>2. CASE t = "input"
    BY <2>2, <1>1, <1>3, <1>4, DocumentSame DEF OutputSettings, loadVars, Halves
  <2>3. QED
    BY <2>1, <2>2, <1>1 DEF OutputSettings
<1>11. AcceptedCrashesOnConnection'
  BY <1>1 DEF AcceptedCrashesOnConnection
<1>12. NamesRead'
  BY <1>1, <1>51, ThreadKeeps, NamesReadKeeps DEF loadVars, Servers, Threads
<1>13. NamesServe'
  BY <1>1, <1>51, ThreadKeeps, ServeKeeps DEF loadVars, Servers, Threads
<1>14. QED
  BY <1>4, <1>6, <1>7, <1>8, <1>9, <1>10, <1>11, <1>12, <1>13

\* The thread takes the process with it.
LEMMA UseEndsKeeps ==
  ASSUME ConfigInv, NEW t \in Threads, InitializeFails(t) \/ UseCrashes(t), proc = "running"
  PROVE  ConfigInv'
<1> USE DEF ConfigInv
<1>1. /\ UNCHANGED <<startVars, pc, loadVars, names, items, bound, device, handler>>
      /\ Goes(t, "use", "over")
      /\ proc' \in {"exited", "crashed"}
      /\ faults' = faults \/ Fail
  BY DEF InitializeFails, UseCrashes, Ends
<1>2. /\ faults' \in 0 .. MaxFaults
      /\ faults \in Nat /\ (faults' = faults \/ faults' = faults + 1)
  BY <1>1, Counted
<1>3. TypeOK'
  BY <1>1, <1>2, ThreadKeeps DEF TypeOK, startVars, loadVars
<1>4. Stages' /\ Off' /\ Accepted' /\ Domains'
  BY <1>1, ThreadKeeps DEF Stages, Threads, Servers, Domains
<1>5. Reads' /\ SettingsInRange' /\ OutputSettings'
  BY <1>1, ThreadKeeps, DocumentSame DEF Reads, SettingsInRange, OutputSettings, loadVars
<1>6. NamesRead'
  BY <1>1, <1>2, ThreadKeeps, NamesReadKeeps DEF loadVars, Servers, Threads
<1>7. accepted /\ handler = NULL => ~UseCrashes(t)
  <2>1. CASE t \in {"input", "play"}
    BY <2>1, <1>1, StringsAreRead DEF UseCrashes, Goes
  <2>2. CASE t \notin {"input", "play"}
    BY <2>2 DEF UseCrashes, Dangling
  <2>3. QED
    BY <2>1, <2>2
<1>8. AcceptedCrashesOnConnection'
  BY <1>1, <1>7 DEF AcceptedCrashesOnConnection, loadVars, InitializeFails, Ends
<1>9. NamesServe'
  <2>1. CASE accepted /\ handler = NULL
    <3>1. InitializeFails(t)
      BY <2>1, <1>7
    <3>2. CASE t = "play"
      BY <3>2, <1>1, <1>2, ThreadKeeps, ServeKeeps DEF loadVars, Servers, Threads
    <3>3. CASE t = "input"
      <4>1. faults' > 0
        BY <3>1, <3>3, ConfigAssumption DEF InitializeFails, Fail, TypeOK
      <4>2. /\ Distinct' = Distinct
            /\ \A s \in Servers : Path(s)' = Path(s)
        BY <1>1, DocumentSame DEF loadVars
      <4>3. \A s \in Servers : ServesAs(s) => ServesAs(s)'
        BY <4>1, <4>2, <1>1 DEF ServesAs
      <4>4. QED
        BY <4>2, <4>3, <1>1, NamesServeIs DEF loadVars
    <3>4. QED
      BY <3>1, <3>2, <3>3 DEF InitializeFails
  <2>2. CASE ~(accepted /\ handler = NULL)
    BY <2>2, <1>1, NamesServeIs DEF loadVars
  <2>3. QED
    BY <2>1, <2>2
<1>10. QED
  BY <1>3, <1>4, <1>5, <1>6, <1>8, <1>9

\* The output server sets the volume again.
LEMMA SetVolumeKeeps ==
  ASSUME ConfigInv, SetVolume, proc = "running"
  PROVE  ConfigInv'
<1> USE DEF ConfigInv
<1>1. /\ UNCHANGED <<startVars, pc, loadVars, names, bound, handler, proc>>
      /\ Goes("output", "use", "receive")
      /\ items' = [items EXCEPT !["output"] = NULL]
      /\ "output" \in Threads /\ thread["output"] = "use"
  BY DEF SetVolume, Goes, Threads
<1>2. /\ faults' \in 0 .. MaxFaults
      /\ faults \in Nat /\ (faults' = faults \/ faults' = faults + 1)
  BY Counted DEF SetVolume
<1>3. /\ items'["output"] = NULL /\ \A u \in Threads \ {"output"} : items'[u] = items[u]
      /\ Domains'
  BY <1>1 DEF Domains, SetVolume
<1>4. TypeOK'
  <2>1. \A h \in Halves : device'[h] = NULL \/ device'[h] \in SettingsRecord
    <3>1. CASE device' = device
      BY <3>1 DEF TypeOK
    <3>2. CASE device' # device
      <4>1. PICK freed \in FreedMemory :
                device.AO # NULL
                /\ device' = [device EXCEPT !.AO.vol = ConnectionVolume(freed)]
        BY <3>2 DEF SetVolume
      <4>2. ConnectionVolume(freed) \in Int
        BY <1>1, VolumeInRange
      <4>3. QED
        BY <4>1, <4>2 DEF TypeOK, SettingsRecord, Halves, Domains
    <3>3. QED
      BY <3>1, <3>2
  <2>2. QED
    BY <1>1, <1>2, <1>3, <2>1, ThreadKeeps DEF TypeOK, startVars, loadVars
<1>5. \/ device' = device
      \/ /\ device.AO # NULL /\ device'.AO # NULL => device'.AO.buffer = device.AO.buffer
         /\ device'.AO.samplerate = device.AO.samplerate
         /\ device'.AO.gain = device.AO.gain /\ device'.AO.chnCnt = device.AO.chnCnt
         /\ device'.AO.vol \in -30 .. 120
         /\ handler = NULL => device'.AO.vol = DocumentVolume
         /\ device'.AI = device.AI /\ device.AO # NULL
  <2>1. CASE device' # device
    <3>1. PICK freed \in FreedMemory :
              device.AO # NULL
              /\ device' = [device EXCEPT !.AO.vol = ConnectionVolume(freed)]
      BY <2>1 DEF SetVolume
    <3>2. device.AO \in SettingsRecord
      BY <3>1 DEF TypeOK, Halves
    <3>3. ConnectionVolume(freed) \in -30 .. 120
      BY <1>1, VolumeInRange
    <3>4. handler = NULL => ConnectionVolume(freed) = DocumentVolume
      BY <1>1, VolumeIsTheDocuments
    <3>5. device'.AO = [device.AO EXCEPT !.vol = ConnectionVolume(freed)]
          /\ device'.AI = device.AI
      BY <3>1 DEF Domains, Halves
    <3>6. QED
      BY <3>1, <3>2, <3>3, <3>4, <3>5 DEF SettingsRecord
  <2>2. QED
    BY <2>1
<1>6. Stages' /\ Off' /\ Accepted'
  BY <1>1, <1>5, ThreadKeeps DEF Stages, Threads, Servers
<1>7. Reads'
  BY <1>1, <1>3, ThreadKeeps, DocumentSame DEF Reads, loadVars
<1>8. SettingsInRange'
  BY <1>5 DEF SettingsInRange, Halves
<1>9. OutputSettings'
  BY <1>1, <1>5, DocumentSame DEF OutputSettings, loadVars
<1>10. AcceptedCrashesOnConnection'
  BY <1>1 DEF AcceptedCrashesOnConnection
<1>11. NamesRead' /\ NamesServe'
  BY <1>1, <1>2, ThreadKeeps, NamesReadKeeps, ServeKeeps DEF loadVars, Servers, Threads
<1>12. QED
  BY <1>3, <1>4, <1>6, <1>7, <1>8, <1>9, <1>10, <1>11

\* The buffer is used, and the stack.
LEMMA ReceiveKeeps ==
  ASSUME ConfigInv, Receive \/ ReceiveCrashes, proc = "running"
  PROVE  ConfigInv'
<1> USE DEF ConfigInv
<1>1. /\ UNCHANGED <<startVars, pc, loadVars, names, items, bound, device, handler, faults>>
      /\ Goes("output", "receive", "listen") \/ Goes("output", "receive", "over")
      /\ "output" \in Threads /\ thread["output"] = "receive"
      /\ proc' \in {"running", "crashed"}
  BY DEF Receive, ReceiveCrashes, Goes, Threads, Ends
<1>2. TypeOK'
  BY <1>1, ThreadKeeps DEF TypeOK, startVars, loadVars
<1>3. Stages' /\ Off' /\ Accepted' /\ Domains'
  BY <1>1, ThreadKeeps DEF Stages, Threads, Servers, Domains
<1>4. Reads' /\ SettingsInRange' /\ OutputSettings'
  BY <1>1, ThreadKeeps, DocumentSame DEF Reads, SettingsInRange, OutputSettings, loadVars
<1>5. bound.output # NULL
  BY <1>1 DEF Stages
<1>6. AcceptedCrashesOnConnection'
  <2>1. CASE Receive
    BY <2>1 DEF Receive, AcceptedCrashesOnConnection
  <2>2. CASE ReceiveCrashes
    <3>1. thread'.output = "over" /\ bound'.output # NULL
      BY <2>2, <1>1, <1>5, ThreadKeeps DEF ReceiveCrashes
    <3>2. handler = NULL => device.AO = NULL \/ config_get_ao_frame_size > StackSize
      BY <2>2 DEF ReceiveCrashes, OutputSettings
    <3>3. QED
      BY <1>1, <3>1, <3>2, DocumentSame DEF AcceptedCrashesOnConnection, loadVars
  <2>3. QED
    BY <2>1, <2>2
<1>7. faults \in Nat /\ faults' = faults
  BY <1>1, ConfigAssumption DEF TypeOK
<1>8. NamesRead' /\ NamesServe'
  BY <1>1, <1>5, <1>7, ThreadKeeps, NamesReadKeeps, ServeKeeps DEF loadVars, Servers,
     Threads
<1>9. QED
  BY <1>2, <1>3, <1>4, <1>6, <1>8

\* The ways back to Fetch.
LEMMA EnvironmentKeeps ==
  ASSUME ConfigInv, Reinitialize \/ Connection, proc = "running"
  PROVE  ConfigInv'
<1> USE DEF ConfigInv
<1>1. PICK t \in {"play", "output"} :
          /\ \/ t = "play" /\ Goes(t, "play", "fetch")
             \/ t = "output" /\ Goes(t, "listen", "fetch")
          /\ UNCHANGED <<startVars, pc, loadVars, names, items, bound, device, handler, proc>>
          /\ faults' = faults \/ Fail
  BY DEF Reinitialize, Connection
<1>2. /\ faults' \in 0 .. MaxFaults
      /\ faults \in Nat /\ (faults' = faults \/ faults' = faults + 1)
  BY <1>1, Counted
<1>3. t \in Threads
  BY DEF Threads
<1>4. TypeOK'
  BY <1>1, <1>2, <1>3, ThreadKeeps DEF TypeOK, startVars, loadVars
<1>5. Stages' /\ Off' /\ Accepted' /\ Domains'
  BY <1>1, <1>3, ThreadKeeps DEF Stages, Threads, Servers, Domains
<1>6. Reads' /\ SettingsInRange' /\ OutputSettings' /\ AcceptedCrashesOnConnection'
  BY <1>1, <1>3, ThreadKeeps, DocumentSame
     DEF Reads, SettingsInRange, OutputSettings, AcceptedCrashesOnConnection, loadVars
<1>7. NamesRead' /\ NamesServe'
  BY <1>1, <1>2, <1>3, ThreadKeeps, NamesReadKeeps, ServeKeeps DEF loadVars, Servers,
     Threads
<1>8. QED
  BY <1>4, <1>5, <1>6, <1>7

\* The names are copied.
LEMMA NamesKeep ==
  ASSUME ConfigInv, NEW t \in Servers, UpdateSocketPaths(t), proc = "running"
  PROVE  ConfigInv'
<1> USE DEF ConfigInv
<1>1. /\ UNCHANGED <<startVars, pc, loadVars, items, bound, device, handler, proc>>
      /\ Goes(t, "paths", "bind") /\ t \in Threads /\ t # "play" /\ thread[t] = "paths"
  BY DEF UpdateSocketPaths, Servers, Threads, Goes
<1>2. PICK failed \in SUBSET Servers :
          /\ names' = [s \in Servers |-> IF s \in failed \/ config_get_socket_path(s) = NULL
                                         THEN names[s] ELSE Path(s)]
          /\ MayFail(failed)
  BY DEF UpdateSocketPaths, NameRead, Path
<1>3. /\ faults' \in 0 .. MaxFaults
      /\ faults \in Nat /\ (faults' = faults \/ faults' = faults + 1)
      /\ faults' = 0 => failed = {}
  BY <1>2, Counted DEF MayFail, Fail
<1>4. names' \in [Servers -> DOMAIN Truncated]
  BY <1>2, DocumentTyped, ConfigAssumption DEF TypeOK, Path
<1>5. TypeOK'
  BY <1>1, <1>3, <1>4, ThreadKeeps DEF TypeOK, startVars, loadVars
<1>6. pc \notin Before
  BY <1>1 DEF Stages, NotYet, Servers, Threads
<1>7. Stages' /\ Off' /\ Accepted' /\ Domains'
  BY <1>1, <1>6, ThreadKeeps DEF Stages, Threads, Servers, Domains
<1>8. Reads' /\ SettingsInRange' /\ OutputSettings' /\ AcceptedCrashesOnConnection'
  BY <1>1, ThreadKeeps, DocumentSame
     DEF Reads, SettingsInRange, OutputSettings, AcceptedCrashesOnConnection, loadVars
<1>9. NamesRead'
  <2>1. CASE accepted /\ handler = NULL
    <3>1. \A s \in Servers : names'[s] \in {names[s], Path(s)}
      BY <1>2
    <3>2. faults' = 0 => \A s \in Servers : names'[s] = Path(s)
      BY <2>1, <1>2, <1>3, Validated DEF Accepted, TypeOK
    <3>3. \A s \in Servers : names[s] \in {Path(s), DefaultName[s]} /\ Path(s)' = Path(s)
      BY <2>1, <1>1, DocumentSame DEF NamesRead, loadVars
    <3>4. QED
      BY <3>1, <3>2, <3>3 DEF NamesRead
  <2>2. CASE ~(accepted /\ handler = NULL)
    BY <2>2, <1>1 DEF NamesRead, loadVars
  <2>3. QED
    BY <2>1, <2>2
<1>10. NamesServe'
  BY <1>1, <1>3, ThreadKeeps, ServeKeeps DEF loadVars, Servers, Threads
<1>11. QED
  BY <1>5, <1>7, <1>8, <1>9, <1>10

\* A name is bound, or is not to be had.
LEMMA BindKeeps ==
  ASSUME ConfigInv, NEW t \in Servers, Bind(t) \/ BindFails(t), proc = "running"
  PROVE  ConfigInv'
<1> USE DEF ConfigInv
<1>1. /\ UNCHANGED <<startVars, pc, loadVars, names, items, device, handler, proc>>
      /\ Goes(t, "bind", "listen") \/ Goes(t, "bind", "over")
      /\ t \in Threads /\ t # "play" /\ thread[t] = "bind"
      /\ faults' = faults \/ Fail
      /\ bound' = bound \/ bound' = [bound EXCEPT ![t] = names[t]]
  BY DEF Bind, BindFails, Servers, Threads, Goes
<1>2. /\ faults' \in 0 .. MaxFaults
      /\ faults \in Nat /\ (faults' = faults \/ faults' = faults + 1)
  BY <1>1, Counted
<1>3. /\ bound' \in [Servers -> DOMAIN Truncated \cup {NULL}]
      /\ \A s \in Servers \ {t} : bound'[s] = bound[s]
      /\ names[t] # NULL
  BY <1>1, ConfigAssumption DEF TypeOK
<1>4. TypeOK'
  BY <1>1, <1>2, <1>3, ThreadKeeps DEF TypeOK, startVars, loadVars
<1>5. Stages'
  <2>1. thread'.output \in {"fetch", "use", "receive", "listen"} => bound'.output # NULL
    <3>1. CASE t = "output"
      <4>1. CASE Bind(t)
        BY <4>1, <3>1, <1>3 DEF Bind, TypeOK
      <4>2. CASE BindFails(t)
        BY <4>2, <3>1, ThreadKeeps DEF BindFails, Servers, Threads
      <4>3. QED
        BY <4>1, <4>2
    <3>2. CASE t # "output"
      BY <3>2, <1>1, <1>3, ThreadKeeps DEF Stages, Servers, Threads
    <3>3. QED
      BY <3>1, <3>2
  <2>2. QED
    BY <1>1, <1>3, <2>1, ThreadKeeps DEF Stages, Threads, Servers
<1>6. Off' /\ Accepted' /\ Domains'
  BY <1>1, ThreadKeeps DEF Domains
<1>7. Reads' /\ SettingsInRange' /\ OutputSettings' /\ AcceptedCrashesOnConnection'
  BY <1>1, ThreadKeeps, DocumentSame
     DEF Reads, SettingsInRange, OutputSettings, AcceptedCrashesOnConnection, loadVars
<1>8. NamesRead'
  BY <1>1, <1>2, ThreadKeeps, NamesReadKeeps DEF loadVars, Servers, Threads
<1>9. NamesServe'
  <2>1. CASE accepted /\ handler = NULL /\ Distinct
    <3>1. /\ names[t] = Path(t) \/ (names[t] = DefaultName[t] /\ faults > 0)
          /\ faults = 0 => names[t] = Path(t)
      BY <1>1, <1>2, <2>1 DEF NamesRead
    <3>2. \A s \in Servers : s # t => Path(s) # Path(t)
      BY <2>1 DEF Distinct, Path
    <3>3. bound[t] = NULL
      BY <1>1 DEF Stages
    <3>4. \A s \in Servers : ServesAs(s)
      BY <2>1, NamesServeIs
    <3>5. faults = 0 => ~\E s \in Servers : bound[s] = names[t]
      BY <3>1, <3>2, <3>3, <3>4, <1>3 DEF ServesAs
    <3>6. BindFails(t) => faults' > 0
      BY <3>5, <1>2 DEF BindFails, Fail
    <3>7. \A s \in Servers : Path(s)' = Path(s)
      BY <1>1, DocumentSame DEF loadVars
    <3>8. \A s \in Servers \ {t} : ServesAs(s)'
      <4>1. \A s \in Servers \ {t} : thread'[s] = thread[s]
        BY <1>1, ThreadKeeps DEF Servers, Threads
      <4>2. QED
        BY <4>1, <3>4, <3>7, <1>2, <1>3 DEF ServesAs
    <3>9. ServesAs(t)'
      <4>1. CASE BindFails(t)
        BY <4>1, <3>3, <3>6, <3>7 DEF BindFails, ServesAs
      <4>2. CASE Bind(t)
        <5>1. bound'[t] = names[t] /\ faults' = faults
          BY <4>2 DEF Bind, TypeOK
        <5>2. QED
          BY <5>1, <3>1, <3>7, <1>3 DEF ServesAs
      <4>3. QED
        BY <4>1, <4>2
    <3>10. QED
      BY <3>8, <3>9, NamesServeIs
  <2>2. CASE ~(accepted /\ handler = NULL /\ Distinct)
    BY <2>2, <1>1, DocumentSame, NamesServeIs DEF loadVars
  <2>3. QED
    BY <2>1, <2>2
<1>10. QED
  BY <1>4, <1>5, <1>6, <1>7, <1>8, <1>9

\* A signal, and the two ends that touch no thread.
LEMMA SignalEndKeeps ==
  ASSUME ConfigInv, proc = "running",
         \/ HandlerExits \/ ValidateCrashes
         \/ \E t \in Threads \cup {"main"} : Signal(t)
  PROVE  ConfigInv'
<1> USE DEF ConfigInv
<1>1. CASE HandlerExits \/ ValidateCrashes
  <2>1. /\ UNCHANGED <<startVars, loadVars, threadVars, handler, faults>>
        /\ pc' = pc \/ pc' = "over"
        /\ proc' \in {"exited", "crashed"}
        /\ handler # NULL \/ ~accepted
    BY <1>1 DEF HandlerExits, ValidateCrashes, Ends, MainGoes, Stages
  <2>2. TypeOK'
    BY <2>1 DEF TypeOK, startVars, loadVars, threadVars, MainPCs
  <2>3. Stages' /\ Off' /\ Domains' /\ Reads' /\ SettingsInRange' /\ OutputSettings'
    BY <2>1, DocumentSame
       DEF Stages, Off, Domains, Reads, SettingsInRange, OutputSettings, threadVars,
       loadVars,
           startVars, NotYet, Before, Threads
  <2>4. Accepted' /\ AcceptedCrashesOnConnection' /\ NamesRead' /\ NamesServe'
    BY <2>1 DEF Accepted, AcceptedCrashesOnConnection, NamesRead, NamesServe, loadVars
  <2>5. QED
    BY <2>2, <2>3, <2>4
<1>2. ASSUME NEW t \in Threads \cup {"main"}, Signal(t) PROVE ConfigInv'
  <2>1. /\ UNCHANGED <<startVars, pc, accepted, threadVars, proc, faults>>
        /\ handler' = t /\ t # NULL /\ config_root' = NULL
    BY <1>2, ConfigAssumption DEF Signal
  <2>2. TypeOK'
    BY <2>1 DEF TypeOK, startVars, threadVars
  <2>3. Stages' /\ Off' /\ Domains' /\ Reads' /\ SettingsInRange' /\ OutputSettings'
    BY <2>1
       DEF Stages, Off, Domains, Reads, SettingsInRange, OutputSettings, threadVars,
       startVars
  <2>4. Accepted' /\ AcceptedCrashesOnConnection' /\ NamesRead' /\ NamesServe'
    BY <2>1 DEF Accepted, AcceptedCrashesOnConnection, NamesRead, NamesServe
  <2>5. QED
    BY <2>2, <2>3, <2>4
<1>3. QED
  BY <1>1, <1>2

LEMMA ConfigInvStep == ConfigInv /\ [Next]_vars => ConfigInv'
<1> SUFFICES ASSUME ConfigInv, [Next]_vars PROVE ConfigInv'
  OBVIOUS
<1>1. CASE UNCHANGED vars
  <2>1. /\ UNCHANGED <<argv, options, disk, cwd, pc, config_root, accepted, names, thread>>
        /\ UNCHANGED <<items, bound, device, handler, proc, faults>>
    BY <1>1 DEF vars, startVars, loadVars, threadVars
  <2>2. /\ TypeOK' /\ Stages' /\ Off' /\ Domains' /\ SettingsInRange'

    BY <2>1 DEF ConfigInv, TypeOK, Stages, Off, Domains, SettingsInRange
  <2>3. /\ Reads' /\ OutputSettings' /\ Accepted' /\ NamesRead'
        /\ AcceptedCrashesOnConnection'
    BY <2>1, DocumentSame
       DEF ConfigInv, Reads, OutputSettings, Accepted, NamesRead,
       AcceptedCrashesOnConnection
  <2>4. NamesServe'
    <3>1. faults \in Nat
      BY ConfigAssumption DEF ConfigInv, TypeOK
    <3>2. QED
      BY <2>1, <3>1, ServeKeeps DEF ConfigInv
  <2>5. QED
    BY <2>2, <2>3, <2>4 DEF ConfigInv
<1>2. CASE MainStep
  BY <1>2, StartKeeps, CreateKeeps, SignalEndKeeps DEF MainStep, Running
<1>3. ASSUME NEW t \in Threads, ThreadStep(t) PROVE ConfigInv'
  BY <1>3, FetchKeeps, InitializeKeeps, UseEndsKeeps, SetVolumeKeeps, ReceiveKeeps,
     NamesKeep,
     BindKeeps
     DEF ThreadStep, Running
<1>4. CASE SignalStep
  BY <1>4, SignalEndKeeps DEF SignalStep, Running
<1>5. CASE Environment
  BY <1>5, EnvironmentKeeps DEF Environment, Running
<1>6. QED
  BY <1>1, <1>2, <1>3, <1>4, <1>5 DEF Next

LEMMA ConfigInvHolds == Spec => []ConfigInv
  BY ConfigInvInit, ConfigInvStep, PTL DEF Spec

-------------------------------------------------------------------------------
\* Type correctness: whatever document is read, a socket name is never NULL and a
\* device gets whole settings or none.
THEOREM ConfigTypeCorrect == Spec => []TypeOK
<1>1. ConfigInv => TypeOK
  BY DEF ConfigInv
<1>2. QED
  BY <1>1, ConfigInvHolds, PTL

\* The devices are given settings within the SDK's ranges, also from a rejected
\* document and from one that is freed while a thread reads it.
THEOREM SettingsInRangeThm == Spec => []SettingsInRange
<1>1. ConfigInv => SettingsInRange
  BY DEF ConfigInv
<1>2. QED
  BY <1>1, ConfigInvHolds, PTL

\* What validate_json accepts, the getters read without a crash: a document that is
\* not freed ends iad only when a client connects before the buffer is there, or if
\* its frame_size is more than the stack of the server holds.
THEOREM AcceptedCrashesOnConnectionThm == Spec => []AcceptedCrashesOnConnection
<1>1. ConfigInv => AcceptedCrashesOnConnection
  BY DEF ConfigInv
<1>2. QED
  BY <1>1, ConfigInvHolds, PTL

\* A half that an option or the document disables is not started.
THEOREM DisabledStaysOffThm == Spec => []DisabledStaysOff
<1>1. ConfigInv => DisabledStaysOff
  BY DEF ConfigInv, Stages, Off, DisabledStaysOff, Servers
<1>2. QED
  BY <1>1, ConfigInvHolds, PTL

\* Three threads copy the names without a lock, and every server still binds its
\* own, unless a call fails; then its own or the default.
THEOREM NamesServeThm == Spec => []NamesServe
<1>1. ConfigInv => NamesServe
  BY DEF ConfigInv
<1>2. QED
  BY <1>1, ConfigInvHolds, PTL

\* No connection changes a volume that was set: every volume that iad sets is the
\* document's, and only a reinitialization whose SetVol fails leaves another.
THEOREM VolumeKeptThm == Spec => VolumeKept
<1> DEFINE Kept == device.AO # NULL /\ device'.AO # NULL /\ handler = NULL
                     => \/ device'.AO.vol = device.AO.vol
                        \/ device.AO.vol = NULL
                        \/ device'.AO.vol = NULL /\ thread.play = "use"
<1>1. ConfigInv /\ ConfigInv' /\ [Next]_vars => [Kept]_vars
  <2> SUFFICES ASSUME ConfigInv, ConfigInv', Next, device.AO # NULL, device'.AO # NULL,
                      handler = NULL, device.AO.vol # NULL
               PROVE  \/ device'.AO.vol = device.AO.vol
                      \/ device'.AO.vol = NULL /\ thread.play = "use"
    OBVIOUS
  <2>1. CASE device' = device
    BY <2>1
  <2>2. CASE device' # device
    <3>1. \E t \in Threads : Initialize(t) \/ SetVolume
      BY <2>2 DEF Next, MainStep, ThreadStep, SignalStep, Environment, Running, Option,
                  OptionRefused, Daemonize, StartRefused, Load, LoadFails, Validate,
                  ValidateCrashes, Decide, Create, DoNotCreate, CreateFails, Fetch,
                  InitializeFails, UseCrashes, Receive, ReceiveCrashes, UpdateSocketPaths,
                  Bind, BindFails, HandlerExits, Signal, Reinitialize, Connection,
                  threadVars
    <3>2. config_root' = config_root /\ handler' = handler
      BY <3>1 DEF Initialize, SetVolume, loadVars
    <3>3. device.AO.vol = DocumentVolume /\ device'.AO.vol \in {DocumentVolume', NULL}
      BY <3>2 DEF ConfigInv, OutputSettings
    <3>4. DocumentVolume' = DocumentVolume
      BY <3>2, DocumentSame
    <3>5. CASE SetVolume
      <4>1. PICK freed \in FreedMemory :
                device' = [device EXCEPT !.AO.vol = ConnectionVolume(freed)]
        BY <2>2, <3>5 DEF SetVolume
      <4>2. device.AO \in SettingsRecord /\ thread.output = "use"
        BY <3>5 DEF ConfigInv, TypeOK, Halves, SetVolume, Goes
      <4>3. device'.AO.vol = ConnectionVolume(freed)
        BY <4>1, <4>2 DEF ConfigInv, Domains, Halves, SettingsRecord
      <4>4. ConnectionVolume(freed) = DocumentVolume
        BY <4>2, VolumeIsTheDocuments DEF ConfigInv
      <4>5. QED
        BY <3>3, <4>3, <4>4
    <3>6. ASSUME NEW t \in Threads, Initialize(t)
          PROVE  \/ device'.AO.vol = device.AO.vol
                 \/ device'.AO.vol = NULL /\ thread.play = "use"
      <4>1. CASE t = "play"
        BY <4>1, <3>3, <3>4, <3>6 DEF Initialize, Goes
      <4>2. CASE t # "play"
        BY <4>2, <3>6 DEF Initialize, HalfOf, ConfigInv, Domains, Halves
      <4>3. QED
        BY <4>1, <4>2
    <3>7. QED
      BY <3>1, <3>5, <3>6
  <2>3. QED
    BY <2>1, <2>2
<1>2. QED
  BY <1>1, ConfigInvHolds, PTL DEF Spec, VolumeKept
===============================================================================
