------------------------------- MODULE MCConfig -------------------------------
(***************************************************************************)
(* The shipped config/iad.json with one defect at a time: a key that is    *)
(* missing, of another type, or of a value at or beyond a limit.           *)
(***************************************************************************)
EXTENDS Config, TLC

CONSTANTS absent, empty, garbage

Node(type, int, str, its) == [type |-> type, int |-> int, str |-> str, items |-> its]
Number(n) == Node("number", n, NULL, <<>>)
Text(s)   == Node("string", 0, s, <<>>)
Bool(b)   == Node("bool", IF b THEN 1 ELSE 0, NULL, <<>>)
Object(its) == Node("object", 0, NULL, its)

Agc == "TargetLevelDbfs" :> Number(0) @@ "CompressionGaindB" :> Number(6)

Common ==
    "enabled" :> Bool(TRUE) @@ "device_id" :> Number(0) @@ "channel_id" :> Number(0)
    @@ "sample_rate" :> Number(16000) @@ "bitwidth" :> Text("AUDIO_BIT_WIDTH_16")
    @@ "soundmode" :> Text("AUDIO_SOUND_MODE_MONO") @@ "chnCnt" :> Number(1)
    @@ "Enable_Agc" :> Bool(FALSE) @@ "AGC_attributes" :> Object(Agc)
    @@ "Enable_Hpf" :> Bool(FALSE)

AO == "frmNum" :> Number(20) @@ "frame_size" :> Number(1280) @@ "SetVol" :> Number(60)
      @@ "SetGain" :> Number(20)
      @@ "HPF_attributes" :> Object("SetHpfCoFrequency" :> Number(100)) @@ Common

AI == "frmNum" :> Number(40) @@ "usrFrmDepth" :> Number(40) @@ "SetVol" :> Number(90)
      @@ "SetGain" :> Number(31) @@ "SetAlcGain" :> Number(0) @@ "Enable_Ns" :> Bool(FALSE)
      @@ "Level_Ns" :> Number(0) @@ "EnableAec" :> Bool(FALSE) @@ Common

Network ==
    "audio_input_socket_path" :> Text("ingenic_audio_input")
    @@ "audio_output_socket_path" :> Text("ingenic_audio_output")
    @@ "audio_control_socket_path" :> Text("ingenic_audio_control")

\* A defect is the one item a document has otherwise than the good one: its
\* section, its key and its node, or NULL where it is missing.
Replace(section, key, node) ==
    IF node = NULL THEN <<>> @@ [k \in DOMAIN section \ {key} |-> section[k]]
    ELSE key :> node @@ section

SectionOf(d, name, section) ==
    Object(IF d[1] = name THEN Replace(section, d[2], d[3]) ELSE section)

Audio(d) ==
    "AO_attributes" :> SectionOf(d, "AO", AO) @@ "AI_attributes" :> SectionOf(d, "AI", AI)
    @@ "network" :> SectionOf(d, "network",
                             IF d[2] = "audio_input_socket_path" /\ d[3] = Text("long 2")
                             THEN "audio_control_socket_path" :> Text("long 1") @@ Network
                             ELSE Network)

Build(d) ==
    Object(Replace("audio" :> SectionOf(d, "audio", Audio(d)),
                   IF d[1] = "root" THEN "audio" ELSE "other", d[3]))

Good == <<"AO", "SetVol", Number(60)>>

WrongTypes == {NULL, Bool(TRUE), Text("other")}
WrongType(k) == {NULL, IF (AO @@ AI)[k].type = "bool" THEN Text("other") ELSE Bool(TRUE)}

Limits ==
    {<<"SetVol", Number(n)>> : n \in {-31, -30, 120, 121}}
    \cup {<<"SetGain", Number(n)>> : n \in {-1, 0, 31, 32}}
    \cup {<<"sample_rate", Number(n)>> : n \in {0, 11025, 44100}}
    \cup {<<"chnCnt", Number(n)>> : n \in {0, 2}}
    \cup {<<"enabled", Bool(FALSE)>>}

Defects ==
    {Good}
    \cup UNION {{<<"AO", k, n>> : n \in WrongType(k)} : k \in DOMAIN AO}
    \cup UNION {{<<"AI", k, n>> : n \in WrongType(k)} : k \in DOMAIN AI}
    \cup {<<h, v[1], v[2]>> : h \in Halves, v \in Limits}
    \cup {<<"AO", "frame_size", Number(n)>> : n \in {-1, 0, 130000, 200000}}
    \cup {<<"network", k, n>> : k \in DOMAIN Network, n \in WrongTypes}
    \cup {<<"network", "audio_input_socket_path", Text(n)>> :
             n \in {"a", "long 2", "ingenic_audio_control"}}
    \cup {<<"audio", k, n>> : k \in {"AO_attributes", "AI_attributes", "network"},
                             n \in {NULL, Bool(TRUE)}}
    \cup {<<"root", "audio", NULL>>}

\* A document is named by its defect, in a string.
Name(d) == ToString(d)
Names == {Name(d) : d \in Defects}
Built == <<>> @@ [n \in Names |-> Build(CHOOSE d \in Defects : Name(d) = n)]

\* TLC evaluates a definition like Built once, but what a .cfg puts for a constant
\* at every use.
ManyDocuments == Names
Trees == Built

\* Two names that differ only behind their first 31 characters.
TruncatedNames ==
    [n \in {"long 1", "long 2", "long", "a", "other", "ingenic_audio_control",
            "ingenic_audio_input", "ingenic_audio_output"} |->
        IF n \in {"long 1", "long 2"} THEN "long" ELSE n]

CommandLines ==
    {<<a>> : a \in OptionWords}
    \cup {<<a, b>> : a \in {"-r", "-d AI", "-d AO"},
                     b \in OptionWords \ {"-r", "-?"}}

Disk(a, s, r) == ("absolute" :> a) @@ ("start" :> s) @@ ("/" :> r)

\* A document that differs in one half with the other half off, the others with
\* both; every command line with one that turns the input off; and some with the
\* good one.
OtherOff(d) ==
    IF d[1] = "AO" \/ d[2] = "audio_output_socket_path" THEN <<"-d AI">>
    ELSE IF d[1] \in {"AI", "network"} THEN <<"-d AO">>
    ELSE <<>>

AllStarts ==
    {[argv |-> OtherOff(d), disk |-> Disk(Name(d), absent, absent)] : d \in Defects}
    \cup {[argv |-> c, disk |-> Disk(Name(d), empty, Name(Good))] :
             c \in CommandLines, d \in {<<"AI", "enabled", Bool(FALSE)>>}}
    \cup {[argv |-> <<a>>, disk |-> Disk(Name(Good), Name(Good), absent)] :
             a \in {"-c relative", "-d AI", "-d AO"}}
    \cup {[argv |-> <<>>, disk |-> Disk(n, n, n)] : n \in NoDocument}

Freed ==
    {"SetVol" :> 121 @@ "SetGain" :> -1 @@ "chnCnt" :> 2 @@ [k \in Keys |-> 0]}
===============================================================================
