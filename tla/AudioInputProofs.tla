-------------------------- MODULE AudioInputProofs --------------------------
(***************************************************************************)
(* Proofs about AudioInput, for any clients and any bounds: the inductive  *)
(* invariant CaptureInv, and from it TypeOK, FrameOnce, NobodyMissed    *)
(* and RecorderSurvives; OrderInv on top of it, for Ordered; and that   *)
(* every step of AudioInput is a step of Broadcast, and one of the capture *)
(* half of AudioDaemon, or changes nothing these see.                      *)
(***************************************************************************)
EXTENDS AudioInput, SequenceTheorems, TLAPS

\* Where a record thread has a frame.
Holds(r) == rpc[r] \in {"lock", "write", "release"}

Listed(c) == \E i \in DOMAIN client_list : client_list[i] = c
Queued(c) == \E i \in DOMAIN backlog : backlog[i] = c

\* A connection is queued, accepted, listed and served in this order, once.
Sockets ==
    /\ IsInjective(client_list) /\ IsInjective(backlog)
    /\ \A c \in Clients : link[c] = "away" => rpc[c] = "none" /\ ~Listed(c) /\ ~Queued(c)
    /\ \A c \in Clients : Queued(c) => rpc[c] = "none" /\ ~Listed(c) /\ c # client_sock
    /\ spc \in {"register", "spawn"} =>
           client_sock \in Clients /\ link[client_sock] # "away" /\ rpc[client_sock] = "none"
    /\ spc = "register" => ~Listed(client_sock)
    /\ spc \notin {"register", "spawn"} => client_sock = NoClient
    /\ spc = "start" => client_list = <<>>

\* Who walks over the list has the lock.
Passes ==
    \A r \in Clients : /\ rpc[r] = "write" <=> lock = r
                       /\ rpc[r] = "write" => current[r] >= 1

\* A frame has one holder, and is new to every connection he has still to visit.
Frames ==
    /\ \A r \in Clients : Holds(r) => frm[r] \in 1 .. taken
    /\ \A r, s \in Clients : r # s /\ Holds(r) /\ Holds(s) => frm[r] # frm[s]
    /\ \A c \in Clients : \A i \in DOMAIN got[c] : got[c][i] <= taken
    /\ \A r, c \in Clients : rpc[r] = "lock" => frm[r] \notin ToSet(got[c])
    /\ \A r \in Clients : rpc[r] = "write" =>
           \A i \in DOMAIN client_list :
               i >= current[r] => frm[r] \notin ToSet(got[client_list[i]])

\* RecorderSurvives: who has lost a frame to another is not the only one.
Survivor ==
    client_list # <<>> /\ faults = 0 /\ device = "on" =>
        \/ spc = "spawn"
        \/ \E r \in Clients : Live(r) /\ (rpc[r] = "get" => taken < captured)

\* What is left of all that in a damaged list.
Typed ==
    /\ TypeOK
    /\ spc \in {"register", "spawn"} => client_sock \in Clients
    /\ \A r \in Clients : Holds(r) => frm[r] \in 1 .. MaxFrames
    /\ ~Intact => faults # 0

CaptureInv ==
    Typed /\ Sockets /\ Passes /\ Frames /\ FrameOnce /\ NobodyMissed /\ Survivor

-------------------------------------------------------------------------------
(***************************************************************************)
(* Sequences.                                                              *)
(***************************************************************************)
\* Unlinking a node shifts those behind it.
LEMMA Removed ==
  ASSUME NEW S, NEW s \in Seq(S), NEW i \in DOMAIN s
  PROVE  /\ RemoveAt(s, i) \in Seq(S)
         /\ Len(RemoveAt(s, i)) = Len(s) - 1
         /\ \A j \in 1 .. Len(s) - 1 :
                RemoveAt(s, i)[j] = IF j < i THEN s[j] ELSE s[j + 1]
<1>1. i \in 1 .. Len(s) /\ Len(s) \in Nat
  BY LenProperties
<1>2. \A j \in 1 .. Len(s) : s[j] \in S
  BY ElementOfSeq
<1> DEFINE a == SubSeq(s, 1, i - 1)
           b == SubSeq(s, i + 1, Len(s))
<1>3. /\ a \in Seq(S) /\ Len(a) = i - 1
      /\ \A j \in 1 .. i - 1 : a[j] = s[j]
  <2>1. /\ a \in Seq(S) /\ Len(a) = IF 1 <= i - 1 THEN (i - 1) - 1 + 1 ELSE 0
        /\ \A j \in 1 .. (i - 1) - 1 + 1 : a[j] = s[1 + j - 1]
    BY <1>1, <1>2, SubSeqProperties
  <2>2. QED
    BY <1>1, <2>1
<1>4. /\ b \in Seq(S) /\ Len(b) = Len(s) - i
      /\ \A j \in 1 .. Len(s) - i : b[j] = s[i + j]
  <2>1. /\ b \in Seq(S) /\ Len(b) = IF i + 1 <= Len(s) THEN Len(s) - (i + 1) + 1 ELSE 0
        /\ \A j \in 1 .. Len(s) - (i + 1) + 1 : b[j] = s[(i + 1) + j - 1]
    BY <1>1, <1>2, SubSeqProperties
  <2>2. QED
    BY <1>1, <2>1
<1> HIDE DEF a, b
<1>5. /\ a \o b \in Seq(S) /\ Len(a \o b) = Len(s) - 1
      /\ \A j \in 1 .. Len(s) - 1 : (a \o b)[j] = IF j < i THEN s[j] ELSE s[j + 1]
  <2>1. /\ a \o b \in Seq(S) /\ Len(a \o b) = Len(a) + Len(b)
        /\ \A j \in 1 .. Len(a) + Len(b) :
               (a \o b)[j] = IF j <= Len(a) THEN a[j] ELSE b[j - Len(a)]
    BY <1>3, <1>4, ConcatProperties
  <2>2. Len(a) + Len(b) = Len(s) - 1
    BY <1>1, <1>3, <1>4
  <2>3. ASSUME NEW j \in 1 .. Len(s) - 1
        PROVE  (a \o b)[j] = IF j < i THEN s[j] ELSE s[j + 1]
    <3>1. CASE j < i
      BY <3>1, <2>1, <2>2, <1>1, <1>3
    <3>2. CASE ~(j < i)
      <4>1. (a \o b)[j] = b[j - (i - 1)] /\ j - (i - 1) \in 1 .. Len(s) - i
        <5>1. j \in 1 .. Len(a) + Len(b) /\ Len(a) = i - 1 /\ ~(j <= Len(a))
          BY <3>2, <2>2, <1>1, <1>3
        <5>2. (a \o b)[j] = b[j - Len(a)]
          BY <5>1, <2>1
        <5>3. j - (i - 1) \in 1 .. Len(s) - i
          BY <3>2, <1>1
        <5>4. QED
          BY <5>1, <5>2, <5>3
      <4>2. b[j - (i - 1)] = s[i + (j - (i - 1))] /\ i + (j - (i - 1)) = j + 1
        BY <4>1, <1>1, <1>4
      <4>3. QED
        BY <4>1, <4>2, <3>2, <1>1
    <3>3. QED
      BY <3>1, <3>2
  <2>4. QED
    BY <2>1, <2>2, <2>3
<1>6. QED
  BY <1>5 DEF RemoveAt, a, b

\* Registering a connection puts it in front.
LEMMA Added ==
  ASSUME NEW S, NEW s \in Seq(S), NEW x \in S
  PROVE  /\ <<x>> \o s \in Seq(S)
         /\ Len(<<x>> \o s) = Len(s) + 1
         /\ (<<x>> \o s)[1] = x
         /\ \A j \in 2 .. Len(s) + 1 : (<<x>> \o s)[j] = s[j - 1]
<1>1. <<x>> \in Seq(S) /\ Len(<<x>>) = 1 /\ <<x>>[1] = x /\ Len(s) \in Nat
  BY LenProperties
<1>2. /\ <<x>> \o s \in Seq(S) /\ Len(<<x>> \o s) = Len(<<x>>) + Len(s)
      /\ \A i \in 1 .. Len(<<x>>) + Len(s) :
             (<<x>> \o s)[i] = IF i <= Len(<<x>>) THEN <<x>>[i] ELSE s[i - Len(<<x>>)]
  BY <1>1, ConcatProperties
<1>3. QED
  BY <1>1, <1>2

\* A frame is written behind those before it.
LEMMA Appended ==
  ASSUME NEW S, NEW s \in Seq(S), NEW x \in S
  PROVE  /\ Append(s, x) \in Seq(S)
         /\ ToSet(Append(s, x)) = ToSet(s) \cup {x}
         /\ IsInjective(s) /\ x \notin ToSet(s) => IsInjective(Append(s, x))
<1>1. /\ Append(s, x) \in Seq(S) /\ DOMAIN Append(s, x) = 1 .. Len(s) + 1
      /\ \A i \in 1 .. Len(s) : Append(s, x)[i] = s[i]
      /\ Append(s, x)[Len(s) + 1] = x
      /\ DOMAIN s = 1 .. Len(s) /\ Len(s) \in Nat
  BY LenProperties
<1>2. ToSet(Append(s, x)) = ToSet(s) \cup {x}
  BY <1>1 DEF ToSet
<1>3. ASSUME IsInjective(s), x \notin ToSet(s) PROVE IsInjective(Append(s, x))
  <2>1. \A i \in 1 .. Len(s) : s[i] # x
    BY <1>1, <1>3 DEF ToSet
  <2>2. QED
    BY <1>1, <1>3, <2>1 DEF IsInjective
<1>4. QED
  BY <1>1, <1>2, <1>3

\* Who is behind the head.
LEMMA Tailed ==
  ASSUME NEW S, NEW s \in Seq(S), s # <<>>
  PROVE  /\ 1 \in DOMAIN s /\ Head(s) = s[1]
         /\ \A i \in DOMAIN Tail(s) : i + 1 \in DOMAIN s /\ Tail(s)[i] = s[i + 1]
<1>1. Len(s) \in Nat /\ DOMAIN s = 1 .. Len(s) /\ Len(s) >= 1 /\ Head(s) = s[1]
  BY LenProperties, EmptySeq
<1>2. /\ Tail(s) \in Seq(S) /\ Len(Tail(s)) = Len(s) - 1
      /\ \A i \in 1 .. Len(Tail(s)) : Tail(s)[i] = s[i + 1]
  BY HeadTailProperties
<1>3. DOMAIN Tail(s) = 1 .. Len(s) - 1
  BY <1>2, LenProperties
<1>4. \A i \in 1 .. Len(s) - 1 : i + 1 \in 1 .. Len(s)
  BY <1>1
<1>5. QED
  BY <1>1, <1>2, <1>3, <1>4

\* The list is one of connections.
LEMMA ListTyped ==
  ASSUME TypeOK, NEW i \in DOMAIN client_list
  PROVE  client_list[i] \in Clients /\ i \in Nat /\ i >= 1 /\ ~(i < 1)
<1>1. client_list \in Seq(Clients)
  BY DEF TypeOK
<1>2. i \in 1 .. Len(client_list) /\ Len(client_list) \in Nat
  BY <1>1, LenProperties
<1>3. client_list[i] \in Clients
  BY <1>1, <1>2, ElementOfSeq
<1>4. QED
  BY <1>2, <1>3

-------------------------------------------------------------------------------
(***************************************************************************)
(* What holds of any list.                                                 *)
(***************************************************************************)
LEMMA TypedInit == Init => Typed
<1> SUFFICES ASSUME Init PROVE Typed
  OBVIOUS
<1>1. <<>> \in Seq(Clients) /\ <<>> \in Seq(1 .. MaxFrames)
  OBVIOUS
<1>2. 0 \in 0 .. MaxFrames /\ 0 \in 0 .. SockBuf /\ 0 \in 0 .. MaxFaults
  BY BoundsAssumption
<1>3. got \in [Clients -> Seq(1 .. MaxFrames)]
  BY <1>1 DEF Init
<1>4. TypeOK
  BY <1>1, <1>2, <1>3 DEF Init, TypeOK, ServerPCs, RecorderPCs
<1>5. QED
  BY <1>4 DEF Init, Typed, Holds, Intact

\* The server, the clients and the device.
LEMMA TypedServer ==
  ASSUME Typed, ServerNext
  PROVE  Typed'
<1> USE DEF Typed
<1>1. faults \in 0 .. MaxFaults /\ (Fail => faults' \in 0 .. MaxFaults /\ faults' # 0)
  BY BoundsAssumption DEF TypeOK, Fail, CanFail
<1>2. CASE ServerInitDevice \/ ServerListen \/ ServerCheck \/ ServerAcceptFails
  <2>1. /\ UNCHANGED <<listVars, g_stop_thread, client_sock, recVars, clientVars, captured, taken>>
        /\ spc' \in ServerPCs \ {"register", "spawn"}
        /\ device' \in {device, "on"} /\ proc' \in {proc, "exited"}
        /\ faults' = faults \/ Fail
    BY <1>2 DEF ServerInitDevice, ServerListen, ServerCheck, ServerAcceptFails, ServerGoes,
       ServerPCs, deviceVars, procVars
  <2>2. TypeOK'
    BY <1>1, <2>1 DEF TypeOK, listVars, recVars, clientVars
  <2>3. QED
    BY <1>1, <2>1, <2>2 DEF Holds, Intact, listVars, recVars
<1>3. CASE ServerAccept
  <2>1. /\ UNCHANGED <<lock, client_list, dangling, g_stop_thread, recVars, link, inbox, got,
                       deviceVars, procVars>>
        /\ spc' = "register" /\ client_sock' = Head(backlog) /\ backlog' = Tail(backlog)
        /\ backlog # <<>> /\ open' = open \cup {Head(backlog)}
    BY <1>3 DEF ServerAccept, ServerGoes, clientVars
  <2>2. Head(backlog) \in Clients /\ Tail(backlog) \in Seq(Clients)
    BY <2>1, HeadTailProperties DEF TypeOK
  <2>3. TypeOK'
    BY <2>1, <2>2 DEF TypeOK, recVars, deviceVars, procVars, ServerPCs
  <2>4. QED
    BY <2>1, <2>2, <2>3 DEF Holds, Intact, recVars, procVars
<1>4. CASE ServerRegister
  <2>1. /\ UNCHANGED <<lock, dangling, open, g_stop_thread, client_sock, recVars, clientVars,
                       deviceVars, procVars>>
        /\ spc' = "spawn" /\ client_list' = <<client_sock>> \o client_list
        /\ client_sock \in Clients
    BY <1>4 DEF ServerRegister, ServerGoes
  <2>2. client_list' \in Seq(Clients)
    BY <2>1, Added DEF TypeOK
  <2>3. TypeOK'
    BY <2>1, <2>2 DEF TypeOK, recVars, clientVars, deviceVars, procVars, ServerPCs
  <2>4. QED
    BY <2>1, <2>3 DEF Holds, Intact, recVars, procVars
<1>5. CASE ServerRegisterFails \/ ServerSpawnFails
  <2>1. /\ UNCHANGED <<lock, client_list, g_stop_thread, recVars, clientVars, deviceVars>>
        /\ spc' = "check" /\ client_sock' = NoClient /\ client_sock \in Clients
        /\ open' = open \ {client_sock} /\ dangling' \in {dangling, dangling \cup {client_sock}}
        /\ proc' \in {proc, "running", "crashed"} /\ Fail
    BY <1>5 DEF ServerRegisterFails, ServerSpawnFails, ServerGoes
  <2>2. TypeOK'
    BY <1>1, <2>1 DEF TypeOK, recVars, clientVars, deviceVars, ServerPCs
  <2>3. QED
    BY <1>1, <2>1, <2>2 DEF Holds, Intact, recVars
<1>6. CASE ServerSpawn
  <2>1. /\ UNCHANGED <<listVars, g_stop_thread, frm, current, clientVars, deviceVars, procVars>>
        /\ spc' = "check" /\ client_sock' = NoClient /\ client_sock \in Clients
        /\ rpc' = [rpc EXCEPT ![client_sock] = "poll"]
    BY <1>6 DEF ServerSpawn, ServerGoes
  <2>2. rpc' \in [Clients -> RecorderPCs] /\ \A r \in Clients : Holds(r)' => Holds(r)
    BY <2>1 DEF TypeOK, RecorderPCs, Holds
  <2>3. TypeOK'
    BY <2>1, <2>2 DEF TypeOK, listVars, clientVars, deviceVars, procVars, ServerPCs
  <2>4. QED
    BY <2>1, <2>2, <2>3 DEF Intact, listVars, procVars
<1>7. QED
  BY <1>2, <1>3, <1>4, <1>5, <1>6 DEF ServerNext

LEMMA TypedOutside ==
  ASSUME Typed,
         \/ Capture \/ CleanupSetsStop \/ CleanupDisables
         \/ \E c \in Clients : Connect(c) \/ Receive(c) \/ Disconnect(c)
  PROVE  Typed'
<1> USE DEF Typed
<1>1. UNCHANGED <<lock, client_list, dangling, open, spc, client_sock, rpc, frm, current, got,
                  taken, proc, faults>>
  BY DEF Capture, CleanupSetsStop, CleanupDisables, Connect, Receive, Disconnect, listVars,
     serverVars, recVars, clientVars, deviceVars, procVars
<1>2. /\ g_stop_thread' \in BOOLEAN /\ device' \in {"off", "on"}
      /\ captured' \in 0 .. MaxFrames
  <2>1. /\ g_stop_thread' \in {g_stop_thread, TRUE} /\ device' \in {device, "off"}
        /\ captured' = captured \/ (captured < MaxFrames /\ captured' = captured + 1)
    BY DEF Capture, CleanupSetsStop, CleanupDisables, Connect, Receive, Disconnect, deviceVars
  <2>2. captured \in 0 .. MaxFrames /\ g_stop_thread \in BOOLEAN /\ device \in {"off", "on"}
    BY DEF TypeOK
  <2>3. captured' \in 0 .. MaxFrames
    BY <2>1, <2>2, BoundsAssumption
  <2>4. QED
    BY <2>1, <2>2, <2>3
<1>3. /\ backlog' \in Seq(Clients) /\ link' \in [Clients -> {"away", "connected", "gone"}]
      /\ inbox' \in [Clients -> 0 .. SockBuf]
  <2>1. CASE \E c \in Clients : Connect(c)
    <3>1. PICK c \in Clients : Connect(c)
      BY <2>1
    <3>2. Append(backlog, c) \in Seq(Clients)
      BY Appended DEF TypeOK
    <3>3. QED
      BY <3>1, <3>2 DEF TypeOK, Connect
  <2>2. CASE \E c \in Clients : Receive(c) \/ Disconnect(c)
    <3>1. PICK c \in Clients : Receive(c) \/ Disconnect(c)
      BY <2>2
    <3>2. inbox \in [Clients -> 0 .. SockBuf] /\ 0 \in 0 .. SockBuf
      BY BoundsAssumption DEF TypeOK
    <3>3. inbox[c] > 0 => inbox[c] - 1 \in 0 .. SockBuf
      BY <3>2, BoundsAssumption
    <3>4. backlog \in Seq(Clients) /\ link \in [Clients -> {"away", "connected", "gone"}]
      BY DEF TypeOK
    <3>5. CASE Receive(c)
      BY <3>2, <3>3, <3>4, <3>5 DEF Receive
    <3>6. CASE Disconnect(c)
      BY <3>2, <3>4, <3>6 DEF Disconnect
    <3>7. QED
      BY <3>1, <3>5, <3>6
  <2>3. CASE Capture \/ CleanupSetsStop \/ CleanupDisables
    BY <2>3 DEF TypeOK, Capture, CleanupSetsStop, CleanupDisables, clientVars
  <2>4. QED
    BY <2>1, <2>2, <2>3
<1>4. TypeOK'
  BY <1>1, <1>2, <1>3 DEF TypeOK
<1>5. QED
  BY <1>1, <1>4 DEF Holds, Intact

\* A frame that is written is one the thread holds.
LEMMA TypedSent ==
  ASSUME Typed, NEW r \in Clients, rpc[r] = "write", NEW c \in Clients, inbox[c] < SockBuf,
         inbox' = [inbox EXCEPT ![c] = @ + 1], got' = [got EXCEPT ![c] = Append(@, frm[r])]
  PROVE  inbox' \in [Clients -> 0 .. SockBuf] /\ got' \in [Clients -> Seq(1 .. MaxFrames)]
<1>1. inbox \in [Clients -> 0 .. SockBuf] /\ got \in [Clients -> Seq(1 .. MaxFrames)]
  BY DEF Typed, TypeOK
<1>2. inbox[c] + 1 \in 0 .. SockBuf
  BY <1>1, BoundsAssumption
<1>3. Append(got[c], frm[r]) \in Seq(1 .. MaxFrames)
  <2> DEFINE S == 1 .. MaxFrames
  <2>1. got[c] \in Seq(S) /\ frm[r] \in S
    BY <1>1 DEF Typed, Holds
  <2> HIDE DEF S
  <2>2. Append(got[c], frm[r]) \in Seq(S)
    BY <2>1, Appended
  <2>3. QED
    BY <2>2 DEF S
<1>4. QED
  BY <1>1, <1>2, <1>3

LEMMA TypedRecorder ==
  ASSUME Typed, NEW r \in Clients, RecorderNext(r)
  PROVE  Typed'
<1> USE DEF Typed
<1>1. /\ rpc \in [Clients -> RecorderPCs] /\ current \in [Clients -> Nat]
      /\ client_list \in Seq(Clients) /\ faults \in 0 .. MaxFaults
      /\ frm \in [Clients -> 0 .. MaxFrames] /\ 0 \in 0 .. MaxFrames
      /\ taken \in 0 .. MaxFrames /\ captured \in 0 .. MaxFrames
      /\ Fail => faults' \in 0 .. MaxFaults /\ faults' # 0
  <2>1. 0 \in 0 .. MaxFrames
    BY BoundsAssumption
  <2>2. faults \in 0 .. MaxFaults
    BY DEF TypeOK
  <2>3. Fail => faults' \in 0 .. MaxFaults /\ faults' # 0
    BY <2>2, BoundsAssumption DEF Fail, CanFail
  <2>4. QED
    BY <2>1, <2>2, <2>3 DEF TypeOK
<1>2. CASE Poll(r) \/ PollFails(r) \/ GetFrameFails(r)
  <2>1. /\ UNCHANGED <<listVars, g_stop_thread, serverVars, frm, current, clientVars, deviceVars,
                       proc>>
        /\ rpc' \in [Clients -> RecorderPCs] /\ \A s \in Clients : Holds(s)' => Holds(s)
        /\ faults' = faults \/ Fail
    BY <1>1, <1>2 DEF Poll, PollFails, GetFrameFails, RecorderGoes, RecorderPCs, Holds, procVars
  <2>2. TypeOK'
    BY <1>1, <2>1 DEF TypeOK, listVars, serverVars, clientVars, deviceVars
  <2>3. QED
    BY <1>1, <2>1, <2>2 DEF Intact, listVars, serverVars
<1>3. CASE GetFrame(r)
  <2>1. /\ UNCHANGED <<listVars, g_stop_thread, serverVars, current, clientVars, device, captured,
                       procVars>>
        /\ rpc' = [rpc EXCEPT ![r] = "lock"] /\ taken < captured /\ taken' = taken + 1
        /\ frm' = [frm EXCEPT ![r] = taken + 1]
    BY <1>3 DEF GetFrame, RecorderGoes
  <2>2. taken + 1 \in 1 .. MaxFrames /\ taken + 1 \in 0 .. MaxFrames
    BY <1>1, <2>1, BoundsAssumption
  <2>3. /\ rpc' \in [Clients -> RecorderPCs] /\ frm' \in [Clients -> 0 .. MaxFrames]
        /\ frm'[r] = taken + 1
        /\ \A s \in Clients \ {r} : frm'[s] = frm[s] /\ (Holds(s)' => Holds(s))
    BY <1>1, <2>1, <2>2 DEF Holds, RecorderPCs
  <2>4. TypeOK'
    BY <2>1, <2>2, <2>3 DEF TypeOK, listVars, serverVars, clientVars, procVars
  <2>5. QED
    BY <2>1, <2>2, <2>3, <2>4 DEF Intact, listVars, serverVars, procVars
<1>4. CASE RecorderLock(r) \/ RecorderUnlock(r) \/ ReleaseFrame(r)
  <2>1. /\ UNCHANGED <<client_list, dangling, open, g_stop_thread, serverVars, clientVars,
                       deviceVars, procVars>>
        /\ lock' \in {lock, r, Nobody} /\ rpc' \in [Clients -> RecorderPCs]
        /\ current' \in [Clients -> Nat] /\ frm' \in [Clients -> 0 .. MaxFrames]
        /\ \A s \in Clients : Holds(s)' => Holds(s) /\ frm'[s] = frm[s]
    <3>1. CASE RecorderLock(r)
      BY <1>1, <3>1 DEF RecorderLock, RecorderGoes, RecorderPCs, Holds
    <3>2. CASE RecorderUnlock(r)
      BY <1>1, <3>2 DEF RecorderUnlock, RecorderGoes, RecorderPCs, Holds
    <3>3. CASE ReleaseFrame(r)
      BY <1>1, <3>3 DEF ReleaseFrame, RecorderGoes, RecorderPCs, Holds, listVars
    <3>4. QED
      BY <1>4, <3>1, <3>2, <3>3
  <2>2. TypeOK'
    BY <2>1 DEF TypeOK, serverVars, clientVars, deviceVars, procVars
  <2>3. QED
    BY <2>1, <2>2 DEF Intact, serverVars, procVars
<1>5. ASSUME NEW c \in Clients, Write(r, c) PROVE Typed'
  <2>1. /\ UNCHANGED <<listVars, g_stop_thread, serverVars, rpc, frm, backlog, link, deviceVars,
                       procVars>>
        /\ rpc[r] = "write" /\ current' \in [Clients -> Nat]
    BY <1>1, <1>5 DEF Write, At
  <2>2. inbox' \in [Clients -> 0 .. SockBuf] /\ got' \in [Clients -> Seq(1 .. MaxFrames)]
    BY <1>5, <2>1, TypedSent DEF Write
  <2>3. TypeOK'
    BY <2>1, <2>2 DEF TypeOK, listVars, serverVars, deviceVars, procVars
  <2>4. QED
    BY <2>1, <2>3 DEF Holds, Intact, listVars, serverVars, procVars
<1>6. ASSUME NEW c \in Clients, Unlink(r, c) PROVE Typed'
  <2>1. /\ UNCHANGED <<lock, dangling, open, g_stop_thread, serverVars, recVars, clientVars,
                       deviceVars, proc>>
        /\ current[r] \in DOMAIN client_list /\ client_list' = RemoveAt(client_list, current[r])
        /\ faults' = faults \/ Fail
    BY <1>6 DEF Unlink, WriteFails, At
  <2>2. client_list' \in Seq(Clients)
    BY <1>1, <2>1, Removed
  <2>3. TypeOK'
    BY <1>1, <2>1, <2>2 DEF TypeOK, serverVars, recVars, clientVars, deviceVars
  <2>4. QED
    BY <1>1, <2>1, <2>3 DEF Holds, Intact, serverVars, recVars
<1>7. ASSUME NEW c \in Clients, WriteFreed(r, c) PROVE Typed'
  <2>1. /\ UNCHANGED <<lock, dangling, open, g_stop_thread, serverVars, rpc, frm, backlog, link,
                       deviceVars, faults>>
        /\ rpc[r] = "write" /\ current[r] \in DOMAIN client_list
        /\ proc' \in {proc, "crashed"}
    BY <1>7 DEF WriteFreed, At
  <2>2. Len(client_list) \in Nat /\ current[r] \in 1 .. Len(client_list)
    BY <1>1, <2>1, LenProperties
  <2>3. current' \in [Clients -> Nat]
    <3>1. \A i \in 1 .. Len(client_list) + 1 : i \in Nat
      BY <2>2
    <3>2. QED
      BY <1>1, <1>7, <3>1 DEF WriteFreed
  <2>4. client_list' \in Seq(Clients)
    <3>1. RemoveAt(client_list, current[r]) \in Seq(Clients)
      BY <1>1, <2>1, Removed
    <3>2. SubSeq(client_list, 1, current[r] - 1) \in Seq(Clients)
      <4>1. \A i \in 1 .. current[r] - 1 : client_list[i] \in Clients
        BY <1>1, <2>2, ElementOfSeq
      <4>2. QED
        BY <2>2, <4>1, SubSeqProperties
    <3>3. QED
      BY <1>1, <1>7, <3>1, <3>2 DEF WriteFreed
  <2>5. inbox' \in [Clients -> 0 .. SockBuf] /\ got' \in [Clients -> Seq(1 .. MaxFrames)]
    <3>1. CASE UNCHANGED <<inbox, got>>
      BY <3>1 DEF TypeOK
    <3>2. CASE ~UNCHANGED <<inbox, got>>
      <4>1. PICK d \in open : /\ inbox[d] < SockBuf /\ inbox' = [inbox EXCEPT ![d] = @ + 1]
                              /\ got' = [got EXCEPT ![d] = Append(@, frm[r])]
        BY <1>7, <3>2 DEF WriteFreed
      <4>2. QED
        BY <2>1, <4>1, TypedSent DEF TypeOK
    <3>3. QED
      BY <3>1, <3>2
  <2>6. TypeOK'
    BY <2>1, <2>3, <2>4, <2>5 DEF TypeOK, serverVars, deviceVars
  <2>7. QED
    BY <2>1, <2>6 DEF Holds, Intact, serverVars
<1>8. QED
  BY <1>2, <1>3, <1>4, <1>5, <1>6, <1>7 DEF RecorderNext

LEMMA TypedStep == Typed /\ [Next]_vars => Typed'
<1> SUFFICES ASSUME Typed, [Next]_vars PROVE Typed'
  OBVIOUS
<1>1. CASE UNCHANGED vars
  BY <1>1 DEF Typed, TypeOK, Holds, Intact, vars, listVars, serverVars, recVars, clientVars,
     deviceVars, procVars
<1>2. QED
  BY <1>1, TypedServer, TypedOutside, TypedRecorder DEF Next

-------------------------------------------------------------------------------
(***************************************************************************)
(* The steps, as long as the list is intact.                               *)
(***************************************************************************)
LEMMA CaptureInvInit == Init => CaptureInv
<1> SUFFICES ASSUME Init PROVE CaptureInv
  OBVIOUS
<1>1. Typed
  BY TypedInit
<1>2. Sockets
  BY DEF Init, Sockets, IsInjective, Listed, Queued
<1>3. Passes /\ Frames /\ FrameOnce /\ NobodyMissed /\ Survivor
  BY NamesAssumption
     DEF Init, Passes, Frames, FrameOnce, NobodyMissed, Survivor, Holds, IsInjective
<1>4. QED
  BY <1>1, <1>2, <1>3 DEF CaptureInv

QuietVars == <<lock, client_list, recVars, backlog, link, got, taken, client_sock>>

\* What the device, the signal and the readers do disturbs nothing.
LEMMA QuietKeeps ==
  ASSUME CaptureInv, proc = "running",
         \/ ServerInitDevice \/ ServerListen \/ ServerCheck \/ ServerAcceptFails
         \/ Capture \/ CleanupSetsStop \/ CleanupDisables
         \/ \E c \in Clients : Receive(c)
  PROVE  CaptureInv'
<1> USE DEF CaptureInv, Typed
<1>1. /\ UNCHANGED QuietVars
      /\ spc' = spc \/ (spc \notin {"register", "spawn"} /\ spc' \notin {"register", "spawn"})
      /\ spc' \in ServerPCs
      /\ faults' = faults \/ Fail
      /\ device' = device \/ device' = "off" \/ spc = "start"
      /\ captured' = captured \/ (captured < MaxFrames /\ captured' = captured + 1)
  BY DEF ServerInitDevice, ServerListen, ServerCheck, ServerAcceptFails, Capture,
         CleanupSetsStop, CleanupDisables, Receive, QuietVars, listVars, recVars, clientVars,
         serverVars, deviceVars, procVars, ServerGoes, ServerPCs, TypeOK
<1>2. Typed'
  BY TypedStep DEF Next, ServerNext, RecorderNext
<1>3. Sockets'
  <2>1. spc' = "start" => spc = "start"
    BY DEF ServerInitDevice, ServerListen, ServerCheck, ServerAcceptFails, Capture,
           CleanupSetsStop, CleanupDisables, Receive, serverVars, ServerGoes
  <2>2. QED
    BY <1>1, <2>1 DEF Sockets, Listed, Queued, QuietVars, recVars
<1>4. Passes' /\ Frames' /\ FrameOnce' /\ NobodyMissed'
  BY <1>1 DEF Passes, Frames, FrameOnce, NobodyMissed, Holds, QuietVars, recVars
<1>5. Survivor'
  <2>1. CASE client_list # <<>>
    BY <2>1, <1>1, BoundsAssumption DEF Survivor, Sockets, Live, QuietVars, recVars, Fail, TypeOK
  <2>2. CASE client_list = <<>>
    BY <2>2, <1>1 DEF Survivor, QuietVars
  <2>3. QED
    BY <2>1, <2>2
<1>6. QED
  BY <1>2, <1>3, <1>4, <1>5

\* What record threads have and what connections were sent.
FrameVars == <<lock, recVars, got, taken>>

\* Frames and passes of threads that do not move, over the same list.
LEMMA FramesKept ==
  ASSUME CaptureInv, UNCHANGED <<FrameVars, client_list>>
  PROVE  Passes' /\ Frames' /\ FrameOnce' /\ NobodyMissed'
  BY DEF CaptureInv, FrameVars, Passes, Frames, FrameOnce, NobodyMissed, Holds, recVars

\* A client connects: it was away.
LEMMA ConnectKeeps ==
  ASSUME CaptureInv, proc = "running", NEW c \in Clients, Connect(c)
  PROVE  CaptureInv'
<1> USE DEF CaptureInv, Typed
<1>1. /\ UNCHANGED <<FrameVars, listVars, serverVars, deviceVars, procVars, g_stop_thread, inbox>>
      /\ link[c] = "away" /\ link' = [link EXCEPT ![c] = "connected"]
      /\ backlog' = Append(backlog, c) /\ backlog \in Seq(Clients)
      /\ spc # "start"
  BY DEF Connect, FrameVars, listVars, deviceVars, TypeOK
<1>2. /\ backlog' \in Seq(Clients) /\ IsInjective(backlog')
      /\ \A d : Queued(d)' <=> Queued(d) \/ d = c
  <2>1. ToSet(backlog') = ToSet(backlog) \cup {c} /\ backlog' \in Seq(Clients)
        /\ (c \notin ToSet(backlog) => IsInjective(backlog'))
    BY <1>1, Appended DEF Sockets
  <2>2. \A d : (Queued(d) <=> d \in ToSet(backlog)) /\ (Queued(d)' <=> d \in ToSet(backlog'))
    BY DEF Queued, ToSet
  <2>3. QED
    BY <1>1, <2>1, <2>2 DEF Sockets
<1>3. Typed'
  BY TypedStep DEF Next, ServerNext, RecorderNext
<1>4. Sockets'
  <2>1. \A d : Listed(d)' <=> Listed(d)
    BY <1>1 DEF Listed, listVars
  <2>2. link' \in [Clients -> {"away", "connected", "gone"}] /\ link'[c] = "connected"
        /\ \A d \in Clients \ {c} : link'[d] = link[d]
    BY <1>1 DEF TypeOK
  <2>3. c # client_sock
    BY <1>1, NamesAssumption DEF Sockets
  <2>4. QED
    BY <1>1, <1>2, <2>1, <2>2, <2>3
       DEF Sockets, FrameVars, recVars, listVars, serverVars
<1>5. Survivor'
  BY <1>1 DEF Survivor, Live, FrameVars, recVars, listVars, serverVars, deviceVars, procVars
<1>6. QED
  BY <1>1, <1>3, <1>4, <1>5, FramesKept DEF listVars

\* A client goes away for good.
LEMMA DisconnectKeeps ==
  ASSUME CaptureInv, proc = "running", NEW c \in Clients, Disconnect(c)
  PROVE  CaptureInv'
<1> USE DEF CaptureInv, Typed
<1>1. /\ UNCHANGED <<FrameVars, listVars, serverVars, deviceVars, procVars, g_stop_thread, backlog>>
      /\ link' = [link EXCEPT ![c] = "gone"] /\ inbox' = [inbox EXCEPT ![c] = 0]
  BY DEF Disconnect, FrameVars, listVars, deviceVars
<1>2. Typed'
  BY TypedStep DEF Next, ServerNext, RecorderNext
<1>3. Sockets'
  BY <1>1
     DEF Sockets, FrameVars, recVars, listVars, serverVars, TypeOK, Listed, Queued
<1>4. Survivor'
  BY <1>1 DEF Survivor, Live, FrameVars, recVars, listVars, serverVars, deviceVars, procVars
<1>5. QED
  BY <1>1, <1>2, <1>3, <1>4, FramesKept DEF listVars

\* accept takes the connection that has waited longest.
LEMMA AcceptKeeps ==
  ASSUME CaptureInv, proc = "running", ServerAccept
  PROVE  CaptureInv'
<1> USE DEF CaptureInv, Typed
<1>1. /\ UNCHANGED <<FrameVars, client_list, dangling, g_stop_thread, link, inbox, deviceVars,
                     procVars>>
      /\ spc' = "register" /\ spc = "accept"
      /\ client_sock' = Head(backlog) /\ backlog' = Tail(backlog)
      /\ backlog # <<>> /\ backlog \in Seq(Clients)
      /\ open' = open \cup {Head(backlog)}
  BY DEF ServerAccept, FrameVars, TypeOK, ServerGoes, deviceVars
<1>2. /\ Head(backlog) \in Clients /\ Queued(Head(backlog))
      /\ backlog' \in Seq(Clients) /\ IsInjective(backlog')
      /\ \A d : Queued(d)' => Queued(d) /\ d # Head(backlog)
  <2>1. /\ Head(backlog) \in Clients /\ backlog' \in Seq(Clients)
        /\ Len(backlog') = Len(backlog) - 1
        /\ \A i \in 1 .. Len(backlog') : backlog'[i] = backlog[i + 1]
    BY <1>1, HeadTailProperties
  <2>2. /\ DOMAIN backlog = 1 .. Len(backlog) /\ Len(backlog) \in Nat /\ Len(backlog) # 0
        /\ DOMAIN backlog' = 1 .. Len(backlog')
        /\ Head(backlog) = backlog[1]
    BY <1>1, <2>1, LenProperties, EmptySeq
  <2>3. IsInjective(backlog')
    BY <2>1, <2>2 DEF Sockets, IsInjective
  <2>4. Queued(Head(backlog))
    BY <2>2 DEF Queued
  <2>5. ASSUME NEW d, Queued(d)' PROVE Queued(d) /\ d # Head(backlog)
    <3>1. PICK i \in DOMAIN backlog' : backlog'[i] = d
      BY <2>5 DEF Queued
    <3>2. i + 1 \in DOMAIN backlog /\ backlog[i + 1] = d /\ i + 1 # 1 /\ 1 \in DOMAIN backlog
      BY <3>1, <2>1, <2>2
    <3>3. QED
      BY <3>2, <2>2 DEF Queued, Sockets, IsInjective
  <2>6. QED
    BY <2>1, <2>3, <2>4, <2>5
<1>3. Typed'
  BY TypedStep DEF Next, ServerNext, RecorderNext
<1>4. Sockets'
  <2>1. \A d : Listed(d)' <=> Listed(d)
    BY <1>1 DEF Listed
  <2>2. QED
    BY <1>1, <1>2, <2>1 DEF Sockets, FrameVars, recVars
<1>5. Survivor'
  BY <1>1 DEF Survivor, Live, FrameVars, recVars, deviceVars, procVars
<1>6. QED
  BY <1>1, <1>3, <1>4, <1>5, FramesKept

\* The new node becomes the head, while nobody walks over the list.
LEMMA RegisterKeeps ==
  ASSUME CaptureInv, proc = "running", ServerRegister
  PROVE  CaptureInv'
<1> USE DEF CaptureInv, Typed
<1>1. /\ UNCHANGED <<FrameVars, dangling, open, g_stop_thread, client_sock, clientVars,
                     deviceVars, procVars>>
      /\ UNCHANGED <<backlog, link, rpc>>
      /\ lock = Nobody /\ spc = "register" /\ spc' = "spawn"
      /\ client_list' = <<client_sock>> \o client_list
      /\ client_sock \in Clients /\ client_list \in Seq(Clients)
  BY DEF ServerRegister, FrameVars, TypeOK, ServerGoes, deviceVars, clientVars, recVars, Sockets
<1>2. /\ client_list' \in Seq(Clients) /\ IsInjective(client_list')
      /\ \A d : Listed(d)' => Listed(d) \/ d = client_sock
  <2>1. /\ client_list' \in Seq(Clients) /\ Len(client_list') = Len(client_list) + 1
        /\ client_list'[1] = client_sock
        /\ \A j \in 2 .. Len(client_list) + 1 : client_list'[j] = client_list[j - 1]
    BY <1>1, Added
  <2>2. /\ DOMAIN client_list = 1 .. Len(client_list) /\ Len(client_list) \in Nat
        /\ DOMAIN client_list' = 1 .. Len(client_list')
    BY <1>1, <2>1, LenProperties
  <2>3. \A i \in DOMAIN client_list : client_list[i] # client_sock
    BY <1>1 DEF Sockets, Listed
  <2>4. \A j \in DOMAIN client_list' :
            \/ j = 1 /\ client_list'[j] = client_sock
            \/ /\ j # 1 /\ j - 1 \in DOMAIN client_list
               /\ client_list'[j] = client_list[j - 1]
    BY <2>1, <2>2
  <2>5. IsInjective(client_list')
    <3> SUFFICES ASSUME NEW i \in DOMAIN client_list', NEW j \in DOMAIN client_list',
                        client_list'[i] = client_list'[j]
                 PROVE  i = j
      BY DEF IsInjective
    <3>1. CASE i = 1 \/ j = 1
      BY <3>1, <2>3, <2>4
    <3>2. CASE i # 1 /\ j # 1
      <4>1. client_list[i - 1] = client_list[j - 1] /\ i - 1 \in DOMAIN client_list
            /\ j - 1 \in DOMAIN client_list
        BY <3>2, <2>4
      <4>2. i - 1 = j - 1
        BY <4>1 DEF Sockets, IsInjective
      <4>3. QED
        BY <4>2, <2>2
    <3>3. QED
      BY <3>1, <3>2
  <2>6. QED
    BY <2>1, <2>4, <2>5 DEF Listed
<1>3. Typed'
  BY TypedStep DEF Next, ServerNext, RecorderNext
<1>4. Sockets'
  <2>1. \A d : Queued(d)' <=> Queued(d)
    BY <1>1 DEF Queued
  <2>2. QED
    BY <1>1, <1>2, <2>1 DEF Sockets
<1>5. Passes' /\ Frames' /\ FrameOnce' /\ NobodyMissed'
  <2>1. \A r \in Clients : rpc[r] # "write"
    BY <1>1, NamesAssumption DEF Passes
  <2>2. QED
    BY <1>1, <2>1 DEF FrameVars, Passes, Frames, FrameOnce, NobodyMissed, Holds, recVars
<1>6. Survivor'
  BY <1>1 DEF Survivor
<1>7. QED
  BY <1>3, <1>4, <1>5, <1>6

\* The connection is not served: no memory for the node, or no thread.
LEMMA ServerFailsKeeps ==
  ASSUME CaptureInv, proc = "running", ServerRegisterFails \/ ServerSpawnFails
  PROVE  CaptureInv'
<1> USE DEF CaptureInv, Typed
<1>1. /\ UNCHANGED <<FrameVars, client_list, g_stop_thread, clientVars, deviceVars>>
      /\ UNCHANGED <<backlog, link, rpc>>
      /\ spc' = "check" /\ client_sock' = NoClient
      /\ client_sock \in Clients
      /\ open' = open \ {client_sock} /\ dangling' \in {dangling, dangling \cup {client_sock}}
      /\ proc' \in {"running", "crashed"}
      /\ Fail
  BY DEF ServerRegisterFails, ServerSpawnFails, FrameVars, ServerGoes, deviceVars, clientVars,
         recVars, Sockets
<1>2. faults' \in 0 .. MaxFaults /\ faults' # 0
  BY <1>1, BoundsAssumption DEF TypeOK, Fail, CanFail
<1>3. Typed'
  BY TypedStep DEF Next, ServerNext, RecorderNext
<1>4. Sockets'
  BY <1>1, NamesAssumption DEF Sockets, Listed, Queued
<1>5. Survivor'
  BY <1>2 DEF Survivor
<1>6. QED
  BY <1>1, <1>3, <1>4, <1>5, FramesKept

\* One more record thread.
LEMMA SpawnKeeps ==
  ASSUME CaptureInv, proc = "running", ServerSpawn
  PROVE  CaptureInv'
<1> USE DEF CaptureInv, Typed
<1>1. /\ UNCHANGED <<listVars, g_stop_thread, frm, current, clientVars, deviceVars, procVars>>
      /\ UNCHANGED <<lock, client_list, backlog, link, got, taken>>
      /\ spc' = "check" /\ client_sock' = NoClient
      /\ client_sock \in Clients /\ rpc[client_sock] = "none"
      /\ rpc' = [rpc EXCEPT ![client_sock] = "poll"]
      /\ link[client_sock] # "away" /\ ~Queued(client_sock)
  BY DEF ServerSpawn, ServerGoes, deviceVars, clientVars, listVars, Sockets
<1>2. /\ rpc' \in [Clients -> RecorderPCs] /\ rpc'[client_sock] = "poll"
      /\ \A r \in Clients \ {client_sock} : rpc'[r] = rpc[r]
  BY <1>1 DEF TypeOK, RecorderPCs
<1>3. Typed'
  BY TypedStep DEF Next, ServerNext, RecorderNext
<1>4. Sockets'
  <2>1. \A d : (Queued(d)' <=> Queued(d)) /\ (Listed(d)' <=> Listed(d))
    BY <1>1 DEF Queued, Listed
  <2>2. QED
    BY <1>1, <1>2, <2>1, NamesAssumption DEF Sockets
<1>5. Passes' /\ Frames' /\ FrameOnce' /\ NobodyMissed'
  BY <1>1, <1>2 DEF Passes, Frames, FrameOnce, NobodyMissed, Holds
<1>6. Survivor'
  BY <1>1, <1>2 DEF Survivor, Live
<1>7. QED
  BY <1>3, <1>4, <1>5, <1>6

\* A record thread moves from one place to another; it has been started before.
LEMMA RecorderMoves ==
  ASSUME CaptureInv, NEW r \in Clients, NEW from, NEW to, RecorderGoes(r, from, to),
         from # "none", to \in RecorderPCs \ {"none"},
         UNCHANGED <<client_list, serverVars, backlog, link>>
  PROVE  /\ rpc' \in [Clients -> RecorderPCs] /\ rpc[r] = from /\ rpc'[r] = to
         /\ \A s \in Clients \ {r} : rpc'[s] = rpc[s]
         /\ Sockets'
<1> USE DEF CaptureInv, Typed
<1>1. /\ rpc' \in [Clients -> RecorderPCs] /\ rpc[r] = from /\ rpc'[r] = to
      /\ \A s \in Clients \ {r} : rpc'[s] = rpc[s]
  BY DEF RecorderGoes, TypeOK
<1>2. \A s \in Clients : rpc'[s] = "none" <=> rpc[s] = "none"
  BY <1>1
<1>3. \A d : (Queued(d)' <=> Queued(d)) /\ (Listed(d)' <=> Listed(d))
  BY DEF Queued, Listed
<1>4. Sockets'
  BY <1>2, <1>3 DEF Sockets, serverVars
<1>5. QED
  BY <1>1, <1>4

\* Poll, and the ends of a record thread.
LEMMA PollKeeps ==
  ASSUME CaptureInv, proc = "running", NEW r \in Clients,
         Poll(r) \/ PollFails(r) \/ GetFrameFails(r)
  PROVE  CaptureInv'
<1> USE DEF CaptureInv, Typed
<1>1. /\ UNCHANGED <<listVars, g_stop_thread, serverVars, frm, current, clientVars, deviceVars,
                     proc>>
      /\ UNCHANGED <<lock, client_list, backlog, link, got, taken, device, captured, spc>>
      /\ faults' = faults \/ Fail
      /\ rpc[r] \in {"poll", "get"} /\ rpc'[r] \in {"get", "dead"}
      /\ \E from \in {"poll", "get"}, to \in {"get", "dead"} : RecorderGoes(r, from, to)
  BY DEF Poll, PollFails, GetFrameFails, RecorderGoes, listVars, clientVars, deviceVars,
         procVars, serverVars, TypeOK
<1>2. faults' \in 0 .. MaxFaults /\ (faults' = 0 => faults = 0)
  <2>1. faults \in 0 .. MaxFaults
    BY DEF TypeOK
  <2>2. QED
    BY <1>1, <2>1, BoundsAssumption DEF Fail, CanFail
<1>3. /\ rpc' \in [Clients -> RecorderPCs]
      /\ \A s \in Clients \ {r} : rpc'[s] = rpc[s]
      /\ Sockets'
  BY <1>1, RecorderMoves DEF RecorderPCs
<1>4. Typed'
  BY TypedStep DEF Next, ServerNext, RecorderNext
<1>5. Passes' /\ Frames' /\ FrameOnce' /\ NobodyMissed'
  BY <1>1, <1>3 DEF Passes, Frames, FrameOnce, NobodyMissed, Holds
<1>6. Survivor'
  <2> SUFFICES ASSUME client_list # <<>>, faults' = 0, device = "on", spc # "spawn"
               PROVE  \E s \in Clients : Live(s)' /\ (rpc'[s] = "get" => taken < captured)
    BY <1>1 DEF Survivor
  <2>1. PICK s \in Clients : Live(s) /\ (rpc[s] = "get" => taken < captured)
    BY <1>2 DEF Survivor
  <2>2. CASE s # r
    BY <2>1, <2>2, <1>3 DEF Live
  <2>3. CASE s = r
    <3>1. faults' = faults /\ ~Fail
      BY <1>1, <1>2, BoundsAssumption DEF Fail, TypeOK
    <3>2. Poll(r)
      BY <2>1, <2>3, <3>1 DEF PollFails, GetFrameFails, RecorderGoes
    <3>3. QED
      BY <3>2, RecorderMoves DEF Poll, RecorderGoes, Live, TypeOK
  <2>4. QED
    BY <2>2, <2>3
<1>7. QED
  BY <1>3, <1>4, <1>5, <1>6

\* GetFrame gives a frame nobody has had.
LEMMA GetFrameKeeps ==
  ASSUME CaptureInv, proc = "running", NEW r \in Clients, GetFrame(r)
  PROVE  CaptureInv'
<1> USE DEF CaptureInv, Typed
<1>1. /\ UNCHANGED <<listVars, g_stop_thread, serverVars, current, clientVars, procVars>>
      /\ UNCHANGED <<lock, client_list, backlog, link, got, device, captured>>
      /\ RecorderGoes(r, "get", "lock")
      /\ taken < captured /\ taken' = taken + 1 /\ frm' = [frm EXCEPT ![r] = taken + 1]
  BY DEF GetFrame, listVars, clientVars
<1>2. /\ rpc' \in [Clients -> RecorderPCs] /\ rpc[r] = "get" /\ rpc'[r] = "lock"
      /\ \A s \in Clients \ {r} : rpc'[s] = rpc[s]
      /\ Sockets'
  BY <1>1, RecorderMoves DEF RecorderPCs
<1>3. /\ taken \in Nat /\ taken' \in 0 .. MaxFrames /\ taken' = taken + 1
      /\ frm' \in [Clients -> 0 .. MaxFrames]
      /\ frm'[r] = taken + 1 /\ \A s \in Clients \ {r} : frm'[s] = frm[s]
  <2>1. taken \in 0 .. MaxFrames /\ captured \in 0 .. MaxFrames
    BY DEF TypeOK
  <2>2. taken + 1 \in 0 .. MaxFrames /\ taken \in Nat
    BY <1>1, <2>1, BoundsAssumption
  <2>3. QED
    BY <1>1, <2>2 DEF TypeOK
<1>4. Typed'
  BY TypedStep DEF Next, ServerNext, RecorderNext
<1>5. Passes' /\ FrameOnce'
  BY <1>1, <1>2 DEF Passes, FrameOnce
<1>6. NobodyMissed'
  BY <1>1, <1>2, <1>3 DEF NobodyMissed
<1>7. Frames'
  <2>1. \A s \in Clients \ {r} :
            /\ (Holds(s)' <=> Holds(s)) /\ frm'[s] = frm[s]
            /\ Holds(s) => frm[s] \in 1 .. taken
    BY <1>2, <1>3 DEF Holds, Frames
  <2>2. \A s \in Clients : Holds(s)' => frm'[s] \in 1 .. taken'
    BY <2>1, <1>3
  <2>3. \A s, t \in Clients : s # t /\ Holds(s)' /\ Holds(t)' => frm'[s] # frm'[t]
    BY <2>1, <1>3 DEF Frames
  <2>4. \A c \in Clients : \A i \in DOMAIN got[c] : got[c][i] \in Nat /\ got[c][i] <= taken
    <3> SUFFICES ASSUME NEW c \in Clients, NEW i \in DOMAIN got[c]
                 PROVE  got[c][i] \in Nat /\ got[c][i] <= taken
      OBVIOUS
    <3>1. got[c] \in Seq(1 .. MaxFrames)
      BY DEF TypeOK
    <3>2. got[c][i] \in 1 .. MaxFrames
      BY <3>1, ElementOfSeq, LenProperties
    <3>3. QED
      BY <3>2, BoundsAssumption DEF Frames
  <2>5. \A c \in Clients : \A i \in DOMAIN got'[c] : got'[c][i] <= taken'
    BY <2>4, <1>1, <1>3
  <2>6. \A s, c \in Clients : rpc'[s] = "lock" => frm'[s] \notin ToSet(got'[c])
    <3>1. \A c \in Clients : taken + 1 \notin ToSet(got[c])
      BY <2>4, <1>3 DEF ToSet
    <3>2. QED
      BY <3>1, <1>1, <1>2, <1>3 DEF Frames
  <2>7. \A s \in Clients : rpc'[s] = "write" =>
            \A i \in DOMAIN client_list' :
                i >= current'[s] => frm'[s] \notin ToSet(got'[client_list'[i]])
    BY <1>1, <1>2, <1>3 DEF Frames
  <2>8. QED
    BY <2>2, <2>3, <2>5, <2>6, <2>7 DEF Frames
<1>8. Survivor'
  BY <1>2 DEF Survivor, Live
<1>9. QED
  BY <1>2, <1>4, <1>5, <1>6, <1>7, <1>8

\* The lock, taken and given back, and the frame with it.
LEMMA LockKeeps ==
  ASSUME CaptureInv, proc = "running", NEW r \in Clients,
         RecorderLock(r) \/ RecorderUnlock(r) \/ ReleaseFrame(r)
  PROVE  CaptureInv'
<1> USE DEF CaptureInv, Typed
<1>1. /\ UNCHANGED <<client_list, dangling, open, g_stop_thread, serverVars, clientVars,
                     deviceVars, procVars>>
      /\ UNCHANGED <<backlog, link, got, taken, captured, device, faults, spc>>
  BY DEF RecorderLock, RecorderUnlock, ReleaseFrame, clientVars, deviceVars, procVars,
         listVars, serverVars
<1>2. /\ rpc' \in [Clients -> RecorderPCs]
      /\ \A s \in Clients \ {r} : rpc'[s] = rpc[s]
      /\ rpc'[r] \in {"write", "release", "poll"}
      /\ Sockets'
  BY <1>1, RecorderMoves DEF RecorderPCs, RecorderLock, RecorderUnlock, ReleaseFrame
<1>3. Survivor'
  BY <1>1, <1>2 DEF Survivor, Live
<1>4. /\ \A i \in DOMAIN client_list : i >= 1 /\ ~(i < 1)
      /\ frm \in [Clients -> 0 .. MaxFrames] /\ 0 \in 0 .. MaxFrames
      /\ current \in [Clients -> Nat] /\ lock \in Clients \cup {Nobody}
  <2>1. \A i \in DOMAIN client_list : i >= 1 /\ ~(i < 1)
    BY ListTyped
  <2>2. 0 \in 0 .. MaxFrames
    BY BoundsAssumption
  <2>3. QED
    BY <2>1, <2>2 DEF TypeOK
<1>5. Typed'
  BY TypedStep DEF Next, RecorderNext
<1>6. FrameOnce'
  BY <1>1 DEF FrameOnce
<1>7. CASE RecorderLock(r)
  <2>1. /\ lock = Nobody /\ lock' = r /\ rpc[r] = "lock" /\ rpc'[r] = "write" /\ frm' = frm
        /\ current'[r] = 1
        /\ \A s \in Clients \ {r} : current'[s] = current[s]
    BY <1>4, <1>7, RecorderMoves DEF RecorderLock, RecorderGoes, TypeOK
  <2>2. \A s \in Clients : rpc[s] # "write"
    BY <2>1, NamesAssumption DEF Passes
  <2>3. Passes'
    BY <2>1, <2>2, <1>2 DEF Passes
  <2>4. Frames'
    <3>1. \A s \in Clients : Holds(s)' <=> Holds(s)
      BY <2>1, <1>2 DEF Holds
    <3>2. \A i \in DOMAIN client_list : client_list[i] \in Clients
      BY ListTyped
    <3>3. QED
      BY <1>1, <1>2, <2>1, <2>2, <3>1, <3>2 DEF Frames
  <2>5. NobodyMissed'
    BY <1>1, <1>2, <1>4, <2>1, <2>2 DEF NobodyMissed
  <2>6. QED
    BY <1>2, <1>3, <1>4, <1>5, <1>6, <2>1, <2>3, <2>4, <2>5
<1>8. CASE RecorderUnlock(r)
  <2>1. /\ lock' = Nobody /\ rpc[r] = "write" /\ rpc'[r] = "release" /\ frm' = frm
        /\ \A s \in Clients \ {r} : current'[s] = current[s]
    BY <1>4, <1>8 DEF RecorderUnlock, RecorderGoes, TypeOK
  <2>2. \A s \in Clients : rpc'[s] # "write"
    BY <2>1, <1>2 DEF Passes
  <2>3. Passes' /\ NobodyMissed'
    BY <2>1, <2>2, NamesAssumption DEF Passes, NobodyMissed
  <2>4. Frames'
    <3>1. \A s \in Clients : /\ Holds(s)' <=> Holds(s)
                             /\ rpc'[s] = "lock" => rpc[s] = "lock"
      BY <2>1, <1>2 DEF Holds
    <3>2. QED
      BY <1>1, <2>1, <2>2, <3>1 DEF Frames
  <2>5. QED
    BY <1>2, <1>3, <1>4, <1>5, <1>6, <2>1, <2>3, <2>4
<1>9. CASE ReleaseFrame(r)
  <2>1. /\ lock' = lock /\ rpc[r] = "release" /\ rpc'[r] = "poll" /\ current' = current
        /\ \A s \in Clients \ {r} : frm'[s] = frm[s]
    BY <1>4, <1>9 DEF ReleaseFrame, RecorderGoes, TypeOK, listVars
  <2>2. \A s \in Clients : /\ Holds(s)' => Holds(s) /\ s # r
                           /\ rpc'[s] = "write" <=> rpc[s] = "write"
                           /\ rpc'[s] = "lock" <=> rpc[s] = "lock"
    BY <2>1, <1>2 DEF Holds
  <2>3. Passes'
    BY <2>1, <2>2 DEF Passes
  <2>4. NobodyMissed'
    BY <1>1, <2>1, <2>2 DEF NobodyMissed
  <2>5. Frames'
    BY <1>1, <2>1, <2>2 DEF Frames
  <2>6. QED
    BY <1>2, <1>3, <1>4, <1>5, <1>6, <2>1, <2>3, <2>4, <2>5
<1>10. QED
  BY <1>7, <1>8, <1>9

\* write() sends the frame to a connection that has not had it.
LEMMA WriteKeeps ==
  ASSUME CaptureInv, proc = "running", NEW r \in Clients, NEW c \in Clients, Write(r, c)
  PROVE  CaptureInv'
<1> USE DEF CaptureInv, Typed
<1>1. /\ UNCHANGED <<listVars, g_stop_thread, serverVars, rpc, frm, backlog, link, deviceVars,
                     procVars>>
      /\ UNCHANGED <<lock, client_list, taken, device, captured, spc, faults>>
      /\ rpc[r] = "write" /\ current[r] \in DOMAIN client_list /\ c = client_list[current[r]]
      /\ inbox[c] < SockBuf /\ inbox' = [inbox EXCEPT ![c] = @ + 1]
      /\ got' = [got EXCEPT ![c] = Append(@, frm[r])]
      /\ current' = [current EXCEPT ![r] = @ + 1]
  BY DEF Write, At, listVars, serverVars, deviceVars, procVars
<1>2. /\ frm[r] \in 1 .. taken /\ frm[r] \in 1 .. MaxFrames /\ taken \in Nat
      /\ frm[r] \notin ToSet(got[c])
      /\ current[r] \in Nat /\ current[r] >= 1
  <2>1. frm[r] \in 1 .. taken /\ taken \in 0 .. MaxFrames /\ current[r] \in Nat
    BY <1>1 DEF Frames, Holds, TypeOK
  <2>2. frm[r] \notin ToSet(got[c])
    BY <1>1, <2>1 DEF Frames
  <2>3. QED
    BY <1>1, <2>1, <2>2, BoundsAssumption DEF Passes
<1>3. /\ got' \in [Clients -> Seq(1 .. MaxFrames)]
      /\ ToSet(got'[c]) = ToSet(got[c]) \cup {frm[r]} /\ IsInjective(got'[c])
      /\ \A d \in Clients \ {c} : got'[d] = got[d]
  <2>1. got[c] \in Seq(1 .. MaxFrames) /\ got'[c] = Append(got[c], frm[r])
    BY <1>1 DEF TypeOK
  <2>2. /\ Append(got[c], frm[r]) \in Seq(1 .. MaxFrames)
        /\ ToSet(Append(got[c], frm[r])) = ToSet(got[c]) \cup {frm[r]}
        /\ IsInjective(Append(got[c], frm[r]))
    <3>1. IsInjective(got[c])
      BY DEF FrameOnce
    <3>2. got[c] \in Seq(1 .. MaxFrames) /\ frm[r] \in 1 .. MaxFrames /\ frm[r] \notin ToSet(got[c])
      BY <2>1, <1>2
    <3> DEFINE S == 1 .. MaxFrames
    <3>3. got[c] \in Seq(S) /\ frm[r] \in S
      BY <3>2
    <3> HIDE DEF S
    <3>4. /\ Append(got[c], frm[r]) \in Seq(S)
          /\ ToSet(Append(got[c], frm[r])) = ToSet(got[c]) \cup {frm[r]}
          /\ IsInjective(Append(got[c], frm[r]))
      BY <3>1, <3>2, <3>3, Appended
    <3>5. QED
      BY <3>4 DEF S
  <2>3. QED
    BY <1>1, <2>1, <2>2 DEF TypeOK
<1>4. /\ current' \in [Clients -> Nat] /\ current'[r] = current[r] + 1
      /\ \A s \in Clients \ {r} : current'[s] = current[s] /\ rpc[s] # "write"
  <2>1. current \in [Clients -> Nat] /\ current[r] + 1 \in Nat
    <3>1. current \in [Clients -> Nat]
      BY DEF TypeOK
    <3>2. QED
      BY <3>1
  <2>2. \A s \in Clients \ {r} : rpc[s] # "write"
    BY <1>1 DEF Passes
  <2>3. QED
    BY <1>1, <2>1, <2>2
<1>5. Typed'
  BY TypedStep DEF Next, ServerNext, RecorderNext
<1>6. Sockets'
  BY <1>1 DEF Sockets, Listed, Queued, serverVars
<1>7. Passes'
  BY <1>1, <1>2, <1>4 DEF Passes
<1>8. FrameOnce'
  BY <1>3 DEF FrameOnce
<1>9. \A i \in DOMAIN client_list : i # current[r] => client_list[i] # c
  BY <1>1 DEF Sockets, IsInjective
<1>10. NobodyMissed'
  <2> SUFFICES ASSUME NEW i \in DOMAIN client_list, i < current[r] + 1
               PROVE  frm[r] \in ToSet(got'[client_list[i]])
    BY <1>1, <1>4 DEF NobodyMissed
  <2>1. client_list[i] \in Clients /\ i \in Nat
    BY ListTyped
  <2>2. CASE i = current[r]
    BY <2>2, <1>1, <1>3
  <2>3. CASE i < current[r]
    BY <2>1, <2>3, <1>1, <1>3, <1>9, <1>2 DEF NobodyMissed
  <2>4. QED
    BY <2>1, <2>2, <2>3, <1>2
<1>11. Frames'
  <2>1. \A s \in Clients : Holds(s)' <=> Holds(s)
    BY <1>1 DEF Holds
  <2>2. \A d \in Clients : \A i \in DOMAIN got'[d] : got'[d][i] <= taken'
    <3>1. \A d \in Clients : \A i \in DOMAIN got[d] : got[d][i] <= taken
      BY DEF Frames
    <3>2. \A i \in DOMAIN got'[c] : got'[c][i] = frm[r] \/ \E j \in DOMAIN got[c] :
                                                           got'[c][i] = got[c][j]
      BY <1>3 DEF ToSet
    <3>3. QED
      BY <3>1, <3>2, <1>1, <1>2, <1>3
  <2>3. \A s, d \in Clients : rpc'[s] = "lock" => frm'[s] \notin ToSet(got'[d])
    <3>1. \A s \in Clients : rpc[s] = "lock" => frm[s] # frm[r]
      BY <1>1 DEF Frames, Holds
    <3>2. QED
      BY <3>1, <1>1, <1>3 DEF Frames
  <2>4. \A i \in DOMAIN client_list :
            i >= current[r] + 1 => frm[r] \notin ToSet(got'[client_list[i]])
    <3> SUFFICES ASSUME NEW i \in DOMAIN client_list, i >= current[r] + 1
                 PROVE  frm[r] \notin ToSet(got'[client_list[i]])
      OBVIOUS
    <3>1. client_list[i] \in Clients /\ i \in Nat /\ i # current[r] /\ i >= current[r]
      BY <1>2, ListTyped
    <3>2. QED
      BY <3>1, <1>1, <1>3, <1>9 DEF Frames
  <2>5. QED
    BY <1>1, <1>4, <2>1, <2>2, <2>3, <2>4 DEF Frames
<1>12. Survivor'
  BY <1>1 DEF Survivor, Live
<1>13. QED
  BY <1>5, <1>6, <1>7, <1>8, <1>10, <1>11, <1>12

\* A connection that cannot be written to is unlinked: the walk goes on with the next.
LEMMA UnlinkKeeps ==
  ASSUME CaptureInv, proc = "running", NEW r \in Clients, NEW c \in Clients,
         Unlink(r, c)
  PROVE  CaptureInv'
<1> USE DEF CaptureInv, Typed
<1>1. /\ UNCHANGED <<FrameVars, dangling, open, g_stop_thread, serverVars, clientVars,
                     deviceVars, proc>>
      /\ UNCHANGED <<lock, rpc, frm, current, backlog, link, got, taken, captured, device, spc>>
      /\ rpc[r] = "write" /\ current[r] \in DOMAIN client_list
      /\ client_list' = RemoveAt(client_list, current[r])
      /\ faults' = faults \/ Fail
  BY DEF Unlink, WriteFails, At, FrameVars, listVars, serverVars, clientVars, recVars,
         deviceVars
<1>2. /\ client_list' \in Seq(Clients)
      /\ \A j \in DOMAIN client_list' : \E i \in DOMAIN client_list :
             /\ client_list'[j] = client_list[i]
             /\ j < current[r] => i < current[r]
             /\ j >= current[r] => i >= current[r]
      /\ IsInjective(client_list')
      /\ client_list = <<>> => client_list' = <<>>
  <2> DEFINE k == current[r]
  <2>1. client_list \in Seq(Clients) /\ k \in DOMAIN client_list
    BY <1>1 DEF TypeOK
  <2>2. /\ Len(client_list) \in Nat /\ DOMAIN client_list = 1 .. Len(client_list)
        /\ k \in 1 .. Len(client_list) /\ client_list # <<>>
    BY <2>1, LenProperties, EmptySeq
  <2>3. /\ client_list' \in Seq(Clients) /\ Len(client_list') = Len(client_list) - 1
        /\ \A j \in 1 .. Len(client_list) - 1 :
               client_list'[j] = IF j < k THEN client_list[j] ELSE client_list[j + 1]
    BY <1>1, <2>1, Removed
  <2>4. DOMAIN client_list' = 1 .. Len(client_list) - 1
    BY <2>3, LenProperties
  <2> HIDE DEF k
  <2> DEFINE old(j) == IF j < k THEN j ELSE j + 1
  <2>5. \A j \in DOMAIN client_list' :
            /\ old(j) \in DOMAIN client_list /\ client_list'[j] = client_list[old(j)]
            /\ j < k => old(j) < k
            /\ j >= k => old(j) >= k
    BY <2>2, <2>3, <2>4
  <2>6. \A i, j \in DOMAIN client_list' : old(i) = old(j) => i = j
    BY <2>2, <2>4
  <2> HIDE DEF old
  <2>7. IsInjective(client_list')
    BY <2>5, <2>6 DEF Sockets, IsInjective
  <2>8. \A j \in DOMAIN client_list' : \E i \in DOMAIN client_list :
           /\ client_list'[j] = client_list[i]
           /\ j < k => i < k
           /\ j >= k => i >= k
    BY <2>5
  <2>9. QED
    BY <2>2, <2>3, <2>7, <2>8 DEF k
<1>3. Typed'
  BY TypedStep DEF Next, ServerNext, RecorderNext
<1>4. Sockets'
  <2>1. /\ \A d : Listed(d)' => Listed(d)
        /\ \A d : Queued(d)' <=> Queued(d)
    BY <1>1, <1>2 DEF Listed, Queued
  <2>2. QED
    BY <1>1, <1>2, <2>1 DEF Sockets, serverVars
<1>5. \A s \in Clients : rpc[s] = "write" => s = r
  BY <1>1 DEF Passes
<1>6. Passes' /\ FrameOnce'
  BY <1>1 DEF Passes, FrameOnce
<1>7. NobodyMissed'
  <2> SUFFICES ASSUME NEW j \in DOMAIN client_list', j < current[r]
               PROVE  frm[r] \in ToSet(got[client_list'[j]])
    BY <1>1, <1>5 DEF NobodyMissed
  <2>1. QED
    BY <1>1, <1>2 DEF NobodyMissed
<1>8. Frames'
  <2>1. \A s \in Clients : Holds(s)' <=> Holds(s)
    BY <1>1 DEF Holds
  <2>2. \A j \in DOMAIN client_list' :
            j >= current[r] => frm[r] \notin ToSet(got[client_list'[j]])
    BY <1>1, <1>2 DEF Frames
  <2>3. QED
    BY <1>1, <1>5, <2>1, <2>2 DEF Frames
<1>9. Survivor'
  <2>1. \A s \in Clients : Live(s)' <=> Live(s)
    BY <1>1 DEF Live
  <2>2. faults' = 0 => faults = 0
    BY <1>1, BoundsAssumption DEF TypeOK, Fail, CanFail
  <2>3. QED
    BY <1>1, <1>2, <2>1, <2>2 DEF Survivor
<1>10. QED
  BY <1>3, <1>4, <1>6, <1>7, <1>8, <1>9

\* A freed node is never taken for a good one again.
LEMMA DamageStays == [Next]_vars => dangling \subseteq dangling'
  BY DEF vars, Next, ServerNext, ServerInitDevice, ServerListen, ServerCheck, ServerAccept,
     ServerAcceptFails, ServerRegister, ServerRegisterFails, ServerSpawn, ServerSpawnFails,
     RecorderNext, Poll, PollFails, GetFrame, GetFrameFails, RecorderLock, RecorderUnlock,
     ReleaseFrame, Write, Unlink, WriteFreed, Connect, Receive, Disconnect, Capture,
     CleanupSetsStop, CleanupDisables, listVars

LEMMA CaptureInvStep == CaptureInv /\ Intact' /\ [Next]_vars => CaptureInv'
<1> SUFFICES ASSUME CaptureInv, Intact', [Next]_vars PROVE CaptureInv'
  OBVIOUS
<1>1. CASE UNCHANGED vars
  <2>1. /\ UNCHANGED <<lock, client_list, dangling, open, g_stop_thread, spc, client_sock, rpc,
                       frm, current>>
        /\ UNCHANGED <<backlog, link, inbox, got, device, captured, taken, proc, faults>>
    BY <1>1 DEF vars, listVars, serverVars, recVars, clientVars, deviceVars, procVars
  <2>2. Typed' /\ Passes' /\ Survivor'
    BY <2>1, TypedStep DEF CaptureInv, Passes, Survivor, Live
  <2>3. Frames' /\ FrameOnce' /\ NobodyMissed'
    BY <2>1 DEF CaptureInv, Frames, Holds, FrameOnce, NobodyMissed
  <2>4. Sockets'
    BY <2>1 DEF CaptureInv, Sockets, Listed, Queued
  <2>5. QED
    BY <2>2, <2>3, <2>4 DEF CaptureInv
<1>2. CASE proc = "running" /\ ServerNext
  BY <1>2, QuietKeeps, AcceptKeeps, RegisterKeeps, ServerFailsKeeps, SpawnKeeps DEF ServerNext
<1>3. ASSUME proc = "running", NEW r \in Clients, RecorderNext(r) PROVE CaptureInv'
  <2>1. ~\E c \in Clients : WriteFreed(r, c)
    BY DamageStays DEF WriteFreed, Intact
  <2>2. QED
    BY <1>3, <2>1, PollKeeps, GetFrameKeeps, LockKeeps, WriteKeeps, UnlinkKeeps DEF RecorderNext
<1>4. ASSUME proc = "running", NEW c \in Clients, Connect(c) \/ Receive(c) \/ Disconnect(c)
      PROVE  CaptureInv'
  BY <1>4, ConnectKeeps, QuietKeeps, DisconnectKeeps
<1>5. CASE proc = "running" /\ (Capture \/ CleanupSetsStop \/ CleanupDisables)
  BY <1>5, QuietKeeps
<1>6. QED
  BY <1>1, <1>2, <1>3, <1>4, <1>5 DEF Next

-------------------------------------------------------------------------------
(***************************************************************************)
(* The order of frames.                                                    *)
(***************************************************************************)
\* A connection that has not been listed yet has been sent nothing.
NothingYet ==
    \A c \in Clients :
        link[c] = "away" \/ Queued(c) \/ (spc = "register" /\ c = client_sock)
            => got[c] = <<>>

\* What the walk over the list sends is the last each connection was sent.
SentLast ==
    \A r, c \in Clients : rpc[r] = "write" =>
        \A i \in DOMAIN got[c] : got[c][i] = frm[r] => i = Len(got[c])

\* A thread that is alone holds the last frame that was taken.
HoldsNewest == Alone => \A r \in Clients : Holds(r) => frm[r] = taken

\* Ordered, made inductive.
OrderInv == NothingYet /\ SentLast /\ HoldsNewest /\ Ordered

LEMMA OrderInvInit == Init => OrderInv
  BY DEF Init, OrderInv, NothingYet, SentLast, HoldsNewest, Holds, Ordered, SameOrder,
         InOrderAlone

\* As long as nobody fetches, writes or begins a pass, the order stands.
LEMMA OrderKept ==
  ASSUME OrderInv, got' = got, taken' = taken,
         \A r \in Clients : /\ rpc'[r] = "none" => rpc[r] = "none"
                            /\ rpc'[r] = "write" => rpc[r] = "write" /\ frm'[r] = frm[r]
                            /\ Holds(r)' => Holds(r) /\ frm'[r] = frm[r],
         \A c \in Clients :
             link'[c] = "away" \/ Queued(c)' \/ (spc' = "register" /\ c = client_sock') =>
             link[c] = "away" \/ Queued(c) \/ (spc = "register" /\ c = client_sock)
  PROVE  OrderInv'
<1>1. Alone' => Alone
  BY DEF Alone
<1>2. NothingYet'
  BY DEF OrderInv, NothingYet
<1>3. SentLast'
  BY DEF OrderInv, SentLast
<1>4. HoldsNewest'
  BY <1>1 DEF OrderInv, HoldsNewest
<1>5. Ordered'
  BY <1>1 DEF OrderInv, Ordered, SameOrder, InOrderAlone
<1>6. QED
  BY <1>2, <1>3, <1>4, <1>5 DEF OrderInv

\* The server, the clients and the device.
LEMMA OrderQuiet ==
  ASSUME CaptureInv, OrderInv,
         \/ ServerNext \/ Capture \/ CleanupSetsStop \/ CleanupDisables
         \/ \E c \in Clients : Connect(c) \/ Receive(c) \/ Disconnect(c)
  PROVE  OrderInv'
<1>1. /\ UNCHANGED <<got, taken, frm>>
      /\ \A r \in Clients : rpc'[r] = rpc[r] \/ (rpc[r] = "none" /\ rpc'[r] = "poll")
  <2>1. CASE ServerSpawn
    <3>1. /\ client_sock \in Clients /\ rpc[client_sock] = "none"
          /\ rpc \in [Clients -> RecorderPCs]
      BY <2>1 DEF ServerSpawn, ServerGoes, CaptureInv, Sockets, Typed, TypeOK
    <3>2. QED
      BY <2>1, <3>1 DEF ServerSpawn, clientVars, deviceVars
  <2>2. CASE ~ServerSpawn
    <3>1. UNCHANGED <<recVars, got, taken>>
      BY <2>2
         DEF ServerNext, ServerInitDevice, ServerListen, ServerCheck, ServerAccept,
             ServerAcceptFails, ServerRegister, ServerRegisterFails, ServerSpawnFails,
             Capture, CleanupSetsStop, CleanupDisables, Connect, Receive, Disconnect,
             clientVars, deviceVars
    <3>2. QED
      BY <3>1 DEF recVars
  <2>3. QED
    BY <2>1, <2>2
<1>2. ASSUME NEW c \in Clients,
             link'[c] = "away" \/ Queued(c)' \/ (spc' = "register" /\ c = client_sock')
      PROVE  link[c] = "away" \/ Queued(c) \/ (spc = "register" /\ c = client_sock)
  <2>1. backlog \in Seq(Clients) /\ link \in [Clients -> {"away", "connected", "gone"}]
    BY DEF CaptureInv, Typed, TypeOK
  <2>2. CASE ServerAccept
    <3>1. /\ backlog # <<>> /\ link' = link /\ client_sock' = Head(backlog)
          /\ backlog' = Tail(backlog)
      BY <2>2 DEF ServerAccept
    <3>2. /\ Queued(Head(backlog))
          /\ Queued(c)' => Queued(c)
      <4>1. /\ 1 \in DOMAIN backlog /\ Head(backlog) = backlog[1]
            /\ \A i \in DOMAIN Tail(backlog) :
                   i + 1 \in DOMAIN backlog /\ Tail(backlog)[i] = backlog[i + 1]
        BY <2>1, <3>1, Tailed
      <4>2. QED
        BY <3>1, <4>1 DEF Queued
    <3>3. QED
      BY <1>2, <3>1, <3>2
  <2>3. ASSUME NEW d \in Clients, Connect(d)
        PROVE  link[c] = "away" \/ Queued(c) \/ (spc = "register" /\ c = client_sock)
    <3>1. /\ link[d] = "away" /\ UNCHANGED <<spc, client_sock>>
          /\ backlog' = Append(backlog, d)
          /\ link' = [link EXCEPT ![d] = "connected"]
      BY <2>3 DEF Connect, serverVars
    <3>2. Queued(c)' => Queued(c) \/ c = d
      <4>1. ToSet(Append(backlog, d)) = ToSet(backlog) \cup {d}
        BY <2>1, Appended
      <4>2. (Queued(c) <=> c \in ToSet(backlog)) /\ (Queued(c)' <=> c \in ToSet(backlog'))
        BY DEF Queued, ToSet
      <4>3. QED
        BY <3>1, <4>1, <4>2
    <3>3. QED
      BY <1>2, <2>1, <3>1, <3>2
  <2>4. CASE ~ServerAccept /\ ~\E d \in Clients : Connect(d)
    <3>1. /\ backlog' = backlog
          /\ spc' = "register" => spc = "register" /\ client_sock' = client_sock
      BY <2>4
         DEF ServerNext, ServerInitDevice, ServerListen, ServerCheck, ServerAcceptFails,
             ServerRegister, ServerRegisterFails, ServerSpawn, ServerSpawnFails, ServerGoes,
             Capture, CleanupSetsStop, CleanupDisables, Receive, Disconnect, clientVars,
             serverVars
    <3>2. link'[c] = "away" => link[c] = "away"
      BY <2>1, <2>4
         DEF ServerNext, ServerInitDevice, ServerListen, ServerCheck, ServerAcceptFails,
             ServerRegister, ServerRegisterFails, ServerSpawn, ServerSpawnFails,
             Capture, CleanupSetsStop, CleanupDisables, Receive, Disconnect, clientVars
    <3>3. QED
      BY <1>2, <3>1, <3>2 DEF Queued
  <2>5. QED
    BY <2>2, <2>3, <2>4
<1>3. \A r \in Clients : /\ rpc'[r] = "none" => rpc[r] = "none"
                         /\ rpc'[r] = "write" => rpc[r] = "write" /\ frm'[r] = frm[r]
                         /\ Holds(r)' => Holds(r) /\ frm'[r] = frm[r]
  BY <1>1 DEF Holds
<1>4. QED
  BY <1>1, <1>2, <1>3, OrderKept

\* A record thread between two passes, or at the beginning or the end of one.
LEMMA OrderRecorder ==
  ASSUME CaptureInv, OrderInv, NEW r \in Clients,
         \/ Poll(r) \/ PollFails(r) \/ GetFrame(r) \/ GetFrameFails(r)
         \/ RecorderLock(r) \/ RecorderUnlock(r) \/ ReleaseFrame(r)
  PROVE  OrderInv'
<1>1. /\ rpc \in [Clients -> RecorderPCs] /\ rpc[r] # "none"
      /\ frm \in [Clients -> 0 .. MaxFrames] /\ taken \in Nat
      /\ UNCHANGED <<clientVars, serverVars>>
      /\ \A s \in Clients \ {r} : rpc'[s] = rpc[s] /\ frm'[s] = frm[s]
      /\ rpc'[r] \in {"get", "dead", "lock", "write", "release", "poll"}
  <2>1. rpc \in [Clients -> RecorderPCs] /\ frm \in [Clients -> 0 .. MaxFrames] /\ taken \in Nat
    BY BoundsAssumption DEF CaptureInv, Typed, TypeOK
  <2>2. QED
    BY <2>1
       DEF Poll, PollFails, GetFrame, GetFrameFails, RecorderLock, RecorderUnlock, ReleaseFrame,
           RecorderGoes
<1>2. /\ got' = got
      /\ \A c \in Clients :
             link'[c] = "away" \/ Queued(c)' \/ (spc' = "register" /\ c = client_sock') =>
             link[c] = "away" \/ Queued(c) \/ (spc = "register" /\ c = client_sock)
  BY <1>1 DEF clientVars, serverVars, Queued
<1>3. Alone' => Alone /\ \A s \in Clients \ {r} : rpc[s] = "none"
  BY <1>1 DEF Alone
<1>4. CASE Poll(r) \/ PollFails(r) \/ GetFrameFails(r) \/ RecorderUnlock(r) \/ ReleaseFrame(r)
  <2>1. /\ taken' = taken
        /\ rpc'[r] \in {"get", "dead", "release", "poll"}
        /\ rpc'[r] = "release" => rpc[r] = "write" /\ frm'[r] = frm[r]
    BY <1>1, <1>4
       DEF Poll, PollFails, GetFrameFails, RecorderUnlock, ReleaseFrame, RecorderGoes,
           deviceVars
  <2>2. \A s \in Clients : /\ rpc'[s] = "none" => rpc[s] = "none"
                           /\ rpc'[s] = "write" => rpc[s] = "write" /\ frm'[s] = frm[s]
                           /\ Holds(s)' => Holds(s) /\ frm'[s] = frm[s]
    BY <1>1, <2>1 DEF Holds
  <2>3. QED
    BY <1>2, <2>1, <2>2, OrderKept
<1>5. CASE GetFrame(r)
  <2>1. rpc'[r] = "lock" /\ taken' = taken + 1 /\ frm'[r] = taken'
    BY <1>1, <1>5 DEF GetFrame, RecorderGoes
  <2>2. NothingYet'
    BY <1>2 DEF OrderInv, NothingYet
  <2>3. SentLast'
    BY <1>1, <1>2, <2>1 DEF OrderInv, SentLast
  <2>4. HoldsNewest'
    BY <1>1, <1>3, <2>1 DEF HoldsNewest, Holds
  <2>5. Ordered'
    BY <1>2, <1>3 DEF OrderInv, Ordered, SameOrder, InOrderAlone
  <2>6. QED
    BY <2>2, <2>3, <2>4, <2>5 DEF OrderInv
<1>6. CASE RecorderLock(r)
  <2>1. rpc[r] = "lock" /\ rpc'[r] = "write" /\ taken' = taken /\ frm' = frm
    BY <1>1, <1>6 DEF RecorderLock, RecorderGoes, deviceVars
  <2>2. NothingYet'
    BY <1>2 DEF OrderInv, NothingYet
  <2>3. \A c \in Clients : \A i \in DOMAIN got[c] : got[c][i] # frm[r]
    BY <2>1 DEF CaptureInv, Frames, ToSet
  <2>4. SentLast'
    BY <1>1, <1>2, <2>1, <2>3 DEF OrderInv, SentLast
  <2>5. HoldsNewest'
    BY <1>1, <1>3, <2>1 DEF OrderInv, HoldsNewest, Holds
  <2>6. Ordered'
    BY <1>2, <1>3 DEF OrderInv, Ordered, SameOrder, InOrderAlone
  <2>7. QED
    BY <2>2, <2>4, <2>5, <2>6 DEF OrderInv
<1>7. QED
  BY <1>4, <1>5, <1>6

\* The frame that is written is new to the connection, and the last for all who have it.
LEMMA OrderWrite ==
  ASSUME CaptureInv, OrderInv, NEW r \in Clients, NEW c \in Clients, Write(r, c)
  PROVE  OrderInv'
<1> DEFINE f == frm[r]
<1>1. /\ UNCHANGED <<rpc, frm, taken, backlog, link, spc, client_sock>>
      /\ rpc[r] = "write" /\ current[r] \in DOMAIN client_list /\ c = client_list[current[r]]
      /\ got' = [got EXCEPT ![c] = Append(@, f)]
  BY DEF Write, At, serverVars, deviceVars
<1>2. /\ got \in [Clients -> Seq(1 .. MaxFrames)] /\ f \in 1 .. taken /\ f \in 1 .. MaxFrames
      /\ f \notin ToSet(got[c]) /\ taken \in Nat /\ Listed(c)
  <2>1. got \in [Clients -> Seq(1 .. MaxFrames)] /\ taken \in 0 .. MaxFrames
        /\ current[r] \in Nat
    BY DEF CaptureInv, Typed, TypeOK
  <2>2. f \in 1 .. taken /\ f \notin ToSet(got[c])
    BY <1>1, <2>1 DEF CaptureInv, Frames, Holds
  <2>3. Listed(c)
    BY <1>1 DEF Listed
  <2>4. QED
    BY <2>1, <2>2, <2>3, BoundsAssumption
<1>3. \A s \in Clients : rpc[s] = "write" => s = r
  BY <1>1 DEF CaptureInv, Passes
<1>4. /\ got'[c] = Append(got[c], f)
      /\ \A d \in Clients \ {c} : got'[d] = got[d]
  BY <1>1, <1>2
<1> HIDE DEF f
<1>5. /\ DOMAIN got[c] = 1 .. Len(got[c]) /\ Len(got[c]) \in Nat
      /\ DOMAIN got'[c] = 1 .. Len(got[c]) + 1 /\ Len(got'[c]) = Len(got[c]) + 1
      /\ \A i \in 1 .. Len(got[c]) : got'[c][i] = got[c][i] /\ got[c][i] # f
      /\ got'[c][Len(got[c]) + 1] = f
  <2> DEFINE S == 1 .. MaxFrames
  <2>1. got[c] \in Seq(S) /\ f \in S
    BY <1>2
  <2> HIDE DEF S
  <2>2. DOMAIN got[c] = 1 .. Len(got[c]) /\ Len(got[c]) \in Nat
    BY <2>1, LenProperties
  <2>3. \A i \in 1 .. Len(got[c]) : got[c][i] # f
    BY <1>2, <2>2 DEF ToSet
  <2>4. /\ Append(got[c], f) \in Seq(S) /\ Len(Append(got[c], f)) = Len(got[c]) + 1
        /\ \A i \in 1 .. Len(got[c]) : Append(got[c], f)[i] = got[c][i]
        /\ Append(got[c], f)[Len(got[c]) + 1] = f
    BY <2>1, AppendProperties
  <2>5. DOMAIN Append(got[c], f) = 1 .. Len(got[c]) + 1
    BY <2>4, LenProperties
  <2>6. QED
    BY <1>4, <2>2, <2>3, <2>4, <2>5
<1>6. ASSUME NEW d \in Clients, NEW i \in DOMAIN got'[d]
      PROVE  /\ got'[d][i] = f => i = Len(got'[d])
             /\ got'[d][i] # f => i \in DOMAIN got[d] /\ got'[d][i] = got[d][i]
  <2>1. CASE d = c
    BY <2>1, <1>5, <1>6
  <2>2. CASE d # c
    <3>1. \A k \in DOMAIN got[d] : got[d][k] = f => k = Len(got[d])
      BY <1>1 DEF OrderInv, SentLast, f
    <3>2. QED
      BY <2>2, <3>1, <1>4, <1>6
  <2>3. QED
    BY <2>1, <2>2
<1>7. NothingYet'
  <2>1. ~(link[c] = "away" \/ Queued(c) \/ (spc = "register" /\ c = client_sock))
    BY <1>2 DEF CaptureInv, Sockets
  <2>2. QED
    BY <2>1, <1>1, <1>4 DEF OrderInv, NothingYet, Queued
<1>8. SentLast'
  BY <1>1, <1>3, <1>6 DEF SentLast, f
<1>9. HoldsNewest'
  BY <1>1 DEF OrderInv, HoldsNewest, Alone, Holds
<1>10. SameOrder'
  <2> SUFFICES ASSUME NEW d \in Clients, NEW e \in Clients,
                      NEW i \in DOMAIN got'[d], NEW j \in DOMAIN got'[d],
                      NEW k \in DOMAIN got'[e], NEW l \in DOMAIN got'[e],
                      i < j, got'[d][i] = got'[e][l], got'[d][j] = got'[e][k], k < l
               PROVE  FALSE
    BY DEF SameOrder
  <2>1. /\ j \in Nat /\ j <= Len(got'[d]) /\ i \in Nat
        /\ l \in Nat /\ l <= Len(got'[e]) /\ k \in Nat
        /\ Len(got'[d]) \in Nat /\ Len(got'[e]) \in Nat
    <3>1. ASSUME NEW h \in Clients
          PROVE  DOMAIN got'[h] = 1 .. Len(got'[h]) /\ Len(got'[h]) \in Nat
      <4>1. CASE h = c
        BY <4>1, <1>5
      <4>2. CASE h # c
        <5>1. got[h] \in Seq(1 .. MaxFrames) /\ got'[h] = got[h]
          BY <4>2, <1>2, <1>4
        <5>2. QED
          BY <5>1, LenProperties
      <4>3. QED
        BY <4>1, <4>2
    <3>2. QED
      BY <3>1
  <2>2. got'[d][i] # f /\ got'[e][k] # f
    BY <1>6, <2>1
  <2>3. /\ i \in DOMAIN got[d] /\ got'[d][i] = got[d][i]
        /\ j \in DOMAIN got[d] /\ got'[d][j] = got[d][j]
        /\ k \in DOMAIN got[e] /\ got'[e][k] = got[e][k]
        /\ l \in DOMAIN got[e] /\ got'[e][l] = got[e][l]
    BY <1>6, <2>2
  <2>4. QED
    BY <2>3 DEF OrderInv, Ordered, SameOrder
<1>11. InOrderAlone'
  <2> SUFFICES ASSUME Alone, NEW d \in Clients,
                      NEW i \in DOMAIN got'[d], NEW j \in DOMAIN got'[d], i < j
               PROVE  got'[d][i] < got'[d][j]
    BY <1>1 DEF InOrderAlone, Alone
  <2>1. \A a, b \in DOMAIN got[d] : a < b => got[d][a] < got[d][b]
    BY DEF OrderInv, Ordered, InOrderAlone
  <2>2. CASE d # c
    BY <2>1, <2>2, <1>4
  <2>3. CASE d = c /\ j = Len(got[c]) + 1
    <3>1. f = taken
      BY <1>1 DEF OrderInv, HoldsNewest, Holds, f
    <3>2. i \in 1 .. Len(got[c]) /\ got'[c][i] = got[c][i] /\ got[c][i] # f /\ got'[c][j] = f
      BY <2>3, <1>5
    <3>3. got[c][i] <= taken /\ got[c][i] \in Nat
      <4>1. got[c][i] \in 1 .. MaxFrames
        BY <1>2, <3>2, ElementOfSeq
      <4>2. got[c][i] <= taken
        BY <3>2, <1>5 DEF CaptureInv, Frames
      <4>3. QED
        BY <4>1, <4>2, BoundsAssumption
    <3>4. QED
      BY <2>3, <3>1, <3>2, <3>3, <1>2
  <2>4. CASE d = c /\ j # Len(got[c]) + 1
    <3>1. i \in DOMAIN got[c] /\ j \in DOMAIN got[c]
      BY <2>4, <1>5
    <3>2. QED
      BY <2>1, <2>4, <3>1, <1>5
  <2>5. QED
    BY <2>2, <2>3, <2>4
<1>12. QED
  BY <1>7, <1>8, <1>9, <1>10, <1>11 DEF OrderInv, Ordered

LEMMA OrderInvStep == CaptureInv /\ OrderInv /\ Intact' /\ [Next]_vars => OrderInv'
<1> SUFFICES ASSUME CaptureInv, OrderInv, Intact', [Next]_vars PROVE OrderInv'
  OBVIOUS
<1>1. ASSUME UNCHANGED <<recVars, got, taken, backlog, link, spc, client_sock>>
      PROVE  OrderInv'
  <2>1. /\ UNCHANGED <<rpc, frm, got, taken>>
        /\ \A c \in Clients : Queued(c)' <=> Queued(c)
    BY <1>1 DEF recVars, Queued
  <2>2. \A r \in Clients : Holds(r)' <=> Holds(r)
    BY <2>1 DEF Holds
  <2>3. QED
    BY <1>1, <2>1, <2>2, OrderKept
<1>2. CASE UNCHANGED vars
  BY <1>1, <1>2 DEF vars, serverVars, clientVars, deviceVars
<1>3. ASSUME NEW r \in Clients, NEW c \in Clients, Unlink(r, c) PROVE OrderInv'
  BY <1>1, <1>3 DEF Unlink, serverVars, clientVars, deviceVars
<1>4. ~\E r, c \in Clients : WriteFreed(r, c)
  BY DamageStays DEF WriteFreed, Intact
<1>5. QED
  BY <1>2, <1>3, <1>4, OrderQuiet, OrderRecorder, OrderWrite DEF Next, RecorderNext

\* The invariant: a damaged list is only typed.
Kept == Typed /\ (Intact => CaptureInv /\ OrderInv)

LEMMA KeptStep == Kept /\ [Next]_vars => Kept'
<1> SUFFICES ASSUME Kept, [Next]_vars PROVE Kept'
  OBVIOUS
<1>1. Typed'
  BY TypedStep DEF Kept
<1>2. ASSUME Intact' PROVE CaptureInv' /\ OrderInv'
  <2>1. Intact
    BY <1>2, DamageStays DEF Intact
  <2>2. QED
    BY <1>2, <2>1, CaptureInvStep, OrderInvStep DEF Kept
<1>3. QED
  BY <1>1, <1>2 DEF Kept

LEMMA KeptHolds == Spec => []Kept
<1>1. Init => Kept
  BY CaptureInvInit, OrderInvInit DEF Kept, CaptureInv
<1>2. QED
  BY <1>1, KeptStep, PTL DEF Spec

\* Type correctness of the capture half, whatever has failed.
THEOREM CaptureTypeCorrect == Spec => []TypeOK
<1>1. Kept => TypeOK
  BY DEF Kept, Typed
<1>2. QED
  BY <1>1, KeptHolds, PTL

\* However many record threads fetch and write at once, and whichever connections
\* are lost on the way, no client is sent a frame twice, until pthread_create fails.
THEOREM NoFrameTwiceThm == Spec => []NoFrameTwice
<1>1. Kept => NoFrameTwice
  BY DEF Kept, CaptureInv, NoFrameTwice
<1>2. QED
  BY <1>1, KeptHolds, PTL

\* The walk of input.c:154-180 passes over nobody when it unlinks a node, of a client
\* that is gone or of one a write has failed to, until pthread_create fails.
THEOREM PassCompleteThm == Spec => []PassComplete
<1>1. Kept => PassComplete
  BY DEF Kept, CaptureInv, PassComplete
<1>2. QED
  BY <1>1, KeptHolds, PTL

\* The thread that got a frame outlives those that had polled the same one.
THEOREM RecorderSurvivesThm == Spec => []RecorderSurvives
<1>1. Kept => RecorderSurvives
  BY DEF Kept, Typed, CaptureInv, Survivor, RecorderSurvives
<1>2. QED
  BY <1>1, KeptHolds, PTL

\* Although two record threads may take the lock in the other order than they took
\* their frames (input.c:150), no two connections are sent the same two frames in
\* different orders; and while one thread only was started the order is that of the
\* device.  All this until pthread_create fails.
THEOREM FrameOrderThm == Spec => []FrameOrder
<1>1. Kept => FrameOrder
  BY DEF Kept, OrderInv, FrameOrder
<1>2. QED
  BY <1>1, KeptHolds, PTL

-------------------------------------------------------------------------------
(***************************************************************************)
(* The capture half implements Broadcast.                                  *)
(***************************************************************************)
\* The steps a connection does not see.
LEMMA RoundsStutter ==
  ASSUME CaptureInv, Intact, Intact',
         UNCHANGED <<lock, client_list, current, got, taken>>,
         \A r \in Clients : /\ rpc'[r] = "lock" <=> rpc[r] = "lock"
                            /\ frm'[r] # frm[r] => rpc[r] \notin {"lock", "write"}
  PROVE  UNCHANGED Rounds!vars
<1>1. Unsent' = Unsent
  BY DEF Unsent
<1>2. Sending' = Sending /\ Unserved' = Unserved
  <2>1. CASE Walking
    <3>1. rpc[lock] = "write"
      BY <2>1 DEF Walking, CaptureInv, Passes
    <3>2. frm'[lock] = frm[lock]
      BY <2>1, <3>1 DEF Walking
    <3>3. QED
      BY <2>1, <3>2 DEF Walking, Sending, Unserved
  <2>2. CASE ~Walking
    BY <2>2 DEF Walking, Sending, Unserved
  <2>3. QED
    BY <2>1, <2>2
<1>3. QED
  BY <1>1, <1>2 DEF Rounds!vars, ToSet

LEMMA RoundsQuiet ==
  ASSUME CaptureInv, Intact, Intact',
         \/ ServerInitDevice \/ ServerListen \/ ServerCheck \/ ServerAccept
         \/ ServerAcceptFails \/ ServerRegisterFails \/ ServerSpawn \/ ServerSpawnFails
         \/ Capture \/ CleanupSetsStop \/ CleanupDisables
         \/ \E c \in Clients : Connect(c) \/ Receive(c) \/ Disconnect(c)
         \/ \E r \in Clients : Poll(r) \/ PollFails(r) \/ GetFrameFails(r) \/ ReleaseFrame(r)
  PROVE  UNCHANGED Rounds!vars
<1>1. rpc \in [Clients -> RecorderPCs] /\ frm \in [Clients -> 0 .. MaxFrames]
  BY DEF CaptureInv, Typed, TypeOK
<1>2. CASE ServerSpawn
  <2>1. client_sock \in Clients /\ rpc[client_sock] = "none"
    BY <1>2 DEF ServerSpawn, ServerGoes, CaptureInv, Sockets
  <2>2. QED
    BY <1>1, <1>2, <2>1, RoundsStutter
       DEF ServerSpawn, listVars, clientVars, deviceVars
<1>3. ASSUME NEW r \in Clients, Poll(r) \/ PollFails(r) \/ GetFrameFails(r) \/ ReleaseFrame(r)
      PROVE  UNCHANGED Rounds!vars
  <2>1. /\ UNCHANGED <<lock, client_list, current, got, taken>>
        /\ rpc[r] \in {"poll", "get", "release"} /\ rpc'[r] \in {"get", "dead", "poll"}
        /\ \A s \in Clients \ {r} : rpc'[s] = rpc[s] /\ frm'[s] = frm[s]
    BY <1>1, <1>3
       DEF Poll, PollFails, GetFrameFails, ReleaseFrame, RecorderGoes, listVars, clientVars,
           deviceVars
  <2>2. QED
    BY <2>1, RoundsStutter
<1>4. CASE \/ ServerInitDevice \/ ServerListen \/ ServerCheck \/ ServerAccept
           \/ ServerAcceptFails \/ ServerRegisterFails \/ ServerSpawnFails
           \/ Capture \/ CleanupSetsStop \/ CleanupDisables
           \/ \E c \in Clients : Connect(c) \/ Receive(c) \/ Disconnect(c)
  <2>1. UNCHANGED <<lock, client_list, recVars, got, taken>>
    BY <1>4
       DEF ServerInitDevice, ServerListen, ServerCheck, ServerAccept, ServerAcceptFails,
           ServerRegisterFails, ServerSpawnFails, Capture, CleanupSetsStop, CleanupDisables,
           Connect, Receive, Disconnect, listVars, clientVars, deviceVars
  <2>2. QED
    BY <2>1, RoundsStutter DEF recVars
<1>5. QED
  BY <1>2, <1>3, <1>4

\* A connection is registered under the lock: nobody joins during a round.
LEMMA RoundsJoin ==
  ASSUME CaptureInv, OrderInv, ServerRegister
  PROVE  Rounds!Join(client_sock) /\ client_sock \in Clients
<1>1. /\ lock = Nobody /\ spc = "register" /\ client_list' = <<client_sock>> \o client_list
      /\ UNCHANGED <<lock, recVars, got, taken>>
  BY DEF ServerRegister, ServerGoes, clientVars, deviceVars
<1>2. client_sock \in Clients /\ ~Listed(client_sock) /\ got[client_sock] = <<>>
  BY <1>1 DEF CaptureInv, Sockets, OrderInv, NothingYet
<1>3. Sending = 0 /\ Unserved = {} /\ Sending' = 0 /\ Unserved' = {} /\ Unsent' = Unsent
  BY <1>1, NamesAssumption DEF Walking, Sending, Unserved, Unsent, recVars
<1>4. client_sock \notin ToSet(client_list)
  BY <1>2 DEF Listed, ToSet
<1>5. ToSet(client_list') = ToSet(client_list) \cup {client_sock}
  <2>1. client_list \in Seq(Clients)
    BY DEF CaptureInv, Typed, TypeOK
  <2>2. /\ client_list' \in Seq(Clients) /\ Len(client_list') = Len(client_list) + 1
        /\ client_list'[1] = client_sock
        /\ \A j \in 2 .. Len(client_list) + 1 : client_list'[j] = client_list[j - 1]
    BY <1>1, <1>2, <2>1, Added
  <2>3. /\ DOMAIN client_list = 1 .. Len(client_list) /\ Len(client_list) \in Nat
        /\ DOMAIN client_list' = 1 .. Len(client_list) + 1
    BY <2>1, <2>2, LenProperties
  <2>4. ASSUME NEW i \in 1 .. Len(client_list)
        PROVE  i + 1 \in DOMAIN client_list' /\ client_list'[i + 1] = client_list[i]
    <3>1. i + 1 \in 2 .. Len(client_list) + 1 /\ (i + 1) - 1 = i
      BY <2>3
    <3>2. QED
      BY <2>2, <2>3, <3>1
  <2>5. ASSUME NEW j \in DOMAIN client_list', j # 1
        PROVE  j - 1 \in DOMAIN client_list /\ client_list'[j] = client_list[j - 1]
    BY <2>2, <2>3, <2>5
  <2>6. 1 \in DOMAIN client_list'
    BY <2>3
  <2>7. QED
    BY <2>2, <2>3, <2>4, <2>5, <2>6 DEF ToSet
<1>6. QED
  BY <1>1, <1>2, <1>3, <1>4, <1>5 DEF Rounds!Join

LEMMA RoundsFetch ==
  ASSUME CaptureInv, NEW r \in Clients, GetFrame(r)
  PROVE  Rounds!Fetch
<1>1. /\ rpc[r] = "get" /\ rpc' = [rpc EXCEPT ![r] = "lock"]
      /\ taken' = taken + 1 /\ frm' = [frm EXCEPT ![r] = taken + 1]
      /\ UNCHANGED <<lock, client_list, current, got>>
  BY DEF GetFrame, RecorderGoes, listVars, clientVars
<1>2. rpc \in [Clients -> RecorderPCs] /\ frm \in [Clients -> 0 .. MaxFrames]
  BY DEF CaptureInv, Typed, TypeOK
<1>3. /\ rpc'[r] = "lock" /\ frm'[r] = taken + 1
      /\ \A s \in Clients \ {r} : rpc'[s] = rpc[s] /\ frm'[s] = frm[s]
  BY <1>1, <1>2
<1>4. Unsent' = Unsent \cup {taken + 1}
  BY <1>1, <1>3 DEF Unsent
<1>5. Sending' = Sending /\ Unserved' = Unserved
  <2>1. lock # r
    BY <1>1 DEF CaptureInv, Passes
  <2>2. QED
    BY <1>1, <1>3, <2>1 DEF Walking, Sending, Unserved
<1>6. QED
  BY <1>1, <1>4, <1>5 DEF Rounds!Fetch, ToSet

LEMMA RoundsBegin ==
  ASSUME CaptureInv, NEW r \in Clients, RecorderLock(r)
  PROVE  frm[r] \in Unsent /\ Rounds!Begin(frm[r])
<1>1. /\ lock = Nobody /\ lock' = r /\ rpc[r] = "lock" /\ rpc' = [rpc EXCEPT ![r] = "write"]
      /\ current' = [current EXCEPT ![r] = 1]
      /\ UNCHANGED <<client_list, frm, got, taken>>
  BY DEF RecorderLock, RecorderGoes, clientVars, deviceVars
<1>2. /\ rpc \in [Clients -> RecorderPCs] /\ current \in [Clients -> Nat]
      /\ client_list \in Seq(Clients)
  BY DEF CaptureInv, Typed, TypeOK
<1>3. /\ rpc'[r] = "write" /\ current'[r] = 1
      /\ \A s \in Clients \ {r} : rpc'[s] = rpc[s]
  BY <1>1, <1>2
<1>4. Sending = 0 /\ Sending' = frm[r]
  BY <1>1, NamesAssumption DEF Walking, Sending
<1>5. Unserved' = ToSet(client_list)
  <2>1. {j \in DOMAIN client_list : j >= 1} = DOMAIN client_list
    BY ListTyped DEF CaptureInv, Typed
  <2>2. QED
    BY <1>1, <1>3, <2>1 DEF Walking, Unserved, ToSet
<1>6. \A s \in Clients \ {r} : rpc[s] = "lock" => frm[s] # frm[r]
  BY <1>1 DEF CaptureInv, Frames, Holds
<1>7. frm[r] \in Unsent /\ Unsent' = Unsent \ {frm[r]}
  BY <1>1, <1>3, <1>6 DEF Unsent
<1>8. QED
  BY <1>1, <1>4, <1>5, <1>7 DEF Rounds!Begin, ToSet

\* The next of those ahead is the one the walk stands at; the others are behind him.
LEMMA AheadSplits ==
  ASSUME CaptureInv, NEW r \in Clients, lock = r, current[r] \in DOMAIN client_list
  PROVE  /\ client_list[current[r]] \in Unserved
         /\ Unserved \ {client_list[current[r]]} =
                {client_list[i] : i \in {j \in DOMAIN client_list : j >= current[r] + 1}}
<1> DEFINE k == current[r]
           after == {j \in DOMAIN client_list : j >= k + 1}
<1>1. client_list \in Seq(Clients) /\ IsInjective(client_list) /\ k \in Nat
  BY DEF CaptureInv, Typed, TypeOK, Sockets
<1>2. DOMAIN client_list = 1 .. Len(client_list) /\ Len(client_list) \in Nat
  BY <1>1, LenProperties
<1>3. {j \in DOMAIN client_list : j >= k} = after \cup {k} /\ k \notin after
  BY <1>1, <1>2
<1>4. Unserved = {client_list[i] : i \in {j \in DOMAIN client_list : j >= k}}
  BY DEF Walking, Unserved
<1>5. k \in DOMAIN client_list /\ after \subseteq DOMAIN client_list
  OBVIOUS
<1> HIDE DEF k, after
<1>6. client_list[k] \notin {client_list[i] : i \in after}
  BY <1>1, <1>3, <1>5 DEF IsInjective
<1>7. /\ client_list[k] \in Unserved
      /\ Unserved \ {client_list[k]} = {client_list[i] : i \in after}
  BY <1>3, <1>4, <1>6
<1>8. QED
  BY <1>7 DEF k, after

LEMMA RoundsDeliver ==
  ASSUME CaptureInv, NEW r \in Clients, NEW c \in Clients, Write(r, c)
  PROVE  Rounds!Deliver(c)
<1>1. /\ rpc[r] = "write" /\ current[r] \in DOMAIN client_list /\ c = client_list[current[r]]
      /\ got' = [got EXCEPT ![c] = Append(@, frm[r])]
      /\ current' = [current EXCEPT ![r] = @ + 1]
      /\ UNCHANGED <<lock, client_list, rpc, frm, taken>>
  BY DEF Write, At, listVars, deviceVars
<1>2. lock = r /\ current \in [Clients -> Nat]
  BY <1>1 DEF CaptureInv, Passes, Typed, TypeOK
<1>3. c \in Unserved /\ Unserved' = Unserved \ {c}
  <2>1. /\ c \in Unserved
        /\ Unserved \ {c} =
               {client_list[i] : i \in {j \in DOMAIN client_list : j >= current[r] + 1}}
    BY <1>1, <1>2, AheadSplits
  <2>2. lock' = r /\ current'[r] = current[r] + 1 /\ client_list' = client_list
    BY <1>1, <1>2
  <2>3. Unserved' = {client_list[i] : i \in {j \in DOMAIN client_list : j >= current[r] + 1}}
    BY <2>2 DEF Walking, Unserved
  <2>4. QED
    BY <2>1, <2>3
<1>4. Sending = frm[r] /\ Sending' = Sending /\ Unsent' = Unsent
  BY <1>1, <1>2 DEF Walking, Sending, Unsent
<1>5. QED
  BY <1>1, <1>3, <1>4 DEF Rounds!Deliver, ToSet

\* Unlinking takes the node the walk stands at from the list, and nobody else.
LEMMA RoundsLeave ==
  ASSUME CaptureInv, NEW r \in Clients, NEW c \in Clients, Unlink(r, c)
  PROVE  Rounds!Leave(c)
<1>1. /\ rpc[r] = "write" /\ current[r] \in DOMAIN client_list /\ c = client_list[current[r]]
      /\ client_list' = RemoveAt(client_list, current[r])
      /\ UNCHANGED <<lock, rpc, frm, current, got, taken>>
  BY DEF Unlink, WriteFails, At, recVars, clientVars, deviceVars
<1>2. lock = r /\ current[r] \in Nat /\ client_list \in Seq(Clients) /\ IsInjective(client_list)
  BY <1>1 DEF CaptureInv, Passes, Typed, TypeOK, Sockets
<1> DEFINE k == current[r]
           L == client_list
           M == client_list'
<1>3. /\ k \in 1 .. Len(L) /\ k \in Nat /\ Len(L) \in Nat /\ DOMAIN L = 1 .. Len(L)
      /\ M \in Seq(Clients) /\ Len(M) = Len(L) - 1
      /\ \A j \in 1 .. Len(L) - 1 : M[j] = IF j < k THEN L[j] ELSE L[j + 1]
  <2>1. DOMAIN L = 1 .. Len(L) /\ Len(L) \in Nat
    BY <1>2, LenProperties
  <2>2. /\ RemoveAt(L, k) \in Seq(Clients) /\ Len(RemoveAt(L, k)) = Len(L) - 1
        /\ \A j \in 1 .. Len(L) - 1 : RemoveAt(L, k)[j] = IF j < k THEN L[j] ELSE L[j + 1]
    BY <1>1, <1>2, Removed
  <2>3. QED
    BY <1>1, <1>2, <2>1, <2>2
<1>4. DOMAIN M = 1 .. Len(L) - 1
  BY <1>3, LenProperties
<1>5. c = L[k] /\ \A i, j \in DOMAIN L : L[i] = L[j] => i = j
  BY <1>1, <1>2 DEF IsInjective
<1>6. c \in Unserved
      /\ Unserved \ {c} = {L[i] : i \in {j \in DOMAIN L : j >= k + 1}}
  BY <1>1, <1>2, AheadSplits
<1>7. Unserved' = {M[i] : i \in {j \in DOMAIN M : j >= k}}
  BY <1>1, <1>2 DEF Walking, Unserved
<1> HIDE DEF k, L, M
<1>8. \A j \in DOMAIN M : j >= k => j + 1 \in DOMAIN L /\ j + 1 >= k + 1 /\ M[j] = L[j + 1]
  BY <1>3, <1>4
<1>9. \A i \in DOMAIN L : i >= k + 1 => i - 1 \in DOMAIN M /\ i - 1 >= k /\ M[i - 1] = L[i]
  <2> SUFFICES ASSUME NEW i \in DOMAIN L, i >= k + 1
               PROVE  i - 1 \in DOMAIN M /\ i - 1 >= k /\ M[i - 1] = L[i]
    OBVIOUS
  <2>1. i - 1 \in 1 .. Len(L) - 1 /\ i - 1 >= k /\ ~(i - 1 < k) /\ (i - 1) + 1 = i
    BY <1>3
  <2>2. M[i - 1] = L[(i - 1) + 1]
    BY <1>3, <2>1
  <2>3. QED
    BY <1>4, <2>1, <2>2
<1>10. Unserved' = Unserved \ {c}
  BY <1>6, <1>7, <1>8, <1>9
<1>11. \A j \in DOMAIN M : j < k => j \in DOMAIN L /\ M[j] = L[j] /\ j # k
  BY <1>3, <1>4
<1>12. \A i \in DOMAIN L : i < k => i \in DOMAIN M /\ M[i] = L[i]
  BY <1>3, <1>4
<1>13. ToSet(M) = ToSet(L) \ {c}
  <2>1. \A j \in DOMAIN M : j \in Nat /\ (j < k \/ j >= k)
    BY <1>3, <1>4
  <2>2. \A i \in DOMAIN L : i < k \/ i = k \/ i >= k + 1
    BY <1>3
  <2>3. ASSUME NEW j \in DOMAIN M PROVE M[j] \in ToSet(L) \ {c}
    <3>1. CASE j < k
      BY <3>1, <1>11, <1>5, <1>3 DEF ToSet
    <3>2. CASE j >= k
      <4>1. j + 1 \in DOMAIN L /\ j + 1 # k /\ M[j] = L[j + 1]
        BY <3>2, <1>8, <1>3, <1>4
      <4>2. QED
        BY <4>1, <1>5, <1>3 DEF ToSet
    <3>3. QED
      BY <2>1, <3>1, <3>2
  <2>4. ASSUME NEW i \in DOMAIN L, L[i] # c PROVE L[i] \in ToSet(M)
    <3>1. CASE i < k
      BY <3>1, <1>12 DEF ToSet
    <3>2. CASE i >= k + 1
      BY <3>2, <1>9 DEF ToSet
    <3>3. QED
      BY <2>2, <2>4, <1>5, <3>1, <3>2
  <2>5. QED
    BY <2>3, <2>4 DEF ToSet
<1>14. Sending' = Sending /\ Unsent' = Unsent
  BY <1>1, <1>2 DEF Walking, Sending, Unsent
<1>15. QED
  BY <1>1, <1>6, <1>10, <1>13, <1>14 DEF Rounds!Leave, L, M

LEMMA RoundsEnd ==
  ASSUME CaptureInv, NEW r \in Clients, RecorderUnlock(r)
  PROVE  Rounds!End
<1>1. /\ rpc[r] = "write" /\ rpc' = [rpc EXCEPT ![r] = "release"] /\ lock' = Nobody
      /\ current[r] \notin DOMAIN client_list
      /\ UNCHANGED <<client_list, frm, got, taken>>
  BY DEF RecorderUnlock, RecorderGoes, clientVars, deviceVars
<1>2. /\ lock = r /\ current[r] \in Nat /\ current[r] >= 1 /\ client_list \in Seq(Clients)
      /\ rpc \in [Clients -> RecorderPCs] /\ frm[r] \in 1 .. taken /\ taken \in 0 .. MaxFrames
  BY <1>1 DEF CaptureInv, Passes, Typed, TypeOK, Frames, Holds
<1>3. {j \in DOMAIN client_list : j >= current[r]} = {}
  <2>1. DOMAIN client_list = 1 .. Len(client_list) /\ Len(client_list) \in Nat
    BY <1>2, LenProperties
  <2>2. QED
    BY <1>1, <1>2, <2>1
<1>4. Sending # 0 /\ Sending' = 0 /\ Unserved = {} /\ Unserved' = {}
  BY <1>1, <1>2, <1>3, NamesAssumption, BoundsAssumption DEF Walking, Sending, Unserved
<1>5. Unsent' = Unsent
  BY <1>1, <1>2 DEF Unsent
<1>6. QED
  BY <1>1, <1>4, <1>5 DEF Rounds!End, ToSet

LEMMA RoundsStep == Kept /\ [Next]_vars => [Rounds!Next]_Rounds!vars
<1> SUFFICES ASSUME Kept, [Next]_vars PROVE [Rounds!Next]_Rounds!vars
  OBVIOUS
<1>1. CASE ~Intact'
  BY <1>1 DEF Rounds!Next
<1>2. ASSUME Intact' PROVE [Rounds!Next]_Rounds!vars
  <2>1. Intact
    BY <1>2, DamageStays DEF Intact
  <2>2. CaptureInv /\ OrderInv
    BY <2>1 DEF Kept
  <2>3. ASSUME Rounds!Round PROVE Rounds!Next
    BY <1>2, <2>1, <2>3 DEF Rounds!Next
  <2>4. CASE UNCHANGED vars
    <3>1. UNCHANGED <<lock, client_list, current, got, taken, rpc, frm>>
      BY <2>4 DEF vars, listVars, recVars, clientVars, deviceVars
    <3>2. QED
      BY <1>2, <2>1, <2>2, <3>1, RoundsStutter
  <2>5. CASE ServerRegister
    BY <2>2, <2>3, <2>5, RoundsJoin DEF Rounds!Round
  <2>6. ASSUME NEW r \in Clients, GetFrame(r) PROVE Rounds!Next
    BY <2>2, <2>3, <2>6, RoundsFetch DEF Rounds!Round
  <2>7. ASSUME NEW r \in Clients, RecorderLock(r) PROVE Rounds!Next
    BY <2>2, <2>3, <2>7, RoundsBegin DEF Rounds!Round
  <2>8. ASSUME NEW r \in Clients, NEW c \in Clients, Write(r, c) PROVE Rounds!Next
    BY <2>2, <2>3, <2>8, RoundsDeliver DEF Rounds!Round
  <2>9. ASSUME NEW r \in Clients, NEW c \in Clients, Unlink(r, c) PROVE Rounds!Next
    BY <2>2, <2>3, <2>9, RoundsLeave DEF Rounds!Round
  <2>10. ASSUME NEW r \in Clients, RecorderUnlock(r) PROVE Rounds!Next
    BY <2>2, <2>3, <2>10, RoundsEnd DEF Rounds!Round
  <2>11. ~\E r, c \in Clients : WriteFreed(r, c)
    BY <2>1 DEF WriteFreed, Intact
  <2>12. QED
    BY <1>2, <2>1, <2>2, <2>4, <2>5, <2>6, <2>7, <2>8, <2>9, <2>10, <2>11, RoundsQuiet
       DEF Next, ServerNext, RecorderNext
<1>3. QED
  BY <1>1, <1>2

\* Whatever the threads do at once, what connections see is one round after the
\* other: a frame has one round, which everybody registered is sent it in or is
\* lost in, and nobody joins or leaves unseen.  From pthread_create failing on,
\* nothing of this is left.
THEOREM CaptureRefinement == Spec => FramesInRounds
<1>1. Init => Rounds!Init
  <2> SUFFICES ASSUME Init PROVE Rounds!Init
    OBVIOUS
  <2>1. ToSet(client_list) = {} /\ Unsent = {}
    BY DEF Init, ToSet, Unsent
  <2>2. Sending = 0 /\ Unserved = {}
    BY NamesAssumption DEF Init, Walking, Sending, Unserved
  <2>3. taken = 0 /\ got = [c \in Clients |-> <<>>] /\ ~Intact = FALSE
    BY DEF Init, Intact
  <2>4. QED
    BY <2>1, <2>2, <2>3 DEF Rounds!Init
<1>2. QED
  BY <1>1, RoundsStep, KeptHolds, PTL DEF Spec, FramesInRounds, Rounds!Spec

-------------------------------------------------------------------------------
(***************************************************************************)
(* The capture half of AudioDaemon.                                        *)
(***************************************************************************)
\* What AudioDaemon lets this half do.
InDaemon ==
    \/ UNCHANGED Daemon!vars
    \/ Daemon!Input \/ Daemon!InputDrops
    \/ \E c \in Clients : Daemon!Recorder(c) \/ Daemon!RecorderEnds(c)
    \/ faults' # faults /\ \E c \in Clients : Daemon!RecorderWriteFails(c)

\* A step that AudioDaemon does not see.
LEMMA CaptureStutters ==
  ASSUME UNCHANGED <<lock, client_list, current, backlog, link, inbox>>,
         (spc' = "register") = (spc = "register"),
         spc = "register" => client_sock' = client_sock,
         \A c \in Clients : Stage(c)' = Stage(c)
  PROVE  UNCHANGED Daemon!vars
<1>1. [c \in Clients |-> Stage(c)]' = [c \in Clients |-> Stage(c)]
  <2>1. [c \in Clients |-> Stage(c)'] = [c \in Clients |-> Stage(c)]
    BY Zenon
  <2> QED
    BY <2>1
<1>2. UNCHANGED Daemon!inputVars
  BY <1>1 DEF Daemon!inputVars
<1> QED
  BY <1>2 DEF Daemon!vars, Daemon!controlVars, Daemon!iacVars, Daemon!sockVars,
     Daemon!outputVars

LEMMA CaptureServerInDaemon ==
  ASSUME CaptureInv, ServerNext, ~ServerSpawnFails
  PROVE  InDaemon
<1> USE DEF InDaemon
<1>1. CASE ServerAccept
  <2>1. /\ spc = "accept" /\ spc' = "register" /\ backlog # <<>>
        /\ client_sock' = Head(backlog) /\ backlog' = Tail(backlog)
        /\ UNCHANGED <<lock, client_list, current, rpc, link, inbox>>
    BY <1>1 DEF ServerAccept, ServerGoes, recVars
  <2>2. [c \in Clients |-> Stage(c)]' = [c \in Clients |-> Stage(c)]
    BY <2>1 DEF Stage
  <2>3. Daemon!InputAccepts
    BY <2>1, <2>2 DEF Daemon!InputAccepts, Daemon!controlVars, Daemon!iacVars,
       Daemon!outputVars
  <2> QED
    BY <2>3 DEF Daemon!Input
<1>2. CASE ServerRegister
  <2>1. /\ spc = "register" /\ spc' = "spawn" /\ lock = Nobody
        /\ client_list' = <<client_sock>> \o client_list
        /\ UNCHANGED <<lock, client_sock, current, rpc, link, inbox, backlog>>
    BY <1>2 DEF ServerRegister, ServerGoes, recVars, clientVars
  <2>2. client_sock \in Clients
    BY <2>1 DEF CaptureInv, Sockets
  <2>3. [c \in Clients |-> Stage(c)]' = [[c \in Clients |-> Stage(c)] EXCEPT ![client_sock] = "frame"]
    BY <2>1, <2>2 DEF Stage
  <2>4. Daemon!InputRegisters
    BY <2>1, <2>3 DEF Daemon!InputRegisters, Daemon!Nobody, Nobody, Daemon!controlVars,
       Daemon!iacVars, Daemon!sockVars, Daemon!outputVars
  <2> QED
    BY <2>4 DEF Daemon!Input
<1>3. CASE ServerRegisterFails
  <2>1. /\ spc = "register" /\ spc' = "check" /\ lock = Nobody
        /\ UNCHANGED <<lock, client_list, current, rpc, link, inbox, backlog>>
    BY <1>3 DEF ServerRegisterFails, ServerGoes, recVars, clientVars
  <2>2. [c \in Clients |-> Stage(c)]' = [c \in Clients |-> Stage(c)]
    BY <2>1 DEF Stage
  <2>3. Daemon!InputDrops
    BY <2>1, <2>2 DEF Daemon!InputDrops, Daemon!Nobody, Nobody, Daemon!controlVars,
       Daemon!iacVars, Daemon!sockVars, Daemon!outputVars
  <2> QED
    BY <2>3
<1>4. CASE ServerSpawn
  <2>1. /\ spc = "spawn" /\ spc' = "check"
        /\ rpc' = [rpc EXCEPT ![client_sock] = "poll"]
        /\ UNCHANGED <<lock, client_list, current, link, inbox, backlog>>
    BY <1>4 DEF ServerSpawn, ServerGoes, listVars, clientVars
  <2>2. client_sock \in Clients /\ rpc \in [Clients -> RecorderPCs]
    BY <2>1 DEF CaptureInv, Sockets, Typed, TypeOK
  <2>3. \A c \in Clients : Stage(c)' = Stage(c)
    BY <2>1, <2>2 DEF Stage
  <2> QED
    BY <2>1, <2>3, CaptureStutters
<1>5. CASE ServerInitDevice \/ ServerListen \/ ServerCheck \/ ServerAcceptFails
  <2>1. /\ {spc, spc'} \cap {"register", "spawn"} = {}
        /\ UNCHANGED <<lock, client_list, current, rpc, link, inbox, backlog>>
    BY <1>5 DEF ServerInitDevice, ServerListen, ServerCheck, ServerAcceptFails, ServerGoes,
       listVars, recVars, clientVars
  <2>2. \A c \in Clients : Stage(c)' = Stage(c)
    BY <2>1 DEF Stage
  <2> QED
    BY <2>1, <2>2, CaptureStutters
<1> QED
  BY <1>1, <1>2, <1>3, <1>4, <1>5 DEF ServerNext

\* Where AudioDaemon sees a record thread that goes on.
LEMMA StageGoes ==
  ASSUME CaptureInv, NEW r \in Clients, NEW from \in RecorderPCs \ {"none"}, NEW to,
         RecorderGoes(r, from, to), UNCHANGED <<spc, client_sock>>
  PROVE  /\ Stage(r) = IF from \in {"poll", "get", "lock", "release"} THEN "frame"
                       ELSE IF from = "dead" THEN "over" ELSE from
         /\ [c \in Clients |-> Stage(c)]'
                = [[c \in Clients |-> Stage(c)] EXCEPT ![r] =
                      IF to \in {"poll", "get", "lock", "release"} THEN "frame"
                      ELSE IF to = "dead" THEN "over" ELSE to]
<1>1. /\ rpc[r] = from /\ rpc' = [rpc EXCEPT ![r] = to] /\ from # "none"
      /\ rpc \in [Clients -> RecorderPCs]
      /\ spc = "spawn" => rpc[client_sock] = "none"
  BY DEF RecorderGoes, CaptureInv, Typed, TypeOK, Sockets
<1>2. ~(spc = "spawn" /\ r = client_sock)
  BY <1>1
<1>3. rpc'[r] = to /\ \A c \in Clients \ {r} : rpc'[c] = rpc[c]
  BY <1>1
<1>4. \A c \in Clients \ {r} : Stage(c)' = Stage(c)
  BY <1>3 DEF Stage
<1>5. Stage(r)' = IF to \in {"poll", "get", "lock", "release"} THEN "frame"
                  ELSE IF to = "dead" THEN "over" ELSE to
  BY <1>2, <1>3 DEF Stage
<1>6. [c \in Clients |-> Stage(c)']
          = [[c \in Clients |-> Stage(c)] EXCEPT ![r] =
                IF to \in {"poll", "get", "lock", "release"} THEN "frame"
                ELSE IF to = "dead" THEN "over" ELSE to]
  BY <1>4, <1>5
<1> QED
  BY <1>1, <1>2, <1>6 DEF Stage

LEMMA RecorderInDaemon ==
  ASSUME CaptureInv, Intact, NEW r \in Clients, RecorderNext(r)
  PROVE  InDaemon
<1> USE DEF InDaemon
<1>1. CASE RecorderLock(r)
  <2>1. /\ RecorderGoes(r, "lock", "write") /\ lock = Nobody /\ lock' = r
        /\ current' = [current EXCEPT ![r] = 1]
        /\ UNCHANGED <<client_list, spc, client_sock, backlog, link, inbox>>
    BY <1>1 DEF RecorderLock, serverVars, clientVars
  <2>2. /\ Stage(r) = "frame"
        /\ [c \in Clients |-> Stage(c)]' = [[c \in Clients |-> Stage(c)] EXCEPT ![r] = "write"]
    BY <2>1, StageGoes DEF RecorderPCs
  <2>3. Daemon!RecorderLocks(r)
    BY <2>1, <2>2 DEF Daemon!RecorderLocks, Daemon!Nobody, Nobody, Daemon!controlVars,
       Daemon!iacVars, Daemon!sockVars, Daemon!outputVars
  <2> QED
    BY <2>3 DEF Daemon!Recorder
<1>2. CASE RecorderUnlock(r)
  <2>1. /\ RecorderGoes(r, "write", "release") /\ lock' = Nobody
        /\ current[r] \notin DOMAIN client_list
        /\ current' = [current EXCEPT ![r] = 0]
        /\ UNCHANGED <<client_list, spc, client_sock, backlog, link, inbox>>
    BY <1>2 DEF RecorderUnlock, serverVars, clientVars
  <2>2. /\ Stage(r) = "write"
        /\ [c \in Clients |-> Stage(c)]' = [[c \in Clients |-> Stage(c)] EXCEPT ![r] = "frame"]
    BY <2>1, StageGoes DEF RecorderPCs
  <2>3. current[r] > Len(client_list)
    BY <2>1 DEF CaptureInv, Typed, TypeOK, Passes, RecorderGoes
  <2>4. Daemon!RecorderUnlocks(r)
    BY <2>1, <2>2, <2>3 DEF Daemon!RecorderUnlocks, Daemon!Nobody, Nobody,
       Daemon!controlVars, Daemon!iacVars, Daemon!sockVars, Daemon!outputVars
  <2> QED
    BY <2>4 DEF Daemon!Recorder
<1>3. CASE PollFails(r) \/ GetFrameFails(r)
  <2>1. /\ RecorderGoes(r, "poll", "dead") \/ RecorderGoes(r, "get", "dead")
        /\ UNCHANGED <<lock, current, client_list, spc, client_sock, backlog, link, inbox>>
    BY <1>3 DEF PollFails, GetFrameFails, listVars, serverVars, clientVars
  <2>2. /\ Stage(r) = "frame"
        /\ [c \in Clients |-> Stage(c)]' = [[c \in Clients |-> Stage(c)] EXCEPT ![r] = "over"]
    BY <2>1, StageGoes DEF RecorderPCs
  <2>3. Daemon!RecorderEnds(r)
    BY <2>1, <2>2 DEF Daemon!RecorderEnds, Daemon!controlVars, Daemon!iacVars,
       Daemon!sockVars, Daemon!outputVars
  <2> QED
    BY <2>3
<1>4. CASE \E c \in Clients : Write(r, c)
  <2> PICK c \in Clients : Write(r, c)
    BY <1>4
  <2>1. /\ rpc[r] = "write" /\ c = client_list[current[r]]
        /\ current[r] \in DOMAIN client_list
        /\ link[c] = "connected" /\ inbox[c] < SockBuf
        /\ inbox' = [inbox EXCEPT ![c] = @ + 1]
        /\ current' = [current EXCEPT ![r] = @ + 1]
        /\ UNCHANGED <<lock, client_list, rpc, spc, client_sock, backlog, link>>
    BY DEF Write, At, listVars, serverVars
  <2>2. Stage(r) = "write"
    BY <2>1 DEF Stage, CaptureInv, Sockets
  <2>3. [d \in Clients |-> Stage(d)]' = [d \in Clients |-> Stage(d)]
    BY <2>1 DEF Stage
  <2>4. current[r] <= Len(client_list)
    BY <2>1 DEF CaptureInv, Typed, TypeOK
  <2>5. Daemon!RecorderWrites(r)
    BY <2>1, <2>2, <2>3, <2>4 DEF Daemon!RecorderWrites, Daemon!At, Daemon!Gone,
       Daemon!controlVars, Daemon!iacVars, Daemon!outputVars
  <2> QED
    BY <2>5 DEF Daemon!Recorder
<1>5. CASE \E c \in Clients : Unlink(r, c)
  <2> PICK c \in Clients : Unlink(r, c)
    BY <1>5
  <2>1. /\ rpc[r] = "write" /\ c = client_list[current[r]]
        /\ current[r] \in DOMAIN client_list
        /\ link[c] = "gone" \/ (link[c] # "gone" /\ faults' = faults + 1)
        /\ client_list' = RemoveAt(client_list, current[r])
        /\ UNCHANGED <<lock, current, rpc, spc, client_sock, backlog, link, inbox>>
    BY DEF Unlink, WriteFails, Fail, At, recVars, serverVars, clientVars
  <2>2. Stage(r) = "write"
    BY <2>1 DEF Stage, CaptureInv, Sockets
  <2>3. [d \in Clients |-> Stage(d)]' = [d \in Clients |-> Stage(d)]
    BY <2>1 DEF Stage
  <2>4. current[r] <= Len(client_list)
    BY <2>1 DEF CaptureInv, Typed, TypeOK
  <2>5. CASE link[c] = "gone"
    <3>1. Daemon!RecorderUnlinks(r)
      BY <2>1, <2>2, <2>3, <2>4, <2>5 DEF Daemon!RecorderUnlinks, Daemon!At, Daemon!Gone,
         RemoveAt, Daemon!RemoveAt, Daemon!controlVars, Daemon!iacVars, Daemon!sockVars,
         Daemon!outputVars
    <3>2. QED
      BY <3>1 DEF Daemon!Recorder
  <2>6. CASE link[c] # "gone"
    <3>1. faults' # faults
      BY <2>1, <2>6 DEF CaptureInv, Typed, TypeOK
    <3>2. Daemon!RecorderWriteFails(r)
      BY <2>1, <2>2, <2>3, <2>4, <2>6 DEF Daemon!RecorderWriteFails, Daemon!At, Daemon!Gone,
         RemoveAt, Daemon!RemoveAt, Daemon!controlVars, Daemon!iacVars, Daemon!sockVars,
         Daemon!outputVars
    <3>3. QED
      BY <3>1, <3>2
  <2> QED
    BY <2>5, <2>6
<1>6. CASE Poll(r) \/ GetFrame(r) \/ ReleaseFrame(r)
  <2>1. /\ \/ RecorderGoes(r, "poll", "get") \/ RecorderGoes(r, "get", "lock")
           \/ RecorderGoes(r, "release", "poll")
        /\ UNCHANGED <<lock, current, client_list, spc, client_sock, backlog, link, inbox>>
    BY <1>6 DEF Poll, GetFrame, ReleaseFrame, listVars, serverVars, clientVars
  <2>2. \A c \in Clients : Stage(c)' = Stage(c)
    BY <2>1 DEF RecorderGoes, Stage, CaptureInv, Typed, TypeOK
  <2> QED
    BY <2>1, <2>2, CaptureStutters
<1>7. ~\E c \in Clients : WriteFreed(r, c)
  BY DEF WriteFreed, Intact
<1> QED
  BY <1>1, <1>2, <1>3, <1>4, <1>5, <1>6, <1>7 DEF RecorderNext

\* Until pthread_create fails, the input server and the record threads do, at every
\* step, what AudioDaemon lets them do at the grain of the lock, or nothing it sees.
THEOREM CaptureInDaemon == Spec => CaptureAsInDaemon
<1>1. Kept =>
          (/\ ServerNext \/ \E r \in Clients : RecorderNext(r)
           /\ ~ServerSpawnFails /\ Intact
           => \/ UNCHANGED Daemon!vars
              \/ Daemon!Input \/ Daemon!InputDrops
              \/ \E c \in Clients : Daemon!Recorder(c) \/ Daemon!RecorderEnds(c)
              \/ faults' # faults /\ \E c \in Clients : Daemon!RecorderWriteFails(c))
  BY CaptureServerInDaemon, RecorderInDaemon DEF InDaemon, Kept
<1> QED
  BY <1>1, KeptHolds, PTL DEF CaptureAsInDaemon
===============================================================================
