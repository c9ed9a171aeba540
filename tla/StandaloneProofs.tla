--------------------------- MODULE StandaloneProofs ---------------------------
(***************************************************************************)
(* Proofs about Standalone, for any clients, files, connections, devices   *)
(* and numbers of failures.                                                *)
(***************************************************************************)
EXTENDS Standalone, TLAPS

USE StandaloneAssumption

\* Frames the server has read from the connection of c.
Taken(c) == made[c] - Len(sent[c])

Types ==
    /\ device \in BOOLEAN
    /\ devQueue \in Seq(Chunks) /\ heard \in Seq(Chunks)
    /\ faults \in Nat
    /\ made \in [Sources -> 0 .. MaxChunks]
    /\ apc \in {"none", "open", "play", "flush", "over"}
    /\ ppc \in {"none", "reinitialize", "wait", "send"}
    /\ spc \in {"none", "bind", "accept", "claim", "read", "copy", "release", "over"}
    /\ audio_buffer \in Chunks \cup {None}
    /\ buf \in Chunks \cup {None}
    /\ client_sock \in Clients \cup {None}
    /\ cpc \in [Clients -> {"start", "stream", "over"}]
    /\ queue \in Seq(Clients)
    /\ sent \in [Clients -> Seq(Chunks)]

\* One of the two programs runs; the other does nothing.
OneProgram ==
    /\ apc # "none" => ppc = "none" /\ spc = "none" /\ audio_buffer = None
    /\ spc = "none" => \A c \in Clients : cpc[c] # "stream"
    /\ ppc = "send" => audio_buffer # None

\* audioplay: what was sent is what was read, from the first frame on, and
\* nothing has failed as long as it goes on.
FileOrder ==
    apc # "none" =>
        /\ \A i \in DOMAIN heard : heard[i] = <<File, i>>
        /\ \A i \in DOMAIN devQueue : devQueue[i] = <<File, Len(heard) + i>>
        /\ apc # "over" => faults = 0
        /\ faults = 0 => made[File] = Len(heard) + Len(devQueue)
        /\ apc \in {"play", "flush"} => device
        /\ apc = "over" /\ faults = 0 => ~device /\ devQueue = <<>>

\* Each connection holds the frames that were written and not read ...
FramesSent ==
    \A c \in Clients :
        /\ Len(sent[c]) <= made[c]
        /\ \A i \in DOMAIN sent[c] : sent[c][i] = <<c, Taken(c) + i>>
        /\ cpc[c] = "start" => made[c] = 0

\* ... is in the queue at most once, before it is served ...
Queued ==
    /\ \A i \in DOMAIN queue :
           queue[i] # client_sock /\ cpc[queue[i]] # "start"
    /\ \A c \in Clients : (\E i \in DOMAIN queue : queue[i] = c) => Taken(c) = 0
    /\ \A i, j \in DOMAIN queue : queue[i] = queue[j] => i = j

\* ... and the server's frame is the last one it has read.
Serving ==
    /\ client_sock # None => cpc[client_sock] # "start"
    /\ spc \in {"claim", "read", "copy", "release"} => client_sock # None
    /\ spc = "copy" => buf \in Chunks /\ buf = <<client_sock, Taken(client_sock)>>

Connections == FramesSent /\ Queued /\ Serving

\* Frames of c that have been copied to audio_buffer.
Copied(c) == IF spc = "copy" /\ c = client_sock THEN Taken(c) - 1 ELSE Taken(c)

\* Not mixed, nothing twice, each client's in order.
InOrder(s) ==
    \A i, j \in DOMAIN s : i < j =>
        /\ s[i][1] = s[j][1] => s[i][2] < s[j][2]
        /\ s[i][1] # s[j][1] => \A k \in j .. Len(s) : s[k][1] # s[i][1]

\* No frame follows one of the client that is served but another of it, and no
\* frame is in the stream that has not been copied.
Tidy(s) ==
    /\ InOrder(s)
    /\ \A i \in DOMAIN s : s[i][1] \in Clients
    /\ \A c \in Clients : \A i \in DOMAIN s : s[i][1] = c => s[i][2] <= Copied(c)
    /\ \A i, j \in DOMAIN s : i < j /\ s[i][1] = client_sock => s[j][1] = client_sock

StreamTidy == apc = "none" => Tidy(Stream)


\* The inductive invariant.
PlayInv == Types /\ OneProgram /\ FileOrder /\ Connections /\ StreamTidy

-------------------------------------------------------------------------------
(* Sequences of frames. *)

LEMMA Concatenated ==
    ASSUME NEW S, NEW s \in Seq(S), NEW t \in Seq(S)
    PROVE  /\ s \o t \in Seq(S)
           /\ Len(s \o t) = Len(s) + Len(t)
           /\ \A i \in DOMAIN s : (s \o t)[i] = s[i]
           /\ \A i \in DOMAIN t : (s \o t)[Len(s) + i] = t[i]
OBVIOUS

LEMMA Appended ==
    ASSUME NEW S, NEW s \in Seq(S), NEW x
    PROVE  /\ Len(Append(s, x)) = Len(s) + 1
           /\ \A i \in DOMAIN s : Append(s, x)[i] = s[i]
           /\ Append(s, x)[Len(s) + 1] = x
           /\ DOMAIN Append(s, x) = 1 .. Len(s) + 1
           /\ x \in S => Append(s, x) \in Seq(S)
OBVIOUS

LEMMA ThreeParts ==
    ASSUME NEW h \in Seq(Chunks), NEW q \in Seq(Chunks), NEW b \in Chunks \cup {None},
           NEW s, s = h \o q \o (IF b = None THEN <<>> ELSE <<b>>)
    PROVE  /\ s \in Seq(Chunks)
           /\ Len(s) = Len(h) + Len(q) + (IF b = None THEN 0 ELSE 1)
           /\ \A i \in DOMAIN h : s[i] = h[i]
           /\ \A i \in DOMAIN q : s[Len(h) + i] = q[i]
           /\ b # None => s[Len(h) + Len(q) + 1] = b
<1> DEFINE rest == IF b = None THEN <<>> ELSE <<b>>
<1> DEFINE p == h \o q
<1>1. rest \in Seq(Chunks)
  OBVIOUS
<1>2. Len(rest) = (IF b = None THEN 0 ELSE 1) /\ (b # None => rest[1] = b)
  OBVIOUS
<1>3. s = p \o rest
  OBVIOUS
<1> HIDE DEF rest
<1>4. /\ p \in Seq(Chunks)
      /\ Len(p) = Len(h) + Len(q)
      /\ \A i \in DOMAIN h : p[i] = h[i]
      /\ \A i \in DOMAIN q : p[Len(h) + i] = q[i]
  BY Concatenated DEF p
<1> HIDE DEF p
<1>5. /\ s \in Seq(Chunks)
      /\ Len(s) = Len(p) + Len(rest)
      /\ \A i \in 1 .. Len(p) : s[i] = p[i]
      /\ \A i \in DOMAIN rest : s[Len(p) + i] = rest[i]
  BY <1>1, <1>3, <1>4, Concatenated
<1>6. \A i \in DOMAIN q : Len(h) + i \in 1 .. Len(p)
  BY <1>4
<1>7. b # None => 1 \in DOMAIN rest
  BY <1>1, <1>2
<1>8. Len(s) = Len(h) + Len(q) + (IF b = None THEN 0 ELSE 1)
  BY <1>2, <1>4, <1>5
<1>9. \A i \in DOMAIN h : s[i] = h[i]
  BY <1>4, <1>5
<1>10. \A i \in DOMAIN q : s[Len(h) + i] = q[i]
  BY <1>4, <1>5, <1>6
<1>11. b # None => s[Len(h) + Len(q) + 1] = b
  BY <1>2, <1>4, <1>5, <1>7
<1> QED
  BY <1>5, <1>8, <1>9, <1>10, <1>11

LEMMA StreamTyped ==
    ASSUME Types
    PROVE  /\ Stream \in Seq(Chunks)
           /\ Len(Stream) = Len(heard) + Len(devQueue)
                            + (IF audio_buffer = None THEN 0 ELSE 1)
           /\ \A i \in DOMAIN heard : Stream[i] = heard[i]
           /\ \A i \in DOMAIN devQueue : Stream[Len(heard) + i] = devQueue[i]
           /\ audio_buffer # None =>
                  Stream[Len(heard) + Len(devQueue) + 1] = audio_buffer
<1>1. /\ heard \in Seq(Chunks) /\ devQueue \in Seq(Chunks)
      /\ audio_buffer \in Chunks \cup {None}
      /\ Stream = heard \o devQueue \o (IF audio_buffer = None THEN <<>> ELSE <<audio_buffer>>)
  BY DEF Types, Stream
<1> QED
  BY <1>1, ThreeParts

\* A frame of the client whose frames come last, and newer than they are, can
\* follow.
LEMMA OrderAppend ==
    ASSUME NEW s \in Seq(Chunks), InOrder(s), NEW x \in Chunks,
           \A i \in DOMAIN s : s[i][1] = x[1] => s[i][2] < x[2],
           \A i, j \in DOMAIN s : i < j /\ s[i][1] = x[1] => s[j][1] = x[1]
    PROVE  /\ InOrder(Append(s, x))
           /\ \A i, j \in DOMAIN Append(s, x) :
                  i < j /\ Append(s, x)[i][1] = x[1] => Append(s, x)[j][1] = x[1]
<1> DEFINE t == Append(s, x)
<1>1. /\ t \in Seq(Chunks) /\ Len(t) = Len(s) + 1 /\ t[Len(t)] = x
      /\ \A i \in 1 .. Len(s) : t[i] = s[i]
  OBVIOUS
<1> HIDE DEF t
<1>2. \A i, j \in DOMAIN t : i < j /\ t[i][1] = x[1] => t[j][1] = x[1]
  BY <1>1
<1>3. ASSUME NEW i \in DOMAIN t, NEW j \in DOMAIN t, i < j
      PROVE  /\ t[i][1] = t[j][1] => t[i][2] < t[j][2]
             /\ t[i][1] # t[j][1] => \A k \in j .. Len(t) : t[k][1] # t[i][1]
  <2>1. i \in DOMAIN s /\ t[i] = s[i]
    BY <1>1, <1>3
  <2>2. CASE j = Len(t)
    BY <1>1, <1>3, <2>1, <2>2
  <2>3. CASE j # Len(t)
    <3>1. j \in DOMAIN s /\ t[j] = s[j]
      BY <1>1, <2>3
    <3>2. t[i][1] = t[j][1] => t[i][2] < t[j][2]
      BY <1>3, <2>1, <3>1 DEF InOrder
    <3>3. ASSUME t[i][1] # t[j][1], NEW k \in j .. Len(t)
          PROVE  t[k][1] # t[i][1]
      <4>1. CASE k = Len(t)
        BY <1>1, <1>3, <2>1, <3>1, <3>3, <4>1
      <4>2. CASE k # Len(t)
        <5>1. k \in j .. Len(s) /\ t[k] = s[k]
          BY <1>1, <3>1, <4>2
        <5> QED
          BY <1>3, <2>1, <3>1, <3>3, <5>1 DEF InOrder
      <4> QED
        BY <4>1, <4>2
    <3> QED
      BY <3>2, <3>3
  <2> QED
    BY <2>2, <2>3
<1> QED
  BY <1>2, <1>3 DEF InOrder, t

\* Leaving frames out keeps the order of the others.
LEMMA OrderPart ==
    ASSUME NEW s \in Seq(Chunks), NEW t \in Seq(Chunks), InOrder(s),
           NEW f \in [DOMAIN t -> DOMAIN s],
           \A i \in DOMAIN t : t[i] = s[f[i]],
           \A i, j \in DOMAIN t : i < j => f[i] < f[j]
    PROVE  InOrder(t)
<1> SUFFICES ASSUME NEW i \in DOMAIN t, NEW j \in DOMAIN t, i < j
             PROVE  /\ t[i][1] = t[j][1] => t[i][2] < t[j][2]
                    /\ t[i][1] # t[j][1] => \A k \in j .. Len(t) : t[k][1] # t[i][1]
  BY DEF InOrder
<1>1. t[i] = s[f[i]] /\ t[j] = s[f[j]] /\ f[i] < f[j] /\ f[i] \in DOMAIN s /\ f[j] \in DOMAIN s
  OBVIOUS
<1>2. t[i][1] = t[j][1] => t[i][2] < t[j][2]
  BY <1>1 DEF InOrder
<1>3. ASSUME t[i][1] # t[j][1], NEW k \in j .. Len(t)
      PROVE  t[k][1] # t[i][1]
  <2>1. k \in DOMAIN t /\ (k = j \/ j < k)
    OBVIOUS
  <2>2. f[k] \in f[j] .. Len(s) /\ t[k] = s[f[k]]
    BY <1>1, <2>1
  <2> QED
    BY <1>1, <1>3, <2>2 DEF InOrder
<1> QED
  BY <1>2, <1>3

\* Nothing but the server's progress, and no new frame.
LEMMA TidyKept ==
    ASSUME NEW t \in Seq(Chunks), Tidy(t), client_sock' = client_sock,
           \A c \in Clients : Copied(c) \in Int /\ Copied(c)' \in Int
                              /\ Copied(c) <= Copied(c)'
    PROVE  Tidy(t)'
BY DEF Tidy, InOrder, Chunks

-------------------------------------------------------------------------------
(* Initially, and after each step. *)

LEMMA PlayInvInit == Init => PlayInv
<1> SUFFICES ASSUME Init PROVE PlayInv
  OBVIOUS
<1>1. Types
  BY DEF Init, Types
<1>2. OneProgram
  BY DEF Init, OneProgram
<1>3. FileOrder
  BY DEF Init, FileOrder, Sources
<1>4. Connections
  BY DEF Init, Connections, FramesSent, Queued, Serving, Taken, Sources
<1>5. Stream = <<>>
  <2>1. Len(Stream) = 0 /\ Stream \in Seq(Chunks)
    BY <1>1, StreamTyped DEF Init
  <2> QED
    BY <2>1
<1>6. StreamTidy
  BY <1>5 DEF StreamTidy, Tidy, InOrder
<1> QED
  BY <1>1, <1>2, <1>3, <1>4, <1>6 DEF PlayInv

LEMMA TypesKept ==
    ASSUME PlayInv, [Next]_vars
    PROVE  Types'
<1> USE DEF PlayInv, Types
<1>1. CASE DevicePlays
  BY <1>1 DEF DevicePlays, daemonVars, threadVars, bufferVars, clientVars
<1>2. CASE PlayNothing
  BY <1>2 DEF PlayNothing, Fault, AGoes, daemonVars, threadVars, bufferVars,
     clientVars
<1>3. CASE PlaySetUp
  <2>1. device' \in BOOLEAN
    BY <1>3 DEF PlaySetUp, TurnsOn, TurnsOnPartly, Fault, daemonVars, threadVars, bufferVars, clientVars
  <2>2. faults' \in Nat
    BY <1>3 DEF PlaySetUp, TurnsOn, TurnsOnPartly, Fault, daemonVars, threadVars, bufferVars, clientVars
  <2>3. apc' \in {"play", "over"} /\ UNCHANGED <<heard, made, devQueue, ppc, spc, audio_buffer, buf, active_client_sock, client_sock, cpc, queue, sent>>
    BY <1>3 DEF PlaySetUp, TurnsOn, TurnsOnPartly, Fault, daemonVars, threadVars, bufferVars, clientVars
  <2> QED
    BY <1>3, <2>1, <2>2, <2>3 DEF PlaySetUp
<1>4. CASE PlayFrame
  <2>1. <<File, made'[File]>> \in Chunks /\ made' \in [Sources -> 0 .. MaxChunks]
    BY <1>4 DEF PlayFrame, Chunks, Sources
  <2>2. faults' \in Nat /\ device' = device /\ heard' = heard
        /\ UNCHANGED <<ppc, spc, audio_buffer, buf, client_sock, cpc, queue, sent>>
    BY <1>4 DEF PlayFrame, Accepts, Rejects, Fault, daemonVars, threadVars, bufferVars, clientVars
  <2>3. devQueue' \in Seq(Chunks)
    <3>1. \/ devQueue' = devQueue
          \/ devQueue' = Append(devQueue, <<File, made'[File]>>)
      BY <1>4 DEF PlayFrame, Accepts, Rejects, Fault, daemonVars, threadVars, bufferVars, clientVars
    <3> DEFINE x == <<File, made'[File]>>
    <3>2. x \in Chunks
      BY <2>1
    <3> HIDE DEF x
    <3>3. Append(devQueue, x) \in Seq(Chunks)
      BY <3>2
    <3> QED
      BY <3>1, <3>3 DEF x
  <2>4. apc' \in {"play", "over"}
    BY <1>4 DEF PlayFrame, Accepts, Rejects, Fault, daemonVars, threadVars, bufferVars, clientVars
  <2> QED
    BY <2>1, <2>2, <2>3, <2>4
<1>5. CASE PlayFileEnds
  BY <1>5 DEF PlayFileEnds, AGoes, deviceVars, daemonVars, threadVars, bufferVars,
     clientVars
<1>6. CASE PlayFlush
  <2>1. device' \in BOOLEAN
    BY <1>6 DEF PlayFlush, Fault, AGoes, daemonVars, threadVars, bufferVars, clientVars
  <2>2. faults' \in Nat
    BY <1>6 DEF PlayFlush, Fault, AGoes, daemonVars, threadVars, bufferVars, clientVars
  <2>3. UNCHANGED <<heard, made, devQueue, ppc, spc, audio_buffer, buf, active_client_sock, client_sock, cpc, queue, sent>>
    BY <1>6 DEF PlayFlush, Fault, AGoes, daemonVars, threadVars, bufferVars, clientVars
  <2> QED
    BY <1>6, <2>1, <2>2, <2>3 DEF PlayFlush, AGoes
<1>7. CASE ServerBinds
  BY <1>7 DEF ServerBinds, Fault, SGoes, bufferVars, clientVars
<1>8. CASE ServerAccepts
  BY <1>8 DEF ServerAccepts, SGoes, deviceVars
<1>9. CASE ServerClaims
  BY <1>9 DEF ServerClaims, Unlocked, deviceVars, clientVars
<1>10. CASE ServerReads
  <2>1. client_sock \in Clients /\ Head(sent[client_sock]) \in Chunks
        /\ Tail(sent[client_sock]) \in Seq(Chunks)
    BY <1>10 DEF ServerReads, SGoes, Connections, Serving
  <2> QED
    BY <1>10, <2>1 DEF ServerReads, SGoes, deviceVars
<1>11. CASE ServerCopies
  BY <1>11 DEF ServerCopies, SGoes, Unlocked, deviceVars, clientVars
<1>12. CASE ServerEnds
  BY <1>12 DEF ServerEnds, SGoes, deviceVars, bufferVars, clientVars
<1>13. CASE ServerReleases
  BY <1>13 DEF ServerReleases, SGoes, Unlocked, deviceVars, clientVars
<1>14. CASE Reinitialize
  <2>1. device' \in BOOLEAN
    BY <1>14 DEF Reinitialize, TurnsOn, TurnsOnPartly, Fault, PGoes, bufferVars, clientVars
  <2>2. faults' \in Nat
    BY <1>14 DEF Reinitialize, TurnsOn, TurnsOnPartly, Fault, PGoes, bufferVars, clientVars
  <2>3. UNCHANGED <<heard, made, apc, spc, audio_buffer, buf, active_client_sock, client_sock, cpc, queue, sent>>
    BY <1>14 DEF Reinitialize, TurnsOn, TurnsOnPartly, Fault, PGoes, bufferVars, clientVars
  <2> QED
    BY <1>14, <2>1, <2>2, <2>3 DEF Reinitialize, PGoes
<1>15. CASE PlayerWaits
  BY <1>15 DEF PlayerWaits, deviceVars, bufferVars, clientVars
<1>16. CASE PlayerSends
  <2>1. audio_buffer \in Chunks
    BY <1>16 DEF PlayerSends, PGoes, OneProgram
  <2> QED
    BY <1>16, <2>1 DEF PlayerSends, Accepts, PGoes, clientVars
<1>17. CASE PlayerFails
  BY <1>17 DEF PlayerFails, Rejects, Fault, PGoes, bufferVars, clientVars
<1>18. ASSUME NEW c \in Clients, ClientConnects(c) PROVE Types'
  BY <1>18 DEF ClientConnects, CGoes, deviceVars, threadVars, bufferVars
<1>19. ASSUME NEW c \in Clients, ClientWrites(c) PROVE Types'
  <2>1. c \in Sources /\ made[c] \in 0 .. MaxChunks
    BY DEF Sources
  <2>2. made' \in [Sources -> 0 .. MaxChunks] /\ made'[c] = made[c] + 1 /\ made'[c] \in 1 .. MaxChunks
    BY <1>19, <2>1 DEF ClientWrites
  <2>3. <<c, made'[c]>> \in Chunks
    BY <2>1, <2>2 DEF Chunks
  <2>4. sent' \in [Clients -> Seq(Chunks)]
    BY <1>19, <2>3 DEF ClientWrites
  <2> QED
    BY <1>19, <2>2, <2>4 DEF ClientWrites, deviceVars, threadVars, bufferVars
<1>20. ASSUME NEW c \in Clients, ClientEnds(c) PROVE Types'
  BY <1>20 DEF ClientEnds, deviceVars, threadVars, bufferVars
<1>21. CASE UNCHANGED vars
  BY <1>21 DEF vars, deviceVars, daemonVars, threadVars, bufferVars, clientVars
<1> QED
  BY <1>1, <1>2, <1>3, <1>4, <1>5, <1>6, <1>7, <1>8, <1>9, <1>10, <1>11, <1>12,
     <1>13, <1>14, <1>15, <1>16, <1>17, <1>18, <1>19, <1>20, <1>21 DEF Next,
     AudioPlay, Server, Player

LEMMA ProgramKept ==
    ASSUME PlayInv, [Next]_vars
    PROVE  OneProgram'
<1> USE DEF PlayInv, OneProgram, Types
<1>1. CASE DevicePlays
  BY <1>1 DEF DevicePlays, daemonVars, threadVars, bufferVars, clientVars
<1>2. CASE PlayNothing
  BY <1>2 DEF PlayNothing, Fault, AGoes, daemonVars, threadVars, bufferVars,
     clientVars
<1>3. CASE PlaySetUp
  BY <1>3 DEF PlaySetUp, TurnsOn, TurnsOnPartly, Fault, daemonVars, threadVars,
     bufferVars, clientVars
<1>4. CASE PlayFrame
  BY <1>4 DEF PlayFrame, Accepts, Rejects, Fault, daemonVars, threadVars,
     bufferVars, clientVars
<1>5. CASE PlayFileEnds
  BY <1>5 DEF PlayFileEnds, AGoes, deviceVars, daemonVars, threadVars, bufferVars,
     clientVars
<1>6. CASE PlayFlush
  BY <1>6 DEF PlayFlush, Fault, AGoes, daemonVars, threadVars, bufferVars,
     clientVars
<1>7. CASE ServerBinds
  BY <1>7 DEF ServerBinds, Fault, SGoes, bufferVars, clientVars
<1>8. CASE ServerAccepts
  BY <1>8 DEF ServerAccepts, SGoes, deviceVars
<1>9. CASE ServerClaims
  BY <1>9 DEF ServerClaims, Unlocked, deviceVars, clientVars
<1>10. CASE ServerReads
  BY <1>10 DEF ServerReads, SGoes, deviceVars
<1>11. CASE ServerCopies
  BY <1>11 DEF ServerCopies, SGoes, Unlocked, deviceVars, clientVars
<1>12. CASE ServerEnds
  BY <1>12 DEF ServerEnds, SGoes, deviceVars, bufferVars, clientVars
<1>13. CASE ServerReleases
  BY <1>13 DEF ServerReleases, SGoes, Unlocked, deviceVars, clientVars
<1>14. CASE Reinitialize
  BY <1>14 DEF Reinitialize, TurnsOn, TurnsOnPartly, Fault, PGoes, bufferVars,
     clientVars
<1>15. CASE PlayerWaits
  BY <1>15 DEF PlayerWaits, deviceVars, bufferVars, clientVars
<1>16. CASE PlayerSends
  BY <1>16 DEF PlayerSends, Accepts, PGoes, clientVars
<1>17. CASE PlayerFails
  BY <1>17 DEF PlayerFails, Rejects, Fault, PGoes, bufferVars, clientVars
<1>18. ASSUME NEW c \in Clients, ClientConnects(c) PROVE OneProgram'
  BY <1>18 DEF ClientConnects, CGoes, deviceVars, threadVars, bufferVars
<1>19. ASSUME NEW c \in Clients, ClientWrites(c) PROVE OneProgram'
  BY <1>19 DEF ClientWrites, deviceVars, threadVars, bufferVars
<1>20. ASSUME NEW c \in Clients, ClientEnds(c) PROVE OneProgram'
  BY <1>20 DEF ClientEnds, deviceVars, threadVars, bufferVars
<1>21. CASE UNCHANGED vars
  BY <1>21 DEF vars, deviceVars, daemonVars, threadVars, bufferVars, clientVars
<1> QED
  BY <1>1, <1>2, <1>3, <1>4, <1>5, <1>6, <1>7, <1>8, <1>9, <1>10, <1>11, <1>12,
     <1>13, <1>14, <1>15, <1>16, <1>17, <1>18, <1>19, <1>20, <1>21 DEF Next,
     AudioPlay, Server, Player

LEMMA FileOrderKept ==
    ASSUME PlayInv, [Next]_vars
    PROVE  FileOrder'
<1> USE DEF PlayInv, OneProgram, Types, FileOrder
<1>1. CASE DevicePlays
  <2>1. /\ heard' = Append(heard, Head(devQueue)) /\ devQueue' = Tail(devQueue)
        /\ devQueue # <<>> /\ UNCHANGED <<apc, device, faults, made>>
    BY <1>1 DEF DevicePlays
  <2>2. /\ Len(heard') = Len(heard) + 1 /\ Len(devQueue') = Len(devQueue) - 1
        /\ heard'[Len(heard')] = devQueue[1] /\ 1 \in DOMAIN devQueue
        /\ \A i \in DOMAIN heard : heard'[i] = heard[i]
        /\ \A i \in DOMAIN devQueue' : devQueue'[i] = devQueue[i + 1]
                                       /\ i + 1 \in DOMAIN devQueue
        /\ \A i \in DOMAIN heard' : i \in DOMAIN heard \/ i = Len(heard')
    BY <2>1
  <2>3. CASE apc = "none"
    BY <2>1, <2>3
  <2>4. CASE apc # "none"
    <3>1. \A i \in DOMAIN heard' : heard'[i] = <<File, i>>
      BY <2>2, <2>4
    <3>2. \A i \in DOMAIN devQueue' : devQueue'[i] = <<File, Len(heard') + i>>
      <4>1. ASSUME NEW i \in DOMAIN devQueue'
            PROVE  devQueue'[i] = <<File, Len(heard) + (i + 1)>>
        BY <2>2, <2>4
      <4>2. \A i \in DOMAIN devQueue' : Len(heard) + (i + 1) = Len(heard') + i
        <5>1. Len(heard) \in Nat /\ DOMAIN devQueue' = 1 .. Len(devQueue')
          BY <2>1
        <5>2. Len(devQueue') \in Nat
          BY <2>1
        <5> QED
          BY <2>2, <5>1, <5>2
      <4> QED
        BY <4>1, <4>2
    <3>3. Len(heard') + Len(devQueue') = Len(heard) + Len(devQueue)
      BY <2>2
    <3> QED
      BY <2>1, <2>4, <3>1, <3>2, <3>3
  <2> QED
    BY <2>3, <2>4
<1>2. CASE PlayNothing
  BY <1>2 DEF PlayNothing, Fault, AGoes, daemonVars, threadVars, bufferVars,
     clientVars
<1>3. CASE PlaySetUp
  BY <1>3 DEF PlaySetUp, TurnsOn, TurnsOnPartly, Fault, daemonVars, threadVars,
     bufferVars, clientVars
<1>4. CASE PlayFrame
  <2>1. /\ apc = "play" /\ faults = 0 /\ device /\ made[File] = Len(heard) + Len(devQueue)
        /\ heard' = heard /\ device' = device /\ apc' \in {"play", "over"}
    BY <1>4 DEF PlayFrame, Accepts, Rejects, Fault, daemonVars, threadVars, bufferVars, clientVars
  <2>2. made'[File] = made[File] + 1
    BY <1>4 DEF PlayFrame, Sources
  <2>3. CASE Accepts(<<File, made'[File]>>) /\ UNCHANGED apc
    <3>1. devQueue' = Append(devQueue, <<File, Len(heard) + Len(devQueue) + 1>>)
      BY <2>1, <2>2, <2>3 DEF Accepts
    <3>2. /\ Len(devQueue') = Len(devQueue) + 1
          /\ \A i \in DOMAIN devQueue : devQueue'[i] = devQueue[i]
          /\ devQueue'[Len(devQueue) + 1] = <<File, Len(heard) + (Len(devQueue) + 1)>>
          /\ \A i \in DOMAIN devQueue' : i \in DOMAIN devQueue \/ i = Len(devQueue) + 1
      BY <3>1, Appended
    <3>3. \A i \in DOMAIN devQueue' : devQueue'[i] = <<File, Len(heard) + i>>
      BY <2>1, <3>2
    <3> QED
      BY <2>1, <2>2, <2>3, <3>2, <3>3 DEF Accepts
  <2>4. CASE Rejects /\ apc' = "over"
    BY <2>1, <2>2, <2>4 DEF Rejects, Fault
  <2> QED
    BY <1>4, <2>3, <2>4 DEF PlayFrame
<1>5. CASE PlayFileEnds
  BY <1>5 DEF PlayFileEnds, AGoes, deviceVars, daemonVars, threadVars, bufferVars,
     clientVars
<1>6. CASE PlayFlush
  <2>1. /\ apc = "flush" /\ apc' = "over" /\ faults = 0
        /\ UNCHANGED <<heard, devQueue, made>>
    BY <1>6 DEF PlayFlush, AGoes
  <2>2. CASE devQueue = <<>> /\ device' = FALSE /\ UNCHANGED faults
    BY <2>1, <2>2
  <2>3. CASE faults' = faults + 1
    BY <2>1, <2>3
  <2> QED
    BY <1>6, <2>2, <2>3 DEF PlayFlush, Fault
<1>7. CASE ServerBinds
  BY <1>7 DEF ServerBinds, Fault, SGoes, bufferVars, clientVars
<1>8. CASE ServerAccepts
  BY <1>8 DEF ServerAccepts, SGoes, deviceVars
<1>9. CASE ServerClaims
  BY <1>9 DEF ServerClaims, Unlocked, deviceVars, clientVars
<1>10. CASE ServerReads
  BY <1>10 DEF ServerReads, SGoes, deviceVars
<1>11. CASE ServerCopies
  BY <1>11 DEF ServerCopies, SGoes, Unlocked, deviceVars, clientVars
<1>12. CASE ServerEnds
  BY <1>12 DEF ServerEnds, SGoes, deviceVars, bufferVars, clientVars
<1>13. CASE ServerReleases
  BY <1>13 DEF ServerReleases, SGoes, Unlocked, deviceVars, clientVars
<1>14. CASE Reinitialize
  BY <1>14 DEF Reinitialize, TurnsOn, TurnsOnPartly, Fault, PGoes, bufferVars,
     clientVars
<1>15. CASE PlayerWaits
  BY <1>15 DEF PlayerWaits, deviceVars, bufferVars, clientVars
<1>16. CASE PlayerSends
  BY <1>16 DEF PlayerSends, Accepts, PGoes, clientVars
<1>17. CASE PlayerFails
  BY <1>17 DEF PlayerFails, Rejects, Fault, PGoes, bufferVars, clientVars
<1>18. ASSUME NEW c \in Clients, ClientConnects(c) PROVE FileOrder'
  BY <1>18 DEF ClientConnects, CGoes, deviceVars, threadVars, bufferVars
<1>19. ASSUME NEW c \in Clients, ClientWrites(c) PROVE FileOrder'
  BY <1>19 DEF ClientWrites, deviceVars, threadVars, bufferVars
<1>20. ASSUME NEW c \in Clients, ClientEnds(c) PROVE FileOrder'
  BY <1>20 DEF ClientEnds, deviceVars, threadVars, bufferVars
<1>21. CASE UNCHANGED vars
  BY <1>21 DEF vars, deviceVars, daemonVars, threadVars, bufferVars, clientVars
<1> QED
  BY <1>1, <1>2, <1>3, <1>4, <1>5, <1>6, <1>7, <1>8, <1>9, <1>10, <1>11, <1>12,
     <1>13, <1>14, <1>15, <1>16, <1>17, <1>18, <1>19, <1>20, <1>21 DEF Next,
     AudioPlay, Server, Player

LEMMA AcceptsKeeps ==
    ASSUME PlayInv, ServerAccepts
    PROVE  Connections'
<1>1. /\ queue # <<>> /\ client_sock' = queue[1] /\ queue' = Tail(queue)
      /\ spc = "accept" /\ spc' = "claim" /\ UNCHANGED <<made, sent, cpc, buf>>
      /\ queue \in Seq(Clients)
  BY DEF ServerAccepts, SGoes, deviceVars, PlayInv, Types
<1>2. /\ 1 \in DOMAIN queue /\ queue[1] \in Clients
      /\ \A i \in DOMAIN queue' : i + 1 \in DOMAIN queue /\ queue'[i] = queue[i + 1]
                                  /\ i + 1 # 1 /\ i \in Nat
  BY <1>1
<1>3. FramesSent'
  BY <1>1 DEF PlayInv, Connections, FramesSent, Taken
<1>4. Queued'
  <2>1. \A i \in DOMAIN queue' : queue'[i] # client_sock' /\ cpc'[queue'[i]] # "start"
    BY <1>1, <1>2 DEF PlayInv, Connections, Queued
  <2>2. \A c \in Clients : (\E i \in DOMAIN queue' : queue'[i] = c) => Taken(c)' = 0
    BY <1>1, <1>2 DEF PlayInv, Connections, Queued, Taken
  <2>3. \A i, j \in DOMAIN queue' : queue'[i] = queue'[j] => i = j
    <3>1. ASSUME NEW i \in DOMAIN queue', NEW j \in DOMAIN queue', queue'[i] = queue'[j]
          PROVE  i + 1 = j + 1 /\ i \in Nat /\ j \in Nat
      BY <1>2, <3>1 DEF PlayInv, Connections, Queued
    <3> QED
      BY <3>1
  <2> QED
    BY <2>1, <2>2, <2>3 DEF Queued
<1>5. Serving'
  BY <1>1, <1>2 DEF PlayInv, Connections, Queued, Serving
<1> QED
  BY <1>3, <1>4, <1>5 DEF Connections

LEMMA ReadsKeeps ==
    ASSUME PlayInv, ServerReads
    PROVE  Connections'
<1> DEFINE d == client_sock
<1>1. /\ d \in Clients /\ sent[d] # <<>> /\ sent[d] \in Seq(Chunks)
      /\ sent \in [Clients -> Seq(Chunks)]
      /\ sent' = [sent EXCEPT ![d] = Tail(sent[d])] /\ buf' = Head(sent[d])
      /\ spc = "read" /\ spc' = "copy"
      /\ UNCHANGED <<made, queue, cpc, client_sock>>
  BY DEF ServerReads, SGoes, deviceVars, PlayInv, Types, Connections, Serving
<1>2. made[d] \in Nat
  BY <1>1 DEF Sources, PlayInv, Types
<1>3. /\ 1 \in DOMAIN sent[d] /\ buf' = sent[d][1] /\ Len(Tail(sent[d])) = Len(sent[d]) - 1
      /\ \A i \in DOMAIN Tail(sent[d]) :
             i \in Nat /\ i + 1 \in DOMAIN sent[d] /\ Tail(sent[d])[i] = sent[d][i + 1]
      /\ Len(sent[d]) \in Nat
  BY <1>1
<1>4. /\ sent'[d] = Tail(sent[d])
      /\ \A c \in Clients \ {d} : sent'[c] = sent[c]
  BY <1>1
<1>5. /\ Taken(d)' = Taken(d) + 1 /\ Taken(d) \in Int
      /\ \A c \in Clients \ {d} : Taken(c)' = Taken(c)
  BY <1>1, <1>2, <1>3, <1>4 DEF Taken
<1>6. FramesSent'
  <2>1. ASSUME NEW c \in Clients
        PROVE  /\ Len(sent'[c]) <= made'[c]
               /\ \A i \in DOMAIN sent'[c] : sent'[c][i] = <<c, Taken(c)' + i>>
               /\ cpc'[c] = "start" => made'[c] = 0
    <3>1. CASE c = d
      <4>1. ASSUME NEW i \in DOMAIN sent'[c] PROVE sent'[c][i] = <<c, Taken(c)' + i>>
        <5>1. sent'[c][i] = <<c, Taken(d) + (i + 1)>> /\ i \in Nat
          BY <1>1, <1>3, <1>4, <3>1 DEF PlayInv, Connections, FramesSent
        <5>2. Taken(c)' = Taken(d) + 1 /\ Taken(d) \in Int
          BY <1>1, <1>5, <3>1 DEF Taken
        <5>3. Taken(d) + (i + 1) = Taken(c)' + i
          BY <5>1, <5>2
        <5> QED
          BY <5>1, <5>3
      <4> QED
        BY <1>1, <1>2, <1>3, <1>4, <3>1, <4>1 DEF PlayInv, Connections, FramesSent
    <3>2. CASE c # d
      BY <1>1, <1>4, <1>5, <3>2 DEF PlayInv, Connections, FramesSent
    <3> QED
      BY <3>1, <3>2
  <2> QED
    BY <2>1 DEF FramesSent
<1>7. Queued'
  BY <1>1, <1>5 DEF PlayInv, Connections, Queued
<1>8. Serving'
  <2>1. buf' = <<d, Taken(d)'>> /\ buf' \in Chunks
    BY <1>1, <1>3, <1>5 DEF PlayInv, Connections, FramesSent
  <2>2. Taken(client_sock)' = Taken(d)'
    BY <1>1 DEF Taken
  <2> QED
    BY <1>1, <2>1, <2>2 DEF PlayInv, Connections, Serving
<1> QED
  BY <1>6, <1>7, <1>8 DEF Connections

LEMMA ConnectsKeeps ==
    ASSUME PlayInv, NEW c \in Clients, ClientConnects(c)
    PROVE  Connections'
<1>1. /\ cpc[c] = "start" /\ cpc' = [cpc EXCEPT ![c] = "stream"] /\ queue' = Append(queue, c)
      /\ UNCHANGED <<made, sent, client_sock, spc, buf>>
      /\ queue \in Seq(Clients) /\ cpc \in [Clients -> {"start", "stream", "over"}]
      /\ client_sock \in Clients \cup {None}
  BY DEF ClientConnects, CGoes, threadVars, bufferVars, deviceVars, PlayInv, Types
<1>2. /\ \A i \in DOMAIN queue : queue'[i] = queue[i]
      /\ queue'[Len(queue) + 1] = c
      /\ \A i \in DOMAIN queue' : i \in DOMAIN queue \/ i = Len(queue) + 1
  BY <1>1
<1>3. /\ cpc'[c] = "stream"
      /\ \A d \in Clients \ {c} : cpc'[d] = cpc[d]
      /\ \A d \in Clients : Taken(d)' = Taken(d)
  BY <1>1 DEF Taken
<1>4. Taken(c) = 0 /\ c # client_sock
  <2>1. made[c] = 0 /\ Len(sent[c]) <= made[c] /\ sent[c] \in Seq(Chunks)
    BY <1>1 DEF PlayInv, Types, Connections, FramesSent
  <2> QED
    BY <1>1, <2>1 DEF Taken, PlayInv, Connections, Serving
<1>5. \A i \in DOMAIN queue : queue[i] # c /\ queue[i] \in Clients
  BY <1>1 DEF PlayInv, Connections, Queued
<1>6. FramesSent'
  BY <1>1, <1>3 DEF PlayInv, Connections, FramesSent
<1>7. Queued'
  <2>1. \A i \in DOMAIN queue' : queue'[i] # client_sock' /\ cpc'[queue'[i]] # "start"
    BY <1>1, <1>2, <1>3, <1>4, <1>5 DEF PlayInv, Connections, Queued
  <2>2. \A d \in Clients : (\E i \in DOMAIN queue' : queue'[i] = d) => Taken(d)' = 0
    BY <1>2, <1>3, <1>4 DEF PlayInv, Connections, Queued
  <2>3. \A i, j \in DOMAIN queue' : queue'[i] = queue'[j] => i = j
    BY <1>2, <1>5 DEF PlayInv, Connections, Queued
  <2> QED
    BY <2>1, <2>2, <2>3 DEF Queued
<1>8. Serving'
  <2>1. Taken(client_sock)' = Taken(client_sock)
    BY <1>1 DEF Taken
  <2> QED
    BY <1>1, <1>3, <1>4, <2>1 DEF PlayInv, Connections, Serving
<1> QED
  BY <1>6, <1>7, <1>8 DEF Connections

LEMMA WritesKeeps ==
    ASSUME PlayInv, NEW c \in Clients, ClientWrites(c)
    PROVE  Connections' /\ \A d \in Clients : Taken(d)' = Taken(d)
<1> DEFINE x == <<c, made[c] + 1>>
<1>1. /\ cpc[c] = "stream" /\ made[c] \in Nat
      /\ made'[c] = made[c] + 1 /\ sent'[c] = Append(sent[c], x) /\ sent[c] \in Seq(Chunks)
      /\ \A d \in Clients \ {c} : made'[d] = made[d] /\ sent'[d] = sent[d]
      /\ UNCHANGED <<cpc, queue, client_sock, spc, buf>>
  BY DEF Sources, ClientWrites, threadVars, bufferVars, PlayInv, Types
<1>2. x = <<c, made[c] + 1>>
  OBVIOUS
<1> HIDE DEF x
<1>3. /\ Len(sent[c]) \in Nat /\ Len(sent'[c]) = Len(sent[c]) + 1
      /\ \A i \in DOMAIN sent[c] : sent'[c][i] = sent[c][i]
      /\ sent'[c][Len(sent[c]) + 1] = x
      /\ \A i \in DOMAIN sent'[c] : i \in DOMAIN sent[c] \/ i = Len(sent[c]) + 1
  BY <1>1
<1>4. \A d \in Clients : Taken(d)' = Taken(d)
  <2>1. Taken(c)' = Taken(c)
    BY <1>1, <1>3 DEF Taken
  <2> QED
    BY <1>1, <2>1 DEF Taken
<1>5. FramesSent'
  <2>1. \A i \in DOMAIN sent'[c] : sent'[c][i] = <<c, Taken(c)' + i>>
    <3>1. x = <<c, Taken(c) + (Len(sent[c]) + 1)>>
      <4>1. made[c] + 1 = Taken(c) + (Len(sent[c]) + 1)
        BY <1>1, <1>3 DEF Taken
      <4> QED
        BY <1>2, <4>1
    <3>2. \A i \in DOMAIN sent[c] : sent[c][i] = <<c, Taken(c) + i>>
      BY DEF PlayInv, Connections, FramesSent
    <3> QED
      BY <1>3, <1>4, <3>1, <3>2
  <2>2. Len(sent'[c]) <= made'[c] /\ cpc'[c] # "start"
    BY <1>1, <1>3 DEF PlayInv, Connections, FramesSent
  <2>3. ASSUME NEW d \in Clients \ {c}
        PROVE  /\ Len(sent'[d]) <= made'[d]
               /\ \A i \in DOMAIN sent'[d] : sent'[d][i] = <<d, Taken(d)' + i>>
               /\ cpc'[d] = "start" => made'[d] = 0
    BY <1>1, <1>4 DEF PlayInv, Connections, FramesSent
  <2> QED
    BY <2>1, <2>2, <2>3 DEF FramesSent
<1>6. Queued'
  BY <1>1, <1>4 DEF PlayInv, Connections, Queued
<1>7. Serving'
  <2>1. client_sock # None => Taken(client_sock)' = Taken(client_sock)
    <3>1. client_sock \in Clients \cup {None}
      BY DEF PlayInv, Types
    <3>2. CASE client_sock = c
      BY <1>1, <1>4, <3>2 DEF Taken
    <3>3. CASE client_sock \in Clients \ {c}
      BY <1>1, <3>3 DEF Taken
    <3> QED
      BY <3>1, <3>2, <3>3
  <2> QED
    BY <1>1, <2>1 DEF PlayInv, Connections, Serving
<1> QED
  BY <1>4, <1>5, <1>6, <1>7 DEF Connections

LEMMA ConnectionsKept ==
    ASSUME PlayInv, [Next]_vars
    PROVE  Connections'
<1> USE DEF PlayInv, OneProgram, Types, Connections, FramesSent, Queued, Serving,
        Taken
<1>1. CASE DevicePlays
  BY <1>1 DEF DevicePlays, daemonVars, threadVars, bufferVars, clientVars
<1>2. CASE PlayNothing
  BY <1>2 DEF PlayNothing, Fault, AGoes, daemonVars, threadVars, bufferVars,
     clientVars
<1>3. CASE PlaySetUp
  BY <1>3 DEF PlaySetUp, TurnsOn, TurnsOnPartly, Fault, daemonVars, threadVars,
     bufferVars, clientVars
<1>4. CASE PlayFrame
  <2>1. \A c \in Clients : c # File /\ made'[c] = made[c]
    BY <1>4 DEF PlayFrame
  <2> QED
    BY <1>4, <2>1 DEF PlayFrame, Accepts, Rejects, Fault, daemonVars, threadVars, bufferVars, clientVars
<1>5. CASE PlayFileEnds
  BY <1>5 DEF PlayFileEnds, AGoes, deviceVars, daemonVars, threadVars, bufferVars,
     clientVars
<1>6. CASE PlayFlush
  BY <1>6 DEF PlayFlush, Fault, AGoes, daemonVars, threadVars, bufferVars,
     clientVars
<1>7. CASE ServerBinds
  BY <1>7 DEF ServerBinds, Fault, SGoes, bufferVars, clientVars
<1>8. CASE ServerAccepts
  BY <1>8, AcceptsKeeps
<1>9. CASE ServerClaims
  BY <1>9 DEF ServerClaims, Unlocked, deviceVars, clientVars
<1>10. CASE ServerReads
  BY <1>10, ReadsKeeps
<1>11. CASE ServerCopies
  BY <1>11 DEF ServerCopies, SGoes, Unlocked, deviceVars, clientVars
<1>12. CASE ServerEnds
  BY <1>12 DEF ServerEnds, SGoes, deviceVars, bufferVars, clientVars
<1>13. CASE ServerReleases
  BY <1>13 DEF ServerReleases, SGoes, Unlocked, deviceVars, clientVars
<1>14. CASE Reinitialize
  BY <1>14 DEF Reinitialize, TurnsOn, TurnsOnPartly, Fault, PGoes, bufferVars,
     clientVars
<1>15. CASE PlayerWaits
  BY <1>15 DEF PlayerWaits, deviceVars, bufferVars, clientVars
<1>16. CASE PlayerSends
  BY <1>16 DEF PlayerSends, Accepts, PGoes, clientVars
<1>17. CASE PlayerFails
  BY <1>17 DEF PlayerFails, Rejects, Fault, PGoes, bufferVars, clientVars
<1>18. ASSUME NEW c \in Clients, ClientConnects(c) PROVE Connections'
  BY <1>18, ConnectsKeeps
<1>19. ASSUME NEW c \in Clients, ClientWrites(c) PROVE Connections'
  BY <1>19, WritesKeeps
<1>20. ASSUME NEW c \in Clients, ClientEnds(c) PROVE Connections'
  BY <1>20 DEF ClientEnds, deviceVars, threadVars, bufferVars
<1>21. CASE UNCHANGED vars
  BY <1>21 DEF vars, deviceVars, daemonVars, threadVars, bufferVars, clientVars
<1> QED
  BY <1>1, <1>2, <1>3, <1>4, <1>5, <1>6, <1>7, <1>8, <1>9, <1>10, <1>11, <1>12,
     <1>13, <1>14, <1>15, <1>16, <1>17, <1>18, <1>19, <1>20, <1>21 DEF Next,
     AudioPlay, Server, Player

LEMMA CopiedTyped ==
    ASSUME Types, Connections, NEW c \in Clients
    PROVE  Taken(c) \in Nat /\ Copied(c) \in Int
  BY DEF Types, Connections, FramesSent, Serving, Taken, Copied, Sources

LEMMA StreamSame ==
    ASSUME PlayInv, Types', Connections', Stream' = Stream, client_sock' = client_sock,
           apc' = apc, \A c \in Clients : Copied(c)' = Copied(c)
    PROVE  StreamTidy'
<1> SUFFICES ASSUME apc = "none" PROVE Tidy(Stream)'
  BY DEF StreamTidy
<1>1. Stream \in Seq(Chunks) /\ Tidy(Stream)
  BY StreamTyped DEF PlayInv, StreamTidy
<1>2. \A c \in Clients : Copied(c) \in Int
  BY CopiedTyped DEF PlayInv
<1> QED
  BY <1>1, <1>2 DEF Tidy, InOrder, Chunks

\* A frame that moves on stays where it is in the stream.
LEMMA MovedOn ==
    ASSUME NEW S, NEW s \in Seq(S), NEW t \in Seq(S)
    PROVE  /\ t # <<>> => Append(s, Head(t)) \o Tail(t) = s \o t
           /\ \A x \in S : s \o Append(t, x) \o <<>> = s \o t \o <<x>>
           /\ \A x \in S : s \o <<x>> = Append(s, x)
           /\ s \o <<>> = s
<1>1. t # <<>> => Append(s, Head(t)) \o Tail(t) = s \o t
  OBVIOUS
<1>2. ASSUME NEW x \in S PROVE s \o Append(t, x) \o <<>> = s \o t \o <<x>>
  OBVIOUS
<1>3. ASSUME NEW x \in S PROVE s \o <<x>> = Append(s, x)
  OBVIOUS
<1>4. s \o <<>> = s
  OBVIOUS
<1> QED
  BY <1>1, <1>2, <1>3, <1>4

LEMMA PlaysKeepsStream ==
    ASSUME PlayInv, DevicePlays
    PROVE  Stream' = Stream
<1>1. /\ heard' = Append(heard, Head(devQueue)) /\ devQueue' = Tail(devQueue)
      /\ devQueue # <<>> /\ audio_buffer' = audio_buffer
      /\ heard \in Seq(Chunks) /\ devQueue \in Seq(Chunks)
  BY DEF DevicePlays, daemonVars, bufferVars, PlayInv, Types
<1>2. heard' \o devQueue' = heard \o devQueue
  BY <1>1, MovedOn
<1> QED
  BY <1>1, <1>2 DEF Stream

LEMMA SendsKeepsStream ==
    ASSUME PlayInv, PlayerSends
    PROVE  Stream' = Stream
<1>1. /\ devQueue' = Append(devQueue, audio_buffer) /\ heard' = heard
      /\ audio_buffer' = None /\ audio_buffer \in Chunks /\ audio_buffer # None
      /\ heard \in Seq(Chunks) /\ devQueue \in Seq(Chunks)
  BY DEF PlayerSends, PGoes, Accepts, PlayInv, OneProgram, Types
<1>2. heard \o Append(devQueue, audio_buffer) \o <<>> = heard \o devQueue \o <<audio_buffer>>
  BY <1>1, MovedOn
<1> QED
  BY <1>1, <1>2 DEF Stream

\* The frames but the last, or all of them, and the one the server copies.
LEMMA CopiesKeepsOrder ==
    ASSUME PlayInv, ServerCopies, apc = "none"
    PROVE  Tidy(Stream)'
<1> DEFINE s == heard \o devQueue
<1> DEFINE x == buf
<1>1. /\ s \in Seq(Chunks) /\ Len(s) <= Len(Stream) /\ Stream \in Seq(Chunks)
      /\ \A i \in DOMAIN s : i \in DOMAIN Stream /\ s[i] = Stream[i]
  <2>1. heard \in Seq(Chunks) /\ devQueue \in Seq(Chunks)
    BY DEF PlayInv, Types
  <2>2. CASE audio_buffer = None
    BY <2>1, <2>2, MovedOn, Concatenated DEF Stream
  <2>3. CASE audio_buffer # None
    <3>1. audio_buffer \in Chunks
      BY <2>3 DEF PlayInv, Types
    <3>2. Stream = Append(s, audio_buffer) /\ s \in Seq(Chunks)
      BY <2>1, <2>3, <3>1, MovedOn, Concatenated DEF Stream
    <3> HIDE DEF s
    <3> QED
      BY <3>1, <3>2
  <2> QED
    BY <2>2, <2>3
<1>2. /\ client_sock \in Clients /\ x = <<client_sock, Taken(client_sock)>>
      /\ x \in Chunks /\ x[1] = client_sock /\ x[2] = Taken(client_sock)
      /\ Taken(client_sock) \in Nat
  <2>1. /\ client_sock \in Clients /\ buf = <<client_sock, Taken(client_sock)>>
        /\ buf \in Chunks
    BY DEF ServerCopies, SGoes, PlayInv, Types, Connections, Serving
  <2>2. Taken(client_sock) \in Nat
    BY <2>1, CopiedTyped DEF PlayInv
  <2> QED
    BY <2>1, <2>2
<1>3. Stream' = Append(s, x)
  <2>1. audio_buffer' = buf /\ UNCHANGED <<heard, devQueue>> /\ buf # None
    BY <1>2 DEF ServerCopies, deviceVars
  <2>2. heard \o devQueue \o <<buf>> = Append(s, buf)
    BY <1>1, <1>2, MovedOn
  <2> QED
    BY <2>1, <2>2 DEF Stream
<1>4. Tidy(Stream)
  BY DEF PlayInv, StreamTidy
<1>5. Copied(client_sock) = Taken(client_sock) - 1
  BY DEF ServerCopies, SGoes, Copied
<1>6. \A c \in Clients : Copied(c)' = Taken(c) /\ Copied(c) <= Taken(c) /\ Taken(c) \in Nat
                        /\ Copied(c) \in Int
  <2>1. ASSUME NEW c \in Clients
        PROVE  Copied(c)' = Taken(c)
    BY DEF ServerCopies, SGoes, Copied, Taken, clientVars
  <2>2. ASSUME NEW c \in Clients
        PROVE  Copied(c) <= Taken(c) /\ Taken(c) \in Nat /\ Copied(c) \in Int
    <3>1. Taken(c) \in Nat /\ Copied(c) \in Int
      BY CopiedTyped DEF PlayInv
    <3> QED
      BY <3>1 DEF Copied
  <2> QED
    BY <2>1, <2>2
<1> HIDE DEF s, x
<1>7. InOrder(s)
  <2> DEFINE f == [i \in DOMAIN s |-> i]
  <2>1. f \in [DOMAIN s -> DOMAIN Stream] /\ \A i \in DOMAIN s : f[i] = i
    BY <1>1
  <2> HIDE DEF f
  <2> QED
    BY <1>1, <1>4, <2>1, OrderPart DEF Tidy
<1>8. \A i \in DOMAIN s : s[i] \in Chunks /\ s[i][1] \in Clients /\ s[i][2] <= Copied(s[i][1])
                          /\ s[i][2] \in Nat
  <2>1. ASSUME NEW i \in DOMAIN s
        PROVE  s[i] \in Chunks /\ s[i][1] \in Clients /\ s[i][2] <= Copied(s[i][1])
               /\ s[i][2] \in Nat
    <3>1. s[i] \in Chunks
      BY <1>1
    <3> QED
      BY <1>1, <1>4, <3>1 DEF Tidy, Chunks
  <2> QED
    BY <2>1
<1>9. \A i \in DOMAIN s : s[i][1] = x[1] => s[i][2] < x[2]
  BY <1>2, <1>5, <1>8
<1>10. \A i, j \in DOMAIN s : i < j /\ s[i][1] = x[1] => s[j][1] = x[1]
  BY <1>1, <1>2, <1>4 DEF Tidy
<1>11. /\ InOrder(Append(s, x))
       /\ \A i, j \in DOMAIN Append(s, x) :
              i < j /\ Append(s, x)[i][1] = x[1] => Append(s, x)[j][1] = x[1]
  BY <1>1, <1>2, <1>7, <1>9, <1>10, OrderAppend
<1>12. \A i \in DOMAIN Append(s, x) :
           /\ Append(s, x)[i][1] \in Clients
           /\ \A c \in Clients : Append(s, x)[i][1] = c => Append(s, x)[i][2] <= Taken(c)
  <2>1. ASSUME NEW i \in DOMAIN Append(s, x)
        PROVE  /\ Append(s, x)[i][1] \in Clients
               /\ \A c \in Clients : Append(s, x)[i][1] = c => Append(s, x)[i][2] <= Taken(c)
    <3>1. CASE i \in DOMAIN s
      <4>1. Append(s, x)[i] = s[i]
        BY <1>1, <3>1
      <4>2. /\ s[i][1] \in Clients /\ s[i][2] \in Nat /\ s[i][2] <= Copied(s[i][1])
        BY <1>8, <3>1
      <4>3. /\ Copied(s[i][1]) <= Taken(s[i][1]) /\ Taken(s[i][1]) \in Nat
            /\ Copied(s[i][1]) \in Int
        BY <1>6, <4>2
      <4> QED
        BY <4>1, <4>2, <4>3
    <3>2. CASE i \notin DOMAIN s
      <4>1. Append(s, x)[i] = x
        BY <1>1, <3>2
      <4> QED
        BY <1>2, <4>1
    <3> QED
      BY <3>1, <3>2
  <2> QED
    BY <2>1
<1>13. client_sock' = client_sock
  BY DEF ServerCopies
<1> QED
  <2>1. InOrder(Stream)'
    BY <1>3, <1>11 DEF InOrder
  <2>2. \A i \in DOMAIN Stream' : Stream'[i][1] \in Clients
    BY <1>3, <1>12
  <2>3. \A c \in Clients : \A i \in DOMAIN Stream' : Stream'[i][1] = c => Stream'[i][2] <= Copied(c)'
    BY <1>3, <1>6, <1>12
  <2>4. \A i, j \in DOMAIN Stream' :
            i < j /\ Stream'[i][1] = client_sock' => Stream'[j][1] = client_sock'
    BY <1>2, <1>3, <1>11, <1>13
  <2> QED
    BY <2>1, <2>2, <2>3, <2>4 DEF Tidy

\* No frame of the next client has been copied yet.
LEMMA AcceptsKeepsOrder ==
    ASSUME PlayInv, ServerAccepts, apc = "none"
    PROVE  Tidy(Stream)'
<1>1. /\ Stream' = Stream /\ client_sock' = queue[1] /\ 1 \in DOMAIN queue
      /\ queue[1] \in Clients /\ spc = "accept" /\ spc' = "claim"
      /\ UNCHANGED <<made, sent>>
  BY DEF ServerAccepts, SGoes, deviceVars, Stream, PlayInv, Types
<1>2. Tidy(Stream) /\ Stream \in Seq(Chunks)
  BY StreamTyped DEF PlayInv, StreamTidy
<1>3. \A c \in Clients : Copied(c)' = Copied(c) /\ Copied(c) = Taken(c)
  BY <1>1 DEF Copied, Taken
<1>4. Taken(queue[1]) = 0
  BY <1>1 DEF PlayInv, Connections, Queued
<1>5. \A i \in DOMAIN Stream : Stream[i][1] # queue[1]
  <2>1. ASSUME NEW i \in DOMAIN Stream, Stream[i][1] = queue[1] PROVE FALSE
    <3>1. Stream[i] \in Chunks
      BY <1>2
    <3>2. Stream[i][2] \in Nat /\ Stream[i][2] >= 1
      BY <3>1 DEF Chunks
    <3>3. Stream[i][2] <= Copied(queue[1])
      BY <1>1, <1>2, <2>1 DEF Tidy
    <3> QED
      BY <1>1, <1>3, <1>4, <3>2, <3>3
  <2> QED
    BY <2>1
<1> QED
  BY <1>1, <1>2, <1>3, <1>5 DEF Tidy, InOrder

\* The frames the device had are gone from the middle.
LEMMA ReinitializeKeepsOrder ==
    ASSUME PlayInv, Types', Reinitialize, apc = "none"
    PROVE  Tidy(Stream)'
<1> DEFINE t == Stream'
<1> DEFINE f == [i \in DOMAIN t |-> IF i <= Len(heard) THEN i ELSE i + Len(devQueue)]
<1>1. /\ devQueue' = <<>>
      /\ UNCHANGED <<heard, audio_buffer, client_sock, spc, made, sent>>
  BY DEF Reinitialize, PGoes, bufferVars, clientVars
<1>2. /\ Stream \in Seq(Chunks) /\ Tidy(Stream)
      /\ Len(Stream) = Len(heard) + Len(devQueue) + (IF audio_buffer = None THEN 0 ELSE 1)
      /\ \A i \in DOMAIN heard : Stream[i] = heard[i]
      /\ audio_buffer # None => Stream[Len(heard) + Len(devQueue) + 1] = audio_buffer
  BY StreamTyped DEF PlayInv, StreamTidy
<1>3. /\ Stream' \in Seq(Chunks)
      /\ Len(Stream') = Len(heard) + (IF audio_buffer = None THEN 0 ELSE 1)
      /\ \A i \in DOMAIN heard : Stream'[i] = heard[i]
      /\ audio_buffer # None => Stream'[Len(heard) + 1] = audio_buffer
  <2>1. /\ Stream' \in Seq(Chunks)
        /\ Len(Stream') = Len(heard') + Len(devQueue')
                            + (IF audio_buffer' = None THEN 0 ELSE 1)
        /\ \A i \in DOMAIN heard' : Stream'[i] = heard'[i]
        /\ audio_buffer' # None =>
               Stream'[Len(heard') + Len(devQueue') + 1] = audio_buffer'
    <3>1. /\ heard' \in Seq(Chunks) /\ devQueue' \in Seq(Chunks)
          /\ audio_buffer' \in Chunks \cup {None}
          /\ Stream' = heard' \o devQueue'
                         \o (IF audio_buffer' = None THEN <<>> ELSE <<audio_buffer'>>)
      BY DEF Types, Stream
    <3> QED
      BY <3>1, ThreeParts
  <2>2. Len(heard) \in Nat
    BY DEF PlayInv, Types
  <2> QED
    BY <1>1, <2>1, <2>2
<1>4. Len(heard) \in Nat /\ Len(devQueue) \in Nat /\ DOMAIN heard = 1 .. Len(heard)
  BY DEF PlayInv, Types
<1>5. DOMAIN t = 1 .. Len(Stream') /\ DOMAIN Stream = 1 .. Len(Stream)
  BY <1>2, <1>3
<1>6. /\ f \in [DOMAIN t -> DOMAIN Stream]
      /\ \A i \in DOMAIN t : t[i] = Stream[f[i]]
      /\ \A i, j \in DOMAIN t : i < j => f[i] < f[j]
  <2>1. ASSUME NEW i \in DOMAIN t
        PROVE  f[i] \in DOMAIN Stream /\ t[i] = Stream[f[i]]
    <3>1. CASE i <= Len(heard)
      BY <1>2, <1>3, <1>4, <1>5, <3>1
    <3>2. CASE i > Len(heard)
      <4>1. i = Len(heard) + 1 /\ audio_buffer # None
        BY <1>3, <1>4, <1>5, <3>2
      <4>2. f[i] = Len(heard) + Len(devQueue) + 1
        BY <1>4, <3>2, <4>1
      <4> QED
        BY <1>2, <1>3, <1>4, <1>5, <4>1, <4>2
    <3> QED
      BY <1>4, <1>5, <3>1, <3>2
  <2>2. ASSUME NEW i \in DOMAIN t, NEW j \in DOMAIN t, i < j PROVE f[i] < f[j]
    BY <1>4, <1>5, <2>2
  <2> QED
    BY <2>1, <2>2
<1> HIDE DEF f
<1>7. InOrder(t)
  BY <1>2, <1>3, <1>6, OrderPart DEF Tidy
<1>8. \A c \in Clients : Copied(c)' = Copied(c)
  BY <1>1 DEF Copied, Taken
<1>9. \A i \in DOMAIN t : /\ t[i][1] \in Clients
                          /\ \A c \in Clients : t[i][1] = c => t[i][2] <= Copied(c)'
  BY <1>2, <1>6, <1>8 DEF Tidy
<1>10. \A i, j \in DOMAIN t : i < j /\ t[i][1] = client_sock => t[j][1] = client_sock
  BY <1>2, <1>6 DEF Tidy
<1> QED
  BY <1>1, <1>7, <1>9, <1>10 DEF Tidy, InOrder

LEMMA StreamKept ==
    ASSUME PlayInv, Types', Connections', [Next]_vars
    PROVE  StreamTidy'
<1>1. CASE DevicePlays
  <2>1. UNCHANGED <<client_sock, apc>>
    BY <1>1 DEF DevicePlays, daemonVars, threadVars, bufferVars, clientVars
  <2>2. \A c \in Clients : Copied(c)' = Copied(c)
    BY <1>1 DEF Copied, Taken, DevicePlays, daemonVars, threadVars, bufferVars, clientVars
  <2> QED
    BY <1>1, <2>1, <2>2, StreamSame, PlaysKeepsStream
<1>2. CASE PlayNothing
  BY <1>2 DEF PlayNothing, AGoes, StreamTidy
<1>3. CASE PlaySetUp
  BY <1>3 DEF PlaySetUp, StreamTidy
<1>4. CASE PlayFrame
  BY <1>4 DEF PlayFrame, StreamTidy
<1>5. CASE PlayFileEnds
  BY <1>5 DEF PlayFileEnds, AGoes, StreamTidy
<1>6. CASE PlayFlush
  BY <1>6 DEF PlayFlush, AGoes, StreamTidy
<1>7. CASE ServerBinds
  <2>1. UNCHANGED <<heard, devQueue, audio_buffer, client_sock, apc>>
    BY <1>7 DEF ServerBinds, Fault, SGoes, bufferVars, clientVars
  <2>2. \A c \in Clients : Copied(c)' = Copied(c)
    BY <1>7 DEF Copied, Taken, ServerBinds, Fault, SGoes, bufferVars, clientVars
  <2> QED
    BY <2>1, <2>2, StreamSame DEF Stream
<1>8. CASE ServerAccepts
  BY <1>8, AcceptsKeepsOrder DEF StreamTidy, ServerAccepts
<1>9. CASE ServerClaims
  <2>1. UNCHANGED <<heard, devQueue, audio_buffer, client_sock, apc>>
    BY <1>9 DEF ServerClaims, Unlocked, deviceVars, clientVars
  <2>2. \A c \in Clients : Copied(c)' = Copied(c)
    BY <1>9 DEF Copied, Taken, ServerClaims, Unlocked, deviceVars, clientVars
  <2> QED
    BY <2>1, <2>2, StreamSame DEF Stream
<1>10. CASE ServerReads
  <2>1. UNCHANGED <<heard, devQueue, audio_buffer, client_sock, apc>>
    BY <1>10 DEF ServerReads, SGoes, deviceVars
  <2>2. /\ client_sock \in Clients /\ sent \in [Clients -> Seq(Chunks)]
        /\ sent[client_sock] # <<>> /\ made[client_sock] \in Int
        /\ sent' = [sent EXCEPT ![client_sock] = Tail(sent[client_sock])]
        /\ spc = "read" /\ spc' = "copy" /\ made' = made
    BY <1>10 DEF PlayInv, Types, Sources, Connections, Serving, ServerReads, SGoes, deviceVars
  <2>3. Len(Tail(sent[client_sock])) = Len(sent[client_sock]) - 1
        /\ Len(sent[client_sock]) \in Nat
    BY <2>2
  <2>4. \A c \in Clients : Copied(c)' = Copied(c)
    BY <2>1, <2>2, <2>3 DEF Copied, Taken
  <2> QED
    BY <2>1, <2>4, StreamSame DEF Stream
<1>11. CASE ServerCopies
  BY <1>11, CopiesKeepsOrder DEF StreamTidy, ServerCopies
<1>12. CASE ServerEnds
  <2>1. UNCHANGED <<heard, devQueue, audio_buffer, client_sock, apc>>
    BY <1>12 DEF ServerEnds, SGoes, deviceVars, bufferVars, clientVars
  <2>2. \A c \in Clients : Copied(c)' = Copied(c)
    BY <1>12 DEF Copied, Taken, ServerEnds, SGoes, deviceVars, bufferVars, clientVars
  <2> QED
    BY <2>1, <2>2, StreamSame DEF Stream
<1>13. CASE ServerReleases
  <2>1. UNCHANGED <<heard, devQueue, audio_buffer, client_sock, apc>>
    BY <1>13 DEF ServerReleases, SGoes, Unlocked, deviceVars, clientVars
  <2>2. \A c \in Clients : Copied(c)' = Copied(c)
    BY <1>13 DEF Copied, Taken, ServerReleases, SGoes, Unlocked, deviceVars, clientVars
  <2> QED
    BY <2>1, <2>2, StreamSame DEF Stream
<1>14. CASE Reinitialize
  BY <1>14, ReinitializeKeepsOrder DEF StreamTidy, Reinitialize
<1>15. CASE PlayerWaits
  <2>1. UNCHANGED <<heard, devQueue, audio_buffer, client_sock, apc>>
    BY <1>15 DEF PlayerWaits, deviceVars, bufferVars, clientVars
  <2>2. \A c \in Clients : Copied(c)' = Copied(c)
    BY <1>15 DEF Copied, Taken, PlayerWaits, deviceVars, bufferVars, clientVars
  <2> QED
    BY <2>1, <2>2, StreamSame DEF Stream
<1>16. CASE PlayerSends
  <2>1. UNCHANGED <<client_sock, apc>>
    BY <1>16 DEF PlayerSends, Accepts, PGoes, clientVars
  <2>2. \A c \in Clients : Copied(c)' = Copied(c)
    BY <1>16 DEF Copied, Taken, PlayerSends, Accepts, PGoes, clientVars
  <2> QED
    BY <1>16, <2>1, <2>2, StreamSame, SendsKeepsStream
<1>17. CASE PlayerFails
  <2>1. UNCHANGED <<heard, devQueue, audio_buffer, client_sock, apc>>
    BY <1>17 DEF PlayerFails, Rejects, Fault, PGoes, bufferVars, clientVars
  <2>2. \A c \in Clients : Copied(c)' = Copied(c)
    BY <1>17 DEF Copied, Taken, PlayerFails, Rejects, Fault, PGoes, bufferVars, clientVars
  <2> QED
    BY <2>1, <2>2, StreamSame DEF Stream
<1>18. ASSUME NEW c \in Clients, ClientConnects(c) PROVE StreamTidy'
  <2>1. UNCHANGED <<heard, devQueue, audio_buffer, client_sock, apc>>
    BY <1>18 DEF ClientConnects, CGoes, deviceVars, threadVars, bufferVars
  <2>2. \A d \in Clients : Copied(d)' = Copied(d)
    BY <1>18 DEF Copied, Taken, ClientConnects, CGoes, deviceVars, threadVars, bufferVars
  <2> QED
    BY <2>1, <2>2, StreamSame DEF Stream
<1>19. ASSUME NEW c \in Clients, ClientWrites(c) PROVE StreamTidy'
  <2>1. UNCHANGED <<heard, devQueue, audio_buffer, client_sock, apc, spc>>
    BY <1>19 DEF ClientWrites, deviceVars, threadVars, bufferVars
  <2>2. \A d \in Clients : Copied(d)' = Copied(d)
    BY <1>19, <2>1, WritesKeeps DEF Copied
  <2> QED
    BY <2>1, <2>2, StreamSame DEF Stream
<1>20. ASSUME NEW c \in Clients, ClientEnds(c) PROVE StreamTidy'
  <2>1. UNCHANGED <<heard, devQueue, audio_buffer, client_sock, apc>>
    BY <1>20 DEF ClientEnds, deviceVars, threadVars, bufferVars
  <2>2. \A d \in Clients : Copied(d)' = Copied(d)
    BY <1>20 DEF Copied, Taken, ClientEnds, deviceVars, threadVars, bufferVars
  <2> QED
    BY <2>1, <2>2, StreamSame DEF Stream
<1>21. CASE UNCHANGED vars
  <2>1. UNCHANGED <<heard, devQueue, audio_buffer, client_sock, apc>>
    BY <1>21 DEF vars, deviceVars, daemonVars, bufferVars
  <2>2. \A c \in Clients : Copied(c)' = Copied(c)
    BY <1>21 DEF Copied, Taken, vars, daemonVars, threadVars, bufferVars, clientVars
  <2> QED
    BY <2>1, <2>2, StreamSame DEF Stream
<1> QED
  BY <1>1, <1>2, <1>3, <1>4, <1>5, <1>6, <1>7, <1>8, <1>9, <1>10, <1>11, <1>12,
     <1>13, <1>14, <1>15, <1>16, <1>17, <1>18, <1>19, <1>20, <1>21 DEF Next,
     AudioPlay, Server, Player

LEMMA PlayInvStep == PlayInv /\ [Next]_vars => PlayInv'
  BY TypesKept, ProgramKept, FileOrderKept, ConnectionsKept, StreamKept DEF PlayInv

LEMMA PlayInvHolds == Spec => []PlayInv
  BY PlayInvInit, PlayInvStep, PTL DEF Spec

-------------------------------------------------------------------------------
(* Theorems. *)

\* What the device has played and will play is in the order each source had it,
\* nothing twice, and two sources are never mixed.
THEOREM HeardInOrderThm == Spec => []HeardInOrder
<1>1. PlayInv => HeardInOrder
  <2> SUFFICES ASSUME PlayInv PROVE HeardInOrder
    OBVIOUS
  <2>1. CASE apc = "none"
    BY <2>1 DEF PlayInv, StreamTidy, Tidy, InOrder, HeardInOrder
  <2>2. CASE apc # "none"
    <3>1. /\ Stream \in Seq(Chunks) /\ Len(Stream) = Len(heard) + Len(devQueue)
          /\ \A i \in DOMAIN heard : Stream[i] = heard[i]
          /\ \A i \in DOMAIN devQueue : Stream[Len(heard) + i] = devQueue[i]
          /\ Len(heard) \in Nat /\ Len(devQueue) \in Nat
          /\ DOMAIN heard = 1 .. Len(heard) /\ DOMAIN devQueue = 1 .. Len(devQueue)
      BY <2>2, StreamTyped DEF PlayInv, OneProgram, Types
    <3>2. ASSUME NEW i \in DOMAIN Stream PROVE Stream[i] = <<File, i>>
      <4>1. CASE i <= Len(heard)
        <5>1. i \in DOMAIN heard
          BY <3>1, <4>1
        <5> QED
          BY <2>2, <3>1, <5>1 DEF PlayInv, FileOrder
      <4>2. CASE i > Len(heard)
        <5>1. PICK k \in DOMAIN devQueue : i = Len(heard) + k
          <6>1. i - Len(heard) \in DOMAIN devQueue /\ i = Len(heard) + (i - Len(heard))
            BY <3>1, <4>2
          <6> QED
            BY <6>1
        <5>2. devQueue[k] = <<File, Len(heard) + k>>
          BY <2>2 DEF PlayInv, FileOrder
        <5>3. Stream[i] = devQueue[k]
          BY <3>1, <5>1
        <5>4. <<File, i>> = <<File, Len(heard) + k>>
          BY <5>1
        <5> QED
          BY <5>2, <5>3, <5>4, Zenon
      <4> QED
        BY <3>1, <4>1, <4>2
    <3> QED
      BY <3>2 DEF HeardInOrder
  <2> QED
    BY <2>1, <2>2
<1> QED
  BY <1>1, PlayInvHolds, PTL

\* audioplay that ends without a failed call has had every frame played, and
\* leaves the device off.
THEOREM FilePlayedThm == Spec => []FilePlayed
<1>1. PlayInv => FilePlayed
  <2> SUFFICES ASSUME PlayInv, apc = "over", faults = 0
               PROVE  ~device /\ heard = [i \in 1 .. made[File] |-> <<File, i>>]
    BY DEF FilePlayed
  <2>1. /\ ~device /\ devQueue = <<>> /\ made[File] = Len(heard) + Len(devQueue)
        /\ \A i \in DOMAIN heard : heard[i] = <<File, i>>
        /\ heard \in Seq(Chunks)
    BY DEF PlayInv, FileOrder, Types
  <2>2. made[File] = Len(heard)
    BY <2>1
  <2>3. heard = [i \in 1 .. Len(heard) |-> heard[i]]
    BY <2>1
  <2> QED
    BY <2>1, <2>2, <2>3
<1> QED
  BY <1>1, PlayInvHolds, PTL

\* A frame in audio_buffer gives way to a later frame or is sent.
THEOREM NothingDiscardedThm == Spec => NothingDiscarded
<1>1. PlayInv /\ [Next]_vars =>
        [ audio_buffer # None /\ audio_buffer' # audio_buffer
            => \/ audio_buffer' # None
               \/ devQueue' = Append(devQueue, audio_buffer) ]_vars
  <2> SUFFICES ASSUME PlayInv, Next, audio_buffer' # audio_buffer
               PROVE  audio_buffer' # None \/ devQueue' = Append(devQueue, audio_buffer)
    BY DEF vars
  <2>1. ServerCopies \/ PlayerSends
    BY DEF Next, AudioPlay, Server, Player, DevicePlays, PlayNothing, PlaySetUp, PlayFrame,
       PlayFileEnds, PlayFlush, ServerBinds, ServerAccepts, ServerClaims, ServerReads,
       ServerEnds, ServerReleases, Reinitialize, PlayerWaits, PlayerFails,
       ClientConnects, ClientWrites, ClientEnds, daemonVars, bufferVars
  <2>2. CASE ServerCopies
    <3>1. buf \in Chunks
      BY <2>2 DEF ServerCopies, SGoes, PlayInv, Connections, Serving
    <3> QED
      BY <2>2, <3>1 DEF ServerCopies
  <2>3. CASE PlayerSends
    BY <2>3 DEF PlayerSends, Accepts
  <2> QED
    BY <2>1, <2>2, <2>3
<1> QED
  BY <1>1, PlayInvHolds, PTL DEF Spec, NothingDiscarded

===============================================================================
