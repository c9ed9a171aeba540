--------------------------- MODULE WebClientProofs ---------------------------
(***************************************************************************)
(* Proofs about WebClient, for any finite set of browsers, any requests    *)
(* and any bounds: the inductive invariant WebInv, and from it TypeOK,     *)
(* HeldForSomeone, CutOffOnlyByPost and CrashOnlyOutOfMemory.              *)
(***************************************************************************)
EXTENDS WebClient, FiniteSetTheorems, TLAPS

USE WebAssumption

Starting == {"start", "daemonize", "lock", "listen"}

\* HeldForSomeone, also while connect() blocks.
Held ==
    daemon_sockfd # None \/ wpc = "connect" =>
        \/ \E s \in Sources : stage[s] = "open"
        \/ GivenUp # {}

\* CrashOnlyOutOfMemory, and what main finds before malloc.
Memory ==
    /\ CrashOnlyOutOfMemory
    /\ wpc \in Starting => audio_buffer_size = InitialSize

WebInv == TypeOK /\ Held /\ Memory

Connection == [owner : Others \cup {None}, sent : 0 .. SockBuf, open : BOOLEAN]

-------------------------------------------------------------------------------
\* The open WebSocket connections are finitely many.
LEMMA OpenFinite == IsFiniteSet(OpenBrowsers)
  BY FS_Subset DEF OpenBrowsers

\* ESTABLISHED adds one connection to those that are open.
LEMMA OneMore ==
  ASSUME TypeOK, NEW b \in Browsers, Turns(b, "new", "open")
  PROVE  Cardinality(OpenBrowsers') = Cardinality(OpenBrowsers) + 1
<1>1. OpenBrowsers' = OpenBrowsers \cup {b} /\ b \notin OpenBrowsers
  BY DEF TypeOK, Turns, OpenBrowsers, Sources
<1>2. QED
  BY <1>1, OpenFinite, FS_AddElement

\* CLOSED takes one away.
LEMMA OneLess ==
  ASSUME TypeOK, NEW b \in Browsers, Turns(b, "open", "closed")
  PROVE  /\ Cardinality(OpenBrowsers') = Cardinality(OpenBrowsers) - 1
         /\ Cardinality(OpenBrowsers') = 0 => OpenBrowsers' = {}
         /\ Cardinality(OpenBrowsers') # 0 => OpenBrowsers' # {}
         /\ Cardinality(OpenBrowsers') \in Nat
<1>1. OpenBrowsers' = OpenBrowsers \ {b} /\ b \in OpenBrowsers
  BY DEF TypeOK, Turns, OpenBrowsers, Sources
<1>2. IsFiniteSet(OpenBrowsers') /\ IsFiniteSet(OpenBrowsers)
  BY <1>1, OpenFinite, FS_Subset
<1>3. Cardinality(OpenBrowsers) \in Nat /\ Cardinality(OpenBrowsers') \in Nat
  BY <1>2, FS_CardinalityType
<1>4. Cardinality(OpenBrowsers') = Cardinality(OpenBrowsers) - 1
  BY <1>1, <1>2, FS_RemoveElement
<1>5. Cardinality(OpenBrowsers') = 0 <=> OpenBrowsers' = {}
  BY <1>2, FS_EmptySet
<1>6. QED
  BY <1>3, <1>4, <1>5

\* No other callback touches the WebSocket connections.
LEMMA SameOpen ==
  ASSUME TypeOK, NEW p \in Posts, NEW from, NEW to, Turns(p, from, to)
  PROVE  OpenBrowsers' = OpenBrowsers
  BY DEF TypeOK, Turns, OpenBrowsers, Sources

\* close_client_connection leaves connections and their order alone.
LEMMA CloseTyped ==
  ASSUME TypeOK, CloseConnection
  PROVE  /\ conns' \in Seq(Connection) /\ DOMAIN conns' = DOMAIN conns
         /\ Len(conns') = Len(conns)
         /\ daemon_sockfd' = None /\ iad' = iad /\ head' = head /\ other' = other
<1>1. CASE daemon_sockfd = None
  BY <1>1 DEF TypeOK, CloseConnection, Connection
<1>2. CASE daemon_sockfd # None
  <2>1. daemon_sockfd \in DOMAIN conns /\ conns \in Seq(Connection)
    BY <1>2 DEF TypeOK, Connection
  <2>2. conns[daemon_sockfd] \in Connection
    BY <2>1
  <2>3. [conns[daemon_sockfd] EXCEPT !.open = FALSE] \in Connection
    BY <2>2 DEF Connection
  <2>4. QED
    BY <1>2, <2>1, <2>3 DEF CloseConnection
<1>3. QED
  BY <1>1, <1>2

\* A new connection comes last.
LEMMA NewTyped ==
  ASSUME TypeOK, NEW o \in Others \cup {None}, NewConnection(o)
  PROVE  /\ conns' \in Seq(Connection)
         /\ Len(conns') = Len(conns) + 1
         /\ DOMAIN conns \subseteq DOMAIN conns' /\ Len(conns') \in DOMAIN conns'
<1>1. [owner |-> o, sent |-> 0, open |-> TRUE] \in Connection
  BY DEF Connection
<1>2. conns \in Seq(Connection)
  BY DEF TypeOK, Connection
<1>3. QED
  BY <1>1, <1>2 DEF NewConnection

-------------------------------------------------------------------------------
\* main starts without sources, connections and memory.
LEMMA WebInvInit == Init => WebInv
<1> SUFFICES ASSUME Init PROVE WebInv
  OBVIOUS
<1>1. OpenBrowsers = {} /\ GivenUp = {}
  BY DEF Init, OpenBrowsers, GivenUp, Sources
<1>2. Cardinality(OpenBrowsers) = 0
  BY <1>1, FS_EmptySet
<1>3. TypeOK
  <2>1. conns \in Seq(Connection) /\ head \in 1 .. Len(conns) + 1
    BY DEF Init
  <2>2. /\ stage \in [Sources -> {"new", "open", "closed", "aborted"}]
        /\ left \in [Sources -> 0 .. MaxMessages]
        /\ other \in [Others -> DOMAIN conns \cup {None}]
    BY DEF Init
  <2>3. audio_buffer_size \in Nat /\ room \in Nat
    BY DEF Init
  <2>4. QED
    BY <1>2, <2>1, <2>2, <2>3 DEF Init, TypeOK, Connection
<1>4. Held /\ Memory
  BY DEF Init, Held, Memory, CrashOnlyOutOfMemory, Starting
<1>5. QED
  BY <1>3, <1>4 DEF WebInv

-------------------------------------------------------------------------------
(***************************************************************************)
(* Steps that leave browsers and requests alone.                           *)
(***************************************************************************)
\* main has no connection yet.
LEMMA MainKeeps == WebInv /\ (Main \/ ParentExits) => WebInv'
<1> SUFFICES ASSUME WebInv, Main \/ ParentExits PROVE WebInv'
  OBVIOUS
<1> USE DEF WebInv
<1>1. /\ UNCHANGED <<browserVars, heldVars, iadVars, audio_buffer_size>>
      /\ parent' \in BOOLEAN
      /\ room' = room \/ room' = InitialSize
  BY DEF Main, ParseCmdline, Daemonize, IsAlreadyRunning, Listen, ParentExits, Goes, TypeOK,
         memoryVars
<1>2. \/ wpc' = wpc /\ room' = room
      \/ wpc \in Starting /\ wpc' \in Starting \cup {"over"}
      \/ wpc = "listen" /\ wpc' = "poll" /\ room' = InitialSize
  BY DEF Main, ParseCmdline, Daemonize, IsAlreadyRunning, Listen, ParentExits, Goes, Starting,
         memoryVars
<1>3. OpenBrowsers' = OpenBrowsers /\ GivenUp' = GivenUp
  BY <1>1 DEF OpenBrowsers, GivenUp, browserVars
<1>4. TypeOK'
  BY <1>1, <1>2, <1>3 DEF TypeOK, Starting, browserVars, heldVars, iadVars
<1>5. Held' /\ Memory'
  BY <1>1, <1>2, <1>3 DEF Held, Memory, CrashOnlyOutOfMemory, Starting, browserVars, heldVars
<1>6. QED
  BY <1>4, <1>5

\* A call that blocked returns.
LEMMA BlockingKeeps == WebInv /\ Blocking => WebInv'
<1> SUFFICES ASSUME WebInv, Blocking PROVE WebInv'
  OBVIOUS
<1> USE DEF WebInv
<1>1. /\ UNCHANGED <<parent, memoryVars, browserVars, active_ws_connections, iad, head, other>>
      /\ wpc \in {"connect", "write"} /\ wpc' = "poll"
  BY DEF Blocking, Connect, ConnectFails, Write, Goes, heldVars, iadVars
<1>2. OpenBrowsers' = OpenBrowsers /\ GivenUp' = GivenUp
  BY <1>1 DEF OpenBrowsers, GivenUp, browserVars
<1>3. /\ conns' \in Seq(Connection)
      /\ Len(conns) \leq Len(conns') /\ DOMAIN conns \subseteq DOMAIN conns'
      /\ daemon_sockfd' \in DOMAIN conns' \cup {None}
      /\ daemon_sockfd' # None => wpc = "connect" \/ daemon_sockfd # None
  <2>1. CASE Connect
    <3>1. /\ conns' \in Seq(Connection)
          /\ Len(conns') = Len(conns) + 1
          /\ DOMAIN conns \subseteq DOMAIN conns' /\ Len(conns') \in DOMAIN conns'
      BY <2>1, NewTyped DEF Connect
    <3>2. wpc = "connect" /\ daemon_sockfd' = Len(conns') /\ Len(conns) \in Nat
      BY <2>1 DEF Connect, Goes, TypeOK, Connection
    <3>3. QED
      BY <3>1, <3>2
  <2>2. CASE ConnectFails
    BY <2>2 DEF ConnectFails, heldVars, iadVars, TypeOK, Connection
  <2>3. CASE Write
    <3>1. /\ daemon_sockfd \in DOMAIN conns /\ conns \in Seq(Connection)
          /\ daemon_sockfd' = daemon_sockfd
      BY <2>3 DEF Write, Goes, TypeOK, Connection, heldVars
    <3>2. conns[daemon_sockfd] \in Connection
      BY <3>1
    <3>3. conns[daemon_sockfd].sent < SockBuf
              => [conns[daemon_sockfd] EXCEPT !.sent = @ + 1] \in Connection
      BY <3>2 DEF Connection
    <3>4. conns' = conns
          \/ /\ [conns[daemon_sockfd] EXCEPT !.sent = @ + 1] \in Connection
             /\ conns' = [conns EXCEPT ![daemon_sockfd] =
                              [conns[daemon_sockfd] EXCEPT !.sent = @ + 1]]
      BY <2>3, <3>3 DEF Write
    <3>5. QED
      BY <3>1, <3>4
  <2>4. QED
    BY <2>1, <2>2, <2>3 DEF Blocking
<1>4. TypeOK'
  BY <1>1, <1>2, <1>3 DEF TypeOK, Connection, memoryVars, browserVars
<1>5. Held' /\ Memory'
  BY <1>1, <1>2, <1>3 DEF Held, Memory, CrashOnlyOutOfMemory, Starting, memoryVars, browserVars
<1>6. QED
  BY <1>4, <1>5

\* iad and its other clients.
LEMMA IadKeeps ==
  ASSUME WebInv,
         \/ Iad \/ IadStops \/ IadStarts
         \/ \E o \in Others : OtherConnects(o) \/ OtherCloses(o)
  PROVE  WebInv'
<1> USE DEF WebInv
<1>1. UNCHANGED <<processVars, memoryVars, browserVars, heldVars>>
  BY DEF Iad, IadReads, IadEnds, IadStops, IadStarts, OtherConnects, OtherCloses
<1>2. OpenBrowsers' = OpenBrowsers /\ GivenUp' = GivenUp
  BY <1>1 DEF OpenBrowsers, GivenUp, browserVars
<1>3. conns \in Seq(Connection) /\ head \in 1 .. Len(conns) + 1
  BY DEF TypeOK, Connection
<1>4. /\ conns' \in Seq(Connection)
      /\ DOMAIN conns \subseteq DOMAIN conns' /\ Len(conns) \leq Len(conns')
      /\ head' \in 1 .. Len(conns') + 1
      /\ other' \in [Others -> DOMAIN conns' \cup {None}]
      /\ iad' \in BOOLEAN
  <2>1. CASE IadReads
    <3>1. head \in DOMAIN conns /\ conns[head].sent > 0
      BY <2>1, <1>3 DEF IadReads
    <3>2. conns[head] \in Connection
      BY <1>3, <3>1
    <3>3. [conns[head] EXCEPT !.sent = @ - 1] \in Connection
      BY <3>1, <3>2 DEF Connection
    <3>4. conns' = [conns EXCEPT ![head] = [conns[head] EXCEPT !.sent = @ - 1]]
      BY <2>1 DEF IadReads
    <3>5. QED
      BY <1>3, <2>1, <3>1, <3>3, <3>4 DEF IadReads, TypeOK
  <2>2. CASE IadEnds \/ IadStops \/ IadStarts
    <3>1. conns' = conns /\ other' = other /\ other \in [Others -> DOMAIN conns \cup {None}]
      BY <2>2 DEF IadEnds, IadStops, IadStarts, TypeOK
    <3>2. iad' \in BOOLEAN
      BY <2>2 DEF IadEnds, IadStops, IadStarts, TypeOK
    <3>3. head' \in 1 .. Len(conns) + 1
      BY <1>3, <2>2 DEF IadEnds, IadStops, IadStarts
    <3>4. QED
      BY <1>3, <3>1, <3>2, <3>3
  <2>3. ASSUME NEW o \in Others, OtherConnects(o) PROVE <1>4!:
    <3>1. /\ conns' \in Seq(Connection)
          /\ Len(conns') = Len(conns) + 1
          /\ DOMAIN conns \subseteq DOMAIN conns' /\ Len(conns') \in DOMAIN conns'
      BY <2>3, NewTyped DEF OtherConnects
    <3>2. QED
      BY <1>3, <2>3, <3>1 DEF OtherConnects, TypeOK
  <2>4. ASSUME NEW o \in Others, OtherCloses(o) PROVE <1>4!:
    <3>1. other[o] \in DOMAIN conns
      BY <2>4 DEF OtherCloses, TypeOK
    <3>2. conns[other[o]] \in Connection
      BY <1>3, <3>1
    <3>3. [conns[other[o]] EXCEPT !.open = FALSE] \in Connection
      BY <3>2 DEF Connection
    <3>4. conns' = [conns EXCEPT ![other[o]] = [conns[other[o]] EXCEPT !.open = FALSE]]
      BY <2>4 DEF OtherCloses
    <3>5. QED
      BY <1>3, <2>4, <3>1, <3>3, <3>4 DEF OtherCloses, TypeOK
  <2>5. QED
    BY <2>1, <2>2, <2>3, <2>4 DEF Iad
<1>5. TypeOK'
  BY <1>1, <1>2, <1>4 DEF TypeOK, Connection, processVars, memoryVars, browserVars, heldVars
<1>6. Held' /\ Memory'
  BY <1>1, <1>2 DEF Held, Memory, CrashOnlyOutOfMemory, Starting, processVars, memoryVars,
                    browserVars, heldVars
<1>7. QED
  BY <1>5, <1>6

-------------------------------------------------------------------------------
(***************************************************************************)
(* Callbacks.                                                              *)
(***************************************************************************)
\* ESTABLISHED and RECEIVE.
LEMMA WsOpenKeeps ==
  ASSUME WebInv, NEW b \in Browsers, Established(b) \/ Receive(b)
  PROVE  WebInv'
<1> USE DEF WebInv
<1>1. /\ UNCHANGED <<parent, memoryVars, daemon_sockfd, iadVars>>
      /\ wpc = "poll"
  BY DEF Established, Receive, ConnectIfNeeded, Goes, heldVars
<1>2. b \in Sources
  BY DEF Sources
<1>3. CASE Established(b)
  <2>1. Turns(b, "new", "open") /\ left' = left
        /\ wpc' \in {"poll", "connect"} /\ (wpc' = "connect" => daemon_sockfd = None)
    BY <1>3 DEF Established, ConnectIfNeeded, Goes
  <2>2. active_ws_connections' = Cardinality(OpenBrowsers')
    BY <1>3, <2>1, OneMore DEF Established, TypeOK
  <2>3. /\ stage' \in [Sources -> {"new", "open", "closed", "aborted"}]
        /\ stage'[b] = "open" /\ GivenUp' = GivenUp
    BY <1>2, <2>1 DEF Turns, TypeOK, GivenUp, Sources
  <2>4. TypeOK'
    BY <1>1, <2>1, <2>2, <2>3 DEF TypeOK, memoryVars, iadVars
  <2>5. Held' /\ Memory'
    BY <1>1, <1>2, <2>1, <2>3 DEF Held, Memory, CrashOnlyOutOfMemory, Starting, memoryVars
  <2>6. QED
    BY <2>4, <2>5
<1>4. CASE Receive(b)
  <2>1. /\ stage' = stage /\ active_ws_connections' = active_ws_connections
        /\ left' \in [Sources -> 0 .. MaxMessages]
        /\ wpc' \in {"poll", "write"} /\ (wpc' = "write" => daemon_sockfd # None)
    BY <1>2, <1>4 DEF Receive, Goes, TypeOK, heldVars
  <2>2. OpenBrowsers' = OpenBrowsers /\ GivenUp' = GivenUp
    BY <2>1 DEF OpenBrowsers, GivenUp
  <2>3. TypeOK'
    BY <1>1, <2>1, <2>2 DEF TypeOK, memoryVars, iadVars
  <2>4. Held' /\ Memory'
    BY <1>1, <2>1, <2>2 DEF Held, Memory, CrashOnlyOutOfMemory, Starting, memoryVars
  <2>5. QED
    BY <2>3, <2>4
<1>5. QED
  BY <1>3, <1>4

\* CLOSED: the last browser to leave closes the connection, any other leaves
\* another browser behind.
LEMMA ClosedKeepsInv ==
  ASSUME WebInv, NEW b \in Browsers, Closed(b)
  PROVE  WebInv'
<1> USE DEF WebInv
<1>1. /\ UNCHANGED <<parent, memoryVars, left>>
      /\ wpc = "poll" /\ wpc' = "poll" /\ Turns(b, "open", "closed")
      /\ active_ws_connections' = active_ws_connections - 1
  BY DEF Closed, Goes
<1>2. /\ active_ws_connections' = Cardinality(OpenBrowsers')
      /\ active_ws_connections' # 0 => OpenBrowsers' # {}
  BY <1>1, OneLess DEF TypeOK
<1>3. /\ stage' \in [Sources -> {"new", "open", "closed", "aborted"}]
      /\ GivenUp' = GivenUp
  BY <1>1 DEF Turns, TypeOK, GivenUp, Sources
<1>4. /\ conns' \in Seq(Connection) /\ DOMAIN conns' = DOMAIN conns
      /\ Len(conns') = Len(conns)
      /\ iad' = iad /\ head' = head /\ other' = other
      /\ \/ active_ws_connections' = 0 /\ daemon_sockfd' = None
         \/ active_ws_connections' # 0 /\ daemon_sockfd' = daemon_sockfd
  <2>1. CASE active_ws_connections' = 0
    BY <2>1, CloseTyped DEF Closed
  <2>2. CASE active_ws_connections' # 0
    BY <2>2 DEF Closed, iadVars, TypeOK, Connection
  <2>3. QED
    BY <2>1, <2>2
<1>5. TypeOK'
  BY <1>1, <1>2, <1>3, <1>4 DEF TypeOK, Connection, memoryVars
<1>6. Held'
  BY <1>1, <1>2, <1>4 DEF Held, OpenBrowsers, Sources
<1>7. Memory'
  BY <1>1, <1>3 DEF Memory, CrashOnlyOutOfMemory, Starting, memoryVars
<1>8. QED
  BY <1>5, <1>6, <1>7

\* HTTP: a request that is served opens the connection, another is closed.
LEMMA HttpKeeps ==
  ASSUME WebInv, NEW p \in Posts, Http(p) \/ HttpRefused(p)
  PROVE  WebInv'
<1> USE DEF WebInv
<1>1. /\ UNCHANGED <<parent, memoryVars, left, heldVars, iadVars>>
      /\ wpc = "poll" /\ p \in Sources
      /\ \/ Turns(p, "new", "open") /\ wpc' \in {"poll", "connect"}
            /\ (wpc' = "connect" => daemon_sockfd = None)
         \/ Turns(p, "new", "closed") /\ wpc' = "poll"
  BY DEF Http, HttpRefused, ConnectIfNeeded, Goes, Sources
<1>2. OpenBrowsers' = OpenBrowsers
  BY <1>1, SameOpen
<1>3. /\ stage' \in [Sources -> {"new", "open", "closed", "aborted"}]
      /\ GivenUp' = GivenUp
      /\ \A s \in Sources : stage[s] = "open" => stage'[s] = "open"
      /\ wpc' = "connect" => stage'[p] = "open"
  BY <1>1 DEF Turns, TypeOK, GivenUp, Sources
<1>4. TypeOK'
  BY <1>1, <1>2, <1>3 DEF TypeOK, memoryVars, heldVars, iadVars
<1>5. Held'
  BY <1>1, <1>3 DEF Held, heldVars
<1>6. Memory'
  BY <1>1, <1>3 DEF Memory, CrashOnlyOutOfMemory, Starting, memoryVars
<1>7. QED
  BY <1>4, <1>5, <1>6

\* HTTP_BODY: the buffer grows before it is filled.
LEMMA BodyKeeps ==
  ASSUME WebInv, NEW p \in Posts, HttpBodyDropped(p) \/ HttpBody(p)
  PROVE  WebInv'
<1> USE DEF WebInv
<1>1. /\ UNCHANGED <<parent, stage, heldVars, iadVars>>
      /\ wpc = "poll" /\ p \in Sources /\ Part(p)
  BY DEF HttpBodyDropped, HttpBody, Goes, Sources
<1>2. OpenBrowsers' = OpenBrowsers /\ GivenUp' = GivenUp
  BY <1>1 DEF OpenBrowsers, GivenUp
<1>3. left' \in [Sources -> 0 .. MaxMessages]
  BY <1>1 DEF Part, TypeOK
<1>4. /\ audio_buffer_size' \in Nat /\ room' \in Nat
      /\ wpc' \in {"poll", "write", "crashed"}
      /\ wpc' = "write" => daemon_sockfd # None
      /\ GivenUp = {} => wpc' # "crashed" /\ room' = audio_buffer_size'
  <2>1. CASE HttpBodyDropped(p)
    BY <1>1, <2>1 DEF HttpBodyDropped, Goes, memoryVars, TypeOK, Memory, CrashOnlyOutOfMemory
  <2>2. CASE HttpBody(p)
    <3>1. PICK len \in Lengths :
              /\ audio_buffer_size' = IF len > audio_buffer_size THEN len
                                      ELSE audio_buffer_size
              /\ room' = IF len > audio_buffer_size THEN len ELSE room
              /\ wpc' = IF len \leq room' THEN "write" ELSE "crashed"
      BY <2>2 DEF HttpBody, CopyAndWrite
    <3>2. len \in Nat /\ audio_buffer_size \in Nat /\ room \in Nat
      BY <3>1 DEF TypeOK
    <3>3. daemon_sockfd # None
      BY <2>2 DEF HttpBody
    <3>4. GivenUp = {} => room = audio_buffer_size
      BY <1>1 DEF Memory, CrashOnlyOutOfMemory
    <3>5. QED
      BY <3>1, <3>2, <3>3, <3>4
  <2>3. QED
    BY <2>1, <2>2
<1>5. TypeOK'
  BY <1>1, <1>2, <1>3, <1>4 DEF TypeOK, heldVars, iadVars
<1>6. Held'
  BY <1>1, <1>2, <1>4 DEF Held, heldVars
<1>7. Memory'
  BY <1>2, <1>4 DEF Memory, CrashOnlyOutOfMemory, Starting
<1>8. QED
  BY <1>5, <1>6, <1>7

\* A request that is given up, with or without memory, stays among GivenUp.
LEMMA AbortKeeps ==
  ASSUME WebInv, NEW p \in Posts, HttpBodyFails(p) \/ Aborted(p)
  PROVE  WebInv'
<1> USE DEF WebInv
<1>1. /\ UNCHANGED <<parent, heldVars, iadVars>>
      /\ wpc = "poll" /\ wpc' = "poll" /\ p \in Sources /\ Turns(p, "open", "aborted")
      /\ left' \in [Sources -> 0 .. MaxMessages]
      /\ audio_buffer_size' \in Nat /\ room' \in Nat
  <2>1. CASE HttpBodyFails(p)
    <3>1. /\ UNCHANGED <<parent, heldVars, iadVars>>
          /\ wpc = "poll" /\ wpc' = "poll" /\ p \in Sources /\ Turns(p, "open", "aborted")
          /\ Part(p) /\ room' = 0
      BY <2>1 DEF HttpBodyFails, Goes, Sources
    <3>2. audio_buffer_size' \in Nat
      BY <2>1, WebAssumption DEF HttpBodyFails
    <3>3. left' \in [Sources -> 0 .. MaxMessages]
      BY <3>1, WebAssumption DEF Part, TypeOK
    <3>4. QED
      BY <3>1, <3>2, <3>3
  <2>2. CASE Aborted(p)
    BY <2>2 DEF Aborted, Goes, Sources, memoryVars, TypeOK
  <2>3. QED
    BY <2>1, <2>2
<1>2. OpenBrowsers' = OpenBrowsers
  BY <1>1, SameOpen
<1>3. /\ stage' \in [Sources -> {"new", "open", "closed", "aborted"}]
      /\ GivenUp' # {}
  BY <1>1 DEF Turns, TypeOK, GivenUp, Sources
<1>4. TypeOK'
  BY <1>1, <1>2, <1>3 DEF TypeOK, heldVars, iadVars
<1>5. Held' /\ Memory'
  BY <1>1, <1>3 DEF Held, Memory, CrashOnlyOutOfMemory, Starting
<1>6. QED
  BY <1>4, <1>5

\* HTTP_BODY_COMPLETION leaves no connection to hold.
LEMMA CompletionKeeps ==
  ASSUME WebInv, NEW p \in Posts, HttpBodyCompletion(p)
  PROVE  WebInv'
<1> USE DEF WebInv
<1>1. /\ UNCHANGED <<parent, memoryVars, left, active_ws_connections>>
      /\ wpc = "poll" /\ wpc' = "poll" /\ Turns(p, "open", "closed")
  BY DEF HttpBodyCompletion, Goes
<1>2. OpenBrowsers' = OpenBrowsers
  BY <1>1, SameOpen
<1>3. /\ stage' \in [Sources -> {"new", "open", "closed", "aborted"}]
      /\ GivenUp' = GivenUp
  BY <1>1 DEF Turns, TypeOK, GivenUp, Sources
<1>4. /\ conns' \in Seq(Connection) /\ DOMAIN conns' = DOMAIN conns
      /\ Len(conns') = Len(conns)
      /\ daemon_sockfd' = None /\ iad' = iad /\ head' = head /\ other' = other
  BY CloseTyped DEF HttpBodyCompletion
<1>5. TypeOK'
  BY <1>1, <1>2, <1>3, <1>4 DEF TypeOK, Connection, memoryVars
<1>6. Held' /\ Memory'
  BY <1>1, <1>3, <1>4 DEF Held, Memory, CrashOnlyOutOfMemory, Starting, memoryVars
<1>7. QED
  BY <1>5, <1>6

\* With the process everything it had ends.
LEMMA SignalKeeps ==
  ASSUME WebInv, HandleSigint
  PROVE  WebInv' /\ OpenBrowsers' = {} /\ daemon_sockfd' = None
<1> USE DEF WebInv
<1>1. /\ wpc' = "over" /\ active_ws_connections' = 0 /\ daemon_sockfd' = None
      /\ audio_buffer_size' \in Nat /\ room' = 0
      /\ stage' \in [Sources -> {"new", "open", "closed", "aborted"}]
      /\ \A s \in Sources : stage'[s] = "closed"
      /\ left' \in [Sources -> 0 .. MaxMessages]
      /\ UNCHANGED <<parent, iad, head, other>>
  BY DEF HandleSigint
<1>2. OpenBrowsers' = {}
  BY <1>1 DEF OpenBrowsers, Sources
<1>3. Cardinality(OpenBrowsers') = 0
  BY <1>2, FS_EmptySet
<1>4. /\ conns' \in Seq(Connection) /\ DOMAIN conns' = DOMAIN conns
      /\ Len(conns') = Len(conns)
  <2>1. conns \in Seq(Connection)
    BY DEF TypeOK, Connection
  <2>2. \A i \in DOMAIN conns : conns[i] \in Connection
    BY <2>1
  <2>3. \A i \in DOMAIN conns :
            [conns[i] EXCEPT !.open = @ /\ conns[i].owner # None] \in Connection
    BY <2>2 DEF Connection
  <2>4. conns' = [i \in DOMAIN conns |->
                     [conns[i] EXCEPT !.open = @ /\ conns[i].owner # None]]
    BY DEF HandleSigint
  <2>5. DOMAIN conns = 1 .. Len(conns) /\ Len(conns) \in Nat
    BY <2>1
  <2>6. QED
    BY <2>3, <2>4, <2>5
<1>5. TypeOK'
  BY <1>1, <1>3, <1>4 DEF TypeOK, Connection
<1>6. Held' /\ Memory'
  BY <1>1 DEF Held, Memory, CrashOnlyOutOfMemory, Starting
<1>7. QED
  BY <1>1, <1>2, <1>5, <1>6

LEMMA WebInvStep == WebInv /\ [Next]_vars => WebInv'
<1> SUFFICES ASSUME WebInv, [Next]_vars PROVE WebInv'
  OBVIOUS
<1>1. CASE UNCHANGED vars
  BY <1>1 DEF vars, processVars, memoryVars, browserVars, heldVars, iadVars, WebInv, TypeOK,
              Held, Memory, CrashOnlyOutOfMemory, Starting, OpenBrowsers, GivenUp
<1>2. CASE Main \/ ParentExits
  BY <1>2, MainKeeps
<1>3. CASE HandleSigint
  BY <1>3, SignalKeeps
<1>4. CASE Blocking
  BY <1>4, BlockingKeeps
<1>5. ASSUME NEW b \in Browsers, WsCallback(b) PROVE WebInv'
  BY <1>5, WsOpenKeeps, ClosedKeepsInv DEF WsCallback
<1>6. ASSUME NEW p \in Posts, HttpCallback(p) PROVE WebInv'
  BY <1>6, HttpKeeps, BodyKeeps, AbortKeeps, CompletionKeeps DEF HttpCallback
<1>7. CASE \/ Iad \/ IadStops \/ IadStarts
           \/ \E o \in Others : OtherConnects(o) \/ OtherCloses(o)
  BY <1>7, IadKeeps
<1>8. QED
  BY <1>1, <1>2, <1>3, <1>4, <1>5, <1>6, <1>7 DEF Next

LEMMA WebInvHolds == Spec => []WebInv
  BY WebInvInit, WebInvStep, PTL DEF Spec

-------------------------------------------------------------------------------
\* Type correctness: active_ws_connections is the number of open WebSocket
\* connections and write() is only called with a descriptor.
THEOREM WebTypeCorrect == Spec => []TypeOK
<1>1. WebInv => TypeOK
  BY DEF WebInv
<1>2. QED
  BY <1>1, WebInvHolds, PTL

\* The callbacks give iad's output back when nobody streams, unless a POST was
\* given up half way.
THEOREM HeldForSomeoneThm == Spec => []HeldForSomeone
<1>1. WebInv => HeldForSomeone
  BY DEF WebInv, Held, HeldForSomeone
<1>2. QED
  BY <1>1, WebInvHolds, PTL

\* HTTP_BODY copies to NULL, or past the buffer, only after a failed realloc.
THEOREM CrashOnlyOutOfMemoryThm == Spec => []CrashOnlyOutOfMemory
<1>1. WebInv => CrashOnlyOutOfMemory
  BY DEF WebInv, Memory
<1>2. QED
  BY <1>1, WebInvHolds, PTL

\* While a browser streams, only a POST that completes closes the connection.
THEOREM CutOffOnlyByPostThm == Spec => CutOffOnlyByPost
<1> DEFINE Cut ==
        daemon_sockfd # None /\ daemon_sockfd' = None /\ OpenBrowsers' # {}
            => \E p \in Posts : stage[p] = "open" /\ stage'[p] = "closed"
<1>1. WebInv /\ [Next]_vars => [Cut]_vars
  <2> SUFFICES ASSUME WebInv, Next, daemon_sockfd # None, daemon_sockfd' = None,
                      OpenBrowsers' # {}
               PROVE  \E p \in Posts : stage[p] = "open" /\ stage'[p] = "closed"
    OBVIOUS
  <2>1. ~Main /\ ~ParentExits /\ ~Iad /\ ~IadStops /\ ~IadStarts
    BY DEF Main, ParseCmdline, Daemonize, IsAlreadyRunning, Listen, ParentExits, Iad, IadReads,
           IadEnds, IadStops, IadStarts, heldVars
  <2>2. \A o \in Others : ~OtherConnects(o) /\ ~OtherCloses(o)
    BY DEF OtherConnects, OtherCloses, heldVars
  <2>3. ~HandleSigint
    BY SignalKeeps
  <2>4. ~Blocking
    BY DEF Blocking, Connect, ConnectFails, Write, Goes, heldVars, WebInv, TypeOK
  <2>5. ASSUME NEW b \in Browsers, WsCallback(b) PROVE FALSE
    <3>1. Closed(b)
      BY <2>5 DEF WsCallback, Established, Receive, heldVars
    <3>2. active_ws_connections' = Cardinality(OpenBrowsers') /\ active_ws_connections' = 0
      BY <3>1, ClosedKeepsInv DEF Closed, WebInv, TypeOK
    <3>3. OpenBrowsers' = {}
      BY <3>1, <3>2, OneLess DEF Closed, WebInv
    <3>4. QED
      BY <3>3
  <2>6. ASSUME NEW p \in Posts, HttpCallback(p) PROVE HttpBodyCompletion(p)
    BY <2>6 DEF HttpCallback, Http, HttpRefused, HttpBodyDropped, HttpBody, HttpBodyFails,
                Aborted, heldVars
  <2>7. ASSUME NEW p \in Posts, HttpBodyCompletion(p)
        PROVE  stage[p] = "open" /\ stage'[p] = "closed"
    BY <2>7 DEF HttpBodyCompletion, Turns, WebInv, TypeOK, Sources
  <2>8. QED
    BY <2>1, <2>2, <2>3, <2>4, <2>5, <2>6, <2>7 DEF Next
<1>2. QED
  BY <1>1, WebInvHolds, PTL DEF Spec, CutOffOnlyByPost
===============================================================================
