------------------------------- MODULE WebClient -------------------------------
(***************************************************************************)
(* web_client: browsers stream audio to it, over WebSockets or as the body *)
(* of a POST, and all of them share one connection to the output server of *)
(* iad (web_client.c, web_client_src/).  Everything happens in the         *)
(* callbacks of one libwebsockets loop, which a connect() or a write() to  *)
(* iad can block.                                                          *)
(*                                                                         *)
(* libwebsockets and iad are external: the first calls the callbacks of a  *)
(* connection in their order, the second serves its connections one after  *)
(* the other (AudioOutput has the detail).                                 *)
(***************************************************************************)
EXTENDS Integers, Sequences, FiniteSets

CONSTANTS
    Browsers,     \* WebSocket connections
    Posts,        \* HTTP requests
    Others,       \* other clients of iad's output
    None,         \* no connection
    MaxMessages,  \* bound: messages of a browser, body parts of a request
    Lengths,      \* lengths of body parts
    InitialSize,  \* INITIAL_AUDIO_BUFFER_SIZE, on that scale
    SockBuf,      \* writes a connection holds before write() blocks
    ListenBacklog \* of iad's socket

Sources == Browsers \cup Posts

ASSUME WebAssumption ==
    /\ Browsers \cap Posts = {}
    /\ IsFiniteSet(Browsers)
    /\ None \notin Nat
    /\ MaxMessages \in Nat
    /\ Lengths \subseteq Nat \ {0}
    /\ InitialSize \in Nat \ {0}
    /\ SockBuf \in Nat \ {0}
    /\ ListenBacklog \in Nat

VARIABLES
    wpc,                   \* where the process is
    parent,                \* the parent that daemonized it still has the lock
    active_ws_connections,
    daemon_sockfd,         \* an index of conns, or None for -1
    audio_buffer_size,
    room,                  \* what audio_buffer really holds, 0 for NULL
    stage,                 \* each WebSocket connection and HTTP request
    left,                  \* what each may still send
    iad,                   \* whether iad runs
    conns,                 \* connections to iad's output, in the order they were made
    head,                  \* the one iad serves; those before it are closed
    other                  \* the connection of each other client

processVars == <<wpc, parent>>
memoryVars  == <<audio_buffer_size, room>>
browserVars == <<stage, left>>
heldVars    == <<active_ws_connections, daemon_sockfd>>
iadVars     == <<iad, conns, head, other>>
vars == <<processVars, memoryVars, browserVars, heldVars, iadVars>>

Init ==
    /\ wpc = "start" /\ parent = FALSE
    /\ active_ws_connections = 0
    /\ daemon_sockfd = None
    /\ audio_buffer_size = InitialSize /\ room = 0
    /\ stage = [s \in Sources |-> "new"]
    /\ left = [s \in Sources |-> MaxMessages]
    /\ iad \in BOOLEAN
    /\ conns = <<>> /\ head = 1
    /\ other = [o \in Others |-> None]

Goes(from, to) == wpc = from /\ wpc' = to

Running == wpc \notin {"over", "crashed"}

-------------------------------------------------------------------------------
(***************************************************************************)
(* main, up to the loop.                                                   *)
(***************************************************************************)
\* -h or an unknown option ends it, -r asks for a daemon.
ParseCmdline ==
    /\ \E next \in {"over", "daemonize", "lock"} : Goes("start", next)
    /\ UNCHANGED <<parent, memoryVars, browserVars, heldVars, iadVars>>

\* The parent takes the lock, the child goes on without it; or the lock is
\* another instance's, or fork fails.
Daemonize ==
    /\ \/ Goes("daemonize", "lock") /\ parent' = TRUE
       \/ Goes("daemonize", "over") /\ UNCHANGED parent
    /\ UNCHANGED <<memoryVars, browserVars, heldVars, iadVars>>

ParentExits ==
    /\ parent /\ parent' = FALSE
    /\ UNCHANGED <<wpc, memoryVars, browserVars, heldVars, iadVars>>

\* The lock may be another instance's, and is as long as the parent has it.
IsAlreadyRunning ==
    /\ \/ Goes("lock", "listen") /\ ~parent
       \/ Goes("lock", "over")
    /\ UNCHANGED <<parent, memoryVars, browserVars, heldVars, iadVars>>

\* malloc and lws_create_context.
Listen ==
    /\ \/ Goes("listen", "poll") /\ room' = InitialSize
       \/ Goes("listen", "over") /\ UNCHANGED room
    /\ UNCHANGED <<parent, audio_buffer_size, browserVars, heldVars, iadVars>>

-------------------------------------------------------------------------------
(***************************************************************************)
(* Callbacks.                                                              *)
(***************************************************************************)
Turns(s, from, to) == stage[s] = from /\ stage' = [stage EXCEPT ![s] = to]

\* if (daemon_sockfd == -1) setup_client_connection()
ConnectIfNeeded == Goes("poll", IF daemon_sockfd = None THEN "connect" ELSE "poll")

\* Mutant: the descriptor is forgotten, not closed.
ForgetConnection ==
    /\ daemon_sockfd' = None
    /\ UNCHANGED iadVars

\* close_client_connection(daemon_sockfd)
CloseConnection ==
    /\ conns' = IF daemon_sockfd = None THEN conns
                ELSE [conns EXCEPT ![daemon_sockfd].open = FALSE]
    /\ daemon_sockfd' = None
    /\ UNCHANGED <<iad, head, other>>

Established(b) ==
    /\ Turns(b, "new", "open")
    /\ active_ws_connections' = active_ws_connections + 1
    /\ ConnectIfNeeded
    /\ UNCHANGED <<parent, memoryVars, left, daemon_sockfd, iadVars>>

\* Mutant: it is not looked whether there is a connection.
ReceiveUnchecked(b) ==
    /\ stage[b] = "open" /\ left[b] > 0
    /\ left' = [left EXCEPT ![b] = @ - 1]
    /\ Goes("poll", "write")
    /\ UNCHANGED <<parent, memoryVars, stage, heldVars, iadVars>>

\* Without a connection the message is dropped.
Receive(b) ==
    /\ stage[b] = "open" /\ left[b] > 0
    /\ left' = [left EXCEPT ![b] = @ - 1]
    /\ Goes("poll", IF daemon_sockfd = None THEN "poll" ELSE "write")
    /\ UNCHANGED <<parent, memoryVars, stage, heldVars, iadVars>>

\* Mutant: the connection is closed with every browser.
ClosedCloses(b) ==
    /\ Goes("poll", "poll")
    /\ Turns(b, "open", "closed")
    /\ active_ws_connections' = active_ws_connections - 1
    /\ CloseConnection
    /\ UNCHANGED <<parent, memoryVars, left>>

\* Mutant: it is never closed.
ClosedKeeps(b) ==
    /\ Goes("poll", "poll")
    /\ Turns(b, "open", "closed")
    /\ active_ws_connections' = active_ws_connections - 1
    /\ UNCHANGED <<parent, memoryVars, left, daemon_sockfd, iadVars>>

Closed(b) ==
    /\ Goes("poll", "poll")
    /\ Turns(b, "open", "closed")
    /\ active_ws_connections' = active_ws_connections - 1
    /\ IF active_ws_connections' = 0 THEN CloseConnection
       ELSE UNCHANGED <<daemon_sockfd, iadVars>>
    /\ UNCHANGED <<parent, memoryVars, left>>

\* LWS_CALLBACK_HTTP: a POST of /audio, ...
Http(p) ==
    /\ Turns(p, "new", "open")
    /\ ConnectIfNeeded
    /\ UNCHANGED <<parent, memoryVars, left, heldVars, iadVars>>

\* ... and any other request.
HttpRefused(p) ==
    /\ Goes("poll", "poll")
    /\ Turns(p, "new", "closed")
    /\ UNCHANGED <<parent, memoryVars, left, heldVars, iadVars>>

Part(p) ==
    /\ stage[p] = "open" /\ left[p] > 0
    /\ left' = [left EXCEPT ![p] = @ - 1]

HttpBodyDropped(p) ==
    /\ Goes("poll", "poll")
    /\ Part(p) /\ daemon_sockfd = None
    /\ UNCHANGED <<parent, memoryVars, stage, heldVars, iadVars>>

\* audio_buffer_len is 0 between two callbacks.  Where memcpy has no memory the
\* process crashes.
CopyAndWrite(len) == wpc' = IF len \leq room' THEN "write" ELSE "crashed"

\* Mutant: the buffer is never made larger.
HttpBodyNeverGrows(p) ==
    /\ wpc = "poll"
    /\ Part(p) /\ daemon_sockfd # None
    /\ UNCHANGED <<parent, memoryVars, stage, heldVars, iadVars>>
    /\ \E len \in Lengths : CopyAndWrite(len)

HttpBody(p) ==
    /\ wpc = "poll"
    /\ Part(p) /\ daemon_sockfd # None
    /\ \E len \in Lengths :
           /\ audio_buffer_size' = IF len > audio_buffer_size THEN len ELSE audio_buffer_size
           /\ room' = IF len > audio_buffer_size THEN len ELSE room
           /\ CopyAndWrite(len)
    /\ UNCHANGED <<parent, stage, heldVars, iadVars>>

\* realloc fails: the old buffer is forgotten, its new size is not, and
\* libwebsockets closes the request.
HttpBodyFails(p) ==
    /\ Goes("poll", "poll")
    /\ Part(p) /\ daemon_sockfd # None
    /\ Turns(p, "open", "aborted")
    /\ \E len \in Lengths :
           /\ len > audio_buffer_size
           /\ audio_buffer_size' = len
    /\ room' = 0
    /\ UNCHANGED <<parent, heldVars, iadVars>>

\* HTTP_BODY_COMPLETION: after a second, nobody's connection is left.
HttpBodyCompletion(p) ==
    /\ Goes("poll", "poll")
    /\ Turns(p, "open", "closed")
    /\ CloseConnection
    /\ UNCHANGED <<parent, memoryVars, left, active_ws_connections>>

\* The request is given up half way: no case of http_callback is for it.
Aborted(p) ==
    /\ Goes("poll", "poll")
    /\ Turns(p, "open", "aborted")
    /\ UNCHANGED <<parent, memoryVars, left, heldVars, iadVars>>

-------------------------------------------------------------------------------
(***************************************************************************)
(* Calls that may block the loop.                                          *)
(***************************************************************************)
\* connect() waits for a place in the backlog.
NewConnection(owner) ==
    /\ iad /\ Len(conns) - head \leq ListenBacklog
    /\ conns' = Append(conns, [owner |-> owner, sent |-> 0, open |-> TRUE])

\* setup_client_connection
Connect ==
    /\ Goes("connect", "poll")
    /\ NewConnection(None)
    /\ daemon_sockfd' = Len(conns')
    /\ UNCHANGED <<parent, memoryVars, browserVars, active_ws_connections, iad, head, other>>

\* socket or connect fails: tried again when the next source appears.
ConnectFails ==
    /\ Goes("connect", "poll")
    /\ UNCHANGED <<parent, memoryVars, browserVars, heldVars, iadVars>>

\* The result of write() is not looked at: what iad will not read any more is lost.
Write ==
    /\ Goes("write", "poll")
    /\ IF daemon_sockfd < head THEN UNCHANGED conns
       ELSE /\ conns[daemon_sockfd].sent < SockBuf
            /\ conns' = [conns EXCEPT ![daemon_sockfd].sent = @ + 1]
    /\ UNCHANGED <<parent, memoryVars, browserVars, heldVars, iad, head, other>>

\* handle_sigint, in any state: with the process its memory and connections end.
HandleSigint ==
    /\ Running /\ wpc # "start" /\ wpc' = "over"
    /\ active_ws_connections' = 0 /\ daemon_sockfd' = None
    /\ audio_buffer_size' = InitialSize /\ room' = 0
    /\ stage' = [s \in Sources |-> "closed"]
    /\ left' = [s \in Sources |-> 0]
    /\ conns' = [i \in DOMAIN conns |-> [conns[i] EXCEPT !.open = @ /\ conns[i].owner # None]]
    /\ UNCHANGED <<parent, iad, head, other>>

-------------------------------------------------------------------------------
(***************************************************************************)
(* iad and its other clients.                                              *)
(***************************************************************************)
\* The other end of a connection is open.
Open(i) == conns[i].open /\ (conns[i].owner # None \/ Running)

IadReads ==
    /\ head \leq Len(conns) /\ conns[head].sent > 0
    /\ conns' = [conns EXCEPT ![head].sent = @ - 1]
    /\ UNCHANGED <<processVars, memoryVars, browserVars, heldVars, iad, head, other>>

\* The end of a connection, when everything has been read.
IadEnds ==
    /\ head \leq Len(conns) /\ conns[head].sent = 0
    /\ ~Open(head)
    /\ head' = head + 1
    /\ UNCHANGED <<processVars, memoryVars, browserVars, heldVars, iad, conns, other>>

IadStops ==
    /\ iad /\ iad' = FALSE
    /\ head' = Len(conns) + 1
    /\ UNCHANGED <<processVars, memoryVars, browserVars, heldVars, conns, other>>

IadStarts ==
    /\ ~iad /\ iad' = TRUE
    /\ UNCHANGED <<processVars, memoryVars, browserVars, heldVars, conns, head, other>>

OtherConnects(o) ==
    /\ other[o] = None
    /\ NewConnection(o)
    /\ other' = [other EXCEPT ![o] = Len(conns')]
    /\ UNCHANGED <<processVars, memoryVars, browserVars, heldVars, iad, head>>

OtherCloses(o) ==
    /\ other[o] # None /\ conns[other[o]].open
    /\ conns' = [conns EXCEPT ![other[o]].open = FALSE]
    /\ UNCHANGED <<processVars, memoryVars, browserVars, heldVars, iad, head, other>>

-------------------------------------------------------------------------------
Main == ParseCmdline \/ Daemonize \/ IsAlreadyRunning \/ Listen

Blocking == Connect \/ ConnectFails \/ Write

WsCallback(b) == Established(b) \/ Receive(b) \/ Closed(b)

HttpCallback(p) ==
    \/ Http(p) \/ HttpRefused(p) \/ HttpBodyDropped(p) \/ HttpBody(p) \/ HttpBodyFails(p)
    \/ HttpBodyCompletion(p) \/ Aborted(p)

Iad == IadReads \/ IadEnds

Next ==
    \/ Main \/ ParentExits \/ HandleSigint \/ Blocking
    \/ \E b \in Browsers : WsCallback(b)
    \/ \E p \in Posts : HttpCallback(p)
    \/ Iad \/ IadStops \/ IadStarts
    \/ \E o \in Others : OtherConnects(o) \/ OtherCloses(o)

Spec == Init /\ [][Next]_vars

\* A source comes to an end one way or another; calls return when they can.
FairSpec ==
    /\ Spec
    /\ WF_vars(Blocking) /\ WF_vars(Iad)
    /\ \A b \in Browsers : WF_vars(Closed(b))
    /\ \A p \in Posts : WF_vars(HttpBodyCompletion(p) \/ Aborted(p))
    /\ \A o \in Others : WF_vars(OtherCloses(o))

-------------------------------------------------------------------------------
OpenBrowsers == {b \in Browsers : stage[b] = "open"}
GivenUp      == {p \in Posts : stage[p] = "aborted"}

\* Every variable stays in its type; active_ws_connections counts the open
\* connections, and the loop writes only to a connection it has.
TypeOK ==
    /\ wpc \in {"start", "daemonize", "lock", "listen", "poll", "connect", "write", "over",
               "crashed"}
    /\ parent \in BOOLEAN /\ iad \in BOOLEAN
    /\ active_ws_connections = Cardinality(OpenBrowsers)
    /\ daemon_sockfd \in DOMAIN conns \cup {None}
    /\ wpc = "connect" => daemon_sockfd = None
    /\ wpc = "write" => daemon_sockfd # None
    /\ audio_buffer_size \in Nat /\ room \in Nat
    /\ stage \in [Sources -> {"new", "open", "closed", "aborted"}]
    /\ left \in [Sources -> 0 .. MaxMessages]
    /\ conns \in Seq([owner : Others \cup {None}, sent : 0 .. SockBuf, open : BOOLEAN])
    /\ head \in 1 .. Len(conns) + 1
    /\ other \in [Others -> DOMAIN conns \cup {None}]

\* web_client holds iad's output only while somebody streams, unless a POST was
\* given up half way: http_callback has no case for that (web_client.c:63-121).
HeldForSomeone ==
    daemon_sockfd # None =>
        \/ \E s \in Sources : stage[s] = "open"
        \/ GivenUp # {}

\* The connection is closed under an open WebSocket only by a POST that
\* completes (web_client.c:109-113), never by another browser that leaves.
CutOffOnlyByPost ==
    [][ daemon_sockfd # None /\ daemon_sockfd' = None /\ OpenBrowsers' # {}
          => \E p \in Posts : stage[p] = "open" /\ stage'[p] = "closed" ]_vars

\* memcpy always has the memory it needs, unless realloc has failed before
\* (web_client.c:92-99).
CrashOnlyOutOfMemory ==
    /\ wpc = "crashed" => GivenUp # {}
    /\ GivenUp = {} /\ wpc \in {"poll", "connect", "write"} => room = audio_buffer_size

\* docs/web_client.md makes web_client one client of iad among others: another
\* client that has connected is served, once the browsers have left and unless a
\* POST was given up.
OthersServed ==
    \A o \in Others :
        other[o] # None ~> other[o] \in 1 .. head \/ GivenUp # {}
===============================================================================
