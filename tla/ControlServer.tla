----------------------------- MODULE ControlServer -----------------------------
(***************************************************************************)
(* The control server thread of iad (network/control_server.c) and the     *)
(* variables it gets and sets (network/network.c).  It serves one          *)
(* connection at a time: one request, one answer.  The question "will my   *)
(* playback be queued?" needs audio_buffer_lock; the rest does not.        *)
(*                                                                         *)
(* A control connection is named after the process that makes it.          *)
(***************************************************************************)
EXTENDS Integers, Sequences

CONSTANTS
    Iacs,         \* processes that run iac
    Askers,       \* other processes that use the control socket
    None,         \* no process, no value
    Asked,        \* what those may send
    Leftovers,    \* what an uninitialized value may parse as
    ListenBacklog \* listen(sockfd, 5)

Callers == Iacs \cup Askers
Nobody  == "nobody"

Variables == {"sampleVariableA", "sampleVariableB"}

ASSUME ControlAssumption ==
    /\ Iacs \cap Askers = {}
    /\ None \notin Callers
    /\ Nobody \notin Callers
    /\ Leftovers \subseteq Int
    /\ \A r \in Asked : r.type = "SET" => r.to \in Int \cup {None}
    /\ ListenBacklog \in Nat

\* Every word of a request fits its array of 100 bytes: sscanf does not look, and
\* what a longer one does to the stack is not modelled.  "other" is a word that
\* names no variable, None one left out.
ASSUME WordsFit ==
    \A r \in Asked : r.type \in {"GET", "SET"} => r.name \in Variables \cup {None, "other"}

VARIABLES
    lock,                \* owner of audio_buffer_lock
    active_client_sock,
    value,               \* the sample variables
    cpc,                 \* the statement the control server is about to execute
    csock,               \* its client_sock
    waiting,             \* control connections not accepted yet
    link,                \* each control connection, as its process sees it
    request,             \* what was written to it, None if nothing
    reply                \* what was answered

controlVars == <<value, cpc, csock, waiting, link, request, reply>>

ControlInit ==
    /\ value = [sampleVariableA |-> 0, sampleVariableB |-> 1]
    /\ cpc = "accept"
    /\ csock = None
    /\ waiting = <<>>
    /\ link = [p \in Callers |-> "none"]
    /\ request = [p \in Callers |-> None]
    /\ reply = [p \in Callers |-> None]

\* The requests, as handle_control_client tells them apart.
Play   == [type |-> "int", n |-> 2]       \* AUDIO_OUTPUT_REQUEST
Record == [type |-> "int", n |-> 1]       \* AUDIO_INPUT_REQUEST
Get(v) == [type |-> "GET", name |-> v]
Set(v, x) == [type |-> "SET", name |-> v, to |-> x]   \* x is None if left out

-------------------------------------------------------------------------------
(***************************************************************************)
(* The other end.                                                          *)
(***************************************************************************)
\* connect, and the write of a request, or nothing yet.
Connect(p, r) ==
    /\ link[p] = "none"
    /\ Len(waiting) \leq ListenBacklog
    /\ link' = [link EXCEPT ![p] = "open"]
    /\ waiting' = Append(waiting, p)
    /\ request' = [request EXCEPT ![p] = r]
    /\ UNCHANGED <<value, cpc, csock, reply>>

Send(p, r) ==
    /\ link[p] = "open" /\ request[p] = None
    /\ request' = [request EXCEPT ![p] = r]
    /\ UNCHANGED <<value, cpc, csock, waiting, link, reply>>

\* The process closes its end, whatever it has sent or received.
HangUp(p) ==
    /\ link[p] \in {"open", "answered"}
    /\ link' = [link EXCEPT ![p] = "gone"]
    /\ reply' = [reply EXCEPT ![p] = None]
    /\ UNCHANGED <<value, cpc, csock, waiting, request>>

-------------------------------------------------------------------------------
(***************************************************************************)
(* The thread.                                                             *)
(***************************************************************************)
ControlGoes(from, to) == cpc = from /\ cpc' = to

\* Lines 120 to 136: accept, again if it fails.
ControlAccept ==
    /\ ControlGoes("accept", "recv")
    /\ waiting # <<>>
    /\ csock' = Head(waiting)
    /\ waiting' = Tail(waiting)
    /\ UNCHANGED <<value, link, request, reply>>

\* close(client_sock): who still has its end open reads what was written, then
\* the end of the file.
Answer(with) ==
    /\ cpc' = "accept"
    /\ csock' = None
    /\ reply' = [reply EXCEPT ![csock] = IF link[csock] = "open" THEN with ELSE @]
    /\ request' = [request EXCEPT ![csock] = None]
    /\ link' = [link EXCEPT ![csock] = IF @ = "open" THEN "answered" ELSE @]
    /\ UNCHANGED waiting

\* recv returns 0: the other end is closed and has sent nothing.
ControlEnds ==
    /\ cpc = "recv"
    /\ request[csock] = None /\ link[csock] = "gone"
    /\ Answer(None)
    /\ UNCHANGED value

Received(type) == cpc = "recv" /\ request[csock] # None /\ request[csock].type = type

\* Lines 34 to 48: only a request to play is answered, under the lock.
ControlQueued ==
    /\ Received("int") /\ request[csock] = Play
    /\ lock = Nobody
    /\ Answer(<<IF active_client_sock # None THEN "queued" ELSE "not_queued">>)
    /\ UNCHANGED value

\* Lines 76 to 78.
ControlUnknown ==
    /\ Received("int") /\ request[csock] # Play
    /\ Answer(<<"RESPONSE_ERROR">>)
    /\ UNCHANGED value

\* snprintf into 10 bytes keeps 9 characters.
Shown(x) ==
    IF x > 999999999 THEN x \div 10
    ELSE IF x < -999999999 THEN -((-x) \div 100)
    ELSE IF x < -99999999 THEN -((-x) \div 10)
    ELSE x

\* The variable a request names: any or none when its name is left out.
Named(r) == IF r.name = None THEN Variables \cup {None} ELSE {r.name}

ControlGet ==
    /\ Received("GET")
    /\ \E v \in Named(request[csock]) :
           Answer(IF v \in Variables THEN <<"value", Shown(value[v])>>
                  ELSE <<"RESPONSE_UNKNOWN_VARIABLE">>)
    /\ UNCHANGED value

\* A value left out is what the stack holds.
ControlSet ==
    /\ Received("SET")
    /\ \E v \in Named(request[csock]) :
       \E x \in IF request[csock].to = None THEN Leftovers ELSE {request[csock].to} :
           IF v \in Variables
           THEN Answer(<<"RESPONSE_OK">>) /\ value' = [value EXCEPT ![v] = x]
           ELSE Answer(<<"RESPONSE_ERROR">>) /\ UNCHANGED value

ControlStep ==
    \/ ControlAccept \/ ControlEnds \/ ControlQueued \/ ControlUnknown
    \/ ControlGet \/ ControlSet

ControlTypeOK ==
    /\ value \in [Variables -> Int]
    /\ cpc \in {"accept", "recv"}
    /\ csock \in Callers \cup {None}
    /\ (cpc = "recv") = (csock # None)
    /\ waiting \in Seq(Callers)
    /\ link \in [Callers -> {"none", "open", "answered", "gone"}]
===============================================================================
