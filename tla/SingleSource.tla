----------------------------- MODULE SingleSource -----------------------------
(***************************************************************************)
(* What iad's playback path promises to its sources, with no threads, no   *)
(* lock and no buffer.  The loudspeaker has at most one owner; only the    *)
(* owner's audio reaches the device; the owner's chunks reach it in the    *)
(* order the owner wrote them and each at most once.  Chunks may be lost   *)
(* (the slot between the server and the player holds only one), and a      *)
(* frame that carries no source's audio (silence, or the content of a      *)
(* freshly allocated buffer) may be sent only while somebody owns the      *)
(* output.                                                                 *)
(***************************************************************************)
EXTENDS Naturals, Sequences

CONSTANTS
    Sources,      \* the connections that may play audio
    NoSource,     \* the owner of an idle output, and the source of filler
    Numbers,      \* the numbers a source's chunks may carry
    Filler        \* frames that carry no source's audio

VARIABLES
    owner,        \* the source that holds the output
    heard         \* every frame the device accepted, oldest first

vars == <<owner, heard>>

Init ==
    /\ owner = NoSource
    /\ heard = <<>>

Acquire(s) ==
    /\ owner = NoSource
    /\ owner' = s
    /\ UNCHANGED heard

Release ==
    /\ owner' = NoSource
    /\ UNCHANGED heard

\* The owner's chunk n reaches the device: later than every chunk of its own.
Hear(n) ==
    /\ owner # NoSource
    /\ \A i \in DOMAIN heard : heard[i].src = owner => heard[i].n < n
    /\ heard' = Append(heard, [src |-> owner, n |-> n])
    /\ UNCHANGED owner

Fill ==
    /\ owner # NoSource
    /\ \E f \in Filler : heard' = Append(heard, f)
    /\ UNCHANGED owner

Next ==
    \/ \E s \in Sources : Acquire(s)
    \/ Release
    \/ \E n \in Numbers : Hear(n)
    \/ Fill

Spec == Init /\ [][Next]_vars
===============================================================================
