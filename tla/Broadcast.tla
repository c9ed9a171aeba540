------------------------------- MODULE Broadcast -------------------------------
(***************************************************************************)
(* What iad's capture path promises to the connections it serves, with no  *)
(* threads, no lock and no list.  Frames are sent in rounds: one frame per *)
(* round, one round per frame, one round after the other.  A round begins  *)
(* with everybody who has joined and ends when each of them has either     *)
(* been sent the frame or been found gone; nobody joins during a round.    *)
(* The frames need not have their rounds in the order of their capture,    *)
(* and a frame may wait for its round for ever.                            *)
(*                                                                         *)
(* Once it has broken, nothing is promised any more.                       *)
(***************************************************************************)
EXTENDS Naturals, Sequences

CONSTANTS
    Members,      \* the connections
    NoFrame       \* no round

VARIABLES
    joined,       \* the connections that are served
    captured,     \* the last frame the device handed out
    fresh,        \* frames that have been handed out and have had no round
    frame,        \* the frame of this round
    todo,         \* those who have joined and have not been sent it yet
    got,          \* the frames sent to each connection, oldest first
    broken        \* the list of those who joined is damaged

vars == <<joined, captured, fresh, frame, todo, got, broken>>

Init ==
    /\ joined = {}
    /\ captured = 0
    /\ fresh = {}
    /\ frame = NoFrame
    /\ todo = {}
    /\ got = [m \in Members |-> <<>>]
    /\ broken = FALSE

Join(m) ==
    /\ frame = NoFrame
    /\ m \notin joined
    /\ got[m] = <<>>
    /\ joined' = joined \cup {m}
    /\ UNCHANGED <<captured, fresh, frame, todo, got>>

Fetch ==
    /\ captured' = captured + 1
    /\ fresh' = fresh \cup {captured + 1}
    /\ UNCHANGED <<joined, frame, todo, got>>

Begin(f) ==
    /\ frame = NoFrame
    /\ f \in fresh
    /\ fresh' = fresh \ {f}
    /\ frame' = f
    /\ todo' = joined
    /\ UNCHANGED <<joined, captured, got>>

Deliver(m) ==
    /\ m \in todo
    /\ todo' = todo \ {m}
    /\ got' = [got EXCEPT ![m] = Append(@, frame)]
    /\ UNCHANGED <<joined, captured, fresh, frame>>

\* A connection to which a frame cannot be written is lost.
Leave(m) ==
    /\ m \in todo
    /\ todo' = todo \ {m}
    /\ joined' = joined \ {m}
    /\ UNCHANGED <<captured, fresh, frame, got>>

End ==
    /\ frame # NoFrame
    /\ todo = {}
    /\ frame' = NoFrame
    /\ UNCHANGED <<joined, captured, fresh, todo, got>>

Round ==
    \/ \E m \in Members : Join(m) \/ Deliver(m) \/ Leave(m)
    \/ \E f \in fresh : Begin(f)
    \/ Fetch
    \/ End

Next ==
    \/ ~broken /\ Round /\ UNCHANGED broken
    \/ broken'

Spec == Init /\ [][Next]_vars
===============================================================================
