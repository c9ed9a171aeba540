------------------------- MODULE SingleInstanceProofs -------------------------
(***************************************************************************)
(* Proofs about SingleInstance, for any set of processes: the inductive    *)
(* invariant IInv, and from it OneUntilRemoved and OneInstancePerFile.     *)
(***************************************************************************)
EXTENDS SingleInstance, TLAPS

USE NoFileAssumption

\* Nobody has opened, locked or registered anything at first.
LEMMA IInvInit == Init => IInv
<1> SUFFICES ASSUME Init PROVE IInv
  OBVIOUS
<1>1. TypeOK
  <2>1. PID_FILE \in Procs \cup {NoFile} /\ removed \in BOOLEAN
    BY DEF Init
  <2>2. /\ locked \in [Procs -> Procs \cup {NoFile}]
        /\ content \in [Procs -> Procs \cup {NoFile}]
        /\ fd \in [Procs -> Procs \cup {NoFile}]
        /\ \A f \in Procs : locked[f] # NoFile => fd[locked[f]] = f
    BY DEF Init
  <2>3. pc \in [Procs -> PCs] /\ role \in [Procs -> {"foreground", "parent", "child"}]
    BY DEF Init, PCs
  <2>4. atexits \in [Procs -> 0 .. 2]
    BY DEF Init
  <2>5. QED
    BY <2>1, <2>2, <2>3, <2>4 DEF TypeOK
<1>2. LockHeld /\ Registered /\ OneFile
  BY DEF Init, LockHeld, Holding, Registered, OneFile, Running
<1>3. QED
  BY <1>1, <1>2 DEF IInv

\* Every step of every process preserves the invariant.
LEMMA IInvStep == IInv /\ [Next]_vars => IInv'
<1> SUFFICES ASSUME IInv, [Next]_vars PROVE IInv'
  OBVIOUS
<1> USE DEF IInv, TypeOK, PCs, LockHeld, Holding, Registered, OneFile, Running, Goes
<1>1. CASE UNCHANGED vars
  BY <1>1 DEF vars
<1>2. ASSUME NEW p \in Procs, NEW r \in {"foreground", "parent"}, Launch(p, r)
      PROVE  IInv'
  BY <1>2 DEF Launch
<1>3. ASSUME NEW p \in Procs, Open(p) PROVE IInv'
  BY <1>3 DEF Open
<1>4. ASSUME NEW p \in Procs, Lock(p) PROVE IInv'
  BY <1>4 DEF Lock
<1>5. ASSUME NEW p \in Procs, Refused(p) PROVE IInv'
  BY <1>5 DEF Refused
<1>6. ASSUME NEW p \in Procs, Truncate(p) PROVE IInv'
  BY <1>6 DEF Truncate
<1>7. ASSUME NEW p \in Procs, WritePid(p) PROVE IInv'
  BY <1>7 DEF WritePid
<1>8. ASSUME NEW p \in Procs, NEW q \in Procs, Fork(p, q) PROVE IInv'
  BY <1>8 DEF Fork
<1>9. ASSUME NEW p \in Procs, ForkFails(p) \/ MainReturns(p) PROVE IInv'
  BY <1>9 DEF ForkFails, MainReturns
<1>10. ASSUME NEW p \in Procs, HandleSigint(p) PROVE IInv'
  BY <1>10 DEF HandleSigint, Unlink
<1>11. ASSUME NEW p \in Procs, AtExit(p) PROVE IInv'
  <2>1. /\ pc[p] = "exit" /\ pc' = pc /\ role' = role
        /\ fd' = fd /\ locked' = locked /\ content' = content
    BY <1>11 DEF AtExit
  <2>2. PID_FILE' = NoFile /\ removed' \in BOOLEAN
        /\ (~removed' => ~removed /\ PID_FILE = NoFile)
    BY <1>11 DEF AtExit, Unlink
  <2>3. /\ atexits' \in [Procs -> 0 .. 2]
        /\ \A q \in Procs : q # p => atexits'[q] = atexits[q]
    BY <1>11 DEF AtExit
  <2>4. QED
    BY <2>1, <2>2, <2>3
<1>12. ASSUME NEW p \in Procs, End(p) PROVE IInv'
  BY <1>12 DEF End, Release
<1>13. ASSUME NEW p \in Procs, Killed(p) PROVE IInv'
  BY <1>13 DEF Killed, Release, Alive, Over
<1>14. QED
  BY <1>1, <1>2, <1>3, <1>4, <1>5, <1>6, <1>7, <1>8, <1>9, <1>10, <1>11, <1>12,
     <1>13 DEF Next, Step

LEMMA IInvHolds == Spec => []IInv
  BY IInvInit, IInvStep, PTL DEF Spec

\* Type correctness: a process has at most one PID file open, at most one
\* process holds the lock of a file, and it is one that has the file open.
THEOREM SingleTypeCorrect == Spec => []TypeOK
<1>1. IInv => TypeOK
  BY DEF IInv
<1>2. QED
  BY <1>1, IInvHolds, PTL

\* is_already_running lets one instance through, and the PID file names it, as
\* long as no PID file has been removed.
THEOREM OneUntilRemovedThm == Spec => []OneUntilRemoved
<1>1. IInv => OneUntilRemoved
  BY DEF IInv, TypeOK, LockHeld, Holding, OneFile, Running, OneUntilRemoved,
         OneInstance
<1>2. QED
  BY <1>1, IInvHolds, PTL

\* Two instances that run never have the same PID file open.
THEOREM OneInstancePerFileThm == Spec => []OneInstancePerFile
<1>1. IInv => OneInstancePerFile
  BY DEF IInv, LockHeld, Holding, Running, OneInstancePerFile
<1>2. QED
  BY <1>1, IInvHolds, PTL
===============================================================================
