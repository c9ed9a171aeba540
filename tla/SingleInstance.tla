---------------------------- MODULE SingleInstance ----------------------------
(***************************************************************************)
(* How iad keeps to one instance (iad/utils/utils.c, iad/iad.c): a process *)
(* opens the PID file, locks it with lockf and writes its pid; the file is *)
(* removed by an atexit function and by the signal handler.  Several       *)
(* processes start, daemonize, stop and are killed at the same time.       *)
(*                                                                         *)
(* Every process opens the file once, so that a file can be named after    *)
(* the process that created it.  A file lives on after its removal while   *)
(* a process has it open.                                                  *)
(***************************************************************************)
EXTENDS Naturals

CONSTANTS
    Procs,      \* processes
    NoFile      \* no PID file, or no process

ASSUME NoFileAssumption == NoFile \notin Procs

VARIABLES
    PID_FILE,   \* the file at this path
    locked,     \* the process that holds the lock of each file
    content,    \* the pid written in each file
    fd,         \* the file each process has open
    pc,
    role,       \* "foreground", or "parent" and "child" of daemonize
    atexits,    \* how often remove_pid_file is registered with atexit
    removed     \* history: a PID file has been removed

vars == <<PID_FILE, locked, content, fd, pc, role, atexits, removed>>

Init ==
    /\ PID_FILE = NoFile
    /\ locked = [f \in Procs |-> NoFile]
    /\ content = [f \in Procs |-> NoFile]
    /\ fd = [p \in Procs |-> NoFile]
    /\ pc = [p \in Procs |-> "unused"]
    /\ role = [p \in Procs |-> "foreground"]
    /\ atexits = [p \in Procs |-> 0]
    /\ removed = FALSE

Goes(p, from, to) == pc[p] = from /\ pc' = [pc EXCEPT ![p] = to]

Over(p)    == pc[p] \in {"ended", "killed"}
Alive(p)   == pc[p] # "unused" /\ ~Over(p)
Running(p) == pc[p] = "running"

\* unlink(PID_FILE), whoever's file it is.
Unlink ==
    /\ PID_FILE' = NoFile
    /\ removed' = (removed \/ PID_FILE # NoFile)

\* The kernel closes the files of a process that ends and drops its locks.
Release(p) ==
    /\ locked' = [f \in Procs |-> IF locked[f] = p THEN NoFile ELSE locked[f]]
    /\ fd' = [fd EXCEPT ![p] = NoFile]

-------------------------------------------------------------------------------
\* main, with or without the option that daemonizes.
Launch(p, r) ==
    /\ Goes(p, "unused", "open")
    /\ role' = [role EXCEPT ![p] = r]
    /\ UNCHANGED <<PID_FILE, locked, content, fd, atexits, removed>>

\* is_already_running, line 201: O_CREAT.
Open(p) ==
    /\ Goes(p, "open", "lock")
    /\ PID_FILE' = IF PID_FILE = NoFile THEN p ELSE PID_FILE
    /\ fd' = [fd EXCEPT ![p] = PID_FILE']
    /\ UNCHANGED <<locked, content, role, atexits, removed>>

\* Mutant: the result of lockf is not looked at.
LockUnchecked(p) ==
    /\ Goes(p, "lock", "truncate")
    /\ locked' = [locked EXCEPT ![fd[p]] = p]
    /\ UNCHANGED <<PID_FILE, content, fd, role, atexits, removed>>

\* Mutant: the lock is taken on the file now at the path, not on the one open.
LockByPath(p) ==
    /\ PID_FILE # NoFile /\ locked[PID_FILE] = NoFile
    /\ Goes(p, "lock", "truncate")
    /\ locked' = [locked EXCEPT ![PID_FILE] = p]
    /\ UNCHANGED <<PID_FILE, content, fd, role, atexits, removed>>

\* Line 209: lockf(F_TLOCK) takes the lock ...
Lock(p) ==
    /\ Goes(p, "lock", "truncate")
    /\ locked[fd[p]] = NoFile
    /\ locked' = [locked EXCEPT ![fd[p]] = p]
    /\ UNCHANGED <<PID_FILE, content, fd, role, atexits, removed>>

\* Mutant: a PID file with a pid in it refuses the process, locked or not.
RefusedByContent(p) ==
    /\ Goes(p, "lock", "exit")
    /\ locked[fd[p]] # NoFile \/ content[fd[p]] # NoFile
    /\ fd' = [fd EXCEPT ![p] = NoFile]
    /\ UNCHANGED <<PID_FILE, locked, content, role, atexits, removed>>

\* ... or fails: lines 210 to 219, and exit(1) in the caller.
Refused(p) ==
    /\ Goes(p, "lock", "exit")
    /\ locked[fd[p]] # NoFile
    /\ fd' = [fd EXCEPT ![p] = NoFile]
    /\ UNCHANGED <<PID_FILE, locked, content, role, atexits, removed>>

Truncate(p) ==
    /\ Goes(p, "truncate", "write")
    /\ content' = [content EXCEPT ![fd[p]] = NoFile]
    /\ UNCHANGED <<PID_FILE, locked, fd, role, atexits, removed>>

\* Lines 226 to 229.
WritePid(p) ==
    /\ Goes(p, "write", IF role[p] = "parent" THEN "fork" ELSE "running")
    /\ content' = [content EXCEPT ![fd[p]] = p]
    /\ atexits' = [atexits EXCEPT ![p] = @ + 1]
    /\ UNCHANGED <<PID_FILE, locked, fd, role, removed>>

\* daemonize: the child inherits what was registered with atexit, but not the
\* lock, and calls is_already_running for itself; the parent exits.
Fork(p, q) ==
    /\ pc[p] = "fork" /\ pc[q] = "unused"
    /\ pc' = [pc EXCEPT ![p] = "exit", ![q] = "open"]
    /\ role' = [role EXCEPT ![q] = "child"]
    /\ atexits' = [atexits EXCEPT ![q] = atexits[p]]
    /\ UNCHANGED <<PID_FILE, locked, content, fd, removed>>

ForkFails(p) ==
    /\ Goes(p, "fork", "exit")
    /\ UNCHANGED <<PID_FILE, locked, content, fd, role, atexits, removed>>

\* handle_sigint removes the file (line 131) before exit does.
HandleSigint(p) ==
    /\ Goes(p, "running", "exit")
    /\ Unlink
    /\ UNCHANGED <<locked, content, fd, role, atexits>>

\* main returns 1 when it cannot create a thread.
MainReturns(p) ==
    /\ Goes(p, "running", "exit")
    /\ UNCHANGED <<PID_FILE, locked, content, fd, role, atexits, removed>>

\* exit: one call of remove_pid_file for each registration ...
AtExit(p) ==
    /\ pc[p] = "exit" /\ atexits[p] > 0
    /\ atexits' = [atexits EXCEPT ![p] = @ - 1]
    /\ Unlink
    /\ UNCHANGED <<locked, content, fd, pc, role>>

\* ... and the end of the process.
End(p) ==
    /\ atexits[p] = 0
    /\ Goes(p, "exit", "ended")
    /\ Release(p)
    /\ UNCHANGED <<PID_FILE, content, role, atexits, removed>>

\* A signal that is not handled, or not yet, at any moment.
Killed(p) ==
    /\ Alive(p)
    /\ pc' = [pc EXCEPT ![p] = "killed"]
    /\ Release(p)
    /\ UNCHANGED <<PID_FILE, content, role, atexits, removed>>

Step(p) ==
    \/ Open(p) \/ Lock(p) \/ Refused(p) \/ Truncate(p) \/ WritePid(p)
    \/ ForkFails(p) \/ AtExit(p) \/ End(p)
    \/ \E q \in Procs : Fork(p, q)

Next ==
    \E p \in Procs :
        \/ Step(p)
        \/ \E r \in {"foreground", "parent"} : Launch(p, r)
        \/ HandleSigint(p) \/ MainReturns(p) \/ Killed(p)

Spec == Init /\ [][Next]_vars

\* The scheduler runs every process that can run.
FairSpec == Spec /\ \A p \in Procs : WF_vars(Step(p))

-------------------------------------------------------------------------------
PCs == {"unused", "open", "lock", "truncate", "write", "fork", "running",
        "exit", "ended", "killed"}

\* Every variable stays in its type, and a process holds only the lock of the
\* file it has open.
TypeOK ==
    /\ PID_FILE \in Procs \cup {NoFile}
    /\ locked \in [Procs -> Procs \cup {NoFile}]
    /\ content \in [Procs -> Procs \cup {NoFile}]
    /\ fd \in [Procs -> Procs \cup {NoFile}]
    /\ pc \in [Procs -> PCs]
    /\ role \in [Procs -> {"foreground", "parent", "child"}]
    /\ atexits \in [Procs -> 0 .. 2]
    /\ removed \in BOOLEAN
    /\ \A f \in Procs : locked[f] # NoFile => fd[locked[f]] = f

\* iad.c:51: "Ensure only one instance of the daemon is running".
OneInstance == \A p, q \in Procs : Running(p) /\ Running(q) => p = q

\* As long as no PID file has been removed, whatever was started, killed and
\* refused in any order, one instance runs and the PID file holds its pid.
OneUntilRemoved ==
    ~removed =>
        /\ OneInstance
        /\ \A p \in Procs : Running(p) => PID_FILE # NoFile /\ content[PID_FILE] = p

\* With removals too, two instances never share a file: of two that run, the
\* file of one has been removed under it.
OneInstancePerFile ==
    \A p, q \in Procs : Running(p) /\ Running(q) /\ fd[p] = fd[q] => p = q

\* Crash recovery: the file a killed instance leaves behind does not lock out
\* the next one.  A process about to open it when all others are over will run,
\* unless it is killed.
StartsAgain ==
    \A p \in Procs :
        /\ pc[p] = "open" /\ role[p] = "foreground"
        /\ \A q \in Procs \ {p} : Over(q)
        ~> Running(p) \/ pc[p] = "killed"

-------------------------------------------------------------------------------
(***************************************************************************)
(* The inductive invariant behind the safety properties.                   *)
(***************************************************************************)
Holding(p) == pc[p] \in {"truncate", "write", "fork", "running"}

\* A process past line 209 holds the lock of the file it has open; one before
\* it holds none.
LockHeld ==
    \A p \in Procs :
        /\ pc[p] = "lock" \/ Holding(p) => fd[p] # NoFile
        /\ Holding(p) => locked[fd[p]] = p
        /\ pc[p] \in {"unused", "open", "lock"} =>
               \A f \in Procs : locked[f] # p

\* Who has called atexit: nobody twice, but a child inherits its parent's.
Registered ==
    \A p \in Procs :
        /\ pc[p] \in {"unused", "open", "lock", "truncate", "write"} =>
               atexits[p] = 0 \/ (role[p] = "child" /\ atexits[p] = 1)
        /\ pc[p] = "unused" => atexits[p] = 0
        /\ pc[p] = "fork" => atexits[p] = 1

\* Without removals every open file is the PID file.
OneFile ==
    /\ ~removed => \A p \in Procs : fd[p] # NoFile => fd[p] = PID_FILE
    /\ \A p \in Procs : Running(p) => content[fd[p]] = p

IInv == TypeOK /\ LockHeld /\ Registered /\ OneFile
===============================================================================
