---------------------------- MODULE HardwareBusy ----------------------------
(***************************************************************************)
(* The processes of the EDPs and the pid file by which an EDP claims the   *)
(* hardware of its robot (edp_shell.cc, main() in edp_m.cc).  The steps of *)
(* detect_hardware_busy and close_hardware_busy_file are system calls on a *)
(* file without a lock, so each of them is an action.  A SIGTERM is caught *)
(* before the next step of the process it was sent to; a process that is   *)
(* killed leaves its file behind, and keeps its entry in /proc until its   *)
(* parent has waited for it.                                               *)
(*                                                                         *)
(* HardwareSpec lets an EDP be started only when no other EDP of the robot *)
(* is still looking at the file: what that needs of the starting side is   *)
(* the subject of UiProcesses.                                             *)
(***************************************************************************)


CONSTANTS
    Robots,
    Pids          \* process ids, reused after the process has been waited for

\* what file, file_pid and port hold when it is no process id
ASSUME PidAssumption == {"none", "empty"} \cap Pids = {}

VARIABLES
    pstate,       \* where each process is
    prog,         \* the robot whose EDP the process is, or was, or "none"
    file_pid,     \* what the process has read from the pid file
    signalled,    \* processes that a SIGTERM has been sent to
    file,         \* the pid file of each robot: "none", "empty" or a pid
    port          \* the process that serves the attach point of each robot

hardwareVars == <<pstate, prog, file_pid, signalled, file, port>>

Detecting == {"start", "read", "check", "remove", "create", "write"}
Claimed   == {"effector", "work"}
Closing   == {"close", "unlink", "exit"}
Running   == Detecting \cup Claimed
States    == Running \cup Closing \cup {"unborn", "zombie", "reaped"}

HardwareTypeOK ==
    /\ pstate \in [Pids -> States]
    /\ prog \in [Pids -> Robots \cup {"none"}]
    /\ file_pid \in [Pids -> Pids \cup {"empty"}]
    /\ signalled \subseteq Pids
    /\ file \in [Robots -> Pids \cup {"none", "empty"}]
    /\ port \in [Robots -> Pids \cup {"none"}]

\* a file may be left from an earlier session
HardwareInit ==
    /\ pstate = [p \in Pids |-> "unborn"]
    /\ prog = [p \in Pids |-> "none"]
    /\ file_pid = [p \in Pids |-> "empty"]
    /\ signalled = {}
    /\ file \in [Robots -> Pids \cup {"none", "empty"}]
    /\ port = [r \in Robots |-> "none"]

\* /proc/<pid> is there
Exists(p) == pstate[p] \notin {"unborn", "reaped"}

Goes(p, s) == pstate' = [pstate EXCEPT ![p] = s]

\* the process executes its next step unless a signal is to be handled first
At(p, s) == pstate[p] = s /\ p \notin signalled
-----------------------------------------------------------------------------
\* detect_hardware_busy; every return FALSE makes main() throw and close

Access(p) ==
    /\ At(p, "start")
    /\ Goes(p, IF file[prog[p]] = "none" THEN "create" ELSE "read")
    /\ UNCHANGED <<prog, file_pid, signalled, file, port>>

ReadPid(p) ==
    /\ At(p, "read")
    /\ \/ /\ file[prog[p]] = "none"
          /\ Goes(p, "close") /\ UNCHANGED file_pid
       \/ /\ file[prog[p]] # "none"
          /\ Goes(p, "check")
          /\ file_pid' = [file_pid EXCEPT ![p] = file[prog[p]]]
    /\ UNCHANGED <<prog, signalled, file, port>>

\* nothing is read from an empty file, and file_pid is not initialised
HolderExists(p) == IF file_pid[p] = "empty" THEN {TRUE, FALSE} ELSE {Exists(file_pid[p])}

HolderPresumedDead(p) == {FALSE}

HolderPresumedAlive(p) == {TRUE}

HolderLooked(p) == HolderExists(p)

CheckProcess(p) ==
    /\ At(p, "check")
    /\ \E busy \in HolderLooked(p) : Goes(p, IF busy THEN "close" ELSE "remove")
    /\ file_pid' = [file_pid EXCEPT ![p] = "empty"]
    /\ UNCHANGED <<prog, signalled, file, port>>

Remove(p) ==
    /\ At(p, "remove")
    /\ Goes(p, IF file[prog[p]] = "none" THEN "close" ELSE "create")
    /\ file' = [file EXCEPT ![prog[p]] = "none"]
    /\ UNCHANGED <<prog, file_pid, signalled, port>>

Create(p) ==
    /\ At(p, "create")
    /\ Goes(p, "write")
    /\ file' = [file EXCEPT ![prog[p]] = "empty"]
    /\ UNCHANGED <<prog, file_pid, signalled, port>>

Write(p) ==
    /\ At(p, "write")
    /\ Goes(p, "effector")
    /\ file' = [file EXCEPT ![prog[p]] = p]
    /\ UNCHANGED <<prog, file_pid, signalled, port>>

\* initialize_communication: the name server knows a name once
OpenPort(p) ==
    /\ At(p, "effector")
    /\ \/ /\ port[prog[p]] = "none"
          /\ Goes(p, "work") /\ port' = [port EXCEPT ![prog[p]] = p]
       \/ /\ port[prog[p]] # "none"
          /\ Goes(p, "close") /\ UNCHANGED port
    /\ UNCHANGED <<prog, file_pid, signalled, file>>

\* main(), the servo thread and the force thread catch std::runtime_error
RuntimeError(p) ==
    /\ pstate[p] \in Claimed /\ p \notin signalled
    /\ Goes(p, "close")
    /\ UNCHANGED <<prog, file_pid, signalled, file, port>>

\* the file cannot be opened, changed in mode or removed: a file that was created
\* before stays
DetectFails(p) ==
    /\ pstate[p] \in {"read", "remove", "create", "write"} /\ p \notin signalled
    /\ Goes(p, "close")
    /\ file_pid' = [file_pid EXCEPT ![p] = "empty"]
    /\ UNCHANGED <<prog, signalled, file, port>>

CatchSignal(p) ==
    /\ p \in signalled
    /\ Goes(p, "close")
    /\ signalled' = signalled \ {p}
    /\ file_pid' = [file_pid EXCEPT ![p] = "empty"]
    /\ UNCHANGED <<prog, file, port>>
-----------------------------------------------------------------------------
\* close_hardware_busy_file and the end of the process.  Only p writes p into a
\* file, so that access and the reading amount to one look: if p was not there at
\* the first it is not there at the second.  The pid that is left uninitialised
\* when the file is empty is taken not to be the process's own.

OwnFile(p) == file[prog[p]] = p

AnyFile(p) == file[prog[p]] # "none"

ToUnlink(p) == OwnFile(p)

Close(p) ==
    /\ pstate[p] = "close"
    /\ Goes(p, IF ToUnlink(p) THEN "unlink" ELSE "exit")
    /\ UNCHANGED <<prog, file_pid, signalled, file, port>>

Unlink(p) ==
    /\ pstate[p] = "unlink"
    /\ Goes(p, "exit")
    /\ file' = [file EXCEPT ![prog[p]] = "none"]
    /\ UNCHANGED <<prog, file_pid, signalled, port>>

\* the name server forgets the ports of a process whose connexion ends
PortsWithout(p) == [r \in Robots |-> IF port[r] = p THEN "none" ELSE port[r]]

Ended(p) ==
    /\ Goes(p, "zombie") /\ port' = PortsWithout(p)
    /\ file_pid' = [file_pid EXCEPT ![p] = "empty"] /\ signalled' = signalled \ {p}
    /\ UNCHANGED <<prog, file>>

Exit(p) == pstate[p] = "exit" /\ Ended(p)

\* SIGKILL, or an exception that main() catches without closing the file
Crash(p) == pstate[p] \in Running \cup Closing /\ Ended(p)
-----------------------------------------------------------------------------
\* what the parent does

Spawn(p, r) ==
    /\ pstate[p] \in {"unborn", "reaped"}
    /\ Goes(p, "start")
    /\ prog' = [prog EXCEPT ![p] = r]
    /\ UNCHANGED <<file_pid, signalled, file, port>>

SendSignal(S) ==
    /\ signalled' = signalled \cup {p \in S : pstate[p] \in Running}
    /\ UNCHANGED <<pstate, prog, file_pid, file, port>>

Reap(p) ==
    /\ pstate[p] = "zombie"
    /\ Goes(p, "reaped")
    /\ prog' = [prog EXCEPT ![p] = "none"]
    /\ UNCHANGED <<file_pid, signalled, file, port>>

EdpStep(p) ==
    \/ Access(p) \/ ReadPid(p) \/ CheckProcess(p) \/ Remove(p) \/ Create(p) \/ Write(p)
    \/ OpenPort(p) \/ CatchSignal(p) \/ Close(p) \/ Unlink(p) \/ Exit(p)

LooksAtFile(p, r) == prog[p] = r /\ pstate[p] \in Detecting /\ p \notin signalled

HardwareNext ==
    \/ \E p \in Pids : EdpStep(p) \/ RuntimeError(p) \/ DetectFails(p) \/ Crash(p) \/ Reap(p)
    \/ \E p \in Pids, r \in Robots :
          Spawn(p, r) /\ \A q \in Pids : ~LooksAtFile(q, r)
    \/ \E S \in SUBSET Pids : SendSignal(S)

HardwareSpec == HardwareInit /\ [][HardwareNext]_hardwareVars
-----------------------------------------------------------------------------
\* Two EDPs never have the hardware of one robot (detect_hardware_busy is
\* there to notice a second EDP before it makes an effector): whatever is
\* killed or refused in between, and whatever was in the file.
OneEdp ==
    \A p, q \in Pids :
        /\ pstate[p] \in Claimed /\ pstate[q] \in Claimed
        /\ prog[p] = prog[q]
        => p = q

\* The file of an EDP that has the hardware names it: no refused, killed or
\* late EDP of the same robot removes or overwrites it.
ClaimKept == \A p \in Pids : pstate[p] \in Claimed => file[prog[p]] = p
=============================================================================
