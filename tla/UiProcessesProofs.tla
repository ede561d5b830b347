-------------------------- MODULE UiProcessesProofs --------------------------
(***************************************************************************)
(* Theorems about UiProcesses and about the processes of HardwareBusy that *)
(* it starts, signals and waits for.                                       *)
(*                                                                         *)
(* First HardwareBusy by itself: an EDP that has the hardware is named by  *)
(* its pid file, so that no two EDPs of a robot have it.  The argument     *)
(* follows the file.  Of the EDPs of a robot at most one looks at the file *)
(* (the starting side sees to it).  As long as another process that the    *)
(* file names is there, that one has read its pid, and finds it in /proc;  *)
(* once it has passed the test, the file names nobody but itself, and may  *)
(* be replaced.                                                            *)
(*                                                                         *)
(* Then the starting side: the user interface knows the pid of every       *)
(* process that may still look at the file of its robot, and starts none   *)
(* while there is one, so that it implements HardwareSpec.  What it waits  *)
(* for when it unloads is found by counting: a robot whose process is gone *)
(* without its being told has an ended process in exchange.                *)
(***************************************************************************)
EXTENDS UiProcesses, TLAPS

\* a process that the file of its robot names, and that may still remove it
Named(p) == pstate[p] \in Running \cup {"close", "unlink"} /\ file[prog[p]] = p

Placed ==
    /\ \A p \in Pids : Exists(p) => prog[p] \in Robots
    /\ \A p \in signalled : pstate[p] \in Running

OneLooks ==
    \A p, q \in Pids :
        /\ pstate[p] \in Detecting /\ p \notin signalled
        /\ pstate[q] \in Detecting /\ q \notin signalled
        /\ prog[p] = prog[q]
        => p = q

NamesHolder ==
    \A p \in Pids : pstate[p] \in Claimed \cup {"unlink"} => file[prog[p]] = p

ReadsNamed ==
    \A p, q \in Pids :
        At(q, "check") /\ Named(p) /\ p # q /\ prog[p] = prog[q] => file_pid[q] = p

ReplacesNobody ==
    \A p, q \in Pids :
        /\ At(q, "remove") \/ At(q, "create") \/ At(q, "write")
        /\ Named(p) /\ prog[p] = prog[q]
        => p = q

HardwareInv ==
    HardwareTypeOK /\ Placed /\ OneLooks /\ NamesHolder /\ ReadsNamed /\ ReplacesNobody

\* Nothing runs and nothing is signalled at the start, whatever the files hold.
LEMMA HardwareInitInv == HardwareInit => HardwareInv
BY PidAssumption DEF HardwareInit, HardwareInv, HardwareTypeOK, Placed, OneLooks, NamesHolder, ReadsNamed,
       ReplacesNobody, Exists, Named, At, States, Running, Closing, Detecting, Claimed

\* Every step keeps the types (file_pid and port follow the pids).
LEMMA HardwareNextTypes == HardwareInv /\ [HardwareNext]_hardwareVars => HardwareTypeOK' /\ Placed'
<1> SUFFICES ASSUME HardwareInv, [HardwareNext]_hardwareVars PROVE HardwareTypeOK' /\ Placed'
  OBVIOUS
<1> USE PidAssumption DEF HardwareInv, HardwareTypeOK, Placed, Exists, Goes, At, States, Running,
        Closing, Detecting, Claimed
<1>1. ASSUME NEW p \in Pids, Access(p) PROVE HardwareTypeOK' /\ Placed'
  BY <1>1 DEF Access
<1>2. ASSUME NEW p \in Pids, ReadPid(p) PROVE HardwareTypeOK' /\ Placed'
  BY <1>2 DEF ReadPid
<1>3. ASSUME NEW p \in Pids, CheckProcess(p) PROVE HardwareTypeOK' /\ Placed'
  BY <1>3 DEF CheckProcess
<1>4. ASSUME NEW p \in Pids, Remove(p) PROVE HardwareTypeOK' /\ Placed'
  BY <1>4 DEF Remove
<1>5. ASSUME NEW p \in Pids, Create(p) PROVE HardwareTypeOK' /\ Placed'
  BY <1>5 DEF Create
<1>6. ASSUME NEW p \in Pids, Write(p) PROVE HardwareTypeOK' /\ Placed'
  BY <1>6 DEF Write
<1>7. ASSUME NEW p \in Pids, OpenPort(p) PROVE HardwareTypeOK' /\ Placed'
  BY <1>7 DEF OpenPort
<1>8. ASSUME NEW p \in Pids, RuntimeError(p) \/ DetectFails(p)
      PROVE HardwareTypeOK' /\ Placed'
  BY <1>8 DEF RuntimeError, DetectFails
<1>9. ASSUME NEW p \in Pids, CatchSignal(p) PROVE HardwareTypeOK' /\ Placed'
  BY <1>9 DEF CatchSignal
<1>10. ASSUME NEW p \in Pids, Close(p) PROVE HardwareTypeOK' /\ Placed'
  BY <1>10 DEF Close
<1>11. ASSUME NEW p \in Pids, Unlink(p) PROVE HardwareTypeOK' /\ Placed'
  BY <1>11 DEF Unlink
<1>12. ASSUME NEW p \in Pids, Exit(p) \/ Crash(p) PROVE HardwareTypeOK' /\ Placed'
  BY <1>12 DEF Exit, Crash, Ended, PortsWithout
<1>13. ASSUME NEW p \in Pids, NEW r \in Robots, Spawn(p, r) PROVE HardwareTypeOK' /\ Placed'
  BY <1>13 DEF Spawn
<1>14. ASSUME NEW S \in SUBSET Pids, SendSignal(S) PROVE HardwareTypeOK' /\ Placed'
  BY <1>14 DEF SendSignal
<1>15. ASSUME NEW p \in Pids, Reap(p) PROVE HardwareTypeOK' /\ Placed'
  BY <1>15 DEF Reap
<1>16. CASE UNCHANGED hardwareVars
  BY <1>16 DEF hardwareVars
<1> QED
  BY <1>1, <1>2, <1>3, <1>4, <1>5, <1>6, <1>7, <1>8, <1>9, <1>10, <1>11, <1>12, <1>13, <1>14,
     <1>15, <1>16 DEF HardwareNext, EdpStep

\* The part of the invariant that is about the file.
FileInv == OneLooks /\ NamesHolder /\ ReadsNamed /\ ReplacesNobody

\* Who passes the test has read of no process that is there.
LEMMA CheckPasses ==
    ASSUME NEW p \in Pids, CheckProcess(p)
    PROVE  /\ \/ pstate' = [pstate EXCEPT ![p] = "close"]
              \/ /\ pstate' = [pstate EXCEPT ![p] = "remove"]
                 /\ file_pid[p] = "empty" \/ ~Exists(file_pid[p])
           /\ At(p, "check") /\ file_pid' = [file_pid EXCEPT ![p] = "empty"]
           /\ UNCHANGED <<prog, signalled, file, port>>
<1>1. PICK busy \in HolderLooked(p) : Goes(p, IF busy THEN "close" ELSE "remove")
  BY DEF CheckProcess
<1>2. busy => pstate' = [pstate EXCEPT ![p] = "close"]
  BY <1>1, Zenon DEF Goes
<1>3. ~busy => pstate' = [pstate EXCEPT ![p] = "remove"]
  BY <1>1, Zenon DEF Goes
<1>4. ~busy => file_pid[p] = "empty" \/ ~Exists(file_pid[p])
  BY <1>1, Zenon DEF HolderLooked, HolderExists
<1>5. At(p, "check") /\ file_pid' = [file_pid EXCEPT ![p] = "empty"]
  BY DEF CheckProcess
<1>6. UNCHANGED <<prog, signalled, file, port>>
  BY DEF CheckProcess
<1> QED
  BY <1>2, <1>3, <1>4, <1>5, <1>6, Zenon

\* Every step keeps it: only Spawn makes a process look at the file, only Write
\* names one, and only Remove, Create and Unlink take a name away.
LEMMA HardwareNextFile == HardwareInv /\ [HardwareNext]_hardwareVars => FileInv'
<1> SUFFICES ASSUME HardwareInv, [HardwareNext]_hardwareVars PROVE FileInv'
  OBVIOUS
<1> USE PidAssumption DEF HardwareInv, FileInv, HardwareTypeOK, Placed, OneLooks, NamesHolder,
        ReadsNamed, ReplacesNobody, Named, Exists, Goes, At, States, Running, Closing, Detecting,
        Claimed
<1>1. ASSUME NEW p \in Pids, Access(p)
      PROVE FileInv'
  BY <1>1 DEF Access
<1>2. ASSUME NEW p \in Pids, ReadPid(p)
      PROVE FileInv'
  BY <1>2 DEF ReadPid
<1>3. ASSUME NEW p \in Pids, CheckProcess(p)
      PROVE FileInv'
  BY <1>3, CheckPasses
<1>4. ASSUME NEW p \in Pids, Remove(p)
      PROVE FileInv'
  BY <1>4 DEF Remove
<1>5. ASSUME NEW p \in Pids, Create(p)
      PROVE FileInv'
  BY <1>5 DEF Create
<1>6. ASSUME NEW p \in Pids, Write(p)
      PROVE FileInv'
  BY <1>6 DEF Write
<1>7. ASSUME NEW p \in Pids, OpenPort(p)
      PROVE FileInv'
  BY <1>7 DEF OpenPort
<1>8. ASSUME NEW p \in Pids, RuntimeError(p) \/ DetectFails(p)
      PROVE FileInv'
  BY <1>8 DEF RuntimeError, DetectFails
<1>9. ASSUME NEW p \in Pids, CatchSignal(p)
      PROVE FileInv'
  BY <1>9 DEF CatchSignal
<1>10. ASSUME NEW p \in Pids, Close(p)
      PROVE FileInv'
  BY <1>10 DEF Close, ToUnlink, OwnFile
<1>11. ASSUME NEW p \in Pids, Unlink(p)
      PROVE FileInv'
  BY <1>11 DEF Unlink
<1>12. ASSUME NEW p \in Pids, Exit(p) \/ Crash(p)
      PROVE FileInv'
  BY <1>12 DEF Exit, Crash, Ended, PortsWithout
<1>13. ASSUME NEW p \in Pids, NEW r \in Robots,
              Spawn(p, r), \A q \in Pids : ~LooksAtFile(q, r)
      PROVE FileInv'
  BY <1>13 DEF Spawn, LooksAtFile
<1>14. ASSUME NEW S \in SUBSET Pids, SendSignal(S)
      PROVE FileInv'
  BY <1>14 DEF SendSignal
<1>15. ASSUME NEW p \in Pids, Reap(p)
      PROVE FileInv'
  BY <1>15 DEF Reap
<1>16. CASE UNCHANGED hardwareVars
  BY <1>16 DEF hardwareVars
<1> QED
  BY <1>1, <1>2, <1>3, <1>4, <1>5, <1>6, <1>7, <1>8, <1>9, <1>10, <1>11, <1>12, <1>13, <1>14,
     <1>15, <1>16 DEF HardwareNext, EdpStep

LEMMA HardwareInvariance == HardwareSpec => []HardwareInv
<1>1. HardwareInv /\ [HardwareNext]_hardwareVars => HardwareInv'
  BY HardwareNextTypes, HardwareNextFile DEF HardwareInv, FileInv
<1> QED
  BY HardwareInitInv, <1>1, PTL DEF HardwareSpec

\* The variables of HardwareBusy keep their types.
THEOREM HardwareTypes == HardwareSpec => []HardwareTypeOK
<1>1. HardwareInv => HardwareTypeOK
  BY DEF HardwareInv
<1> QED
  BY HardwareInvariance, <1>1, PTL

\* No two EDPs have the hardware of one robot, whatever is killed or refused
\* between the steps on the file and whatever an earlier session has left in it.
THEOREM HardwareOnce == HardwareSpec => []OneEdp
<1>1. HardwareInv => OneEdp
  <2> SUFFICES ASSUME HardwareInv, NEW p \in Pids, NEW q \in Pids,
                      pstate[p] \in Claimed, pstate[q] \in Claimed, prog[p] = prog[q]
               PROVE  p = q
    BY DEF OneEdp
  <2>1. file[prog[p]] = p /\ file[prog[q]] = q
    BY DEF HardwareInv, NamesHolder
  <2> QED
    BY <2>1
<1> QED
  BY HardwareInvariance, <1>1, PTL

\* The pid file of an EDP that has the hardware names it.
THEOREM HolderNamed == HardwareSpec => []ClaimKept
<1>1. HardwareInv => ClaimKept
  BY DEF HardwareInv, NamesHolder, ClaimKept
<1> QED
  BY HardwareInvariance, <1>1, PTL
-----------------------------------------------------------------------------
\* The user interface.  An EDP that may still look at the file of a robot is the
\* one the robot object stands for, and the robot is loaded or about to be.
LooksInv == \A q \in Pids, r \in Robots :
    LooksAtFile(q, r) => /\ ecp_robot[r].pid = q
                         /\ thread[r] \in {"connect", "connected"} \/ edp_state[r] > 0

\* The robot object exists exactly while the robot is loaded or being connected,
\* and only an unloaded robot is created.
CreateInv == \A r \in Robots :
    /\ thread[r] \in {"spawn", "connect", "connected"} => edp_state[r] = 0
    /\ edp_state[r] > 0 => ecp_robot[r].pid \in Pids
    /\ edp_state[r] <= 0 /\ thread[r] \notin {"connect", "connected"} => ecp_robot[r] = NoObject
    /\ thread[r] = "state" => edp_state[r] > 0 /\ ecp_robot[r].fd \in Pids
    /\ thread[r] = "connected" => ecp_robot[r].fd \in Pids

UiInv == TypeOK /\ HardwareInv /\ LooksInv /\ CreateInv

LEMMA UiInitInv == Init => UiInv
<1> SUFFICES ASSUME Init PROVE UiInv
  OBVIOUS
<1>1. HardwareInv
  BY HardwareInitInv DEF Init
<1>2. TypeOK
  <2>1. NoObject \in [pid : Pids \cup {"none"}, fd : Pids \cup {"none"}]
    BY DEF NoObject
  <2>2. edp_state \in [Robots -> {-1, 0, 1}]
    BY DEF Init
  <2>3. refresh = TRUE /\ mp_pid = FALSE /\ mp_command = FALSE
    BY Zenon DEF Init
  <2>4. refresh \in BOOLEAN /\ mp_pid \in BOOLEAN /\ mp_command \in BOOLEAN
    BY <2>3, Zenon
  <2>5. unbidden \in 0..Crashes
    BY ActiveAssumption DEF Init
  <2>6. ecp_robot \in [Robots -> [pid : Pids \cup {"none"}, fd : Pids \cup {"none"}]]
    BY <2>1 DEF Init
  <2>7. HardwareTypeOK
    BY <1>1 DEF HardwareInv
  <2>8. /\ is_synchronised \subseteq Robots /\ slay_queue \subseteq Robots /\ menu \subseteq Items
        /\ thread \in [Robots -> {"none", "idle", "spawn", "connect", "connected", "state"}]
        /\ com_fun \in [Robots -> {"none", "create", "synchronise"}]
        /\ mtx \in Robots \cup {"none"} /\ slaying \in Robots \cup {"none"}
        /\ gui \in {"idle", "wait", "join", "wait_mp"}
        /\ mp_state \in {"not_permitted", "permitted", "loaded"}
        /\ mp_proc \in {"none", "alive", "signalled", "zombie"} /\ mp_thread \in {"idle", "spawn"}
        /\ all_edps \in {"none_activated", "none_loaded", "some_loaded", "all_loaded"}
    BY DEF Init
  <2> QED
    BY <2>2, <2>4, <2>5, <2>6, <2>7, <2>8, Zenon DEF TypeOK
<1>3. LooksInv
  BY DEF Init, HardwareInit, LooksInv, LooksAtFile, Detecting
<1>4. CreateInv
  <2> SUFFICES ASSUME NEW r \in Robots
               PROVE  ~(edp_state[r] > 0) /\ thread[r] = "none" /\ ecp_robot[r] = NoObject
    BY DEF CreateInv
  <2>1. ~((IF r \in Active THEN 0 ELSE -1) > 0)
    OBVIOUS
  <2> QED
    BY <2>1 DEF Init
<1> QED
  BY <1>1, <1>2, <1>3, <1>4 DEF UiInv

\* Nothing looks at the file of a robot whose thread is about to start an EDP.
LEMMA NobodyLooks ==
    ASSUME UiInv, NEW r \in Robots, thread[r] = "spawn", NEW q \in Pids
    PROVE  ~LooksAtFile(q, r)
BY DEF UiInv, LooksInv, CreateInv, TypeOK

\* Every step of the user interface is a step of HardwareBusy or leaves it alone.
LEMMA NextIsHardware == UiInv /\ [Next]_vars => [HardwareNext]_hardwareVars
<1> SUFFICES ASSUME UiInv, [Next]_vars PROVE [HardwareNext]_hardwareVars
  OBVIOUS
<1>1. ASSUME NEW p \in Pids, Edp(p) \/ EdpEndsUnbidden(p) PROVE HardwareNext
  BY <1>1 DEF Edp, EdpEndsUnbidden, HardwareNext
<1>2. ASSUME NEW S \in SUBSET Pids, SendSignal(S) PROVE HardwareNext
  BY <1>2 DEF HardwareNext
<1>3. ASSUME NEW r \in Robots, KillOf(r), ecp_robot[r].pid \in Pids \cup {"none"}
      PROVE  HardwareNext
  BY <1>3, <1>2 DEF KillOf
<1>4. ASSUME NEW r \in Robots, RobotThread(r) PROVE HardwareNext \/ UNCHANGED hardwareVars
  <2>1. CASE ProcessSpawn(r)
    BY <2>1, NobodyLooks DEF ProcessSpawn, HardwareNext
  <2>2. CASE SetLoaded(r)
    BY <2>2, <1>3 DEF SetLoaded, delete_ui_ecp_robot, UiInv, TypeOK
  <2> QED
    BY <1>4, <2>1, <2>2
    DEF RobotThread, WaitAndExecute, NoNode, ConnectToEdp, ConnectFails, SetLoaded, InitialState
<1>5. ASSUME NEW r \in Robots, BeginSlay(r), edp_state[r] > 0 PROVE HardwareNext
  BY <1>5, <1>3 DEF BeginSlay, CloseEdpConnections, delete_ui_ecp_robot, UiInv, CreateInv
<1>6. CASE WindowGoesOn
  <2>1. ASSUME NEW r \in Robots, SlayNext(r) PROVE HardwareNext \/ UNCHANGED hardwareVars
    BY <2>1, <1>5 DEF SlayNext
  <2>2. CASE WaitForChild
    BY <2>2 DEF WaitForChild, HardwareNext
  <2> QED
    BY <1>6, <2>1, <2>2 DEF WindowGoesOn, ManageInterface, AbortThread, MpEnded
<1>7. CASE Operator
  BY <1>7, <1>5 DEF Operator, edp_create, synchronise, EDP_slay_int, EDP_all_robots_slay, MPup, MPslay
<1>8. CASE MpThread \/ MpEnds \/ UNCHANGED vars
  BY <1>8 DEF MpThread, MPup_int, SpawnMp, MpEnds, vars
<1> QED
  BY <1>1, <1>4, <1>6, <1>7, <1>8 DEF Next

LEMMA NextHardwareInv == UiInv /\ [Next]_vars => HardwareInv'
BY NextIsHardware, HardwareNextTypes, HardwareNextFile DEF UiInv, HardwareInv, FileInv

\* The types that are not truth values.
DataTypes ==
    /\ is_synchronised \subseteq Robots
    /\ edp_state \in [Robots -> {-1, 0, 1}]
    /\ ecp_robot \in [Robots -> [pid : Pids \cup {"none"}, fd : Pids \cup {"none"}]]
    /\ thread \in [Robots -> {"none", "idle", "spawn", "connect", "connected", "state"}]
    /\ com_fun \in [Robots -> {"none", "create", "synchronise"}]
    /\ mtx \in Robots \cup {"none"}
    /\ gui \in {"idle", "wait", "join", "wait_mp"}
    /\ slaying \in Robots \cup {"none"} /\ slay_queue \subseteq Robots
    /\ unbidden \in 0..Crashes
    /\ mp_state \in {"not_permitted", "permitted", "loaded"}
    /\ mp_proc \in {"none", "alive", "signalled", "zombie"}
    /\ mp_thread \in {"idle", "spawn"}
    /\ all_edps \in {"none_activated", "none_loaded", "some_loaded", "all_loaded"}
    /\ menu \subseteq Items

LEMMA NextDataTypes == UiInv /\ [Next]_vars => DataTypes'
<1> SUFFICES ASSUME UiInv, [Next]_vars PROVE DataTypes'
  OBVIOUS
<1> USE DEF DataTypes
<1>1. DataTypes /\ HardwareTypeOK
  BY Zenon DEF UiInv, TypeOK
<1>2. NoObject \in [pid : Pids \cup {"none"}, fd : Pids \cup {"none"}]
  BY DEF NoObject
<1> HIDE DEF NoObject
<1>3. CASE UNCHANGED <<notHardware, unbidden>>
  BY <1>1, <1>3 DEF notHardware, robotVars, guiVars, mpVars, shownVars
<1>4. ASSUME NEW p \in Pids, Edp(p) \/ EdpEndsUnbidden(p) PROVE DataTypes'
  <2>1. CASE unbidden' = unbidden + 1 /\ unbidden < Crashes /\ UNCHANGED notHardware
    BY <1>1, <2>1, ActiveAssumption DEF notHardware, robotVars, guiVars, mpVars, shownVars
  <2> QED
    BY <1>3, <1>4, <2>1 DEF Edp, EdpEndsUnbidden
<1>5. ASSUME NEW r \in Robots, RobotThread(r) PROVE DataTypes'
  <2> USE DEF ThreadGoes, guiVars, mpVars, shownVars
  <2>1. CASE WaitAndExecute(r)
    BY <1>1, <2>1 DEF WaitAndExecute, CreateInt, SynchroniseInt, Loaded
  <2>2. CASE NoNode(r)
    BY <1>1, <2>2 DEF NoNode
  <2>3. CASE ProcessSpawn(r)
    <3>1. PICK o \in [pid : Pids \cup {"none"}, fd : Pids \cup {"none"}] :
              ecp_robot' = [ecp_robot EXCEPT ![r] = o]
      BY <2>3, <1>2 DEF ProcessSpawn
    <3> QED
      BY <1>1, <2>3, <3>1 DEF ProcessSpawn
  <2>4. CASE ConnectToEdp(r)
    <3>1. port[r] \in Pids \cup {"none"}
      BY <1>1 DEF HardwareTypeOK
    <3> QED
      BY <1>1, <2>4, <3>1 DEF ConnectToEdp
  <2>7. CASE SetLoaded(r)
    <3>1. ecp_robot' = [ecp_robot EXCEPT ![r] = NoObject] \/ ecp_robot' = ecp_robot
      BY <2>7 DEF SetLoaded, delete_ui_ecp_robot
    <3>2. /\ edp_state' \in [Robots -> {-1, 0, 1}]
          /\ thread' \in [Robots -> {"none", "idle", "spawn", "connect", "connected", "state"}]
      BY <1>1, <2>7 DEF SetLoaded
    <3>3. mp_proc' \in {"none", "alive", "signalled", "zombie"}
      BY <1>1, <2>7 DEF SetLoaded
    <3> QED
      BY <1>1, <1>2, <2>7, <3>1, <3>2, <3>3 DEF SetLoaded
  <2>5. CASE ConnectFails(r)
    BY <1>1, <1>2, <2>5 DEF ConnectFails
  <2>6. CASE InitialState(r)
    BY <1>1, <2>6 DEF InitialState
  <2> QED
    BY <1>5, <2>1, <2>2, <2>3, <2>4, <2>5, <2>6, <2>7 DEF RobotThread
<1>6. ASSUME NEW r \in Robots, BeginSlay(r), slay_queue' \subseteq slay_queue PROVE DataTypes'
  BY <1>1, <1>2, <1>6 DEF BeginSlay, CloseEdpConnections, delete_ui_ecp_robot, mpVars, shownVars
<1>7. CASE WindowGoesOn
  <2> USE DEF robotVars, guiVars, mpVars, shownVars
  <2>1. CASE ManageInterface
    <3>1. mp_state' \in {"not_permitted", "permitted", "loaded"}
      BY <1>1, <2>1 DEF ManageInterface, MpStateAfter
    <3>2. ASSUME NEW mp, NEW r \in Robots PROVE RobotItems(r, mp) \subseteq Items
      BY DEF RobotItems, Items
    <3>3. ASSUME NEW all, NEW mp PROVE CommonItems(all, mp) \subseteq Items
      BY DEF CommonItems, Items
    <3>4. menu' = CommonItems(AllEdps, mp_state') \cup UNION {RobotItems(r, mp_state') : r \in Robots}
      BY <2>1 DEF ManageInterface
    <3>5. menu' \subseteq Items
      BY <3>2, <3>3, <3>4
    <3>6. all_edps' \in {"none_activated", "none_loaded", "some_loaded", "all_loaded"}
      BY <2>1 DEF ManageInterface, AllEdps
    <3> QED
      BY <1>1, <2>1, <3>1, <3>5, <3>6 DEF ManageInterface
  <2>2. CASE WaitForChild
    BY <1>1, <2>2 DEF WaitForChild
  <2>3. CASE AbortThread
    BY <1>1, <2>3 DEF AbortThread, ThreadGoes
  <2>4. CASE MpEnded
    BY <1>1, <2>4 DEF MpEnded
  <2>5. ASSUME NEW r \in Robots, SlayNext(r) PROVE DataTypes'
    <3>1. CASE BeginSlay(r)
      BY <1>6, <2>5, <3>1 DEF SlayNext
    <3> QED
      BY <1>1, <2>5, <3>1 DEF SlayNext
  <2> QED
    BY <1>7, <2>1, <2>2, <2>3, <2>4, <2>5 DEF WindowGoesOn
<1>8. CASE Operator
  <2> USE DEF robotVars, guiVars, mpVars, shownVars
  <2>1. ASSUME NEW r \in Robots, edp_create(r) PROVE DataTypes'
    BY <1>1, <2>1 DEF edp_create
  <2>2. ASSUME NEW r \in Robots, synchronise(r) PROVE DataTypes'
    BY <1>1, <2>2 DEF synchronise
  <2>3. ASSUME NEW r \in Robots, EDP_slay_int(r) PROVE DataTypes'
    BY <1>6, <2>3 DEF EDP_slay_int
  <2>4. CASE EDP_all_robots_slay
    BY <1>1, <2>4 DEF EDP_all_robots_slay
  <2>5. CASE MPup
    BY <1>1, <2>5 DEF MPup
  <2>6. CASE MPslay
    BY <1>1, <2>6 DEF MPslay
  <2> QED
    BY <1>8, <2>1, <2>2, <2>3, <2>4, <2>5, <2>6 DEF Operator
<1>9. CASE MpThread \/ MpEnds
  <2> USE DEF robotVars, guiVars, mpVars, shownVars
  <2>1. CASE MPup_int
    BY <1>1, <2>1 DEF MPup_int
  <2>2. CASE SpawnMp
    BY <1>1, <2>2 DEF SpawnMp
  <2>3. CASE MpEnds
    BY <1>1, <2>3, ActiveAssumption DEF MpEnds
  <2> QED
    BY <1>9, <2>1, <2>2, <2>3 DEF MpThread
<1>10. UNCHANGED vars => UNCHANGED <<notHardware, unbidden>>
  BY DEF vars, notHardware
<1> QED
  BY <1>3, <1>4, <1>5, <1>7, <1>8, <1>9, <1>10 DEF Next

LEMMA NextBooleans ==
    UiInv /\ [Next]_vars => refresh' \in BOOLEAN /\ mp_pid' \in BOOLEAN /\ mp_command' \in BOOLEAN
<1> SUFFICES ASSUME UiInv, [Next]_vars
             PROVE  refresh' \in BOOLEAN /\ mp_pid' \in BOOLEAN /\ mp_command' \in BOOLEAN
  OBVIOUS
<1> USE DEF mpVars
<1>1. refresh \in BOOLEAN /\ mp_pid \in BOOLEAN /\ mp_command \in BOOLEAN
  BY Zenon DEF UiInv, TypeOK
<1>2. CASE UNCHANGED <<refresh, mpVars>>
  BY <1>1, <1>2, Zenon
<1>3. CASE refresh' = TRUE /\ UNCHANGED <<mp_pid, mp_command>>
  BY <1>1, <1>3, Zenon
<1>4. ASSUME NEW p \in Pids, Edp(p) \/ EdpEndsUnbidden(p)
      PROVE  UNCHANGED <<refresh, mpVars>>
  BY <1>4 DEF Edp, EdpEndsUnbidden, notHardware
<1>5. ASSUME NEW r \in Robots, RobotThread(r)
      PROVE  UNCHANGED <<mp_pid, mp_command>> /\ (UNCHANGED refresh \/ refresh' = TRUE)
  BY <1>5 DEF RobotThread, WaitAndExecute, CreateInt, SynchroniseInt, NoNode, ProcessSpawn,
              ConnectToEdp, ConnectFails, SetLoaded, InitialState
<1>6. ASSUME NEW r \in Robots, SlayNext(r)
      PROVE  UNCHANGED <<mp_pid, mp_command>> /\ (UNCHANGED refresh \/ refresh' = TRUE)
  BY <1>6 DEF SlayNext, BeginSlay
<1>7. CASE ManageInterface
  <2>1. refresh' = FALSE /\ UNCHANGED <<mp_pid, mp_command>>
    BY <1>7 DEF ManageInterface
  <2> QED
    BY <1>1, <2>1, Zenon
<1>8. CASE WaitForChild \/ AbortThread
  BY <1>1, <1>8, Zenon DEF WaitForChild, AbortThread
<1>9. CASE MpEnded
  BY <1>1, <1>9, Zenon DEF MpEnded
<1>10. CASE Operator
  <2>1. ASSUME NEW r \in Robots, edp_create(r) \/ synchronise(r) \/ EDP_slay_int(r)
        PROVE  UNCHANGED <<refresh, mpVars>>
    BY <2>1 DEF edp_create, synchronise, EDP_slay_int, BeginSlay
  <2>2. CASE EDP_all_robots_slay
    BY <1>1, <2>2, Zenon DEF EDP_all_robots_slay
  <2>3. CASE MPup
    BY <1>1, <2>3, Zenon DEF MPup
  <2>4. CASE MPslay
    BY <1>1, <2>4, Zenon DEF MPslay
  <2> QED
    BY <1>2, <1>10, <2>1, <2>2, <2>3, <2>4, Zenon DEF Operator
<1>11. CASE MpThread \/ MpEnds
  <2>1. CASE MPup_int
    BY <1>1, <2>1, Zenon DEF MPup_int
  <2>2. CASE SpawnMp
    BY <1>1, <2>2, Zenon DEF SpawnMp
  <2>3. CASE MpEnds
    BY <1>1, <2>3, Zenon DEF MpEnds
  <2> QED
    BY <1>11, <2>1, <2>2, <2>3, Zenon DEF MpThread
<1>12. CASE UNCHANGED vars
  BY <1>1, <1>12, Zenon DEF vars
<1> QED
  BY <1>1, <1>2, <1>3, <1>4, <1>5, <1>6, <1>7, <1>8, <1>9, <1>10, <1>11, <1>12, Zenon
  DEF Next, WindowGoesOn

LEMMA NextTypes == UiInv /\ [Next]_vars => TypeOK'
<1> SUFFICES ASSUME UiInv, [Next]_vars PROVE TypeOK'
  OBVIOUS
<1>1. HardwareTypeOK'
  BY NextHardwareInv DEF HardwareInv
<1>2. DataTypes'
  BY NextDataTypes
<1>3. refresh' \in BOOLEAN /\ mp_pid' \in BOOLEAN /\ mp_command' \in BOOLEAN
  BY NextBooleans
<1> QED
  BY <1>1, <1>2, <1>3, Zenon DEF TypeOK, DataTypes

\* What the steps of an EDP have in common: no process comes or goes, no process
\* begins to look at a file, and one that is ending goes on ending.
LEMMA EdpMoves ==
    ASSUME HardwareInv, NEW p \in Pids, EdpStep(p) \/ RuntimeError(p) \/ DetectFails(p) \/ Crash(p)
    PROVE  /\ prog' = prog /\ Exists(p) /\ Exists(p)'
           /\ \A q \in Pids : q # p => pstate'[q] = pstate[q] /\ (q \in signalled' <=> q \in signalled)
           /\ Ending(p) => Ending(p)'
           /\ pstate'[p] \in Detecting /\ p \notin signalled' => pstate[p] \in Detecting /\ p \notin signalled
<1> USE DEF HardwareInv, HardwareTypeOK, Placed, Exists, Goes, At, States, Running, Closing, Detecting,
            Claimed, Ending
<1>1. CASE Access(p)
  BY <1>1 DEF Access
<1>2. CASE ReadPid(p)
  BY <1>2 DEF ReadPid
<1>3. CASE CheckProcess(p)
  BY <1>3, CheckPasses
<1>4. CASE Remove(p)
  BY <1>4 DEF Remove
<1>5. CASE Create(p)
  BY <1>5 DEF Create
<1>6. CASE Write(p)
  BY <1>6 DEF Write
<1>7. CASE OpenPort(p)
  BY <1>7 DEF OpenPort
<1>8. CASE RuntimeError(p) \/ DetectFails(p)
  BY <1>8 DEF RuntimeError, DetectFails
<1>9. CASE CatchSignal(p)
  BY <1>9 DEF CatchSignal
<1>10. CASE Close(p)
  BY <1>10 DEF Close
<1>11. CASE Unlink(p)
  BY <1>11 DEF Unlink
<1>12. CASE Exit(p) \/ Crash(p)
  BY <1>12 DEF Exit, Crash, Ended
<1> QED
  BY <1>1, <1>2, <1>3, <1>4, <1>5, <1>6, <1>7, <1>8, <1>9, <1>10, <1>11, <1>12 DEF EdpStep

\* What is left of the object of a robot when it is deleted: the process that it
\* stood for looks no more.
LEMMA KillStops ==
    ASSUME HardwareTypeOK, NEW r \in Robots, KillOf(r), ecp_robot[r].pid \in Pids \cup {"none"}
    PROVE  /\ pstate' = pstate /\ prog' = prog /\ port' = port
           /\ \A q \in Pids : q \in signalled => q \in signalled'
           /\ \A q \in Pids : q \in signalled' => q \in signalled \/ pstate[q] \in Running
           /\ \A q \in Pids : ecp_robot[r].pid \in {q, "none"} /\ pstate[q] \in Running => q \in signalled'
BY PidAssumption DEF KillOf, SendSignal, HardwareTypeOK

LEMMA NextCreate == UiInv /\ [Next]_vars => CreateInv'
<1> SUFFICES ASSUME UiInv, [Next]_vars, NEW s \in Robots
             PROVE  /\ thread'[s] \in {"spawn", "connect", "connected"} => edp_state'[s] = 0
                    /\ edp_state'[s] > 0 => ecp_robot'[s].pid \in Pids
                    /\ edp_state'[s] <= 0 /\ thread'[s] \notin {"connect", "connected"} => ecp_robot'[s] = NoObject
                    /\ thread'[s] = "state" => edp_state'[s] > 0 /\ ecp_robot'[s].fd \in Pids
                    /\ thread'[s] = "connected" => ecp_robot'[s].fd \in Pids
  BY DEF CreateInv
<1> DEFINE Kept == /\ thread'[s] \in {"spawn", "connect", "connected"} => edp_state'[s] = 0
                   /\ edp_state'[s] > 0 => ecp_robot'[s].pid \in Pids
                   /\ edp_state'[s] <= 0 /\ thread'[s] \notin {"connect", "connected"} => ecp_robot'[s] = NoObject
                   /\ thread'[s] = "state" => edp_state'[s] > 0 /\ ecp_robot'[s].fd \in Pids
                   /\ thread'[s] = "connected" => ecp_robot'[s].fd \in Pids
<1>1. /\ thread[s] \in {"spawn", "connect", "connected"} => edp_state[s] = 0
      /\ edp_state[s] > 0 => ecp_robot[s].pid \in Pids
      /\ edp_state[s] <= 0 /\ thread[s] \notin {"connect", "connected"} => ecp_robot[s] = NoObject
      /\ thread[s] = "state" => edp_state[s] > 0 /\ ecp_robot[s].fd \in Pids
      /\ thread[s] = "connected" => ecp_robot[s].fd \in Pids
  BY DEF UiInv, CreateInv
<1>2. /\ edp_state \in [Robots -> {-1, 0, 1}]
      /\ ecp_robot \in [Robots -> [pid : Pids \cup {"none"}, fd : Pids \cup {"none"}]]
      /\ thread \in [Robots -> {"none", "idle", "spawn", "connect", "connected", "state"}]
      /\ port \in [Robots -> Pids \cup {"none"}]
  BY DEF UiInv, TypeOK, HardwareTypeOK
<1> HIDE DEF NoObject
<1>3. CASE UNCHANGED <<edp_state, ecp_robot, thread>>
  BY <1>1, <1>3
<1>4. CASE /\ UNCHANGED <<edp_state, ecp_robot>>
           /\ \E r \in Robots : /\ thread[r] \notin {"connect", "connected"}
                                /\ \/ thread' = [thread EXCEPT ![r] = "idle"]
                                   \/ thread' = [thread EXCEPT ![r] = "none"]
                                   \/ thread' = [thread EXCEPT ![r] = "spawn"] /\ edp_state[r] = 0
  BY <1>1, <1>2, <1>4
<1>5. ASSUME NEW r \in Robots, RobotThread(r) PROVE Kept
  <2> USE DEF ThreadGoes
  <2>1. CASE WaitAndExecute(r)
    <3>1. UNCHANGED <<edp_state, ecp_robot>> /\ thread[r] \notin {"connect", "connected"}
      BY <2>1 DEF WaitAndExecute
    <3>2. \/ thread' = [thread EXCEPT ![r] = "idle"]
          \/ thread' = [thread EXCEPT ![r] = "spawn"] /\ edp_state[r] = 0
      BY <2>1 DEF WaitAndExecute, CreateInt, SynchroniseInt
    <3> QED
      BY <1>4, <3>1, <3>2
  <2>2. CASE NoNode(r)
    BY <1>4, <2>2 DEF NoNode
  <2>3. CASE ProcessSpawn(r)
    <3>1. thread' = [thread EXCEPT ![r] = "connect"] /\ edp_state' = edp_state /\ thread[r] = "spawn"
      BY <2>3 DEF ProcessSpawn
    <3>2. PICK o : ecp_robot' = [ecp_robot EXCEPT ![r] = o]
      BY <2>3 DEF ProcessSpawn
    <3>3. edp_state[r] = 0
      BY <3>1 DEF UiInv, CreateInv
    <3> QED
      BY <1>1, <1>2, <3>1, <3>2, <3>3
  <2>4. CASE ConnectToEdp(r)
    <3>1. /\ thread[r] = "connect" /\ port[r] \in Pids /\ edp_state' = edp_state
          /\ thread' = [thread EXCEPT ![r] = "connected"]
          /\ ecp_robot' = [ecp_robot EXCEPT ![r].fd = port[r]]
      BY <1>2, <2>4 DEF ConnectToEdp
    <3>2. edp_state[r] = 0
      BY <3>1 DEF UiInv, CreateInv
    <3> QED
      BY <1>1, <1>2, <3>1, <3>2
  <2>7. CASE SetLoaded(r)
    <3>1. thread[r] = "connected" /\ edp_state[r] = 0 /\ ecp_robot[r].fd \in Pids
      BY <2>7 DEF SetLoaded, UiInv, CreateInv
    <3>2. CASE ecp_robot[r].pid = "none"
      BY <1>1, <1>2, <2>7, <3>1, <3>2 DEF SetLoaded, delete_ui_ecp_robot
    <3>3. CASE ecp_robot[r].pid # "none"
      <4>1. ecp_robot[r].pid \in Pids
        BY <1>2, <3>3
      <4>2. /\ thread' = [thread EXCEPT ![r] = "state"] /\ edp_state' = [edp_state EXCEPT ![r] = 1]
            /\ ecp_robot' = ecp_robot
        BY <2>7, <3>3 DEF SetLoaded
      <4> QED
        BY <1>1, <1>2, <3>1, <4>1, <4>2
    <3> QED
      BY <3>2, <3>3
  <2>5. CASE ConnectFails(r)
    BY <1>1, <1>2, <2>5 DEF ConnectFails, UiInv, CreateInv
  <2>6. CASE InitialState(r)
    BY <1>4, <2>6 DEF InitialState
  <2> QED
    BY <1>5, <2>1, <2>2, <2>3, <2>4, <2>5, <2>6, <2>7 DEF RobotThread
<1>6. ASSUME NEW r \in Robots, BeginSlay(r), edp_state[r] > 0 PROVE Kept
  <2>1. thread[r] \notin {"spawn", "connect", "connected", "state"} /\ thread' = thread
    BY <1>6 DEF BeginSlay, UiInv, CreateInv
  <2>2. ecp_robot' = [ecp_robot EXCEPT ![r] = NoObject] /\ edp_state' = [edp_state EXCEPT ![r] = 0]
    BY <1>6 DEF BeginSlay, CloseEdpConnections, delete_ui_ecp_robot
  <2> QED
    BY <1>1, <1>2, <2>1, <2>2
<1>7. CASE WindowGoesOn
  <2>1. ASSUME NEW r \in Robots, SlayNext(r) PROVE Kept
    BY <1>3, <1>6, <2>1 DEF SlayNext, robotVars
  <2>2. CASE AbortThread
    <3>1. UNCHANGED <<edp_state, ecp_robot>> /\ thread[slaying] \notin {"connect", "connected"}
          /\ thread' = [thread EXCEPT ![slaying] = "none"]
      BY <2>2 DEF AbortThread, ThreadGoes
    <3> QED
      BY <1>1, <1>2, <3>1
  <2> QED
    BY <1>3, <1>7, <2>1, <2>2 DEF WindowGoesOn, ManageInterface, WaitForChild, MpEnded, robotVars
<1>8. CASE Operator
  <2>1. ASSUME NEW r \in Robots, edp_create(r) PROVE Kept
    BY <1>1, <1>2, <2>1 DEF edp_create
  <2> QED
    BY <1>3, <1>6, <1>8, <2>1
    DEF Operator, synchronise, EDP_slay_int, EDP_all_robots_slay, MPup, MPslay, robotVars
<1>9. CASE MpThread \/ MpEnds \/ UNCHANGED vars \/ \E p \in Pids : Edp(p) \/ EdpEndsUnbidden(p)
  BY <1>3, <1>9 DEF MpThread, MPup_int, SpawnMp, MpEnds, vars, Edp, EdpEndsUnbidden, notHardware, robotVars
<1> QED
  BY <1>5, <1>7, <1>8, <1>9 DEF Next

LEMMA NextLooks == UiInv /\ [Next]_vars => LooksInv'
<1> SUFFICES ASSUME UiInv, [Next]_vars, NEW q \in Pids, NEW s \in Robots, LooksAtFile(q, s)'
             PROVE  /\ ecp_robot'[s].pid = q
                    /\ thread'[s] \in {"connect", "connected"} \/ edp_state'[s] > 0
  BY DEF LooksInv
<1> DEFINE Known == /\ ecp_robot'[s].pid = q
                    /\ thread'[s] \in {"connect", "connected"} \/ edp_state'[s] > 0
<1>1. LooksAtFile(q, s) => /\ ecp_robot[s].pid = q
                           /\ thread[s] \in {"connect", "connected"} \/ edp_state[s] > 0
  BY DEF UiInv, LooksInv
<1>2. /\ edp_state \in [Robots -> {-1, 0, 1}]
      /\ ecp_robot \in [Robots -> [pid : Pids \cup {"none"}, fd : Pids \cup {"none"}]]
      /\ thread \in [Robots -> {"none", "idle", "spawn", "connect", "connected", "state"}]
      /\ pstate \in [Pids -> States] /\ prog \in [Pids -> Robots \cup {"none"}]
      /\ port \in [Robots -> Pids \cup {"none"}]
      /\ HardwareTypeOK
  BY DEF UiInv, TypeOK, HardwareTypeOK
<1>4. CASE UNCHANGED hardwareVars /\ UNCHANGED <<edp_state, ecp_robot, thread>>
  BY <1>1, <1>4 DEF hardwareVars, LooksAtFile
<1>5. CASE /\ UNCHANGED hardwareVars /\ UNCHANGED <<edp_state, ecp_robot>>
           /\ \A r \in Robots : thread[r] \in {"connect", "connected"}
                                => thread'[r] \in {"connect", "connected"}
  BY <1>1, <1>5 DEF hardwareVars, LooksAtFile
<1>6. ASSUME NEW p \in Pids, Edp(p) \/ EdpEndsUnbidden(p) PROVE Known
  <2>1. LooksAtFile(q, s)
    BY <1>6, EdpMoves DEF Edp, EdpEndsUnbidden, UiInv, LooksAtFile
  <2> QED
    BY <1>1, <1>6, <2>1 DEF Edp, EdpEndsUnbidden, notHardware, robotVars
<1>7. ASSUME NEW r \in Robots, RobotThread(r) PROVE Known
  <2> USE DEF ThreadGoes
  <2>1. CASE WaitAndExecute(r)
    <3>1. UNCHANGED hardwareVars /\ UNCHANGED <<edp_state, ecp_robot>> /\ thread[r] = "idle"
      BY <2>1 DEF WaitAndExecute
    <3>2. thread' = [thread EXCEPT ![r] = "idle"] \/ thread' = [thread EXCEPT ![r] = "spawn"]
      BY <2>1 DEF WaitAndExecute, CreateInt, SynchroniseInt
    <3> QED
      BY <1>2, <1>5, <3>1, <3>2
  <2>2. CASE NoNode(r)
    BY <1>2, <1>5, <2>2 DEF NoNode
  <2>3. CASE ProcessSpawn(r)
    <3>1. thread' = [thread EXCEPT ![r] = "connect"] /\ edp_state' = edp_state /\ thread[r] = "spawn"
      BY <2>3 DEF ProcessSpawn
    <3>2. ~LooksAtFile(q, r)
      BY <3>1, NobodyLooks
    <3>3. CASE UNCHANGED hardwareVars /\ ecp_robot' = [ecp_robot EXCEPT ![r] = NoObject]
      BY <1>1, <1>2, <3>1, <3>2, <3>3 DEF hardwareVars, LooksAtFile
    <3>4. ASSUME NEW p \in Pids, Spawn(p, r), pstate[p] = "unborn",
                 ecp_robot' = [ecp_robot EXCEPT ![r] = [pid |-> p, fd |-> "none"]]
          PROVE  Known
      BY <1>1, <1>2, <3>1, <3>2, <3>4 DEF Spawn, Goes, LooksAtFile
    <3> QED
      BY <2>3, <3>3, <3>4 DEF ProcessSpawn
  <2>4. CASE ConnectToEdp(r)
    <3>1. /\ thread' = [thread EXCEPT ![r] = "connected"] /\ edp_state' = edp_state
          /\ ecp_robot' = [ecp_robot EXCEPT ![r].fd = port[r]] /\ UNCHANGED hardwareVars
      BY <2>4 DEF ConnectToEdp
    <3>2. LooksAtFile(q, s)
      BY <3>1 DEF hardwareVars, LooksAtFile
    <3> QED
      BY <1>1, <1>2, <3>1, <3>2
  <2>7. CASE SetLoaded(r)
    <3>1. thread[r] = "connected" /\ ecp_robot[r].pid \in Pids \cup {"none"}
      BY <1>2, <2>7 DEF SetLoaded
    <3>2. CASE ecp_robot[r].pid = "none"
      <4>1. KillOf(r)
        BY <2>7, <3>2 DEF SetLoaded, delete_ui_ecp_robot
      <4> QED
        BY <1>2, <3>1, <3>2, <4>1, KillStops DEF LooksAtFile, Running
    <3>3. CASE ecp_robot[r].pid # "none"
      <4>1. /\ thread' = [thread EXCEPT ![r] = "state"] /\ edp_state' = [edp_state EXCEPT ![r] = 1]
            /\ UNCHANGED <<hardwareVars, ecp_robot>>
        BY <2>7, <3>3 DEF SetLoaded
      <4>2. LooksAtFile(q, s)
        BY <4>1 DEF hardwareVars, LooksAtFile
      <4> QED
        BY <1>1, <1>2, <4>1, <4>2
    <3> QED
      BY <3>2, <3>3
  <2>5. CASE ConnectFails(r)
    <3>1. /\ thread' = [thread EXCEPT ![r] = "idle"] /\ edp_state' = edp_state
          /\ ecp_robot' = [ecp_robot EXCEPT ![r] = NoObject] /\ UNCHANGED hardwareVars
          /\ ecp_robot[r].pid \notin {p \in Pids : pstate[p] \in Running}
      BY <2>5 DEF ConnectFails, RetriesRunOut, StartIsOver
    <3>2. LooksAtFile(q, s) /\ pstate[q] \in Running
      BY <3>1 DEF hardwareVars, LooksAtFile, Running
    <3> QED
      BY <1>1, <1>2, <3>1, <3>2
  <2>6. CASE InitialState(r)
    BY <1>2, <1>5, <2>6 DEF InitialState
  <2> QED
    BY <1>7, <2>1, <2>2, <2>3, <2>4, <2>5, <2>6, <2>7 DEF RobotThread
<1>8. ASSUME NEW r \in Robots, BeginSlay(r), edp_state[r] > 0 PROVE Known
  <2>1. /\ KillOf(r) /\ thread' = thread /\ ecp_robot[r].pid \in Pids
        /\ ecp_robot' = [ecp_robot EXCEPT ![r] = NoObject] /\ edp_state' = [edp_state EXCEPT ![r] = 0]
    BY <1>8 DEF BeginSlay, CloseEdpConnections, delete_ui_ecp_robot, UiInv, CreateInv
  <2>2. LooksAtFile(q, s) /\ q # ecp_robot[r].pid
    BY <1>2, <2>1, KillStops DEF LooksAtFile, Running
  <2> QED
    BY <1>1, <1>2, <2>1, <2>2
<1>9. CASE WindowGoesOn
  <2>1. ASSUME NEW r \in Robots, SlayNext(r) PROVE Known
    BY <1>4, <1>8, <2>1 DEF SlayNext, robotVars
  <2>2. CASE AbortThread
    BY <1>2, <1>5, <2>2 DEF AbortThread, ThreadGoes
  <2>3. CASE WaitForChild
    <3>1. LooksAtFile(q, s)
      BY <1>2, <2>3 DEF WaitForChild, Reap, Goes, hardwareVars, LooksAtFile, Detecting
    <3> QED
      BY <1>1, <2>3, <3>1 DEF WaitForChild, robotVars
  <2> QED
    BY <1>4, <1>9, <2>1, <2>2, <2>3 DEF WindowGoesOn, ManageInterface, MpEnded, robotVars
<1>10. CASE Operator
  <2>1. ASSUME NEW r \in Robots, edp_create(r) PROVE Known
    BY <1>2, <1>5, <2>1 DEF edp_create
  <2> QED
    BY <1>4, <1>8, <1>10, <2>1
    DEF Operator, synchronise, EDP_slay_int, EDP_all_robots_slay, MPup, MPslay, robotVars
<1>11. CASE MpThread \/ MpEnds \/ UNCHANGED vars
  BY <1>4, <1>11 DEF MpThread, MPup_int, SpawnMp, MpEnds, vars, robotVars
<1> QED
  BY <1>6, <1>7, <1>9, <1>10, <1>11 DEF Next

LEMMA UiInvariance == Spec => []UiInv
<1>1. UiInv /\ [Next]_vars => UiInv'
  BY NextTypes, NextHardwareInv, NextLooks, NextCreate DEF UiInv
<1> QED
  BY UiInitInv, <1>1, PTL DEF Spec

\* The variables of the user interface keep their types.
THEOREM UiTypeCorrect == Spec => []TypeOK
<1>1. UiInv => TypeOK
  BY DEF UiInv
<1> QED
  BY UiInvariance, <1>1, PTL

\* The user interface starts, signals and waits for EDPs as HardwareSpec allows:
\* above all it starts none while another of the robot still looks at the file.
THEOREM UiImplementsHardware == Spec => HardwareSpec
<1>1. Init => HardwareInit
  BY DEF Init
<1> QED
  BY UiInvariance, NextIsHardware, <1>1, PTL DEF Spec, HardwareSpec

\* However the operator loads and unloads, and whatever the children do, no two
\* EDPs have the hardware of one robot.
THEOREM UiHardwareOnce == Spec => []OneEdp
BY UiImplementsHardware, HardwareOnce, PTL

\* However the operator loads and unloads, the pid file of an EDP that has the
\* hardware names it.
THEOREM UiHolderNamed == Spec => []ClaimKept
BY UiImplementsHardware, HolderNamed, PTL

-----------------------------------------------------------------------------
\* The permission to load the MP.  Whatever spoils it leaves a trace that keeps
\* PermissionFollowsEdps from saying anything: a refresh, a busy thread or a slay.
LEMMA NextPermission == UiInv /\ PermissionFollowsEdps /\ [Next]_vars => PermissionFollowsEdps'
<1> SUFFICES ASSUME UiInv, PermissionFollowsEdps, [Next]_vars,
                    refresh' # TRUE, gui' = "idle", mp_state' = "permitted",
                    \A r \in Robots : thread'[r] \in {"none", "idle"}
             PROVE  Active \subseteq (Loaded \cap is_synchronised)'
  BY DEF PermissionFollowsEdps
<1> DEFINE Ready == Active \subseteq (Loaded \cap is_synchronised)'
<1>1. thread \in [Robots -> {"none", "idle", "spawn", "connect", "connected", "state"}]
  BY DEF UiInv, TypeOK
<1>2. CASE /\ UNCHANGED <<edp_state, is_synchronised, gui, mp_state>> /\ UNCHANGED refresh
           /\ \A r \in Robots : thread'[r] \in {"none", "idle"} => thread[r] \in {"none", "idle"}
  BY <1>2 DEF PermissionFollowsEdps, Loaded
<1>3. CASE UNCHANGED <<robotVars, gui, mp_state>> /\ UNCHANGED refresh
  BY <1>2, <1>3 DEF robotVars
<1>4. ASSUME NEW r \in Robots, RobotThread(r) PROVE Ready
  <2> USE DEF ThreadGoes
  <2>1. CASE WaitAndExecute(r)
    <3>1. refresh' = TRUE \/ thread' = [thread EXCEPT ![r] = "spawn"]
      BY <2>1 DEF WaitAndExecute, CreateInt, SynchroniseInt
    <3> QED
      BY <1>1, <3>1
  <2>2. CASE ProcessSpawn(r)
    BY <1>1, <2>2 DEF ProcessSpawn
  <2>3. CASE ConnectToEdp(r)
    BY <1>1, <2>3 DEF ConnectToEdp
  <2>4. CASE SetLoaded(r)
    <3>1. refresh' = TRUE \/ thread' = [thread EXCEPT ![r] = "state"]
      BY <2>4 DEF SetLoaded
    <3> QED
      BY <1>1, <3>1
  <2> QED
    BY <1>4, <2>1, <2>2, <2>3, <2>4 DEF RobotThread, NoNode, ConnectFails, InitialState
<1>5. ASSUME NEW r \in Robots, BeginSlay(r) PROVE FALSE
  BY <1>5 DEF BeginSlay
<1>6. CASE WindowGoesOn
  <2>1. CASE ManageInterface
    <3>1. EdpsReady(AllEdps)
      BY <2>1 DEF ManageInterface, MpStateAfter
    <3>2. Active \subseteq Loaded \cap is_synchronised
      BY <3>1 DEF EdpsReady, AllEdps
    <3> QED
      BY <2>1, <3>2 DEF ManageInterface, robotVars, Loaded
  <2>2. ASSUME NEW r \in Robots, SlayNext(r) PROVE FALSE
    BY <1>5, <2>2 DEF SlayNext
  <2> QED
    BY <1>6, <2>1, <2>2 DEF WindowGoesOn, WaitForChild, AbortThread, MpEnded
<1>7. CASE Operator
  <2>1. ASSUME NEW r \in Robots, edp_create(r) PROVE Ready
    BY <1>1, <1>2, <2>1 DEF edp_create, guiVars, mpVars
  <2>2. ASSUME NEW r \in Robots, synchronise(r) PROVE Ready
    BY <1>2, <2>2 DEF synchronise, guiVars, mpVars
  <2>3. ASSUME NEW r \in Robots, EDP_slay_int(r) PROVE FALSE
    BY <1>5, <2>3 DEF EDP_slay_int
  <2>4. CASE EDP_all_robots_slay \/ MPup
    BY <1>3, <2>4 DEF EDP_all_robots_slay, MPup, guiVars, mpVars
  <2>5. MPslay => refresh' = TRUE \/ gui' = "wait_mp"
    BY Zenon DEF MPslay
  <2> QED
    BY <1>7, <2>1, <2>2, <2>3, <2>4, <2>5 DEF Operator
<1>8. CASE MpThread \/ MpEnds \/ UNCHANGED vars \/ \E p \in Pids : Edp(p) \/ EdpEndsUnbidden(p)
  BY <1>3, <1>8 DEF MpThread, MPup_int, SpawnMp, MpEnds, vars, Edp, EdpEndsUnbidden, notHardware,
                    robotVars, guiVars, mpVars
<1> QED
  BY <1>4, <1>6, <1>7, <1>8 DEF Next

\* When nothing is under way and the MP may be loaded, every active robot is
\* loaded and synchronised, whoever changed a robot last and when the menus were drawn.
THEOREM PermissionIsEarned == Spec => []PermissionFollowsEdps
<1>1. Init => PermissionFollowsEdps
  BY DEF Init, PermissionFollowsEdps
<1> QED
  BY <1>1, UiInvariance, NextPermission, PTL DEF Spec

-----------------------------------------------------------------------------
\* Unloading.  What a step does to the pids that the robots know and to the
\* processes, without the reasons for it.
SamePids == \A s \in Robots : ecp_robot'[s].pid = ecp_robot[s].pid

NewPid(r, o) == \A s \in Robots : ecp_robot'[s].pid = IF s = r THEN o ELSE ecp_robot[s].pid

Signals == UNCHANGED <<pstate, prog>> /\ signalled \subseteq signalled'

Goings == SamePids /\ Signals /\ (gui' = "wait" => gui = "wait")

Moves(p) ==
    /\ SamePids /\ UNCHANGED <<prog, gui>> /\ Exists(p) /\ Exists(p)'
    /\ \A q \in Pids : q # p => pstate'[q] = pstate[q] /\ (q \in signalled' <=> q \in signalled)
    /\ Ending(p) => Ending(p)'

Starts(r, p) ==
    /\ NewPid(r, p) /\ Spawn(p, r) /\ UNCHANGED gui
    /\ pstate[p] = "unborn" /\ ecp_robot[r].pid = "none"

Forgets(r) ==
    /\ NewPid(r, "none") /\ Signals
    /\ \A p \in Pids : ecp_robot[r].pid = p /\ pstate[p] \in Running => p \in signalled'
    /\ gui' = gui \/ (gui # "wait" /\ gui' = "wait" /\ ecp_robot[r].pid \in Pids)

Buries(p) == SamePids /\ Reap(p) /\ gui = "wait" /\ gui' = "join"

PidStep ==
    \/ Goings
    \/ \E p \in Pids : Moves(p) \/ Buries(p)
    \/ \E r \in Robots : Forgets(r)
    \/ \E r \in Robots, p \in Pids : Starts(r, p)

LEMMA NextPidStep == UiInv /\ [Next]_vars => PidStep
<1> SUFFICES ASSUME UiInv, [Next]_vars PROVE PidStep
  OBVIOUS
<1>1. /\ ecp_robot \in [Robots -> [pid : Pids \cup {"none"}, fd : Pids \cup {"none"}]]
      /\ HardwareTypeOK
  BY DEF UiInv, TypeOK
<1>2. UNCHANGED hardwareVars => Signals
  BY DEF hardwareVars, Signals
<1>3. CASE UNCHANGED <<hardwareVars, robotVars>> /\ (gui' = "wait" => gui = "wait")
  BY <1>2, <1>3 DEF robotVars, PidStep, Goings, SamePids
<1>4. ASSUME NEW p \in Pids, Edp(p) \/ EdpEndsUnbidden(p) PROVE PidStep
  <2>1. Moves(p)
    BY <1>4, EdpMoves DEF Edp, EdpEndsUnbidden, UiInv, notHardware, robotVars, guiVars, Moves, SamePids
  <2> QED
    BY <2>1 DEF PidStep
<1>5. ASSUME NEW r \in Robots, ecp_robot' = [ecp_robot EXCEPT ![r] = NoObject] PROVE NewPid(r, "none")
  BY <1>1, <1>5 DEF NewPid, NoObject
<1>6. ASSUME NEW r \in Robots, delete_ui_ecp_robot(r),
             gui' = gui \/ (gui = "idle" /\ gui' = "wait" /\ ecp_robot[r].pid \in Pids)
      PROVE  PidStep
  <2>1. Signals /\ \A p \in Pids : ecp_robot[r].pid = p /\ pstate[p] \in Running => p \in signalled'
    BY <1>1, <1>6, KillStops DEF delete_ui_ecp_robot, Signals, HardwareTypeOK
  <2>2. Forgets(r)
    BY <1>5, <1>6, <2>1 DEF delete_ui_ecp_robot, Forgets
  <2> QED
    BY <2>2 DEF PidStep
<1>7. ASSUME NEW r \in Robots, RobotThread(r) PROVE PidStep
  <2>1. UNCHANGED gui
    BY <1>7 DEF RobotThread, WaitAndExecute, NoNode, ProcessSpawn, ConnectToEdp, ConnectFails,
                SetLoaded, InitialState, guiVars
  <2>2. CASE UNCHANGED hardwareVars /\ SamePids
    BY <1>2, <2>1, <2>2 DEF PidStep, Goings
  <2>3. CASE ProcessSpawn(r)
    <3>1. ecp_robot[r].pid = "none"
      BY <2>3 DEF ProcessSpawn, UiInv, CreateInv, NoObject
    <3>2. ASSUME NEW p \in Pids, pstate[p] = "unborn", Spawn(p, r),
                 ecp_robot' = [ecp_robot EXCEPT ![r] = [pid |-> p, fd |-> "none"]]
          PROVE  Starts(r, p)
      BY <1>1, <2>1, <3>1, <3>2 DEF Starts, NewPid
    <3>3. CASE ecp_robot' = [ecp_robot EXCEPT ![r] = NoObject] /\ UNCHANGED hardwareVars
      BY <1>1, <2>2, <3>1, <3>3 DEF SamePids, NoObject
    <3> QED
      BY <2>3, <3>2, <3>3 DEF ProcessSpawn, PidStep
  <2>4. CASE ConnectToEdp(r)
    BY <1>1, <2>2, <2>4 DEF ConnectToEdp, SamePids
  <2>7. CASE SetLoaded(r)
    <3>1. CASE UNCHANGED <<hardwareVars, ecp_robot>>
      BY <2>2, <3>1 DEF SamePids
    <3> QED
      BY <1>6, <2>1, <2>7, <3>1 DEF SetLoaded
  <2>5. CASE ConnectFails(r)
    <3>1. \A p \in Pids : ~(ecp_robot[r].pid = p /\ pstate[p] \in Running)
      BY <2>5 DEF ConnectFails, RetriesRunOut, StartIsOver
    <3>2. Forgets(r)
      BY <1>2, <1>5, <2>1, <2>5, <3>1 DEF ConnectFails, Forgets
    <3> QED
      BY <3>2 DEF PidStep
  <2>6. CASE WaitAndExecute(r) \/ NoNode(r) \/ InitialState(r)
    BY <2>2, <2>6 DEF WaitAndExecute, NoNode, InitialState, SamePids
  <2> QED
    BY <1>7, <2>3, <2>4, <2>5, <2>6, <2>7 DEF RobotThread
<1>8. ASSUME NEW r \in Robots, BeginSlay(r), edp_state[r] > 0, gui = "idle" PROVE PidStep
  <2>1. ecp_robot[r].pid \in Pids
    BY <1>8 DEF UiInv, CreateInv
  <2> QED
    BY <1>6, <1>8, <2>1 DEF BeginSlay, CloseEdpConnections
<1>9. CASE WindowGoesOn
  <2>1. ASSUME NEW r \in Robots, SlayNext(r) PROVE PidStep
    BY <1>3, <1>8, <2>1 DEF SlayNext
  <2>2. CASE WaitForChild
    <3>1. ASSUME NEW p \in Pids, Reap(p) PROVE PidStep
      <4>1. Buries(p)
        BY <2>2, <3>1 DEF WaitForChild, Buries, SamePids, robotVars
      <4> QED
        BY <4>1 DEF PidStep
    <3> QED
      BY <1>3, <2>2, <3>1 DEF WaitForChild
  <2>3. CASE AbortThread
    BY <1>2, <2>3 DEF AbortThread, PidStep, Goings, SamePids
  <2> QED
    BY <1>3, <1>9, <2>1, <2>2, <2>3 DEF WindowGoesOn, ManageInterface, MpEnded, guiVars
<1>10. CASE Operator
  <2>1. ASSUME NEW r \in Robots, edp_create(r) \/ synchronise(r) PROVE PidStep
    BY <1>2, <2>1 DEF edp_create, synchronise, guiVars, PidStep, Goings, SamePids
  <2>2. ASSUME NEW r \in Robots, EDP_slay_int(r) PROVE PidStep
    BY <1>8, <2>2 DEF EDP_slay_int, Chosen
  <2> QED
    BY <1>3, <1>10, <2>1, <2>2 DEF Operator, EDP_all_robots_slay, MPup, MPslay, guiVars
<1>11. CASE MpThread \/ MpEnds \/ UNCHANGED vars
  BY <1>3, <1>11 DEF MpThread, MPup_int, SpawnMp, MpEnds, vars, guiVars
<1> QED
  BY <1>4, <1>7, <1>9, <1>10, <1>11 DEF Next

\* The pid that a robot knows is that of a process that was started for it, and of
\* no other robot's.
PidsInv ==
    /\ \A r \in Robots, p \in Pids : ecp_robot[r].pid = p =>
          pstate[p] # "unborn" /\ (Exists(p) => prog[p] = r)
    /\ \A r, s \in Robots : ecp_robot[r].pid = ecp_robot[s].pid /\ ecp_robot[r].pid \in Pids => r = s

\* Processes that no robot knows any more, and that nobody has waited for.
Orphans == {p \in Pids : Exists(p) /\ \A r \in Robots : ecp_robot[r].pid # p}

OrphansEnd == \A p \in Orphans : Ending(p)

\* Robots whose process somebody else's waitpid has taken.
Bereft == {r \in Robots : ecp_robot[r].pid \in Pids /\ ~Exists(ecp_robot[r].pid)}

\* Every such robot, and the thread of the window when it waits, has an orphan of
\* its own: what is waited for instead is still there.
Matched ==
    \E f \in [Robots -> Pids \cup {"none"}] :
       /\ \A r \in Bereft : f[r] \in Orphans
       /\ \A r, s \in Bereft : f[r] = f[s] => r = s
       /\ gui = "wait" => \E g \in Orphans : \A r \in Bereft : f[r] # g

PidInv == PidsInv /\ OrphansEnd /\ Matched

LEMMA NextPids == UiInv /\ PidsInv /\ [Next]_vars => PidsInv'
<1> SUFFICES ASSUME UiInv, PidsInv, PidStep PROVE PidsInv'
  BY NextPidStep
<1>1. /\ pstate \in [Pids -> States] /\ prog \in [Pids -> Robots \cup {"none"}]
  BY DEF UiInv, TypeOK, HardwareTypeOK
<1>2. CASE Goings
  BY <1>2 DEF Goings, SamePids, Signals, PidsInv, Exists
<1>3. ASSUME NEW p \in Pids, Moves(p) PROVE PidsInv'
  BY <1>3 DEF Moves, SamePids, PidsInv, Exists
<1>4. ASSUME NEW p \in Pids, Buries(p) PROVE PidsInv'
  BY <1>1, <1>4 DEF Buries, SamePids, Reap, Goes, PidsInv, Exists
<1>5. ASSUME NEW r \in Robots, Forgets(r) PROVE PidsInv'
  BY <1>5, PidAssumption DEF Forgets, NewPid, Signals, PidsInv, Exists
<1>6. ASSUME NEW r \in Robots, NEW p \in Pids, Starts(r, p) PROVE PidsInv'
  BY <1>1, <1>6 DEF Starts, NewPid, Spawn, Goes, PidsInv, Exists
<1> QED
  BY <1>2, <1>3, <1>4, <1>5, <1>6 DEF PidStep

\* A robot forgets only a process that has ended or been signalled.
LEMMA NextOrphans == UiInv /\ OrphansEnd /\ [Next]_vars => OrphansEnd'
<1> SUFFICES ASSUME UiInv, OrphansEnd, PidStep, NEW o \in Orphans' PROVE Ending(o)'
  BY NextPidStep DEF OrphansEnd
<1>1. pstate \in [Pids -> States] /\ signalled \subseteq Pids
  BY DEF UiInv, TypeOK, HardwareTypeOK
<1>2. o \in Orphans => Ending(o)
  BY DEF OrphansEnd
<1>3. CASE Goings
  BY <1>2, <1>3 DEF Goings, SamePids, Signals, Orphans, Exists, Ending
<1>4. ASSUME NEW p \in Pids, Moves(p) PROVE Ending(o)'
  BY <1>2, <1>4 DEF Moves, SamePids, Orphans, Exists, Ending
<1>5. ASSUME NEW p \in Pids, Buries(p) PROVE Ending(o)'
  BY <1>1, <1>2, <1>5 DEF Buries, SamePids, Reap, Goes, Orphans, Exists, Ending
<1>6. ASSUME NEW r \in Robots, Forgets(r) PROVE Ending(o)'
  <2>1. CASE ecp_robot[r].pid = o
    BY <1>1, <1>6, <2>1 DEF Forgets, Signals, Orphans, Exists, Ending, States
  <2>2. CASE ecp_robot[r].pid # o
    BY <1>2, <1>6, <2>2 DEF Forgets, NewPid, Signals, Orphans, Exists, Ending
  <2> QED
    BY <2>1, <2>2
<1>7. ASSUME NEW r \in Robots, NEW p \in Pids, Starts(r, p) PROVE Ending(o)'
  <2>1. o # p
    BY <1>7 DEF Starts, NewPid, Orphans
  <2>2. pstate'[o] = pstate[o] /\ signalled' = signalled
    BY <1>1, <1>7, <2>1 DEF Starts, Spawn, Goes, Orphans
  <2>3. \A s \in Robots : ecp_robot[s].pid # o
    BY <1>7, PidAssumption DEF Starts, NewPid, Orphans
  <2> QED
    BY <1>2, <2>2, <2>3 DEF Orphans, Exists, Ending
<1> QED
  BY <1>3, <1>4, <1>5, <1>6, <1>7 DEF PidStep

\* Taking the ended process of a robot makes the robot bereft, but leaves the
\* orphan that the thread of the window had waited for.
LEMMA NextMatched == UiInv /\ PidsInv /\ Matched /\ [Next]_vars => Matched'
<1> SUFFICES ASSUME UiInv, PidsInv, Matched, PidStep PROVE Matched'
  BY NextPidStep
<1>1. /\ pstate \in [Pids -> States] /\ prog \in [Pids -> Robots \cup {"none"}]
  BY DEF UiInv, TypeOK, HardwareTypeOK
<1>2. PICK f \in [Robots -> Pids \cup {"none"}] :
         /\ \A r \in Bereft : f[r] \in Orphans
         /\ \A r, s \in Bereft : f[r] = f[s] => r = s
         /\ gui = "wait" => \E g \in Orphans : \A r \in Bereft : f[r] # g
  BY DEF Matched
<1>3. CASE Bereft' \subseteq Bereft /\ Orphans \subseteq Orphans' /\ (gui' = "wait" => gui = "wait")
  <2>1. /\ \A r \in Bereft' : f[r] \in Orphans'
        /\ \A r, s \in Bereft' : f[r] = f[s] => r = s
        /\ gui' = "wait" => \E g \in Orphans' : \A r \in Bereft' : f[r] # g
    BY <1>2, <1>3
  <2> QED
    BY <2>1 DEF Matched
<1>4. CASE Goings
  BY <1>3, <1>4 DEF Goings, SamePids, Signals, Bereft, Orphans, Exists
<1>5. ASSUME NEW p \in Pids, Moves(p) PROVE Matched'
  BY <1>3, <1>5 DEF Moves, SamePids, Bereft, Orphans, Exists
<1>6. ASSUME NEW p \in Pids, Buries(p) PROVE Matched'
  <2>1. PICK g \in Orphans : \A r \in Bereft : f[r] # g
    BY <1>2, <1>6 DEF Buries
  <2>2. /\ pstate[p] = "zombie" /\ pstate' = [pstate EXCEPT ![p] = "reaped"] /\ gui' # "wait"
        /\ \A s \in Robots : ecp_robot'[s].pid = ecp_robot[s].pid
    BY <1>6 DEF Buries, SamePids, Reap, Goes
  <2>3. Orphans' = Orphans \ {p} /\ p \notin {ecp_robot[r].pid : r \in Bereft}
    BY <1>1, <2>2 DEF Orphans, Bereft, Exists
  <2>4. Bereft' = Bereft \cup {r \in Robots : ecp_robot[r].pid = p}
    BY <1>1, <2>2 DEF Bereft, Exists
  <2> DEFINE h == [r \in Robots |-> IF r \notin Bereft \/ f[r] = p THEN g ELSE f[r]]
  <2>5. h \in [Robots -> Pids \cup {"none"}]
    BY <1>2 DEF Orphans
  <2>6. p \in Orphans => Bereft' = Bereft
    BY <2>4 DEF Orphans
  <2>7. \A r \in Bereft' : h[r] \in Orphans'
    BY <1>2, <2>1, <2>3, <2>4, <2>6 DEF Bereft, Orphans
  <2>8. \A r, s \in Bereft' : h[r] = h[s] => r = s
    BY <1>2, <2>1, <2>3, <2>4, <2>6 DEF Bereft, Orphans, PidsInv
  <2> HIDE DEF h
  <2> QED
    BY <2>2, <2>5, <2>7, <2>8 DEF Matched
<1>7. ASSUME NEW r \in Robots, Forgets(r) PROVE Matched'
  <2>1. /\ Bereft' = Bereft \ {r} /\ Orphans \subseteq Orphans'
        /\ Exists(ecp_robot[r].pid) /\ ecp_robot[r].pid \in Pids => ecp_robot[r].pid \in Orphans'
    BY <1>7, PidAssumption DEF Forgets, NewPid, Signals, Bereft, Orphans, Exists, PidsInv
  <2>2. CASE gui' = gui
    BY <1>3, <2>1, <2>2
  <2>3. CASE gui' = "wait" /\ ecp_robot[r].pid \in Pids
    <3>1. \E g \in Orphans' : \A s \in Bereft' : f[s] # g
      <4>1. CASE r \in Bereft
        BY <1>2, <2>1, <4>1
      <4>2. CASE r \notin Bereft
        <5>1. ecp_robot[r].pid \in Orphans' /\ ecp_robot[r].pid \notin Orphans
          BY <2>1, <2>3, <4>2 DEF Bereft, Orphans
        <5> QED
          BY <1>2, <2>1, <5>1
      <4> QED
        BY <4>1, <4>2
    <3>2. /\ \A s \in Bereft' : f[s] \in Orphans'
          /\ \A s, t \in Bereft' : f[s] = f[t] => s = t
      BY <1>2, <2>1
    <3> QED
      BY <1>2, <3>1, <3>2 DEF Matched
  <2> QED
    BY <1>7, <2>2, <2>3 DEF Forgets
<1>8. ASSUME NEW r \in Robots, NEW p \in Pids, Starts(r, p) PROVE Matched'
  <2>1. Bereft' = Bereft /\ Orphans \subseteq Orphans' /\ gui' = gui
    BY <1>1, <1>8, PidAssumption DEF Starts, NewPid, Spawn, Goes, Bereft, Orphans, Exists, PidsInv
  <2> QED
    BY <1>3, <2>1
<1> QED
  BY <1>4, <1>5, <1>6, <1>7, <1>8 DEF PidStep

\* The MP that is waited for has ended or been signalled, and none is started meanwhile.
MpInv ==
    /\ mp_pid # TRUE => mp_proc = "none"
    /\ mp_thread = "spawn" => mp_pid # TRUE
    /\ gui = "wait_mp" => mp_pid = TRUE /\ mp_proc \in {"signalled", "zombie"}

LEMMA NextMp == UiInv /\ MpInv /\ [Next]_vars => MpInv'
<1> SUFFICES ASSUME UiInv, MpInv, [Next]_vars PROVE MpInv'
  OBVIOUS
<1> USE DEF MpInv
<1>1. CASE UNCHANGED <<mp_pid, mp_proc, mp_thread>> /\ (gui' = "wait_mp" => gui = "wait_mp")
  BY <1>1
<1>2. ASSUME NEW r \in Robots, RobotThread(r) PROVE MpInv'
  <2>1. CASE SetLoaded(r)
    <3>1. /\ UNCHANGED <<mp_pid, mp_thread, gui>>
          /\ mp_proc' = mp_proc \/ (mp_proc = "alive" /\ mp_proc' = "signalled")
      BY <2>1 DEF SetLoaded, guiVars
    <3> QED
      BY <3>1
  <2> QED
    BY <1>1, <1>2, <2>1 DEF RobotThread, WaitAndExecute, NoNode, ProcessSpawn, ConnectToEdp,
       ConnectFails, InitialState, guiVars, mpVars
<1>3. ASSUME NEW r \in Robots, BeginSlay(r) PROVE MpInv'
  BY <1>1, <1>3 DEF BeginSlay, mpVars
<1>4. CASE WindowGoesOn
  <2>1. ASSUME NEW r \in Robots, SlayNext(r) PROVE MpInv'
    BY <1>1, <1>3, <2>1 DEF SlayNext, mpVars
  <2>2. CASE WaitForChild
    BY <2>2 DEF WaitForChild
  <2>3. CASE MpEnded
    <3>1. /\ mp_pid = TRUE /\ mp_pid' = FALSE /\ mp_proc' = "none" /\ gui' = "idle"
      BY <2>3, Zenon DEF MpEnded, MpInv
    <3> QED
      BY <3>1
  <2> QED
    BY <1>1, <1>4, <2>1, <2>2, <2>3 DEF WindowGoesOn, ManageInterface, AbortThread, guiVars, mpVars
<1>5. CASE Operator
  <2>1. ASSUME NEW r \in Robots, edp_create(r) \/ synchronise(r) \/ EDP_slay_int(r) PROVE MpInv'
    BY <1>1, <1>3, <2>1 DEF edp_create, synchronise, EDP_slay_int, guiVars, mpVars
  <2>2. CASE EDP_all_robots_slay \/ MPup
    BY <1>1, <2>2 DEF EDP_all_robots_slay, MPup, guiVars, mpVars
  <2>3. CASE MPslay
    <3>1. CASE mp_proc = "none" /\ mp_pid' = FALSE /\ UNCHANGED <<mp_proc, gui, mp_thread>>
      BY <2>3, <3>1 DEF MPslay, Chosen
    <3>2. CASE /\ mp_proc # "none" /\ UNCHANGED <<mp_pid, mp_thread>>
               /\ mp_proc' = IF mp_proc = "alive" THEN "signalled" ELSE mp_proc
      <4>1. mp_pid = TRUE /\ mp_thread # "spawn"
        BY <3>2
      <4>2. mp_proc \in {"alive", "signalled", "zombie"}
        BY <3>2 DEF UiInv, TypeOK
      <4> QED
        BY <3>2, <4>1, <4>2
    <3> QED
      BY <2>3, <3>1, <3>2, Zenon DEF MPslay
  <2> QED
    BY <1>5, <2>1, <2>2, <2>3 DEF Operator
<1>6. CASE MPup_int
  BY <1>6 DEF MPup_int, guiVars
<1>7. CASE SpawnMp
  BY <1>7 DEF SpawnMp, guiVars
<1>8. CASE MpEnds
  BY <1>8 DEF MpEnds, guiVars
<1>9. CASE UNCHANGED vars \/ \E p \in Pids : Edp(p) \/ EdpEndsUnbidden(p)
  BY <1>1, <1>9 DEF vars, Edp, EdpEndsUnbidden, notHardware, guiVars, mpVars
<1> QED
  BY <1>2, <1>4, <1>5, <1>6, <1>7, <1>8, <1>9 DEF Next, MpThread

LEMMA SlayInvariance == Spec => [](PidInv /\ MpInv)
<1>1. Init => PidInv /\ MpInv
  <2> SUFFICES ASSUME Init PROVE PidInv /\ MpInv
    OBVIOUS
  <2>1. \A r \in Robots : ecp_robot[r].pid = "none"
    BY DEF Init, NoObject
  <2>2. Bereft = {} /\ Orphans = {} /\ PidsInv
    BY <2>1, PidAssumption DEF Init, HardwareInit, Bereft, Orphans, PidsInv, Exists
  <2>3. gui = "idle" /\ mp_proc = "none" /\ mp_thread = "idle"
    BY DEF Init
  <2>4. [r \in Robots |-> "none"] \in [Robots -> Pids \cup {"none"}]
    OBVIOUS
  <2> QED
    BY <2>2, <2>3, <2>4 DEF PidInv, OrphansEnd, Matched, MpInv
<1>2. UiInv /\ PidInv /\ MpInv /\ [Next]_vars => PidInv' /\ MpInv'
  BY NextPids, NextOrphans, NextMatched, NextMp DEF PidInv
<1> QED
  BY <1>1, <1>2, UiInvariance, PTL DEF Spec

\* An unloading ends: whenever the thread of the window waits for a child, one has
\* ended or is about to, whichever children its waits have taken before.
THEOREM UnloadingEnds == Spec => []SlayReturns
<1>1. PidInv /\ MpInv => SlayReturns
  <2> SUFFICES ASSUME PidInv, MpInv, gui = "wait" PROVE \E p \in Pids : Ending(p)
    BY DEF SlayReturns, MpInv
  <2>1. PICK g \in Orphans : TRUE
    BY DEF PidInv, Matched
  <2> QED
    BY <2>1 DEF PidInv, OrphansEnd, Orphans
<1> QED
  BY SlayInvariance, <1>1, PTL

\* The UI never starts a second MP: as MPup_int looks at the pid of the first, and an
\* unloading forgets it only when the process is gone, main_eb spawns when there is none.
THEOREM OneMp == Spec => [](mp_thread = "spawn" => mp_proc = "none")
<1>1. MpInv => (mp_thread = "spawn" => mp_proc = "none")
  BY DEF MpInv
<1> QED
  BY SlayInvariance, <1>1, PTL

-----------------------------------------------------------------------------
\* The connexions of a patient operator.  A robot that is unloaded has no command,
\* and while all of them are unloaded none has.
Quiet(r) == thread[r] \in {"none", "idle"} /\ com_fun[r] = "none"

PatientInv ==
    /\ gui \in {"wait", "join"} => slaying \in Robots /\ Quiet(slaying)
    /\ \A q \in slay_queue, r \in Robots : Quiet(r)

LEMMA NextPatient ==
    ASSUME Patient, UiInv, PatientInv, [Next]_vars
    PROVE  PatientInv'
<1> USE DEF PatientInv, Quiet
<1>1. /\ thread \in [Robots -> {"none", "idle", "spawn", "connect", "connected", "state"}]
      /\ com_fun \in [Robots -> {"none", "create", "synchronise"}]
      /\ slay_queue \subseteq Robots
  BY DEF UiInv, TypeOK
<1>2. CASE UNCHANGED <<guiVars, thread, com_fun>>
  BY <1>2 DEF guiVars
<1>3. ASSUME NEW r \in Robots, ~Quiet(r), UNCHANGED guiVars,
             \A s \in Robots \ {r} : thread'[s] = thread[s] /\ com_fun'[s] = com_fun[s]
      PROVE  PatientInv'
  BY <1>3 DEF guiVars
<1>4. ASSUME NEW r \in Robots, RobotThread(r) PROVE PatientInv'
  <2> USE DEF ThreadGoes
  <2>1. UNCHANGED guiVars
    BY <1>4 DEF RobotThread, WaitAndExecute, NoNode, ProcessSpawn, ConnectToEdp, ConnectFails,
                SetLoaded, InitialState
  <2>2. ~Quiet(r)
    BY <1>4 DEF RobotThread, WaitAndExecute, NoNode, ProcessSpawn, ConnectToEdp, ConnectFails,
                SetLoaded, InitialState
  <2>3. \A s \in Robots \ {r} : thread'[s] = thread[s]
    BY <1>1, <1>4 DEF RobotThread, WaitAndExecute, CreateInt, SynchroniseInt, NoNode, ProcessSpawn,
                      ConnectToEdp, ConnectFails, SetLoaded, InitialState
  <2>4. \A s \in Robots \ {r} : com_fun'[s] = com_fun[s]
    BY <1>1, <1>4 DEF RobotThread, WaitAndExecute, NoNode, ProcessSpawn, ConnectToEdp, ConnectFails,
                      SetLoaded, InitialState
  <2> QED
    BY <1>3, <2>1, <2>2, <2>3, <2>4
<1>5. ASSUME NEW r \in Robots, BeginSlay(r), Quiet(r), slay_queue' \subseteq slay_queue PROVE PatientInv'
  BY <1>5 DEF BeginSlay
<1>6. CASE WindowGoesOn
  <2>1. ASSUME NEW r \in Robots, SlayNext(r) PROVE PatientInv'
    BY <1>5, <2>1 DEF SlayNext, robotVars
  <2>2. CASE AbortThread
    BY <1>1, <2>2 DEF AbortThread, ThreadGoes
  <2>3. CASE WaitForChild
    BY <2>3 DEF WaitForChild, robotVars
  <2>4. CASE MpEnded
    BY <2>4 DEF MpEnded, robotVars
  <2>5. CASE ManageInterface
    BY <1>2, <2>5 DEF ManageInterface, robotVars
  <2> QED
    BY <1>6, <2>1, <2>2, <2>3, <2>4, <2>5 DEF WindowGoesOn
<1>7. CASE Operator
  <2>1. ASSUME NEW r \in Robots, edp_create(r) \/ synchronise(r) PROVE PatientInv'
    <3>1. gui' = "idle" /\ slay_queue' = {}
      BY <2>1 DEF edp_create, synchronise, Chosen, guiVars
    <3> QED
      BY <3>1
  <2>2. ASSUME NEW r \in Robots, EDP_slay_int(r) PROVE PatientInv'
    BY <1>5, <2>2 DEF EDP_slay_int, Free
  <2>3. CASE EDP_all_robots_slay
    BY <2>3 DEF EDP_all_robots_slay, Free, Chosen, robotVars
  <2>4. CASE MPup
    BY <1>2, <2>4 DEF MPup, robotVars
  <2>5. CASE MPslay
    <3>1. slay_queue' = {} /\ gui' \notin {"wait", "join"}
      BY <2>5 DEF MPslay, Chosen
    <3> QED
      BY <3>1
  <2> QED
    BY <1>7, <2>1, <2>2, <2>3, <2>4, <2>5 DEF Operator
<1>8. CASE MpThread \/ MpEnds \/ UNCHANGED vars \/ \E p \in Pids : Edp(p) \/ EdpEndsUnbidden(p)
  BY <1>2, <1>8 DEF MpThread, MPup_int, SpawnMp, MpEnds, vars, Edp, EdpEndsUnbidden, notHardware, robotVars
<1> QED
  BY <1>4, <1>6, <1>7, <1>8 DEF Next

\* While no child has ended unbidden: an EDP serves the robot that knows its pid,
\* or is the one that is being unloaded.
Serving == {"start", "create", "write", "effector", "work"}

Ours(p) == ecp_robot[prog[p]].pid = p /\ p \notin signalled /\ pstate[p] \in Serving

Slain(p) ==
    /\ gui = "wait" /\ slaying = prog[p] /\ ecp_robot[prog[p]] = NoObject
    /\ \/ pstate[p] = "work" /\ p \in signalled
       \/ pstate[p] \in {"close", "unlink", "exit", "zombie"}

Accounted == \A p \in Pids : Exists(p) => Ours(p) \/ Slain(p)

OnePerRobot == \A p, q \in Pids : Exists(p) /\ Exists(q) /\ prog[p] = prog[q] => p = q

\* A pid file is there only while the one EDP of the robot has it, which removes it.
FileHeld ==
    /\ \A p \in Pids : pstate[p] = "close" => file[prog[p]] = p
    /\ \A r \in Robots : file[r] # "none" =>
          \E p \in Pids : prog[p] = r /\ pstate[p] \in {"write", "effector", "work", "close", "unlink"}

\* The attach point of a robot is served by its one EDP.
PortHeld ==
    \A r \in Robots : port[r] # "none" =>
       \E p \in Pids : /\ prog[p] = r /\ port[r] = p
                       /\ pstate[p] \in {"work", "close", "unlink", "exit"}

\* Robots that are connected, also those that are not shown as loaded yet.
Attached == {r \in Robots : edp_state[r] > 0 \/ thread[r] = "connected"}

Connected ==
    /\ \A r \in Robots, p \in Pids : ecp_robot[r].pid = p => Exists(p)
    /\ \A r \in Attached : /\ ecp_robot[r].pid \in Pids
                           /\ ecp_robot[r].fd = ecp_robot[r].pid
                           /\ pstate[ecp_robot[r].pid] = "work"

MpAlone == mp_proc \in {"signalled", "zombie"} => gui = "wait_mp"

HeldInv == Accounted /\ OnePerRobot /\ FileHeld /\ PortHeld /\ Connected /\ MpAlone

OwnInv == unbidden = 0 => HeldInv

OwnAll == UiInv /\ PidsInv /\ PatientInv

\* An EDP that nobody ends finds neither a file nor another server, and whoever is
\* being unloaded closes its own file.
LEMMA OwnEdp ==
    ASSUME OwnAll, HeldInv, NEW p \in Pids, Edp(p)
    PROVE  HeldInv'
<1> USE PidAssumption DEF Goes, At
<1>1. /\ HardwareTypeOK /\ HardwareInv /\ Placed /\ NamesHolder
      /\ pstate \in [Pids -> States] /\ prog \in [Pids -> Robots \cup {"none"}]
      /\ file \in [Robots -> Pids \cup {"none", "empty"}] /\ port \in [Robots -> Pids \cup {"none"}]
      /\ signalled \subseteq Pids
  BY DEF OwnAll, UiInv, HardwareInv, HardwareTypeOK
<1>2. /\ Accounted /\ OnePerRobot /\ FileHeld /\ PortHeld /\ Connected /\ MpAlone
  BY DEF HeldInv
<1>3. UNCHANGED <<ecp_robot, edp_state, gui, slaying, mp_proc, prog>> /\ Attached' = Attached
  BY EdpMoves, <1>1 DEF Edp, notHardware, robotVars, guiVars, mpVars, Attached
<1>4. /\ Exists(p) /\ Exists(p)' /\ prog[p] \in Robots
      /\ \A q \in Pids : q # p => pstate'[q] = pstate[q] /\ (q \in signalled' <=> q \in signalled)
  BY EdpMoves, <1>1 DEF Edp, Placed
<1>5. Ours(p) \/ Slain(p)
  BY <1>2, <1>4 DEF Accounted
<1>6. OnePerRobot'
  BY <1>2, <1>3, <1>4 DEF OnePerRobot, Exists
<1>7. MpAlone'
  BY <1>2, <1>3 DEF MpAlone
<1>8. ASSUME NEW q \in Pids, q # p, Exists(q)' PROVE Ours(q)' \/ Slain(q)'
  BY <1>2, <1>3, <1>4, <1>8 DEF Accounted, Exists, Ours, Slain
<1>9. ASSUME Ours(p)' \/ Slain(p)' PROVE Accounted'
  BY <1>8, <1>9 DEF Accounted
<1>10. ASSUME pstate[p] # "work" \/ p \in signalled PROVE Connected'
  <2>1. ASSUME NEW r \in Attached PROVE ecp_robot[r].pid # p
    <3>1. CASE Slain(p)
      BY <1>2, <1>4, <2>1, <3>1, <1>1 DEF Slain, Connected, Attached, OwnAll, PidsInv, NoObject
    <3>2. CASE ~Slain(p)
      BY <1>2, <1>5, <1>10, <2>1, <3>2 DEF Ours, Connected, Attached
    <3> QED
      BY <3>1, <3>2
  <2>2. ASSUME NEW r \in Attached PROVE ecp_robot[r].pid \in Pids
    BY <1>2, <2>2 DEF Connected
  <2>3. \A r \in Robots, q \in Pids : ecp_robot'[r].pid = q => Exists(q)'
    BY <1>2, <1>3, <1>4 DEF Connected, Exists
  <2> QED
    BY <1>2, <1>3, <1>4, <2>1, <2>2, <2>3 DEF Connected
<1>11. \A q \in Pids : Exists(q) /\ prog[q] = prog[p] => q = p
  BY <1>2, <1>4 DEF OnePerRobot
<1>12. \A q \in Pids : pstate[q] \in {"write", "effector", "work", "close", "unlink", "exit"} => Exists(q)
  BY DEF Exists
<1>13. CASE Access(p)
  <2>1. Ours(p) /\ pstate[p] = "start"
    BY <1>5, <1>13 DEF Access, Slain
  <2>2. file[prog[p]] = "none"
    BY <1>2, <1>4, <1>11, <1>12, <2>1 DEF FileHeld
  <2>3. /\ pstate' = [pstate EXCEPT ![p] = "create"]
        /\ UNCHANGED <<prog, file_pid, signalled, file, port>>
    BY <1>13, <2>2 DEF Access
  <2>4. Accounted' /\ Connected'
    BY <1>1, <1>3, <1>9, <1>10, <2>1, <2>3 DEF Ours, Serving
  <2>5. FileHeld' /\ PortHeld'
    BY <1>1, <1>2, <2>1, <2>3 DEF FileHeld, PortHeld
  <2> QED
    BY <1>6, <1>7, <2>4, <2>5 DEF HeldInv
<1>14. CASE Create(p)
  <2>1. Ours(p) /\ pstate[p] = "create"
    BY <1>5, <1>14 DEF Create, Slain
  <2>2. /\ pstate' = [pstate EXCEPT ![p] = "write"] /\ file' = [file EXCEPT ![prog[p]] = "empty"]
        /\ UNCHANGED <<prog, file_pid, signalled, port>>
    BY <1>14 DEF Create
  <2>3. Accounted' /\ Connected'
    BY <1>1, <1>3, <1>9, <1>10, <2>1, <2>2 DEF Ours, Serving
  <2>4. FileHeld' /\ PortHeld'
    BY <1>1, <1>2, <1>4, <1>11, <1>12, <2>1, <2>2 DEF FileHeld, PortHeld
  <2> QED
    BY <1>6, <1>7, <2>3, <2>4 DEF HeldInv
<1>15. CASE Write(p)
  <2>1. Ours(p) /\ pstate[p] = "write"
    BY <1>5, <1>15 DEF Write, Slain
  <2>2. /\ pstate' = [pstate EXCEPT ![p] = "effector"] /\ file' = [file EXCEPT ![prog[p]] = p]
        /\ UNCHANGED <<prog, file_pid, signalled, port>>
    BY <1>15 DEF Write
  <2>3. Accounted' /\ Connected'
    BY <1>1, <1>3, <1>9, <1>10, <2>1, <2>2 DEF Ours, Serving
  <2>4. FileHeld' /\ PortHeld'
    BY <1>1, <1>2, <1>4, <1>11, <1>12, <2>1, <2>2 DEF FileHeld, PortHeld
  <2> QED
    BY <1>6, <1>7, <2>3, <2>4 DEF HeldInv
<1>16. CASE OpenPort(p)
  <2>1. Ours(p) /\ pstate[p] = "effector"
    BY <1>5, <1>16 DEF OpenPort, Slain
  <2>2. port[prog[p]] = "none"
    BY <1>2, <1>4, <1>11, <1>12, <2>1 DEF PortHeld
  <2>3. /\ pstate' = [pstate EXCEPT ![p] = "work"] /\ port' = [port EXCEPT ![prog[p]] = p]
        /\ UNCHANGED <<prog, file_pid, signalled, file>>
    BY <1>16, <2>2 DEF OpenPort
  <2>4. Accounted' /\ Connected'
    BY <1>1, <1>3, <1>9, <1>10, <2>1, <2>3 DEF Ours, Serving
  <2>5. FileHeld' /\ PortHeld'
    BY <1>1, <1>2, <1>4, <1>11, <1>12, <2>1, <2>3 DEF FileHeld, PortHeld
  <2> QED
    BY <1>6, <1>7, <2>4, <2>5 DEF HeldInv
<1>17. CASE CatchSignal(p)
  <2>1. Slain(p) /\ pstate[p] = "work" /\ p \in signalled
    BY <1>1, <1>5, <1>17 DEF CatchSignal, Ours, Slain, Placed, Running, Detecting, Claimed
  <2>2. /\ pstate' = [pstate EXCEPT ![p] = "close"] /\ signalled' = signalled \ {p}
        /\ UNCHANGED <<prog, file, port>> /\ file[prog[p]] = p
    BY <1>1, <1>17, <2>1 DEF CatchSignal, NamesHolder, Claimed
  <2>3. Accounted' /\ Connected'
    BY <1>1, <1>3, <1>9, <1>10, <2>1, <2>2 DEF Slain
  <2>4. FileHeld' /\ PortHeld'
    BY <1>1, <1>2, <2>1, <2>2 DEF FileHeld, PortHeld
  <2> QED
    BY <1>6, <1>7, <2>3, <2>4 DEF HeldInv
<1>18. CASE Close(p)
  <2>1. Slain(p) /\ pstate[p] = "close" /\ file[prog[p]] = p
    BY <1>2, <1>5, <1>18 DEF Close, Ours, Serving, FileHeld
  <2>2. /\ pstate' = [pstate EXCEPT ![p] = "unlink"]
        /\ UNCHANGED <<prog, file_pid, signalled, file, port>>
    BY <1>18, <2>1 DEF Close, ToUnlink, OwnFile
  <2>3. Accounted' /\ Connected'
    BY <1>1, <1>3, <1>9, <1>10, <2>1, <2>2 DEF Slain
  <2>4. FileHeld' /\ PortHeld'
    BY <1>1, <1>2, <2>1, <2>2 DEF FileHeld, PortHeld
  <2> QED
    BY <1>6, <1>7, <2>3, <2>4 DEF HeldInv
<1>19. CASE Unlink(p)
  <2>1. Slain(p) /\ pstate[p] = "unlink"
    BY <1>5, <1>19 DEF Unlink, Ours, Serving
  <2>2. /\ pstate' = [pstate EXCEPT ![p] = "exit"] /\ file' = [file EXCEPT ![prog[p]] = "none"]
        /\ UNCHANGED <<prog, file_pid, signalled, port>>
    BY <1>19 DEF Unlink
  <2>3. Accounted' /\ Connected'
    BY <1>1, <1>3, <1>9, <1>10, <2>1, <2>2 DEF Slain
  <2>4. FileHeld' /\ PortHeld'
    BY <1>1, <1>2, <1>4, <1>11, <1>12, <2>1, <2>2 DEF FileHeld, PortHeld
  <2> QED
    BY <1>6, <1>7, <2>3, <2>4 DEF HeldInv
<1>20. CASE Exit(p)
  <2>1. Slain(p) /\ pstate[p] = "exit"
    BY <1>5, <1>20 DEF Exit, Ours, Serving
  <2>2. /\ pstate' = [pstate EXCEPT ![p] = "zombie"] /\ signalled' = signalled \ {p}
        /\ port' = [r \in Robots |-> IF port[r] = p THEN "none" ELSE port[r]]
        /\ UNCHANGED <<prog, file>>
    BY <1>20 DEF Exit, Ended, PortsWithout
  <2>3. Accounted' /\ Connected'
    BY <1>1, <1>3, <1>9, <1>10, <2>1, <2>2 DEF Slain
  <2>4. FileHeld' /\ PortHeld'
    BY <1>1, <1>2, <2>1, <2>2 DEF FileHeld, PortHeld
  <2> QED
    BY <1>6, <1>7, <2>3, <2>4 DEF HeldInv
<1>21. CASE ReadPid(p) \/ CheckProcess(p) \/ Remove(p)
  <2>1. pstate[p] \in {"read", "check", "remove"}
    BY <1>21 DEF ReadPid, CheckProcess, Remove
  <2> QED
    BY <1>5, <2>1 DEF Ours, Slain, Serving
<1> QED
  BY <1>13, <1>14, <1>15, <1>16, <1>17, <1>18, <1>19, <1>20, <1>21 DEF Edp, EdpStep

\* A step that touches no process, no robot object and no state of a robot.
LEMMA OwnAside ==
    ASSUME HeldInv, UNCHANGED <<hardwareVars, edp_state, ecp_robot>>, Attached' \subseteq Attached,
           UNCHANGED <<gui, slaying>> \/ gui # "wait", MpAlone'
    PROVE  HeldInv'
<1>1. UNCHANGED <<pstate, prog, signalled, file, port>>
  BY DEF hardwareVars
<1>2. Accounted'
  BY <1>1 DEF HeldInv, Accounted, Exists, Ours, Slain
<1>3. OnePerRobot' /\ FileHeld' /\ PortHeld' /\ Connected'
  BY <1>1 DEF HeldInv, OnePerRobot, FileHeld, PortHeld, Connected, Exists
<1> QED
  BY <1>2, <1>3 DEF HeldInv

\* A robot whose thread is busy is not the one that is being unloaded: an EDP of
\* it is the one it knows.
LEMMA BusyOwns ==
    ASSUME OwnAll, HeldInv, NEW r \in Robots, ~Quiet(r), NEW p \in Pids, Exists(p), prog[p] = r
    PROVE  ecp_robot[r].pid = p /\ p \notin signalled /\ pstate[p] \in Serving
BY DEF OwnAll, PatientInv, HeldInv, Accounted, Ours, Slain

LEMMA OwnRobotThread ==
    ASSUME OwnAll, HeldInv, NEW r \in Robots, RobotThread(r)
    PROVE  HeldInv'
<1> USE PidAssumption DEF ThreadGoes
<1>1. /\ pstate \in [Pids -> States] /\ prog \in [Pids -> Robots \cup {"none"}]
      /\ file \in [Robots -> Pids \cup {"none", "empty"}] /\ port \in [Robots -> Pids \cup {"none"}]
      /\ ecp_robot \in [Robots -> [pid : Pids \cup {"none"}, fd : Pids \cup {"none"}]]
      /\ edp_state \in [Robots -> {-1, 0, 1}]
      /\ thread \in [Robots -> {"none", "idle", "spawn", "connect", "connected", "state"}]
      /\ signalled \subseteq Pids /\ \A p \in Pids : Exists(p) => prog[p] \in Robots
      /\ \A p \in signalled : pstate[p] \in Running
  BY DEF OwnAll, UiInv, TypeOK, HardwareTypeOK, HardwareInv, Placed
<1>2. /\ Accounted /\ OnePerRobot /\ FileHeld /\ PortHeld /\ Connected /\ MpAlone
  BY DEF HeldInv
<1>3. UNCHANGED <<gui, slaying>>
  BY DEF RobotThread, WaitAndExecute, NoNode, ProcessSpawn, ConnectToEdp, ConnectFails, SetLoaded,
         InitialState,
         guiVars
<1>4. CASE WaitAndExecute(r) \/ NoNode(r) \/ InitialState(r)
  <2>1. UNCHANGED <<hardwareVars, edp_state, ecp_robot>> /\ mp_proc' = mp_proc
    BY <1>4 DEF WaitAndExecute, NoNode, InitialState, mpVars
  <2>2. \E place \in {"idle", "spawn"} : thread' = [thread EXCEPT ![r] = place]
    BY <1>4 DEF WaitAndExecute, CreateInt, SynchroniseInt, NoNode, InitialState
  <2>3. Attached' \subseteq Attached
    BY <1>1, <2>1, <2>2 DEF Attached
  <2> QED
    BY <1>2, <1>3, <2>1, <2>3, OwnAside DEF MpAlone
<1>5. CASE ProcessSpawn(r)
  <2>1. /\ thread[r] = "spawn" /\ ~Quiet(r) /\ ecp_robot[r] = NoObject /\ edp_state[r] = 0
        /\ UNCHANGED <<edp_state, mp_proc>> /\ thread' = [thread EXCEPT ![r] = "connect"]
    BY <1>5 DEF ProcessSpawn, OwnAll, UiInv, CreateInv, Quiet, mpVars
  <2>4. Attached' = Attached /\ r \notin Attached
    BY <1>1, <2>1 DEF Attached
  <2>2. CASE UNCHANGED hardwareVars /\ ecp_robot' = [ecp_robot EXCEPT ![r] = NoObject]
    <3>1. ecp_robot' = ecp_robot
      BY <1>1, <2>1, <2>2
    <3> QED
      BY <1>2, <1>3, <2>1, <2>2, <2>4, <3>1, OwnAside DEF MpAlone
  <2>3. ASSUME NEW p \in Pids, Spawn(p, r), pstate[p] = "unborn",
               ecp_robot' = [ecp_robot EXCEPT ![r] = [pid |-> p, fd |-> "none"]]
        PROVE  HeldInv'
    <3>1. \A q \in Pids : Exists(q) => prog[q] # r
      BY <2>1, BusyOwns DEF NoObject
    <3>2. /\ pstate' = [pstate EXCEPT ![p] = "start"] /\ prog' = [prog EXCEPT ![p] = r]
          /\ UNCHANGED <<signalled, file, port>> /\ p \notin signalled
      BY <1>1, <2>3 DEF Spawn, Goes, Running, Detecting, Claimed
    <3>3. Accounted'
      <4> SUFFICES ASSUME NEW q \in Pids, Exists(q)' PROVE Ours(q)' \/ Slain(q)'
        BY DEF Accounted
      <4>1. CASE q = p
        BY <1>1, <2>3, <3>2, <4>1 DEF Ours, Serving
      <4>2. CASE q # p
        <5>1. Exists(q) /\ pstate'[q] = pstate[q] /\ prog'[q] = prog[q]
          BY <1>1, <3>2, <4>2 DEF Exists
        <5>2. ecp_robot'[prog'[q]] = ecp_robot[prog[q]]
          BY <1>1, <2>3, <3>1, <5>1
        <5> QED
          BY <1>2, <1>3, <3>2, <5>1, <5>2 DEF Accounted, Ours, Slain
      <4> QED
        BY <4>1, <4>2
    <3>4. OnePerRobot'
      BY <1>1, <1>2, <3>1, <3>2 DEF OnePerRobot, Exists
    <3>5. FileHeld' /\ PortHeld'
      BY <1>1, <1>2, <2>3, <3>2 DEF FileHeld, PortHeld
    <3>6. Connected'
      <4>1. \A s \in Attached : s \in Robots /\ s # r /\ ecp_robot'[s] = ecp_robot[s]
        BY <1>1, <2>3, <2>4 DEF Attached
      <4> QED
        BY <1>1, <1>2, <2>3, <2>4, <3>2, <4>1 DEF Connected, Exists
    <3> QED
      BY <1>2, <1>3, <2>1, <3>3, <3>4, <3>5, <3>6 DEF HeldInv, MpAlone
  <2> QED
    BY <1>5, <2>2, <2>3 DEF ProcessSpawn
<1>6. CASE ConnectFails(r)
  <2>1. /\ thread[r] = "connect" /\ ~Quiet(r)
        /\ UNCHANGED <<hardwareVars, edp_state, mp_proc>>
        /\ thread' = [thread EXCEPT ![r] = "idle"]
        /\ ecp_robot' = [ecp_robot EXCEPT ![r] = NoObject]
        /\ ecp_robot[r].pid \notin {p \in Pids : pstate[p] \in Running}
    BY <1>6 DEF ConnectFails, ThreadGoes, RetriesRunOut, StartIsOver, Quiet, mpVars
  <2>2. \A q \in Pids : Exists(q) => prog[q] # r
    BY <2>1, BusyOwns DEF Serving, Running, Detecting, Claimed
  <2>3. UNCHANGED <<pstate, prog, signalled, file, port>> /\ Attached' = Attached /\ r \notin Attached
    BY <1>1, <2>1 DEF hardwareVars, Attached, OwnAll, UiInv, CreateInv
  <2>4. Accounted'
    BY <1>1, <1>2, <1>3, <2>1, <2>2, <2>3 DEF Accounted, Exists, Ours, Slain
  <2>5. OnePerRobot' /\ FileHeld' /\ PortHeld'
    BY <1>2, <2>3 DEF OnePerRobot, FileHeld, PortHeld, Exists
  <2>6. Connected'
    BY <1>1, <1>2, <2>1, <2>3 DEF Connected, Exists, Attached, NoObject
  <2> QED
    BY <1>2, <1>3, <2>1, <2>4, <2>5, <2>6 DEF HeldInv, MpAlone
<1>7. CASE ConnectToEdp(r)
  <2>1. thread[r] = "connect" /\ ~Quiet(r) /\ port[r] # "none" /\ edp_state[r] = 0
    BY <1>7 DEF ConnectToEdp, Quiet, OwnAll, UiInv, CreateInv
  <2>2. PICK p \in Pids : prog[p] = r /\ port[r] = p /\ pstate[p] \in {"work", "close", "unlink", "exit"}
    BY <1>2, <2>1 DEF PortHeld
  <2>3. Exists(p) /\ ecp_robot[r].pid = p /\ p \notin signalled /\ pstate[p] = "work"
    BY <2>1, <2>2, BusyOwns DEF Exists, Serving
  <2>4. /\ UNCHANGED <<hardwareVars, mp_proc, edp_state>>
        /\ thread' = [thread EXCEPT ![r] = "connected"]
        /\ ecp_robot' = [ecp_robot EXCEPT ![r].fd = port[r]]
    BY <1>7 DEF ConnectToEdp, mpVars
  <2>5. UNCHANGED <<pstate, prog, signalled, file, port>> /\ Attached' = Attached \cup {r}
    BY <1>1, <2>4 DEF hardwareVars, Attached
  <2>6. /\ \A s \in Robots : ecp_robot'[s].pid = ecp_robot[s].pid
        /\ \A s \in Robots \ {r} : ecp_robot'[s] = ecp_robot[s]
        /\ ecp_robot'[r].fd = p
    BY <1>1, <2>2, <2>4
  <2>7. Accounted'
    <3> SUFFICES ASSUME NEW q \in Pids, Exists(q) PROVE Ours(q)' \/ Slain(q)'
      BY <2>5 DEF Accounted, Exists
    <3>1. CASE prog[q] = r
      BY <2>1, <2>5, <2>6, <3>1, BusyOwns DEF Ours
    <3>2. CASE prog[q] # r
      BY <1>1, <1>2, <1>3, <2>5, <2>6, <3>2 DEF Accounted, Ours, Slain
    <3> QED
      BY <3>1, <3>2
  <2>8. OnePerRobot' /\ FileHeld' /\ PortHeld'
    BY <1>2, <2>5 DEF OnePerRobot, FileHeld, PortHeld, Exists
  <2>9. Connected'
    BY <1>2, <2>3, <2>5, <2>6 DEF Connected, Exists, Attached
  <2> QED
    BY <1>2, <1>3, <2>4, <2>7, <2>8, <2>9 DEF HeldInv, MpAlone
<1>8. CASE SetLoaded(r)
  <2>1. thread[r] = "connected" /\ r \in Attached /\ ecp_robot[r].pid \in Pids
    BY <1>2, <1>8 DEF SetLoaded, Attached, Connected
  <2>2. /\ UNCHANGED <<hardwareVars, ecp_robot, mp_proc>> /\ edp_state' = [edp_state EXCEPT ![r] = 1]
        /\ thread' = [thread EXCEPT ![r] = "state"]
    BY <1>8, <2>1 DEF SetLoaded
  <2>3. Attached' = Attached /\ UNCHANGED <<pstate, prog, signalled, file, port>>
    BY <1>1, <2>1, <2>2 DEF Attached, hardwareVars
  <2>4. Accounted'
    BY <1>2, <1>3, <2>2, <2>3 DEF Accounted, Exists, Ours, Slain
  <2>5. OnePerRobot' /\ FileHeld' /\ PortHeld' /\ Connected'
    BY <1>2, <2>2, <2>3 DEF OnePerRobot, FileHeld, PortHeld, Connected, Exists
  <2> QED
    BY <1>2, <1>3, <2>2, <2>4, <2>5 DEF HeldInv, MpAlone
<1> QED
  BY <1>4, <1>5, <1>6, <1>7, <1>8 DEF RobotThread

\* Unloading turns the one EDP of the robot from the robot's own into the one that
\* is being unloaded.
LEMMA OwnSlay ==
    ASSUME OwnAll, HeldInv, NEW r \in Robots, BeginSlay(r), edp_state[r] > 0, gui = "idle"
    PROVE  HeldInv'
<1> USE PidAssumption
<1>1. /\ HardwareTypeOK /\ signalled \subseteq Pids /\ \A p \in Pids : Exists(p) => prog[p] \in Robots
      /\ ecp_robot \in [Robots -> [pid : Pids \cup {"none"}, fd : Pids \cup {"none"}]]
      /\ edp_state \in [Robots -> {-1, 0, 1}]
  BY DEF OwnAll, UiInv, TypeOK, HardwareTypeOK, HardwareInv, Placed
<1>2. /\ Accounted /\ OnePerRobot /\ FileHeld /\ PortHeld /\ Connected /\ MpAlone
  BY DEF HeldInv
<1>3. PICK p \in Pids : ecp_robot[r].pid = p
  BY DEF OwnAll, UiInv, CreateInv
<1>4. Exists(p) /\ prog[p] = r /\ pstate[p] = "work"
  BY <1>2, <1>3 DEF Connected, Attached, OwnAll, PidsInv
<1>5. /\ gui' = "wait" /\ slaying' = r /\ UNCHANGED mp_proc /\ SendSignal({p})
      /\ ecp_robot' = [ecp_robot EXCEPT ![r] = NoObject] /\ edp_state' = [edp_state EXCEPT ![r] = 0]
      /\ thread' = thread /\ thread[r] # "connected"
  BY <1>3 DEF OwnAll, UiInv, CreateInv, BeginSlay, CloseEdpConnections, delete_ui_ecp_robot, KillOf, mpVars
<1>6. /\ UNCHANGED <<pstate, prog, file, port>> /\ signalled' = signalled \cup {p}
      /\ Attached' = Attached \ {r}
  BY <1>1, <1>4, <1>5 DEF SendSignal, Running, Claimed, Attached
<1>7. Accounted'
  <2> SUFFICES ASSUME NEW q \in Pids, Exists(q) PROVE Ours(q)' \/ Slain(q)'
    BY <1>6 DEF Accounted, Exists
  <2>1. CASE q = p
    BY <1>1, <1>4, <1>5, <1>6, <2>1 DEF Slain
  <2>2. CASE q # p
    <3>1. Ours(q) /\ prog[q] # r
      BY <1>2, <1>4, <2>2 DEF Accounted, OnePerRobot, Slain
    <3> QED
      BY <1>1, <1>5, <1>6, <2>2, <3>1 DEF Ours
  <2> QED
    BY <2>1, <2>2
<1>8. OnePerRobot' /\ FileHeld' /\ PortHeld'
  BY <1>2, <1>6 DEF OnePerRobot, FileHeld, PortHeld, Exists
<1>9. Connected'
  BY <1>1, <1>2, <1>5, <1>6 DEF Connected, Exists, Attached, NoObject
<1> QED
  BY <1>2, <1>5, <1>7, <1>8, <1>9 DEF HeldInv, MpAlone

\* Only the EDP that is being unloaded can have ended, and no MP has: it is this
\* EDP that is waited for.
LEMMA OwnWait ==
    ASSUME OwnAll, HeldInv, WaitForChild
    PROVE  HeldInv'
<1> USE PidAssumption
<1>1. /\ pstate \in [Pids -> States] /\ prog \in [Pids -> Robots \cup {"none"}]
      /\ \A p \in Pids : Exists(p) => prog[p] \in Robots
  BY DEF OwnAll, UiInv, TypeOK, HardwareTypeOK, HardwareInv, Placed
<1>2. /\ Accounted /\ OnePerRobot /\ FileHeld /\ PortHeld /\ Connected /\ MpAlone
  BY DEF HeldInv
<1>3. PICK p \in Pids : Reap(p) /\ UNCHANGED mp_proc
  BY <1>2 DEF WaitForChild, MpAlone
<1>4. /\ UNCHANGED <<edp_state, ecp_robot, slaying>> /\ gui = "wait" /\ gui' = "join"
      /\ pstate[p] = "zombie" /\ Exists(p)
      /\ pstate' = [pstate EXCEPT ![p] = "reaped"] /\ prog' = [prog EXCEPT ![p] = "none"]
      /\ UNCHANGED <<signalled, file, port>> /\ Attached' = Attached
  BY <1>3 DEF WaitForChild, Reap, Goes, robotVars, Exists, Attached
<1>5. Slain(p)
  BY <1>2, <1>4 DEF Accounted, Ours, Serving
<1>6. Accounted'
  <2> SUFFICES ASSUME NEW q \in Pids, Exists(q)' PROVE Ours(q)'
    BY DEF Accounted
  <2>1. q # p /\ Exists(q) /\ pstate'[q] = pstate[q] /\ prog'[q] = prog[q]
    BY <1>1, <1>4 DEF Exists
  <2>2. ~Slain(q)
    BY <1>2, <1>4, <1>5, <2>1 DEF OnePerRobot, Slain
  <2> QED
    BY <1>2, <1>4, <2>1, <2>2 DEF Accounted, Ours
<1>7. OnePerRobot' /\ FileHeld' /\ PortHeld'
  BY <1>1, <1>2, <1>4 DEF OnePerRobot, FileHeld, PortHeld, Exists
<1>8. Connected'
  <2>1. \A r \in Robots : ecp_robot[r].pid # p
    BY <1>4, <1>5 DEF Slain, NoObject, OwnAll, PidsInv
  <2> QED
    BY <1>1, <1>2, <1>4, <2>1 DEF Connected, Exists, Attached
<1> QED
  BY <1>2, <1>3, <1>4, <1>6, <1>7, <1>8 DEF HeldInv, MpAlone

LEMMA NextOwn ==
    ASSUME OwnAll, OwnInv, [Next]_vars
    PROVE  OwnInv'
<1> SUFFICES ASSUME unbidden' = 0 PROVE HeldInv'
  BY DEF OwnInv
<1>1. unbidden \in Nat
  BY ActiveAssumption DEF OwnAll, UiInv, TypeOK
<1>2. ~(\E p \in Pids : EdpEndsUnbidden(p)) /\ unbidden = 0
  <2>1. unbidden' = unbidden \/ unbidden' = unbidden + 1
    BY DEF Next, vars, Edp, EdpEndsUnbidden, RobotThread, WaitAndExecute, NoNode, ProcessSpawn,
           ConnectToEdp, ConnectFails, SetLoaded, InitialState, WindowGoesOn, ManageInterface,
           WaitForChild,
           AbortThread, MpEnded, SlayNext, BeginSlay, Operator, edp_create, synchronise, EDP_slay_int,
           EDP_all_robots_slay, MPup, MPslay, MpThread, MPup_int, SpawnMp, MpEnds
  <2> QED
    BY <1>1, <2>1 DEF EdpEndsUnbidden
<1>3. HeldInv
  BY <1>2 DEF OwnInv
<1>4. CASE UNCHANGED <<hardwareVars, robotVars, guiVars, mp_proc>>
  BY <1>3, <1>4, OwnAside DEF HeldInv, MpAlone, robotVars, guiVars, Attached
<1>5. ASSUME NEW p \in Pids, Edp(p) PROVE HeldInv'
  BY <1>3, <1>5, OwnEdp
<1>6. ASSUME NEW r \in Robots, RobotThread(r) PROVE HeldInv'
  BY <1>3, <1>6, OwnRobotThread
<1>7. CASE WindowGoesOn
  <2>1. ASSUME NEW r \in Robots, SlayNext(r) PROVE HeldInv'
    <3>1. CASE BeginSlay(r) /\ edp_state[r] > 0
      BY <1>3, <2>1, <3>1, OwnSlay DEF SlayNext
    <3>2. CASE UNCHANGED <<hardwareVars, robotVars, gui, slaying, mpVars>>
      BY <1>3, <3>2, OwnAside DEF HeldInv, MpAlone, robotVars, mpVars, Attached
    <3> QED
      BY <2>1, <3>1, <3>2 DEF SlayNext
  <2>2. CASE AbortThread
    <3>1. Attached' \subseteq Attached
      BY <2>2 DEF AbortThread, ThreadGoes, OwnAll, UiInv, TypeOK, Attached
    <3> QED
      BY <1>3, <2>2, <3>1, OwnAside DEF AbortThread, HeldInv, MpAlone, mpVars
  <2>3. CASE MpEnded
    BY <1>3, <2>3, OwnAside DEF MpEnded, MpAlone, robotVars, Attached
  <2>4. CASE ManageInterface
    BY <1>4, <2>4 DEF ManageInterface
  <2> QED
    BY <1>3, <1>7, <2>1, <2>2, <2>3, <2>4, OwnWait DEF WindowGoesOn
<1>8. CASE Operator
  <2>1. ASSUME NEW r \in Robots, edp_create(r) \/ synchronise(r) PROVE HeldInv'
    <3>1. Attached' \subseteq Attached
      BY <2>1 DEF edp_create, synchronise, OwnAll, UiInv, TypeOK, Attached
    <3> QED
      BY <1>3, <2>1, <3>1, OwnAside DEF edp_create, synchronise, HeldInv, MpAlone, guiVars, mpVars
  <2>2. ASSUME NEW r \in Robots, EDP_slay_int(r) PROVE HeldInv'
    BY <1>3, <2>2, OwnSlay DEF EDP_slay_int, Chosen
  <2>3. CASE EDP_all_robots_slay
    BY <1>3, <2>3, OwnAside DEF EDP_all_robots_slay, HeldInv, MpAlone, robotVars, mpVars, Attached
  <2>4. CASE MPup
    BY <1>4, <2>4 DEF MPup
  <2>5. CASE MPslay
    <3>1. MpAlone'
      BY <2>5 DEF MPslay, MpAlone
    <3> QED
      BY <1>3, <2>5, <3>1, OwnAside DEF MPslay, Chosen, robotVars, Attached
  <2> QED
    BY <1>8, <2>1, <2>2, <2>3, <2>4, <2>5 DEF Operator
<1>9. CASE MpThread \/ MpEnds
  <2>1. CASE MPup_int
    BY <1>4, <2>1 DEF MPup_int
  <2>2. CASE SpawnMp
    <3>1. MpAlone'
      BY <1>3, <2>2 DEF SpawnMp, HeldInv, MpAlone, guiVars
    <3> QED
      BY <1>3, <2>2, <3>1, OwnAside DEF SpawnMp, robotVars, guiVars, Attached
  <2>3. CASE MpEnds
    <3>1. MpAlone'
      BY <1>2, <1>3, <2>3 DEF MpEnds, HeldInv, MpAlone, guiVars
    <3> QED
      BY <1>3, <2>3, <3>1, OwnAside DEF MpEnds, robotVars, guiVars, Attached
  <2> QED
    BY <1>9, <2>1, <2>2, <2>3 DEF MpThread
<1>10. CASE UNCHANGED vars
  BY <1>4, <1>10 DEF vars, mpVars
<1> QED
  BY <1>2, <1>5, <1>6, <1>7, <1>8, <1>9, <1>10 DEF Next

\* As long as the operator waits for the thread of a robot and no child has ended
\* unbidden, a loaded robot is connected to the EDP that was started for it, and
\* that EDP works for it, whatever the order of loads and unloads.
THEOREM LoadedIsConnected == ASSUME Patient PROVE Spec => []ConnectedToOwn
<1>1. Init => PidsInv /\ PatientInv /\ OwnInv
  <2> SUFFICES ASSUME Init PROVE PidsInv /\ PatientInv /\ HeldInv
    BY DEF OwnInv
  <2>1. /\ \A r \in Robots : ecp_robot[r].pid = "none" /\ file[r] = "none" /\ port[r] = "none"
        /\ \A p \in Pids : ~Exists(p) /\ pstate[p] = "unborn"
    BY DEF Init, HardwareInit, NoObject, Exists
  <2>2. Attached = {}
    <3>1. \A r \in Robots : ~((IF r \in Active THEN 0 ELSE -1) > 0)
      OBVIOUS
    <3> QED
      BY <3>1 DEF Init, Attached
  <2>3. gui = "idle" /\ slay_queue = {} /\ mp_proc = "none"
    BY DEF Init
  <2> QED
    BY <2>1, <2>2, <2>3, PidAssumption DEF PidsInv, PatientInv, HeldInv, Accounted, OnePerRobot,
       FileHeld, PortHeld, Connected, MpAlone
<1>2. OwnAll /\ OwnInv /\ [Next]_vars => PidsInv' /\ PatientInv' /\ OwnInv'
  BY NextPids, NextPatient, NextOwn DEF OwnAll
<1>3. OwnAll /\ OwnInv => ConnectedToOwn
  <2> SUFFICES ASSUME OwnAll, HeldInv, NEW r \in Loaded
               PROVE  /\ ecp_robot[r].fd = ecp_robot[r].pid
                      /\ pstate[ecp_robot[r].pid] = "work" /\ prog[ecp_robot[r].pid] = r
    BY DEF OwnInv, ConnectedToOwn
  <2>1. PICK p \in Pids : ecp_robot[r].pid = p
    BY DEF OwnAll, UiInv, CreateInv, Loaded
  <2>3. r \in Attached
    BY DEF Loaded, Attached
  <2>2. ecp_robot[r].fd = p /\ pstate[p] = "work"
    BY <2>1, <2>3 DEF HeldInv, Connected
  <2> QED
    BY <2>1, <2>2 DEF OwnAll, PidsInv, Loaded, Exists
<1> QED
  BY <1>1, <1>2, <1>3, UiInvariance, PTL DEF Spec, OwnAll
=============================================================================
