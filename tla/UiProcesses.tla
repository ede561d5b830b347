----------------------------- MODULE UiProcesses -----------------------------
(***************************************************************************)
(* The process control of the user interface (ui_robot.cc, interface.cc):  *)
(* it starts an EDP from a thread of the robot, connects to it, unloads it *)
(* from the thread of the window, waits for children, and derives from the *)
(* states of the EDPs whether the MP may be loaded and which menu items    *)
(* can be chosen.  The processes and their pid files are HardwareBusy's.   *)
(*                                                                         *)
(* The EDPs are the children of the user interface, and so is the MP.      *)
(* waitpid is called with the pid that close_edp_connections has just set  *)
(* to -1: whichever child has ended is the one that is waited for.         *)
(*                                                                         *)
(* The operator does not unload an EDP whose creation is not finished      *)
(* (EDP_slay_int deletes the object that edp_create_int is using).         *)
(***************************************************************************)
EXTENDS HardwareBusy, Integers

CONSTANTS
    Crashes,         \* how many processes may end unbidden (bound)
    Patient,         \* whether a robot gets no command while its thread is busy
    Active,          \* the robots whose is_active the configuration sets
    Conveyors        \* robots whose unload item stays when the MP is loaded

ASSUME ActiveAssumption == Active \subseteq Robots /\ Crashes \in Nat

VARIABLES
    edp_state, is_synchronised,   \* of each robot
    ecp_robot,       \* ui_ecp_robot: EDP_MASTER_Pid and the process at EDP_fd
    thread, com_fun, \* the thread of the robot and its function_execution_buffer
    mtx,             \* process_creation_mtx
    gui,             \* the thread of the window: "idle", or inside a slay
    slaying, slay_queue,
    refresh,         \* a manage_interface_signal is queued
    mp_state, mp_pid,                        \* mp.state, and mp.pid # -1
    mp_proc,         \* the MP process
    mp_thread, mp_command,                   \* main_eb and its thread
    all_edps, menu,
    unbidden         \* history: how many children have ended that nobody unloaded

robotVars == <<edp_state, is_synchronised, ecp_robot, thread, com_fun, mtx>>
guiVars   == <<gui, slaying, slay_queue>>
mpVars    == <<mp_state, mp_pid, mp_proc, mp_thread, mp_command>>
shownVars == <<all_edps, menu>>
vars == <<hardwareVars, robotVars, guiVars, refresh, mpVars, shownVars, unbidden>>

\* EDP_MASTER_Pid = -1 and EDP_fd = NULL
NoObject == [pid |-> "none", fd |-> "none"]
Items == {<<"all_unload">>, <<"mp_load">>, <<"mp_unload">>, <<"configuration">>} \cup ({"load", "unload"} \X Robots)

TypeOK ==
    /\ HardwareTypeOK
    /\ is_synchronised \subseteq Robots
    /\ edp_state \in [Robots -> {-1, 0, 1}]
    /\ ecp_robot \in [Robots -> [pid : Pids \cup {"none"}, fd : Pids \cup {"none"}]]
    /\ thread \in [Robots -> {"none", "idle", "spawn", "connect", "connected", "state"}]
    /\ com_fun \in [Robots -> {"none", "create", "synchronise"}]
    /\ mtx \in Robots \cup {"none"}
    /\ gui \in {"idle", "wait", "join", "wait_mp"}
    /\ slaying \in Robots \cup {"none"} /\ slay_queue \subseteq Robots
    /\ refresh \in BOOLEAN /\ unbidden \in 0..Crashes
    /\ mp_state \in {"not_permitted", "permitted", "loaded"}
    /\ mp_pid \in BOOLEAN /\ mp_proc \in {"none", "alive", "signalled", "zombie"}
    /\ mp_thread \in {"idle", "spawn"} /\ mp_command \in BOOLEAN
    /\ all_edps \in {"none_activated", "none_loaded", "some_loaded", "all_loaded"}
    /\ menu \subseteq Items

\* after the configuration has been read for the first time
Init ==
    /\ HardwareInit /\ file = [r \in Robots |-> "none"]
    /\ edp_state = [r \in Robots |-> IF r \in Active THEN 0 ELSE -1]
    /\ is_synchronised = {} /\ ecp_robot = [r \in Robots |-> NoObject]
    /\ thread = [r \in Robots |-> "none"] /\ com_fun = [r \in Robots |-> "none"]
    /\ mtx = "none" /\ gui = "idle" /\ slaying = "none" /\ slay_queue = {}
    /\ refresh = TRUE /\ unbidden = 0
    /\ mp_state = "not_permitted" /\ mp_pid = FALSE /\ mp_proc = "none"
    /\ mp_thread = "idle" /\ mp_command = FALSE
    /\ all_edps = "none_activated" /\ menu = {}

Loaded == {r \in Robots : edp_state[r] > 0}
-----------------------------------------------------------------------------
\* manage_interface_slot: check_edps_state_and_modify_mp_state and the menus

AllEdps ==
    IF Active = {} THEN "none_activated"
    ELSE IF Active \subseteq Loaded THEN "all_loaded"
    ELSE IF Active \cap Loaded # {} THEN "some_loaded" ELSE "none_loaded"

EdpsReady(all) ==
    \/ all = "none_activated"
    \/ all = "all_loaded" /\ Loaded \subseteq is_synchronised

MpStateKept(all) ==
    IF EdpsReady(all) /\ mp_state = "not_permitted" THEN "permitted" ELSE mp_state

MpStateAfter(all) ==
    IF EdpsReady(all) THEN IF mp_state = "not_permitted" THEN "permitted" ELSE mp_state
    ELSE IF mp_state = "permitted" THEN "not_permitted" ELSE mp_state

RobotItems(r, mp) ==
    IF edp_state[r] < 0 THEN {}
    ELSE IF edp_state[r] = 0 THEN {<<"load", r>>}
    ELSE IF r \in is_synchronised \ Conveyors /\ mp = "loaded" THEN {} ELSE {<<"unload", r>>}

\* manage_interface of an irp6 manipulator enables "unload all" after a loaded MP
\* has disabled it; one is taken to be among the robots
CommonItems(all, mp) ==
    (CASE mp = "not_permitted" -> {} [] mp = "permitted" -> {<<"mp_load">>} [] OTHER -> {<<"mp_unload">>})
    \cup (IF all = "none_loaded" \/ (all = "none_activated" /\ mp # "loaded")
          THEN {<<"configuration">>} ELSE {})
    \cup (IF all \in {"some_loaded", "all_loaded"} THEN {<<"all_unload">>} ELSE {})

ManageInterface ==
    /\ refresh /\ gui = "idle"
    /\ refresh' = FALSE
    /\ all_edps' = AllEdps
    /\ mp_state' = MpStateAfter(AllEdps)
    /\ menu' = CommonItems(AllEdps, mp_state') \cup UNION {RobotItems(r, mp_state') : r \in Robots}
    /\ UNCHANGED <<hardwareVars, robotVars, guiVars, mp_pid, mp_proc, mp_thread, mp_command, unbidden>>
-----------------------------------------------------------------------------
\* the operator: items that were in the menu when it was drawn

Chosen(item) == gui = "idle" /\ slay_queue = {} /\ item \in menu

Free(r) == Patient => (thread[r] \in {"none", "idle"} /\ com_fun[r] = "none")

edp_create(r) ==
    /\ Chosen(<<"load", r>>) /\ Free(r) /\ edp_state[r] = 0
    /\ com_fun' = [com_fun EXCEPT ![r] = "create"]
    /\ thread' = [thread EXCEPT ![r] = IF @ = "none" THEN "idle" ELSE @]
    /\ UNCHANGED <<hardwareVars, edp_state, is_synchronised, ecp_robot, mtx, guiVars,
                   refresh, mpVars, shownVars, unbidden>>

synchronise(r) ==
    /\ gui = "idle" /\ slay_queue = {} /\ Free(r)
    /\ edp_state[r] > 0 /\ r \notin is_synchronised
    /\ com_fun' = [com_fun EXCEPT ![r] = "synchronise"]
    /\ UNCHANGED <<hardwareVars, edp_state, is_synchronised, ecp_robot, thread, mtx, guiVars,
                   refresh, mpVars, shownVars, unbidden>>
-----------------------------------------------------------------------------
\* edp_create_int and synchronise_int, in the thread of the robot

ThreadGoes(r, s) == thread' = [thread EXCEPT ![r] = s]

SynchroniseInt(r) ==
    /\ ThreadGoes(r, "idle") /\ refresh' = TRUE
    /\ is_synchronised' \in
         IF r \in Loaded /\ ecp_robot[r].fd # "none" /\ pstate[ecp_robot[r].fd] = "work"
         THEN {is_synchronised, is_synchronised \cup {r}} ELSE {is_synchronised}

CreateInt(r) ==
    IF edp_state[r] = 0
    THEN /\ ThreadGoes(r, "spawn")
         /\ is_synchronised' = is_synchronised \ {r} /\ UNCHANGED refresh
    ELSE ThreadGoes(r, "idle") /\ refresh' = TRUE /\ UNCHANGED is_synchronised

WaitAndExecute(r) ==
    /\ thread[r] = "idle" /\ com_fun[r] # "none"
    /\ com_fun' = [com_fun EXCEPT ![r] = "none"]
    /\ IF com_fun[r] = "create" THEN CreateInt(r) ELSE SynchroniseInt(r)
    /\ UNCHANGED <<hardwareVars, edp_state, ecp_robot, mtx, guiVars, mpVars, shownVars,
                   unbidden>>

\* check_node_existence finds no node, or else process_spawn starts a process, or
\* fails to; a pid that was waited for is not used again in a session
NoNode(r) ==
    /\ thread[r] = "spawn"
    /\ ThreadGoes(r, "idle") /\ refresh' = TRUE
    /\ UNCHANGED <<hardwareVars, edp_state, is_synchronised, ecp_robot, com_fun, mtx, guiVars,
                   mpVars, shownVars, unbidden>>

ProcessSpawn(r) ==
    /\ thread[r] = "spawn" /\ mtx = "none"
    /\ ThreadGoes(r, "connect") /\ mtx' = r
    /\ \/ \E p \in Pids :
             /\ pstate[p] = "unborn" /\ Spawn(p, r)
             /\ ecp_robot' = [ecp_robot EXCEPT ![r] = [pid |-> p, fd |-> "none"]]
       \/ /\ ecp_robot' = [ecp_robot EXCEPT ![r] = NoObject]
          /\ UNCHANGED hardwareVars
    /\ UNCHANGED <<edp_state, is_synchronised, com_fun, guiVars, refresh, mpVars, shownVars,
                   unbidden>>

\* assumed: CONNECT_RETRY * CONNECT_DELAY is longer than an EDP takes to start
StartIsOver(r) ==
    ecp_robot[r].pid \notin {p \in Pids : pstate[p] \in Running}

StartMayLast(r) == TRUE

RetriesRunOut(r) == StartIsOver(r)

\* the constructor throws: the EDP is neither killed nor waited for
ConnectFails(r) ==
    /\ thread[r] = "connect" /\ port[r] = "none" /\ RetriesRunOut(r)
    /\ ThreadGoes(r, "idle") /\ mtx' = "none" /\ refresh' = TRUE
    /\ ecp_robot' = [ecp_robot EXCEPT ![r] = NoObject]
    /\ UNCHANGED <<hardwareVars, edp_state, is_synchronised, com_fun, guiVars, mpVars,
                   shownVars, unbidden>>

KillForgotten(r) == UNCHANGED hardwareVars

\* kill(EDP_MASTER_Pid): a failed spawn has left -1 there
KillOf(r) ==
    IF ecp_robot[r].pid = "none" THEN SendSignal(Pids) ELSE SendSignal({ecp_robot[r].pid})

delete_ui_ecp_robot(r) == KillOf(r) /\ ecp_robot' = [ecp_robot EXCEPT ![r] = NoObject]

\* connect_to_edp: port_connect finds whoever serves the attach point, also when
\* nothing was spawned
ConnectToEdp(r) ==
    /\ thread[r] = "connect" /\ port[r] # "none"
    /\ ThreadGoes(r, "connected") /\ mtx' = "none"
    /\ ecp_robot' = [ecp_robot EXCEPT ![r].fd = port[r]]
    /\ UNCHANGED <<hardwareVars, edp_state, is_synchronised, com_fun, guiVars, refresh, mpVars,
                   shownVars, unbidden>>

\* state.edp.pid and state.edp.state, when the mutex has been released
SetLoaded(r) ==
    /\ thread[r] = "connected"
    /\ IF ecp_robot[r].pid = "none"
       THEN /\ delete_ui_ecp_robot(r) /\ ThreadGoes(r, "idle") /\ refresh' = TRUE
            /\ mp_proc' = IF mp_proc = "alive" THEN "signalled" ELSE mp_proc
            /\ UNCHANGED edp_state
       ELSE /\ ThreadGoes(r, "state") /\ edp_state' = [edp_state EXCEPT ![r] = 1]
            /\ UNCHANGED <<hardwareVars, ecp_robot, refresh, mp_proc>>
    /\ UNCHANGED <<is_synchronised, com_fun, mtx, guiVars, mp_state, mp_pid, mp_thread,
                   mp_command, shownVars, unbidden>>

\* ui_get_controler_state; an ECP_error leaves everything as it is, and nothing here
\* throws the ECP_main_error for which the connections would be closed
InitialState(r) ==
    /\ thread[r] = "state"
    /\ ThreadGoes(r, "idle") /\ refresh' = TRUE
    /\ is_synchronised' \in IF pstate[ecp_robot[r].fd] = "work"
                            THEN {is_synchronised, is_synchronised \cup {r}} ELSE {is_synchronised}
    /\ UNCHANGED <<hardwareVars, edp_state, ecp_robot, com_fun, mtx, guiVars, mpVars,
                   shownVars, unbidden>>
-----------------------------------------------------------------------------
\* EDP_slay_int, in the thread of the window

CloseEdpConnections(r) ==
    /\ delete_ui_ecp_robot(r)
    /\ edp_state' = [edp_state EXCEPT ![r] = 0]
    /\ is_synchronised' = is_synchronised \ {r}

BeginSlay(r) ==
    /\ thread[r] # "state"
    /\ CloseEdpConnections(r)
    /\ gui' = "wait" /\ slaying' = r
    /\ UNCHANGED <<thread, com_fun, mtx, refresh, mpVars, shownVars, unbidden>>

EDP_slay_int(r) ==
    /\ Chosen(<<"unload", r>>) /\ Free(r) /\ edp_state[r] > 0
    /\ BeginSlay(r) /\ UNCHANGED slay_queue

EDP_all_robots_slay ==
    /\ Chosen(<<"all_unload">>) /\ \A r \in Robots : Free(r)
    /\ slay_queue' = Robots
    /\ UNCHANGED <<hardwareVars, robotVars, gui, slaying, refresh, mpVars, shownVars, unbidden>>

SlayNext(r) ==
    /\ gui = "idle" /\ r \in slay_queue
    /\ slay_queue' = slay_queue \ {r}
    /\ \/ (edp_state[r] > 0) /\ BeginSlay(r)
       \/ /\ edp_state[r] <= 0 /\ refresh' = TRUE
          /\ UNCHANGED <<hardwareVars, robotVars, gui, slaying, mpVars, shownVars, unbidden>>

\* wait_for_child_termiantion(-1) takes any child; SlayReturns says there is one
WaitForChild ==
    /\ gui = "wait" /\ gui' = "join"
    /\ \/ (\E p \in Pids : Reap(p)) /\ UNCHANGED mp_proc
       \/ mp_proc = "zombie" /\ mp_proc' = "none" /\ UNCHANGED hardwareVars
    /\ UNCHANGED <<robotVars, slaying, slay_queue, refresh, mp_state, mp_pid, mp_thread, mp_command,
                   shownVars, unbidden>>

\* abort_thread: the thread is interrupted when it waits for a command
AbortThread ==
    /\ gui = "join" /\ thread[slaying] = "idle" /\ com_fun[slaying] = "none"
    /\ ThreadGoes(slaying, "none")
    /\ gui' = "idle" /\ slaying' = "none" /\ refresh' = TRUE
    /\ UNCHANGED <<hardwareVars, edp_state, is_synchronised, ecp_robot, com_fun, mtx, slay_queue,
                   mpVars, shownVars, unbidden>>
-----------------------------------------------------------------------------
\* the MP: MPup hands MPup_int to main_eb, MPslay runs in the window's thread

MPup ==
    /\ Chosen(<<"mp_load">>) /\ mp_command' = TRUE
    /\ UNCHANGED <<hardwareVars, robotVars, guiVars, refresh, mp_state, mp_pid, mp_proc, mp_thread,
                   shownVars, unbidden>>

MPup_int ==
    /\ mp_thread = "idle" /\ mp_command /\ mtx = "none"
    /\ mp_command' = FALSE
    /\ mp_thread' \in IF mp_pid THEN {"idle"} ELSE {"idle", "spawn"}
    /\ UNCHANGED <<hardwareVars, robotVars, guiVars, refresh, mp_state, mp_pid, mp_proc, shownVars, unbidden>>

SpawnMp ==
    /\ mp_thread = "spawn" /\ mp_thread' = "idle" /\ refresh' = TRUE
    /\ \/ mp_proc' = "alive" /\ mp_pid' = TRUE /\ mp_state' = "loaded"
       \/ UNCHANGED <<mp_proc, mp_pid, mp_state>>
    /\ UNCHANGED <<hardwareVars, robotVars, guiVars, mp_command, shownVars, unbidden>>

MPslay ==
    /\ Chosen(<<"mp_unload">>) /\ mp_pid
    /\ \/ /\ mp_proc = "none" /\ mp_pid' = FALSE /\ mp_state' = "permitted" /\ refresh' = TRUE
          /\ UNCHANGED <<mp_proc, gui>>
       \/ /\ mp_proc # "none" /\ gui' = "wait_mp"
          /\ mp_proc' = IF mp_proc = "alive" THEN "signalled" ELSE mp_proc
          /\ UNCHANGED <<mp_pid, mp_state, refresh>>
    /\ UNCHANGED <<hardwareVars, robotVars, slaying, slay_queue, mp_thread, mp_command, shownVars, unbidden>>

MpEnded ==
    /\ gui = "wait_mp" /\ mp_proc = "zombie" /\ mp_proc' = "none"
    /\ mp_pid' = FALSE /\ mp_state' = "permitted" /\ gui' = "idle" /\ refresh' = TRUE
    /\ UNCHANGED <<hardwareVars, robotVars, slaying, slay_queue, mp_thread, mp_command, shownVars, unbidden>>
-----------------------------------------------------------------------------
\* the children

notHardware == <<robotVars, guiVars, refresh, mpVars, shownVars>>

Edp(p) == EdpStep(p) /\ UNCHANGED <<notHardware, unbidden>>

EdpEndsUnbidden(p) ==
    /\ unbidden < Crashes /\ (RuntimeError(p) \/ DetectFails(p) \/ Crash(p))
    /\ unbidden' = unbidden + 1 /\ UNCHANGED notHardware

MpEnds ==
    /\ \/ mp_proc = "signalled" /\ UNCHANGED unbidden
       \/ unbidden < Crashes /\ mp_proc = "alive" /\ unbidden' = unbidden + 1
    /\ mp_proc' = "zombie"
    /\ UNCHANGED <<hardwareVars, robotVars, guiVars, refresh, mp_state, mp_pid, mp_thread, mp_command,
                   shownVars>>

RobotThread(r) ==
    \/ WaitAndExecute(r) \/ NoNode(r) \/ ProcessSpawn(r) \/ ConnectToEdp(r) \/ ConnectFails(r)
    \/ SetLoaded(r) \/ InitialState(r)

WindowGoesOn == ManageInterface \/ WaitForChild \/ AbortThread \/ MpEnded \/ (\E r \in Robots : SlayNext(r))

Operator ==
    \/ \E r \in Robots : edp_create(r) \/ synchronise(r) \/ EDP_slay_int(r)
    \/ EDP_all_robots_slay \/ MPup \/ MPslay

MpThread == MPup_int \/ SpawnMp

Next ==
    \/ \E p \in Pids : Edp(p) \/ EdpEndsUnbidden(p)
    \/ \E r \in Robots : RobotThread(r)
    \/ WindowGoesOn \/ Operator \/ MpThread \/ MpEnds

Spec == Init /\ [][Next]_vars
-----------------------------------------------------------------------------
\* An unloading ends: although waitpid takes any child, and may have taken the
\* one that is being unloaded for another, one that has ended or is about to is
\* left whenever the thread of the window waits, so that it never waits for ever.
Ending(p) == pstate[p] \in Closing \cup {"zombie"} \/ p \in signalled

SlayReturns ==
    /\ gui = "wait" => \/ \E p \in Pids : Ending(p)
                       \/ mp_proc \in {"signalled", "zombie"}
    /\ gui = "wait_mp" => mp_proc \in {"signalled", "zombie"}

\* As long as no child has ended unbidden, a loaded
\* robot is connected to the EDP that was started for it, and that EDP is the
\* one that has the hardware (whatever the order of loads and unloads).
ConnectedToOwn ==
    unbidden = 0 => \A r \in Loaded :
        /\ ecp_robot[r].fd = ecp_robot[r].pid
        /\ pstate[ecp_robot[r].pid] = "work" /\ prog[ecp_robot[r].pid] = r

\* state 1 of a robot is "edp wlaczone" (the EDP is on): the process that was
\* started for a loaded robot has not been refused and not ended.
EdpIsOn == \A r \in Loaded : pstate[ecp_robot[r].pid] \in Running

\* When nothing is under way, the MP may be loaded only if every active robot
\* is loaded and synchronised ("pozwol na uruchomienie mp"): every change of a
\* robot in its thread is followed by a new derivation of mp.state.
PermissionFollowsEdps ==
    /\ ~refresh /\ gui = "idle" /\ mp_state = "permitted"
    /\ \A r \in Robots : thread[r] \in {"none", "idle"}
    => Active \subseteq Loaded \cap is_synchronised
=============================================================================
