---------------------------- MODULE ForceSensor ----------------------------
(***************************************************************************)
(* The force sensor thread of a manipulator's EDP (edp_force_sensor.cc)    *)
(* and the two threads that give it orders through one slot, command and   *)
(* new_edp_command under mtx (edp_e_manip.cc): the master, which waits on  *)
(* new_command_synchroniser for each of its orders, and the servo thread,  *)
(* which orders one configuration after the synchronisation of the robot   *)
(* and waits for nothing.  Whoever comes second overwrites the slot.       *)
(*                                                                         *)
(* An order that throws stays in the slot and is tried again.  The master  *)
(* creates the thread, and goes on when it has made its first round.       *)
(***************************************************************************)
EXTENDS FiniteSets

CONSTANTS
    Tools,       \* definitions of a force tool: the position and the weight
    NoTool,      \* force_tool fields that nothing has been written to yet
    ErrorSites   \* where the driver of a particular sensor throws sensor_error

ASSUME ToolAssumption == NoTool \notin Tools
ASSUME SiteAssumption == ErrorSites \subseteq {"connect", "configure", "reading"}

VARIABLES
    force,                   \* where the sensor thread is
    master,                  \* "create", "idle" or "wait"
    synchronised,            \* is_synchronised() of the effector
    post_synchro,            \* force_sensor_post_synchro_configuration
    command, new_edp_command, next_force_tool,
    current_force_tool,
    has_command,             \* of new_command_synchroniser
    round_made,              \* has_command of edp_vsp_synchroniser
    is_sensor_configured, gravity_transformation,
    \* history
    measured,                \* get_reading has returned; is_reading_ready itself is set
                             \* before the driver may throw, and read by nobody
    pending,                 \* orders given that the slot still stands for
    dropped,                 \* orders overwritten before they were executed
    asked                    \* the tool of the master's last tool order

slotVars    == <<command, new_edp_command, next_force_tool>>
sensorVars  == <<is_sensor_configured, gravity_transformation, measured>>
historyVars == <<pending, dropped, asked>>
vars == <<force, master, synchronised, post_synchro, slotVars, current_force_tool,
          has_command, round_made, sensorVars, historyVars>>

\* "tool" and "bias" are the master's orders, "post" is the servo thread's
Orders == {"tool", "bias", "post"}

TypeOK ==
    /\ force \in {"connect", "configure", "check", "lock", "execute", "finish",
                  "reading", "exited"}
    /\ master \in {"create", "idle", "wait"}
    /\ synchronised \in BOOLEAN /\ post_synchro \in BOOLEAN
    /\ command \in {"FORCE_SET_TOOL", "FORCE_CONFIGURE"}
    /\ new_edp_command \in BOOLEAN
    /\ next_force_tool \in Tools \cup {NoTool}
    /\ current_force_tool \in Tools \cup {NoTool}
    /\ has_command \in BOOLEAN /\ round_made \in BOOLEAN
    /\ is_sensor_configured \in BOOLEAN /\ gravity_transformation \in BOOLEAN
    /\ measured \in BOOLEAN
    /\ pending \subseteq Orders /\ dropped \subseteq Orders
    /\ asked \in Tools \cup {NoTool}

\* command is not initialised by the code, and is not read before it is written
Init ==
    /\ force = "connect" /\ master = "create"
    /\ synchronised \in BOOLEAN /\ post_synchro = FALSE
    /\ command = "FORCE_CONFIGURE" /\ new_edp_command = FALSE
    /\ next_force_tool = NoTool /\ current_force_tool = NoTool
    /\ has_command = FALSE /\ round_made = FALSE
    /\ is_sensor_configured = FALSE /\ gravity_transformation = FALSE
    /\ measured = FALSE
    /\ pending = {} /\ dropped = {} /\ asked = NoTool
-----------------------------------------------------------------------------
(***************************************************************************)
(* The sensor thread.  It holds mtx at "execute" and at "finish" only, and *)
(* the other two hold it for the whole of one of their actions.            *)
(***************************************************************************)
Locked == force \in {"execute", "finish"}

threadOnly == <<master, synchronised, post_synchro, slotVars, historyVars>>

\* A runtime_error at the start closes the process; sensor_error skips the rest
\* of the start and lets the thread run.
Connect ==
    /\ force = "connect"
    /\ \/ force' = "configure"
       \/ force' = "exited"
       \/ "connect" \in ErrorSites /\ force' = "check"
    /\ UNCHANGED <<threadOnly, current_force_tool, has_command, round_made, sensorVars>>

\* configure_sensor claims the configuration before the driver has made it
StartConfigure ==
    /\ force = "configure"
    /\ is_sensor_configured' = TRUE
    /\ \/ force' = "check" /\ gravity_transformation' = TRUE
       \/ force' = "exited" /\ UNCHANGED gravity_transformation
       \/ "configure" \in ErrorSites /\ force' = "check" /\ UNCHANGED gravity_transformation
    /\ UNCHANGED <<threadOnly, current_force_tool, has_command, round_made, measured>>

\* new_edp_command is read without the lock
CheckCommand ==
    /\ force = "check"
    /\ force' = IF new_edp_command THEN "lock" ELSE "reading"
    /\ UNCHANGED <<threadOnly, current_force_tool, has_command, round_made, sensorVars>>

LockCommand ==
    /\ force = "lock"
    /\ force' = "execute"
    /\ UNCHANGED <<threadOnly, current_force_tool, has_command, round_made, sensorVars>>

CopiedToolOld == current_force_tool
CopiedTool == next_force_tool

\* without gravity_transformation the call through NULL ends the process
SetForceTool ==
    /\ force = "execute" /\ command = "FORCE_SET_TOOL"
    /\ IF gravity_transformation
       THEN force' = "finish" /\ current_force_tool' = CopiedTool
       ELSE force' = "exited" /\ UNCHANGED current_force_tool
    /\ UNCHANGED <<threadOnly, has_command, round_made, sensorVars>>

ConfigureSensor ==
    /\ force = "execute" /\ command = "FORCE_CONFIGURE"
    /\ force' = "finish"
    /\ is_sensor_configured' = TRUE /\ gravity_transformation' = TRUE
    /\ UNCHANGED <<threadOnly, current_force_tool, has_command, round_made, measured>>

OrderForgotten == new_edp_command' = FALSE
OrderStays == UNCHANGED new_edp_command

\* the exception unlocks mtx, and the order stays
ConfigureThrows ==
    /\ force = "execute" /\ command = "FORCE_CONFIGURE" /\ "configure" \in ErrorSites
    /\ force' = "check" /\ is_sensor_configured' = TRUE
    /\ OrderStays
    /\ UNCHANGED <<master, synchronised, post_synchro, command, next_force_tool,
                   current_force_tool, has_command, round_made, gravity_transformation,
                   measured, historyVars>>

AfterRound == "check"

\* set_command_execution_finish, the unlocking and the end of the round
FinishCommand ==
    /\ force = "finish"
    /\ new_edp_command' = FALSE /\ has_command' = TRUE /\ round_made' = TRUE
    /\ pending' = {}
    /\ force' = AfterRound
    /\ UNCHANGED <<master, synchronised, post_synchro, command, next_force_tool,
                   current_force_tool, sensorVars, dropped, asked>>

RoundOfOrdersOnly == UNCHANGED round_made
RoundOfReading == round_made' = TRUE

ReadSensor ==
    /\ force = "reading" /\ is_sensor_configured
    /\ force' = "check"
    /\ measured' = TRUE /\ RoundOfReading
    /\ UNCHANGED <<threadOnly, current_force_tool, has_command, is_sensor_configured,
                   gravity_transformation>>

RoundSkipped == UNCHANGED round_made

\* either wait_for_event throws, or get_reading of a sensor that is not configured
ReadThrows ==
    /\ force = "reading"
    /\ "reading" \in ErrorSites \/ ~is_sensor_configured
    /\ force' = "check" /\ RoundSkipped
    /\ UNCHANGED <<threadOnly, current_force_tool, has_command, sensorVars>>
-----------------------------------------------------------------------------
(***************************************************************************)
(* The master: create_threads, and set_robot_model for the types           *)
(* FORCE_TOOL and FORCE_BIAS.                                              *)
(***************************************************************************)
Alive == force # "exited"

masterOnly == <<force, post_synchro, current_force_tool, sensorVars>>

ThreadCreated ==
    /\ Alive /\ master = "create" /\ round_made
    /\ round_made' = FALSE /\ master' = "idle"
    /\ UNCHANGED <<masterOnly, synchronised, slotVars, has_command, historyVars>>

null_command_missing == UNCHANGED has_command
null_command == has_command' = FALSE

\* what both orders do to the slot under mtx
GiveOrder(cmd) ==
    /\ Alive /\ master = "idle" /\ ~Locked
    /\ null_command
    /\ command' = cmd /\ new_edp_command' = TRUE
    /\ master' = "wait"
    /\ UNCHANGED <<masterOnly, synchronised, round_made>>

OrderTool(t) ==
    /\ GiveOrder("FORCE_SET_TOOL")
    /\ next_force_tool' = t /\ asked' = t
    /\ pending' = {"tool"}
    /\ dropped' = (dropped \ {"tool"}) \cup pending

\* a configuration that is pending already serves both
OrderBias ==
    /\ GiveOrder("FORCE_CONFIGURE")
    /\ pending' = pending \cup {"bias"}
    /\ UNCHANGED <<next_force_tool, asked, dropped>>

OrderReturns ==
    /\ Alive /\ master = "wait" /\ has_command
    /\ has_command' = FALSE /\ master' = "idle"
    /\ UNCHANGED <<masterOnly, synchronised, slotVars, round_made, historyVars>>

\* the synchronisation of the robot, an instruction of its own
Synchronise ==
    /\ Alive /\ master = "idle" /\ ~synchronised
    /\ synchronised' = TRUE
    /\ UNCHANGED <<masterOnly, master, slotVars, has_command, round_made, historyVars>>
-----------------------------------------------------------------------------
(***************************************************************************)
(* The servo thread, in compute_servo_joints_and_frame.  It is created     *)
(* after the sensor thread has made its first round.                       *)
(***************************************************************************)
OnlyOnce == ~post_synchro

PostSynchro ==
    /\ Alive /\ master # "create" /\ ~Locked
    /\ synchronised /\ OnlyOnce
    /\ post_synchro' = TRUE
    /\ command' = "FORCE_CONFIGURE" /\ new_edp_command' = TRUE
    /\ pending' = (pending \ {"tool"}) \cup {"post"}
    /\ dropped' = dropped \cup (pending \cap {"tool"})
    /\ UNCHANGED <<force, master, synchronised, next_force_tool, current_force_tool,
                   has_command, round_made, sensorVars, asked>>
-----------------------------------------------------------------------------
SensorThread ==
    \/ Connect \/ StartConfigure \/ CheckCommand \/ LockCommand
    \/ SetForceTool \/ ConfigureSensor \/ ConfigureThrows \/ FinishCommand
    \/ ReadSensor \/ ReadThrows

Master ==
    \/ ThreadCreated \/ OrderBias \/ OrderReturns \/ Synchronise
    \/ \E t \in Tools : OrderTool(t)

Next == SensorThread \/ Master \/ PostSynchro

Spec == Init /\ [][Next]_vars

\* The sensor thread runs, and its driver does not fail for ever; a master that
\* has been released goes on.  Nobody has to give an order.
FairSpec ==
    /\ Spec
    /\ WF_vars(SensorThread)
    /\ SF_vars(ConfigureSensor) /\ SF_vars(ReadSensor)
    /\ WF_vars(ThreadCreated) /\ WF_vars(OrderReturns)
-----------------------------------------------------------------------------
\* A master that goes on after an order has no order of its own in the slot: the
\* command() that the servo thread's order leaves in new_command_synchroniser
\* releases nobody too early (edp_e_manip.cc 534, edp_force_sensor.cc 314).
ReleasedByOwnOrder == master = "idle" => pending \subseteq {"post"}

\* get_robot_model reads the current tool without mtx (edp_e_manip.cc 604); it
\* never meets the thread writing it, since the only reader waits meanwhile.
ToolWrittenAlone ==
    Locked /\ command = "FORCE_SET_TOOL" => master = "wait"

\* After a tool order has returned, the tool is the one that was asked for,
\* unless the servo thread's configuration has overwritten the order.
ToolHonoured ==
    master = "idle" /\ asked # NoTool =>
        current_force_tool = asked \/ "tool" \in dropped

\* The constructor of the effector goes on when a measurement has been made
\* (edp_irp6ot_m_effector.cc 63), not when the thread only runs.
FirstReadingMade == master # "create" => measured

\* Only the order given once after the synchronisation overwrites a tool order:
\* later ones are safe.
SafeAfterPostSynchro ==
    [][post_synchro /\ "tool" \in dropped' => "tool" \in dropped]_vars

\* Every order that is not overwritten is carried out in the end, however often
\* the driver throws (the flag is cleared only after the execution).
OrdersEnd == \A o \in Orders : o \in pending ~> (o \notin pending \/ ~Alive)

\* The creation of the effector ends, unless the connection has thrown
\* sensor_error: no reading then ever succeeds, and nobody can order a configuration.
StartEnds ==
    master = "create" /\ is_sensor_configured ~> (master # "create" \/ ~Alive)
=============================================================================
