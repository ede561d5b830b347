----------------------------- MODULE ServoGroup -----------------------------
(***************************************************************************)
(* The servo thread of an EDP process (base/edp/servo_gr.cc) and the one   *)
(* client it has, the thread that executes instructions for EDP_MASTER     *)
(* (base/edp/edp_e_motor_driven.cc).                                       *)
(*                                                                         *)
(* The client fills servo_command, raises servo_command_rdy and blocks in  *)
(* send_to_SERVO_GROUP until sg_reply_rdy.  The servo thread polls the     *)
(* flag once per servo period; in between it makes passive steps that keep *)
(* the arm still.  A macro step of n steps is answered after step r of it, *)
(* so the client goes on while the arm still moves; a fault found when     *)
(* nobody waits is kept in reply_status for the next command.              *)
(*                                                                         *)
(* Positions are abstracted to lag, the distance between the position the  *)
(* client believes it has commanded (desired_motor_pos_old) and the one    *)
(* the servo has been driven to, a macro step being one unit per step.     *)
(* Error words are the sets of their bits, so that | is \cup.              *)
(***************************************************************************)
EXTENDS Integers

CONSTANTS NumServos,    \* number of axes, synchronised one after another
          MaxSteps,     \* bound on number_of_steps of a macro step
          StopSteps,    \* SYNCHRO_STOP_STEP_NUMBER
          MaxLag        \* bound on the distance lag, for model checking

ASSUME ServoAssumption ==
    /\ NumServos \in Nat \ {0}
    /\ MaxSteps \in Nat \ {0}
    /\ StopSteps \in Nat \ {0}
    /\ MaxLag \in Nat

VARIABLES
    robot_test_mode,       \* configuration, fixed when the process starts
    \* the client thread
    mpc,                   \* "idle", "sent" (blocked) or "reading" the reply
    op,                    \* the operation that sent the command
    loop,                  \* "pre", "synchro" or "post": the master loop running
    is_synchronised,       \* controller_state_edp_buf.is_synchronised
    lag,                   \* desired_motor_pos_old minus the driven position
    \* shared
    servo_command, servo_command_rdy, sg_reply, sg_reply_rdy,
    \* the servo thread
    spc,                   \* where operator() is
    command, step, axis, send_after_last_step, reply_status,
    \* history
    zeroed,                \* axes whose encoder zero has been found
    unreported,            \* a fault was found and no reply has carried an error since
    faulted                \* the client saw an error since it last read the position

masterVars == <<mpc, op, loop, is_synchronised>>
servoVars  == <<spc, command, step, axis, send_after_last_step, reply_status>>
vars == <<robot_test_mode, masterVars, lag, servo_command, servo_command_rdy,
          sg_reply, sg_reply_rdy, servoVars, zeroed, unreported, faulted>>
-----------------------------------------------------------------------------
(***************************************************************************)
(* Error words: bits 50, 51 and 52 of error0 say where the fault was       *)
(* found; "drive" stands for the bits of the drives and regulators.        *)
(***************************************************************************)
SERVO_ERROR_IN_PASSIVE_LOOP == {"b50"}
SERVO_ERROR_IN_PHASE_1      == {"b50", "b51"}
SERVO_ERROR_IN_PHASE_2      == {"b52"}
SYNCHRO_SWITCH_EXPECTED     == {"b50", "b52"}
SYNCHRO_ERROR               == {"b51", "b52"}
SYNCHRO_DELAY_ERROR         == {"b50", "b51", "b52"}
DriveFault == {"drive"}
OK         == {}
ErrorWord  == SUBSET {"drive", "b50", "b51", "b52"}

Axes == 1..NumServos

\* edp_master_command; n and r are number_of_steps and return_value_in_step_no
MoveCommand(n, r) == [code |-> "MOVE", n |-> n, r |-> r]
PlainCommand(c)   == [code |-> c, n |-> 0, r |-> 0]
PlainCodes   == {"READ", "SYNCHRONISE", "SERVO_ALGORITHM_AND_PARAMETERS"}
MoveCommands == [code : {"MOVE"}, n : 1..MaxSteps, r : 0..(MaxSteps + 1)]
Commands     == MoveCommands \cup [code : PlainCodes, n : {0}, r : {0}]

Replies == [error : ErrorWord, of : Commands, done : 0..MaxSteps]

\* what a step of the synchronised axis can find (LOWER_LIMIT_SWITCH, ... are FAULT)
AxisReading == {"ALL_RIGHT", "SYNCHRO_ZERO", "SWITCH_ON", "SWITCH_ON_AND_ZERO", "FAULT"}

MasterOps  == {"none", "get_controller_state", "read_hardware", "move_servos",
               "set_servo_algorithm", "synchronise", "synchronise_read"}
ServoPlaces == {"loop", "passive", "step", "area", "stop", "leave", "zero", "final", "MOVE"}
                 \cup PlainCodes

TypeOK ==
    /\ robot_test_mode \in BOOLEAN
    /\ mpc \in {"idle", "sent", "reading"}
    /\ op \in MasterOps
    /\ loop \in {"pre", "synchro", "post"}
    /\ is_synchronised \in BOOLEAN
    /\ lag \in Int
    /\ servo_command \in Commands
    /\ servo_command_rdy \in BOOLEAN
    /\ sg_reply \in Replies
    /\ sg_reply_rdy \in BOOLEAN
    /\ spc \in ServoPlaces
    /\ command \in Commands
    /\ step \in Nat
    /\ axis \in Axes
    /\ send_after_last_step \in BOOLEAN
    /\ reply_status \in ErrorWord
    /\ zeroed \in SUBSET Axes
    /\ unreported \in BOOLEAN
    /\ faulted \in BOOLEAN

Init ==
    /\ robot_test_mode \in BOOLEAN
    /\ mpc = "idle" /\ op = "none" /\ loop = "pre"
    /\ is_synchronised = FALSE
    /\ lag = 0
    /\ servo_command = PlainCommand("READ") /\ servo_command_rdy = FALSE
    /\ sg_reply = [error |-> OK, of |-> PlainCommand("READ"), done |-> 0]
    /\ sg_reply_rdy = FALSE
    /\ spc = "loop" /\ command = PlainCommand("READ") /\ step = 0 /\ axis = 1
    /\ send_after_last_step = FALSE
    /\ reply_status = OK
    /\ zeroed = {}
    /\ unreported = FALSE
    /\ faulted = FALSE
-----------------------------------------------------------------------------
(***************************************************************************)
(* The client.  send_to_SERVO_GROUP is split where it blocks: Send raises  *)
(* the flag, TakeReply wakes up and clears sg_reply_rdy, and the operators *)
(* Returns* read sg_reply, which happens outside sg_reply_mtx.             *)
(***************************************************************************)
Send(o, c) ==
    /\ op' = o
    /\ servo_command' = c
    /\ servo_command_rdy' = TRUE
    /\ mpc' = "sent"

clientIdle == <<robot_test_mode, sg_reply, sg_reply_rdy, servoVars, zeroed, unreported>>

GetControllerState ==
    /\ mpc = "idle" /\ loop \in {"pre", "post"}
    /\ Send("get_controller_state", PlainCommand("READ"))
    /\ UNCHANGED <<clientIdle, loop, is_synchronised, lag, faulted>>

\* get_arm_position_read_hardware_sb and get_algorithms
ReadHardware ==
    /\ mpc = "idle" /\ loop = "post"
    /\ Send("read_hardware", PlainCommand("READ"))
    /\ UNCHANGED <<clientIdle, loop, is_synchronised, lag, faulted>>

\* desired_motor_pos_old becomes desired_motor_pos_new before the command is sent
MoveServos(n, r) ==
    /\ mpc = "idle" /\ loop \in {"synchro", "post"}
    /\ lag + n <= MaxLag
    /\ lag' = lag + n
    /\ Send("move_servos", MoveCommand(n, r))
    /\ UNCHANGED <<clientIdle, loop, is_synchronised, faulted>>

SetServoAlgorithm ==
    /\ mpc = "idle" /\ loop = "post"
    /\ Send("set_servo_algorithm", PlainCommand("SERVO_ALGORITHM_AND_PARAMETERS"))
    /\ UNCHANGED <<clientIdle, loop, is_synchronised, lag, faulted>>

Synchronise ==
    /\ mpc = "idle" /\ loop = "synchro"
    /\ Send("synchronise", PlainCommand("SYNCHRONISE"))
    /\ UNCHANGED <<clientIdle, loop, is_synchronised, lag, faulted>>

TakeReply ==
    /\ mpc = "sent" /\ sg_reply_rdy
    /\ sg_reply_rdy' = FALSE
    /\ mpc' = "reading"
    /\ UNCHANGED <<robot_test_mode, op, loop, is_synchronised, lag, servo_command,
                   servo_command_rdy, sg_reply, servoVars, zeroed, unreported, faulted>>

\* the loop that reads the next instruction: pre_synchro_loop is left after a
\* controller state, synchro_loop after a complete synchronisation
NextLoop == CASE loop = "pre" -> {"pre", "synchro"}
              [] op = "synchronise_read" /\ sg_reply.error = OK -> {"post"}
              [] OTHER -> {loop}

\* Fatal_error is thrown: nothing is copied back
ReturnsError ==
    /\ mpc = "reading" /\ sg_reply.error # OK
    /\ mpc' = "idle" /\ op' = "none"
    /\ faulted' = TRUE
    /\ loop' \in NextLoop
    /\ UNCHANGED <<clientIdle, is_synchronised, lag, servo_command, servo_command_rdy>>

\* current_motor_pos is copied; get_controller_state and synchronise also make
\* it the desired position.  In robot_test_mode the position read back is replaced
\* by the desired one, so that nothing is learnt
ReturnsOk ==
    /\ mpc = "reading" /\ sg_reply.error = OK /\ op # "synchronise"
    /\ mpc' = "idle" /\ op' = "none"
    /\ IF op \in {"get_controller_state", "synchronise_read"} /\ ~robot_test_mode
         THEN lag' = 0 /\ faulted' = FALSE
         ELSE UNCHANGED <<lag, faulted>>
    /\ loop' \in NextLoop
    /\ UNCHANGED <<clientIdle, is_synchronised, servo_command, servo_command_rdy>>

\* synchronise(): the flag is set between its two commands
SynchroniseReads ==
    /\ mpc = "reading" /\ sg_reply.error = OK /\ op = "synchronise"
    /\ is_synchronised' = TRUE
    /\ Send("synchronise_read", PlainCommand("READ"))
    /\ UNCHANGED <<clientIdle, loop, lag, faulted>>

Client ==
    \/ GetControllerState \/ ReadHardware \/ SetServoAlgorithm \/ Synchronise
    \/ \E n \in 1..MaxSteps, r \in 0..(MaxSteps + 1) : MoveServos(n, r)
    \/ TakeReply \/ ReturnsError \/ ReturnsOk \/ SynchroniseReads
-----------------------------------------------------------------------------
(***************************************************************************)
(* The servo thread.  reply_to_EDP_MASTER publishes the reply and forgets  *)
(* the pending error and the promise to answer after the last step.        *)
(***************************************************************************)
ReplyToEdpMaster(error, cmd, done, found) ==
    /\ sg_reply' = [error |-> error, of |-> cmd, done |-> done]
    /\ sg_reply_rdy' = TRUE
    /\ reply_status' = OK
    /\ send_after_last_step' = FALSE
    /\ unreported' = ((unreported \/ found) /\ error = OK)

KeepReply == UNCHANGED <<sg_reply, sg_reply_rdy>>

\* mutants are kept beside the definition they replace, marked "mutant:"
\* mutant: the refusal does not carry the pending error
RefusalErrorDropped == OK

\* what a refused command is answered
RefusalError == reply_status \cup SERVO_ERROR_IN_PASSIVE_LOOP

\* mutant: a quiet passive step clears the pending error
PassiveStatusReset(fault) == IF fault THEN DriveFault \cup SERVO_ERROR_IN_PASSIVE_LOOP ELSE OK

\* the pending error after a passive step
PassiveStatus(fault) == IF fault THEN DriveFault \cup SERVO_ERROR_IN_PASSIVE_LOOP
                                 ELSE reply_status

\* mutant: off by one, r = n + 1 promises no answer
DueAfterLastLate(n, r) == r > n + 1

\* the answer to a macro step of n steps is due after a passive step
DueAfterLast(n, r) == r > n

\* mutant: steps counted from 1
DueAfterStepLate(s, r) == r > 0 /\ s = r

\* the answer is due after step s of the macro step, counted from 0
DueAfterStep(s, r) == r > 0 /\ s = r - 1

\* mutant: off by one, the first step of phase 2 is taken for phase 1
InPhase2Late(s, r) == s > r

\* a fault in step s comes after the answer
InPhase2(s, r) == s > r - 1

\* mutant: one axis too few
LastAxisEarly(k) == k >= NumServos - 1

\* synchronisation ends with axis k
LastAxis(k) == k = NumServos

servoOnly == <<robot_test_mode, masterVars, servo_command, faulted>>

\* get_command: nothing was sent, a passive step follows
NoCommand ==
    /\ spc = "loop" /\ ~servo_command_rdy
    /\ spc' = "passive"
    /\ KeepReply
    /\ UNCHANGED <<servoOnly, lag, servo_command_rdy, command, step, axis,
                   send_after_last_step, reply_status, zeroed, unreported>>

\* get_command: the command is dropped, it only fetches the pending error
RefuseCommand ==
    /\ spc = "loop" /\ servo_command_rdy /\ reply_status # OK
    /\ command' = servo_command
    /\ servo_command_rdy' = FALSE
    /\ ReplyToEdpMaster(RefusalError, servo_command, 0, FALSE)
    /\ spc' = "passive"
    /\ UNCHANGED <<servoOnly, lag, step, axis, zeroed>>

AcceptCommand ==
    /\ spc = "loop" /\ servo_command_rdy /\ reply_status = OK
    /\ command' = servo_command
    /\ servo_command_rdy' = FALSE
    /\ spc' = servo_command.code
    /\ KeepReply
    /\ UNCHANGED <<servoOnly, lag, step, axis, send_after_last_step, reply_status,
                   zeroed, unreported>>

\* Move_passive: the arm is held; a move with r > n is answered here
MovePassive(fault) ==
    /\ spc = "passive"
    /\ spc' = "loop"
    /\ step' = 0
    /\ IF send_after_last_step
         THEN ReplyToEdpMaster(PassiveStatus(fault), command, command.n, fault)
         ELSE /\ reply_status' = PassiveStatus(fault)
              /\ unreported' = (unreported \/ fault)
              /\ KeepReply
              /\ UNCHANGED send_after_last_step
    /\ UNCHANGED <<servoOnly, lag, servo_command_rdy, command, axis, zeroed>>

\* Read and Change_algorithm
AnswerAtOnce ==
    /\ spc \in {"READ", "SERVO_ALGORITHM_AND_PARAMETERS"}
    /\ spc' = "loop"
    /\ ReplyToEdpMaster(reply_status, command, 0, FALSE)
    /\ UNCHANGED <<servoOnly, lag, servo_command_rdy, command, step, axis, zeroed>>

\* Move up to its loop; with r = 0 the answer precedes the first step
MoveBegin ==
    /\ spc = "MOVE"
    /\ spc' = "step"
    /\ step' = 0
    /\ IF command.r = 0
         THEN ReplyToEdpMaster(reply_status, command, 0, FALSE)
         ELSE /\ send_after_last_step' = DueAfterLast(command.n, command.r)
              /\ KeepReply
              /\ UNCHANGED <<reply_status, unreported>>
    /\ UNCHANGED <<servoOnly, lag, servo_command_rdy, command, axis, zeroed>>

MoveStepDone ==
    /\ spc = "step"
    /\ lag' = lag - 1
    /\ step' = step + 1
    /\ spc' = IF step + 1 < command.n THEN "step" ELSE "loop"
    /\ IF DueAfterStep(step, command.r)
         THEN ReplyToEdpMaster(reply_status, command, step + 1, FALSE)
         ELSE KeepReply /\ UNCHANGED <<send_after_last_step, reply_status, unreported>>
    /\ UNCHANGED <<servoOnly, servo_command_rdy, command, axis, zeroed>>

\* the step may have been made or not when the drives report a fault
MoveStepFails ==
    /\ spc = "step"
    /\ lag' \in {lag, lag - 1}
    /\ spc' = "loop"
    /\ IF InPhase2(step, command.r)
         THEN /\ reply_status' = DriveFault \cup SERVO_ERROR_IN_PHASE_2
              /\ unreported' = TRUE
              /\ KeepReply
              /\ UNCHANGED send_after_last_step
         ELSE ReplyToEdpMaster(DriveFault \cup SERVO_ERROR_IN_PHASE_1, command, step, TRUE)
    /\ UNCHANGED <<servoOnly, servo_command_rdy, command, step, axis, zeroed>>
-----------------------------------------------------------------------------
(***************************************************************************)
(* synchronise: every axis in turn is driven onto its switch ("area"),     *)
(* held there ("stop"), driven off it ("leave") and on to the encoder zero *)
(* ("zero").  A reading that repeats a loop changes nothing and is not a   *)
(* step here; the speed ramps are left out.                                *)
(***************************************************************************)
quietSync == <<servoOnly, lag, servo_command_rdy, command>>

SyncReplies(error) ==
    /\ ReplyToEdpMaster(error, command, 0, FALSE)
    /\ spc' = "loop"

\* in robot_test_mode the hardware is not touched
SyncInTestMode ==
    /\ spc = "SYNCHRONISE" /\ robot_test_mode
    /\ SyncReplies(OK)
    /\ UNCHANGED <<quietSync, step, axis, zeroed>>

\* synchro_choose_axis_to_move clears both status words
ChooseAxis(k) ==
    /\ axis' = k
    /\ spc' = "area"
    /\ reply_status' = OK

SyncBegin ==
    /\ spc = "SYNCHRONISE" /\ ~robot_test_mode
    /\ ChooseAxis(1)
    /\ KeepReply
    /\ UNCHANGED <<quietSync, step, send_after_last_step, zeroed, unreported>>

SwitchFound(reading) ==
    /\ spc = "area" /\ reading \in {"SWITCH_ON", "SWITCH_ON_AND_ZERO"}
    /\ spc' = "stop"
    /\ step' = 0
    /\ reply_status' = OK
    /\ KeepReply
    /\ UNCHANGED <<quietSync, axis, send_after_last_step, zeroed, unreported>>

SyncFault(reading) ==
    /\ reading = "FAULT"
    /\ \/ spc = "area" /\ SyncReplies(DriveFault \cup SYNCHRO_SWITCH_EXPECTED)
       \/ spc = "stop" /\ SyncReplies(DriveFault \cup SYNCHRO_DELAY_ERROR)
       \/ spc \in {"leave", "zero"} /\ SyncReplies(DriveFault \cup SYNCHRO_ERROR)
    /\ UNCHANGED <<quietSync, step, axis, zeroed>>

\* looking for the encoder zero the faults of the axes above count as well
OtherAxisFault ==
    /\ spc = "zero" /\ NumServos > 1
    /\ SyncReplies(DriveFault \cup SYNCHRO_ERROR)
    /\ UNCHANGED <<quietSync, step, axis, zeroed>>

\* after the last waiting step start_synchro makes the old zero invalid
StopStep(reading) ==
    /\ spc = "stop" /\ reading # "FAULT"
    /\ step' = step + 1
    /\ IF step + 1 < StopSteps
         THEN UNCHANGED <<spc, reply_status, zeroed>>
         ELSE /\ spc' = "leave"
              /\ reply_status' = OK
              /\ zeroed' = zeroed \ {axis}
    /\ KeepReply
    /\ UNCHANGED <<quietSync, axis, send_after_last_step, unreported>>

SwitchLeft(reading) ==
    /\ spc = "leave" /\ reading = "ALL_RIGHT"
    /\ spc' = "zero"
    /\ KeepReply
    /\ UNCHANGED <<quietSync, step, axis, send_after_last_step, reply_status, zeroed, unreported>>

\* finish_synchro, reset_position, then the next axis or the final stop
ZeroFound(reading) ==
    /\ \/ spc = "leave" /\ reading = "SYNCHRO_ZERO"
       \/ spc = "zero" /\ reading \in {"SYNCHRO_ZERO", "SWITCH_ON_AND_ZERO"}
    /\ zeroed' = zeroed \cup {axis}
    /\ IF LastAxis(axis)
         THEN spc' = "final" /\ UNCHANGED <<axis, reply_status>>
         ELSE ChooseAxis(axis + 1)
    /\ KeepReply
    /\ UNCHANGED <<quietSync, step, send_after_last_step, unreported>>

\* what the SYNCHRO_FINAL_STOP_STEP_NUMBER steps find is not looked at
FinalStop ==
    /\ spc = "final"
    /\ SyncReplies(reply_status)
    /\ UNCHANGED <<quietSync, step, axis, zeroed>>

SyncStep ==
    \/ SyncInTestMode \/ SyncBegin \/ FinalStop \/ OtherAxisFault
    \/ \E reading \in AxisReading :
         SwitchFound(reading) \/ StopStep(reading) \/ SwitchLeft(reading)
           \/ ZeroFound(reading) \/ SyncFault(reading)

\* the passes of operator() other than a synchronisation
ServoCycle ==
    \/ NoCommand \/ RefuseCommand \/ AcceptCommand
    \/ \E fault \in BOOLEAN : MovePassive(fault)
    \/ AnswerAtOnce \/ MoveBegin \/ MoveStepDone \/ MoveStepFails

Next == Client \/ ServoCycle \/ SyncStep
Spec == Init /\ [][Next]_vars

(***************************************************************************)
(* The servo thread is a periodic loop that never waits for anybody, and   *)
(* a client blocked on the condition wakes up; nothing makes the client    *)
(* send a command, and nothing makes an axis reach its switch.             *)
(***************************************************************************)
FairSpec == Spec /\ WF_vars(ServoCycle) /\ WF_vars(TakeReply)
-----------------------------------------------------------------------------
(* Properties *)

\* A fault found by a passive step or a macro step stays pending until a reply
\* has carried an error (reply_status outlives the steps and commands between).
NoFaultForgotten == unreported => reply_status # OK

\* The reply that wakes the client up answers the command it has sent last,
\* never an earlier macro step (reply_to_EDP_MASTER is called once per command).
AnswerBelongsToCommand ==
    sg_reply_rdy \/ mpc = "reading" => sg_reply.of = servo_command

\* A macro step answered without an error has made its first r steps, or all
\* of them, and no more, when the answer is published (Move, Move_passive).
PhaseOneComplete ==
    /\ sg_reply_rdy \/ mpc = "reading"
    /\ sg_reply.of.code = "MOVE" /\ sg_reply.error = OK
    => sg_reply.done = IF sg_reply.of.r < sg_reply.of.n THEN sg_reply.of.r ELSE sg_reply.of.n

\* When everybody rests and no error was reported since the position was last
\* read back, the arm is where the client believes it to be.
NoSilentDrift ==
    (mpc = "idle" /\ spc \in {"loop", "passive"} /\ reply_status = OK /\ ~faulted) => lag = 0

\* Ordinary instructions are served only by a robot whose every axis has found
\* its encoder zero since it was last asked to look for it.
ServedOnlyWhenZeroed == (loop = "post" /\ ~robot_test_mode) => zeroed = Axes

\* send_to_SERVO_GROUP reads sg_reply after unlocking sg_reply_mtx: nobody may
\* write it then.
ReplyStableWhileRead == [][mpc = "reading" => UNCHANGED sg_reply]_vars

\* A client blocked in send_to_SERVO_GROUP is answered; a synchronisation may
\* look for a switch for ever.
CommandAnswered ==
    (mpc = "sent" /\ servo_command.code # "SYNCHRONISE") ~> (mpc = "reading")

\* The servo thread implements the abstract call.
CallPhase == CASE mpc = "idle" -> "idle"
               [] mpc = "reading" \/ sg_reply_rdy -> "answered"
               [] servo_command_rdy -> "called"
               [] OTHER -> "executing"
Abstract == INSTANCE ServoCall
              WITH phase <- CallPhase, alarm <- (reply_status # OK), failed <- (sg_reply.error # OK)
ImplementsServoCall == Abstract!Spec
=============================================================================
