-------------------------- MODULE ServoGroupProofs --------------------------
(***************************************************************************)
(* Proofs about the servo thread and its client, for every number of axes  *)
(* and every length of a macro step.  The inductive invariant IInv says    *)
(* who is to move: Owes holds exactly while the client is blocked and its  *)
(* command has been taken and not answered; the other parts follow the     *)
(* pending error, the outstanding steps and the axes through that cycle.   *)
(***************************************************************************)
EXTENDS ServoGroup, TLAPS

\* the parts of TypeOK: flags, which Zenon handles, and the rest
Flags ==
    /\ robot_test_mode \in BOOLEAN /\ is_synchronised \in BOOLEAN
    /\ servo_command_rdy \in BOOLEAN /\ sg_reply_rdy \in BOOLEAN
    /\ send_after_last_step \in BOOLEAN
    /\ unreported \in BOOLEAN /\ faulted \in BOOLEAN

Values ==
    /\ mpc \in {"idle", "sent", "reading"}
    /\ op \in MasterOps
    /\ loop \in {"pre", "synchro", "post"}
    /\ lag \in Int
    /\ servo_command \in Commands
    /\ sg_reply \in Replies
    /\ spc \in ServoPlaces
    /\ command \in Commands
    /\ step \in Nat
    /\ axis \in Axes
    /\ reply_status \in ErrorWord
    /\ zeroed \in SUBSET Axes

SyncPlaces == {"area", "stop", "leave", "zero", "final"}

\* what the thread knows of the command it is executing
PlaceInv ==
    /\ spc \in {"MOVE", "step"} => command.code = "MOVE"
    /\ spc = "step" => step < command.n
    /\ spc \in PlainCodes => command.code = spc
    /\ spc \in SyncPlaces => command.code = "SYNCHRONISE"
    /\ spc = "step" /\ send_after_last_step => command.r > command.n
    /\ spc = "step" /\ command.r > command.n => send_after_last_step

\* the servo thread has taken a command and has still to answer it
Owes ==
    \/ spc \in PlainCodes \cup SyncPlaces \cup {"MOVE"}
    \/ spc = "step" /\ step < command.r
    \/ send_after_last_step

HandshakeInv ==
    /\ servo_command_rdy => mpc = "sent"
    /\ sg_reply_rdy => mpc = "sent" /\ ~servo_command_rdy
    /\ Owes <=> (mpc = "sent" /\ ~servo_command_rdy /\ ~sg_reply_rdy)
    /\ Owes => command = servo_command
    /\ send_after_last_step => /\ spc \in {"step", "loop", "passive"}
                               /\ command.code = "MOVE" /\ command.r > command.n
    /\ AnswerBelongsToCommand
    /\ (sg_reply_rdy \/ mpc = "reading") /\ spc = "step" => servo_command.code = "MOVE"
    /\ mpc # "idle" => (op = "move_servos" <=> servo_command.code = "MOVE")
    /\ mpc # "idle" => (op = "synchronise" <=> servo_command.code = "SYNCHRONISE")

\* no error is pending while a command is executed
ErrorInv ==
    /\ NoFaultForgotten
    /\ spc \notin {"loop", "passive"} => reply_status = OK

ErrorOnItsWay == (sg_reply_rdy \/ mpc = "reading") /\ sg_reply.error # OK

StepsWaiting == IF servo_command_rdy /\ servo_command.code = "MOVE" THEN servo_command.n ELSE 0
StepsRunning == IF spc = "MOVE" THEN command.n
                ELSE IF spc = "step" THEN command.n - step ELSE 0

\* the client is ahead of the arm by the steps not yet made
DriftInv ==
    \/ faulted
    \/ reply_status # OK
    \/ ErrorOnItsWay
    \/ lag = StepsWaiting + StepsRunning

\* an axis is zeroed before the next one starts, and instructions are served
\* only after the last one
ZeroInv ==
    /\ op \in {"synchronise", "synchronise_read"} => loop = "synchro"
    /\ robot_test_mode => spc \notin SyncPlaces
    /\ spc \in {"area", "stop", "leave", "zero"} => \A a \in Axes : a < axis => a \in zeroed
    /\ spc = "final" => zeroed = Axes
    /\ ~robot_test_mode =>
         /\ op = "synchronise" /\ (sg_reply_rdy \/ mpc = "reading") /\ sg_reply.error = OK
              => zeroed = Axes
         /\ op = "synchronise_read" => zeroed = Axes
         /\ loop = "post" => zeroed = Axes

IInv == TypeOK /\ PlaceInv /\ HandshakeInv /\ ErrorInv /\ DriftInv /\ ZeroInv /\ PhaseOneComplete
-----------------------------------------------------------------------------
\* What the leaves need of the error words.
LEMMA ErrorWords ==
  /\ OK \in ErrorWord
  /\ DriveFault \cup SERVO_ERROR_IN_PASSIVE_LOOP \in ErrorWord \ {OK}
  /\ DriveFault \cup SERVO_ERROR_IN_PHASE_1 \in ErrorWord \ {OK}
  /\ DriveFault \cup SERVO_ERROR_IN_PHASE_2 \in ErrorWord \ {OK}
  /\ DriveFault \cup SYNCHRO_SWITCH_EXPECTED \in ErrorWord \ {OK}
  /\ DriveFault \cup SYNCHRO_ERROR \in ErrorWord \ {OK}
  /\ DriveFault \cup SYNCHRO_DELAY_ERROR \in ErrorWord \ {OK}
BY DEF OK, ErrorWord, DriveFault, SERVO_ERROR_IN_PASSIVE_LOOP, SERVO_ERROR_IN_PHASE_1,
   SERVO_ERROR_IN_PHASE_2, SYNCHRO_SWITCH_EXPECTED, SYNCHRO_ERROR, SYNCHRO_DELAY_ERROR

\* A refusal always carries an error.
LEMMA RefusalWord ==
  ASSUME reply_status \in ErrorWord
  PROVE  RefusalError \in ErrorWord \ {OK}
BY DEF RefusalError, OK, ErrorWord, SERVO_ERROR_IN_PASSIVE_LOOP


\* A command without parameters is a command.
LEMMA PlainCommandType ==
  \A c \in PlainCodes : PlainCommand(c) \in Commands /\ PlainCommand(c).code = c
BY DEF PlainCommand, Commands, PlainCodes

\* A macro step is a command.
LEMMA MoveCommandType ==
  \A n \in 1..MaxSteps, r \in 0..(MaxSteps + 1) :
    MoveCommand(n, r) \in Commands /\ MoveCommand(n, r).code = "MOVE" /\ MoveCommand(n, r).n = n
BY DEF MoveCommand, MoveCommands, Commands

\* The fields of a command.
LEMMA CommandTypes ==
  /\ \A c \in Commands : c.code \in PlainCodes \cup {"MOVE"}
  /\ \A c \in Commands : c.n \in 0..MaxSteps /\ c.r \in 0..(MaxSteps + 1)
  /\ \A c \in Commands : c.code = "MOVE" => c.n >= 1
BY ServoAssumption DEF Commands, MoveCommands, PlainCodes

\* An answer sets the flags to Booleans.
LEMMA ReplyFlags ==
  ASSUME Flags, NEW error, NEW cmd, NEW done, NEW found, ReplyToEdpMaster(error, cmd, done, found)
  PROVE  send_after_last_step' \in BOOLEAN /\ unreported' \in BOOLEAN /\ sg_reply_rdy' \in BOOLEAN
BY Zenon DEF ReplyToEdpMaster

\* So does its absence.
LEMMA KeepFlags ==
  ASSUME Flags, KeepReply
  PROVE  sg_reply_rdy' \in BOOLEAN
BY Zenon DEF KeepReply, Flags
-----------------------------------------------------------------------------
(* The steps preserve each part of the invariant. *)

\* Every step preserves the Boolean variables.
LEMMA FlagsStep ==
  ASSUME Flags, [Next]_vars
  PROVE  Flags'
<1> USE DEF Flags
<1>1. CASE Client
  BY <1>1, Zenon DEF Client, GetControllerState, ReadHardware, SetServoAlgorithm, Synchronise,
     MoveServos, TakeReply, ReturnsError, ReturnsOk, SynchroniseReads, Send, clientIdle, servoVars
<1>2. CASE NoCommand \/ RefuseCommand \/ AcceptCommand \/ AnswerAtOnce
  BY <1>2, ReplyFlags, KeepFlags, Zenon DEF NoCommand, RefuseCommand, AcceptCommand,
     AnswerAtOnce, servoOnly, masterVars
<1>3. ASSUME NEW fault \in BOOLEAN, MovePassive(fault)
      PROVE  Flags'
  BY <1>3, ReplyFlags, KeepFlags, Zenon DEF MovePassive, servoOnly, masterVars
<1>4. CASE MoveStepDone \/ MoveStepFails
  BY <1>4, ReplyFlags, KeepFlags, Zenon DEF MoveStepDone, MoveStepFails, servoOnly, masterVars
<1>5. CASE MoveBegin
  <2>1. (command.r > command.n) \in BOOLEAN BY SMT
  <2> QED BY <1>5, ReplyFlags, KeepFlags, <2>1, Zenon DEF MoveBegin, DueAfterLast, servoOnly,
     masterVars
<1>6. CASE SyncStep
  BY <1>6, ReplyFlags, KeepFlags, Zenon DEF SyncStep, SyncInTestMode, SyncBegin, FinalStop,
     OtherAxisFault, SwitchFound, StopStep, SwitchLeft, ZeroFound, SyncFault, SyncReplies,
     ChooseAxis, quietSync, servoOnly, masterVars
<1>7. CASE UNCHANGED vars
  BY <1>7, Zenon DEF vars, masterVars, servoVars
<1> QED BY <1>1, <1>2, <1>3, <1>4, <1>5, <1>6, <1>7 DEF Next, ServoCycle

\* Every step preserves the other types.
LEMMA ValuesStep ==
  ASSUME Values, PlaceInv, [Next]_vars
  PROVE  Values'
<1> USE ServoAssumption DEF Values, PlaceInv, SyncPlaces, PlainCodes, MasterOps, ServoPlaces
<1>1. CASE GetControllerState \/ ReadHardware \/ SetServoAlgorithm \/ Synchronise
  BY <1>1, PlainCommandType DEF GetControllerState , ReadHardware , SetServoAlgorithm ,
     Synchronise, Send, clientIdle, servoVars
<1>2. ASSUME NEW n \in 1..MaxSteps, NEW r \in 0..(MaxSteps + 1), MoveServos(n, r)
      PROVE  Values'
  BY <1>2, MoveCommandType DEF MoveServos, Send, clientIdle, servoVars
<1>3. CASE TakeReply \/ ReturnsError
  BY <1>3 DEF TakeReply, ReturnsError, NextLoop, clientIdle, servoVars
<1>4. CASE ReturnsOk
  BY <1>4 DEF ReturnsOk, NextLoop, clientIdle, servoVars
<1>5. CASE SynchroniseReads
  BY <1>5, PlainCommandType DEF SynchroniseReads, Send, clientIdle, servoVars
<1>6. CASE NoCommand
  BY <1>6 DEF NoCommand, KeepReply, servoOnly, masterVars
<1>7. CASE RefuseCommand
  <2> QED
    BY <1>7, RefusalWord, ErrorWords DEF RefuseCommand, servoOnly, masterVars, ReplyToEdpMaster,
       Replies
<1>8. CASE AcceptCommand
  <2>1. servo_command.code \in PlainCodes \cup {"MOVE"} /\ (servo_command.code = "MOVE" => servo_command.n >= 1)
   BY CommandTypes
  <2> QED BY <1>8, <2>1 DEF AcceptCommand, KeepReply, servoOnly, masterVars
<1>9. ASSUME NEW fault \in BOOLEAN, MovePassive(fault)
      PROVE  Values'
  <2>1. CASE send_after_last_step
    <3>1. ReplyToEdpMaster(PassiveStatus(fault), command, command.n, fault)
      BY <1>9, <2>1 DEF MovePassive
    <3>2. PassiveStatus(fault) \in ErrorWord
      BY ErrorWords DEF PassiveStatus
    <3> QED
      BY <1>9, <3>1, <3>2, CommandTypes, ErrorWords DEF MovePassive, servoOnly, masterVars,
         ReplyToEdpMaster, Replies
  <2>2. CASE ~send_after_last_step
    BY <1>9, <2>2, ErrorWords DEF MovePassive, PassiveStatus, KeepReply, servoOnly, masterVars
  <2> QED BY <2>1, <2>2
<1>10. CASE AnswerAtOnce
  BY <1>10, ErrorWords DEF AnswerAtOnce, servoOnly, masterVars, ReplyToEdpMaster, Replies
<1>11. CASE MoveBegin
  <2>1. CASE command.r = 0
    BY <1>11, <2>1, CommandTypes, ErrorWords DEF MoveBegin, servoOnly, masterVars,
       ReplyToEdpMaster, Replies
  <2>2. CASE command.r # 0
    BY <1>11, <2>2, CommandTypes DEF MoveBegin, DueAfterLast, KeepReply, servoOnly, masterVars
  <2> QED BY <2>1, <2>2
<1>12. CASE MoveStepDone
  <2>1. CASE DueAfterStep(step, command.r)
    BY <1>12, <2>1, CommandTypes, ErrorWords DEF DueAfterStep, MoveStepDone, servoOnly,
       masterVars, ReplyToEdpMaster, Replies
  <2>2. CASE ~DueAfterStep(step, command.r)
    BY <1>12, <2>2, CommandTypes DEF MoveStepDone, KeepReply, servoOnly, masterVars
  <2> QED BY <2>1, <2>2
<1>13. CASE MoveStepFails
  <2>1. CASE InPhase2(step, command.r)
    <3>1. reply_status' \in ErrorWord
      BY <1>13, <2>1, ErrorWords DEF MoveStepFails
    <3>2. lag' \in Int
      BY <1>13 DEF MoveStepFails
    <3> QED
      BY <1>13, <2>1, <3>1, <3>2 DEF KeepReply,  MoveStepFails, servoOnly, masterVars
  <2>2. CASE ~InPhase2(step, command.r)
    <3>1. reply_status' \in ErrorWord
      BY <1>13, <2>2, ErrorWords DEF MoveStepFails, ReplyToEdpMaster
    <3>2. sg_reply' \in Replies
      <4>1. step \in 0..MaxSteps /\ command \in Commands
        BY <1>13, CommandTypes DEF MoveStepFails
      <4>2. sg_reply' = [error |-> DriveFault \cup SERVO_ERROR_IN_PHASE_1, of |-> command, done |-> step]
        BY <1>13, <2>2 DEF MoveStepFails, ReplyToEdpMaster
      <4> QED
        BY <4>1, <4>2, ErrorWords DEF Replies
    <3>3. lag' \in Int
      BY <1>13 DEF MoveStepFails
    <3> QED
      BY <1>13, <3>1, <3>2, <3>3 DEF MoveStepFails, servoOnly, masterVars
  <2> QED BY <2>1, <2>2
<1>14. CASE SyncInTestMode \/ FinalStop \/ OtherAxisFault
  <2>1. reply_status' \in ErrorWord
    BY <1>14, ErrorWords DEF SyncInTestMode, FinalStop, OtherAxisFault, SyncReplies,
       ReplyToEdpMaster
  <2>2. sg_reply' \in Replies
    <3>1. 0 \in 0..MaxSteps /\ command \in Commands /\ reply_status \in ErrorWord
      OBVIOUS
    <3>2. CASE SyncInTestMode
      BY <3>1, <3>2, ErrorWords DEF SyncInTestMode, SyncReplies, ReplyToEdpMaster, Replies
    <3>3. CASE FinalStop
      BY <3>1, <3>3, ErrorWords DEF FinalStop, SyncReplies, ReplyToEdpMaster, Replies
    <3>4. CASE OtherAxisFault
      BY <3>1, <3>4, ErrorWords DEF OtherAxisFault, SyncReplies, ReplyToEdpMaster, Replies
    <3> QED BY <1>14, <3>2, <3>3, <3>4
  <2> QED
    BY <1>14, <2>1, <2>2 DEF SyncInTestMode, FinalStop, OtherAxisFault, SyncReplies, quietSync,
       servoOnly, masterVars
<1>15. ASSUME NEW reading \in AxisReading, SyncFault(reading)
      PROVE  Values'
  <2>1. reply_status' \in ErrorWord
    BY <1>15, ErrorWords DEF SyncFault, SyncReplies, ReplyToEdpMaster
  <2>2. sg_reply' \in Replies
    BY <1>15, ErrorWords DEF SyncFault, SyncReplies, ReplyToEdpMaster, Replies
  <2> QED
    BY <1>15, <2>1, <2>2 DEF SyncFault, SyncReplies, quietSync, servoOnly, masterVars
<1>16. CASE SyncBegin
    BY <1>16, ErrorWords DEF SyncBegin, ChooseAxis, KeepReply, Axes, quietSync, servoOnly,
       masterVars
<1>17. ASSUME NEW reading \in AxisReading,
             SwitchFound(reading) \/ StopStep(reading) \/ SwitchLeft(reading)
      PROVE  Values'
    BY <1>17, ErrorWords DEF SwitchFound, StopStep, SwitchLeft, KeepReply, quietSync, servoOnly,
       masterVars
<1>18. ASSUME NEW reading \in AxisReading, ZeroFound(reading)
      PROVE  Values'
    BY <1>18, ErrorWords DEF ZeroFound, LastAxis, ChooseAxis, KeepReply, Axes, quietSync,
       servoOnly, masterVars
<1>19. CASE UNCHANGED vars
  BY <1>19 DEF vars, masterVars, servoVars
<1> QED BY <1>1, <1>2, <1>3, <1>4, <1>5, <1>6, <1>7, <1>8, <1>9, <1>10, <1>11, <1>12, <1>13,
   <1>14, <1>15, <1>16, <1>17, <1>18, <1>19
   DEF Next, Client, ServoCycle, SyncStep

\* Every step preserves what the servo thread knows of its command.
LEMMA PlaceStep ==
  ASSUME Values, PlaceInv, [Next]_vars
  PROVE  PlaceInv'
<1> USE ServoAssumption DEF Values, PlaceInv, SyncPlaces, PlainCodes, MasterOps, ServoPlaces
<1>1. CASE GetControllerState \/ ReadHardware \/ SetServoAlgorithm \/ Synchronise
  BY <1>1, PlainCommandType DEF GetControllerState , ReadHardware , SetServoAlgorithm ,
     Synchronise, Send, clientIdle, servoVars
<1>2. ASSUME NEW n \in 1..MaxSteps, NEW r \in 0..(MaxSteps + 1), MoveServos(n, r)
      PROVE  PlaceInv'
  BY <1>2, MoveCommandType DEF MoveServos, Send, clientIdle, servoVars
<1>3. CASE TakeReply \/ ReturnsError
  BY <1>3 DEF TakeReply, ReturnsError, NextLoop, clientIdle, servoVars
<1>4. CASE ReturnsOk
  BY <1>4 DEF ReturnsOk, NextLoop, clientIdle, servoVars
<1>5. CASE SynchroniseReads
  BY <1>5, PlainCommandType DEF SynchroniseReads, Send, clientIdle, servoVars
<1>6. CASE NoCommand
  BY <1>6 DEF NoCommand, KeepReply, servoOnly, masterVars
<1>7. CASE RefuseCommand
  <2> QED
    BY <1>7, RefusalWord DEF RefuseCommand, servoOnly, masterVars, ReplyToEdpMaster, Replies
<1>8. CASE AcceptCommand
  <2>1. servo_command.code \in PlainCodes \cup {"MOVE"} /\ (servo_command.code = "MOVE" => servo_command.n >= 1)
   BY CommandTypes
  <2>2. command' = servo_command /\ spc' = servo_command.code
    BY <1>8 DEF AcceptCommand
  <2> QED BY <2>1, <2>2 
<1>9. ASSUME NEW fault \in BOOLEAN, MovePassive(fault)
      PROVE  PlaceInv'
  <2>1. CASE send_after_last_step
    <3>1. ReplyToEdpMaster(PassiveStatus(fault), command, command.n, fault)
      BY <1>9, <2>1 DEF MovePassive
    <3>2. PassiveStatus(fault) \in ErrorWord
      BY ErrorWords DEF PassiveStatus
    <3> QED
      BY <1>9, <3>1, <3>2, CommandTypes DEF MovePassive, servoOnly, masterVars,
         ReplyToEdpMaster, Replies
  <2>2. CASE ~send_after_last_step
    BY <1>9, <2>2, ErrorWords DEF MovePassive, PassiveStatus, KeepReply, servoOnly, masterVars
  <2> QED BY <2>1, <2>2
<1>10. CASE AnswerAtOnce
  BY <1>10 DEF AnswerAtOnce, servoOnly, masterVars, ReplyToEdpMaster, Replies
<1>11. CASE MoveBegin
  <2>1. CASE command.r = 0
    BY <1>11, <2>1, CommandTypes DEF MoveBegin, ReplyToEdpMaster
  <2>2. CASE command.r # 0
    <3>1. send_after_last_step' = (command.r > command.n)
      BY <1>11, <2>2 DEF MoveBegin, DueAfterLast
    <3>2. (send_after_last_step' => command.r > command.n) /\ (command.r > command.n => send_after_last_step')
      BY <3>1, Zenon
    <3>3. command.code = "MOVE" /\ command.n >= 1 /\ spc' = "step" /\ step' = 0 /\ command' = command
      BY <1>11, CommandTypes DEF MoveBegin
    <3> QED
      BY <3>2, <3>3, CommandTypes
  <2> QED BY <2>1, <2>2
<1>12. CASE MoveStepDone
  <2>1. CASE DueAfterStep(step, command.r)
    BY <1>12, <2>1, CommandTypes DEF DueAfterStep, MoveStepDone, ReplyToEdpMaster
  <2>2. CASE ~DueAfterStep(step, command.r)
    BY <1>12, <2>2, CommandTypes DEF MoveStepDone, KeepReply, servoOnly, masterVars
  <2> QED BY <2>1, <2>2
<1>13. CASE MoveStepFails
  <2>1. CASE InPhase2(step, command.r)
    BY <1>13, <2>1, ErrorWords DEF MoveStepFails, KeepReply, servoOnly, masterVars
  <2>2. CASE ~InPhase2(step, command.r)
    BY <1>13, <2>2, ErrorWords, CommandTypes DEF MoveStepFails, servoOnly, masterVars,
       ReplyToEdpMaster, Replies
  <2> QED BY <2>1, <2>2
<1>14. CASE SyncInTestMode \/ FinalStop \/ OtherAxisFault
    BY <1>14, ErrorWords DEF SyncInTestMode, FinalStop, OtherAxisFault, SyncReplies, quietSync,
       servoOnly, masterVars, ReplyToEdpMaster, Replies
<1>15. ASSUME NEW reading \in AxisReading, SyncFault(reading)
      PROVE  PlaceInv'
    BY <1>15, ErrorWords DEF SyncFault, SyncReplies, quietSync, servoOnly, masterVars,
       ReplyToEdpMaster, Replies
<1>16. CASE SyncBegin
    BY <1>16, ErrorWords DEF SyncBegin, ChooseAxis, KeepReply, Axes, quietSync, servoOnly,
       masterVars
<1>17. ASSUME NEW reading \in AxisReading,
             SwitchFound(reading) \/ StopStep(reading) \/ SwitchLeft(reading)
      PROVE  PlaceInv'
    BY <1>17, ErrorWords DEF SwitchFound, StopStep, SwitchLeft, KeepReply, quietSync, servoOnly,
       masterVars
<1>18. ASSUME NEW reading \in AxisReading, ZeroFound(reading)
      PROVE  PlaceInv'
    BY <1>18, ErrorWords DEF ZeroFound, LastAxis, ChooseAxis, KeepReply, Axes, quietSync,
       servoOnly, masterVars
<1>19. CASE UNCHANGED vars
  BY <1>19 DEF vars, masterVars, servoVars
<1> QED BY <1>1, <1>2, <1>3, <1>4, <1>5, <1>6, <1>7, <1>8, <1>9, <1>10, <1>11, <1>12, <1>13,
   <1>14, <1>15, <1>16, <1>17, <1>18, <1>19
   DEF Next, Client, ServoCycle, SyncStep

\* Every step preserves whose turn it is.
LEMMA HandshakeStep ==
  ASSUME TypeOK, PlaceInv, HandshakeInv, [Next]_vars
  PROVE  HandshakeInv'
<1> USE DEF HandshakeInv, Owes, AnswerBelongsToCommand, SyncPlaces, PlainCodes
<1>0. command \in Commands /\ servo_command \in Commands /\ step \in Nat /\ sg_reply_rdy \in BOOLEAN /\ servo_command_rdy \in BOOLEAN /\ send_after_last_step \in BOOLEAN
  BY DEF TypeOK
<1>1. CASE GetControllerState \/ ReadHardware \/ SetServoAlgorithm \/ Synchronise
  BY <1>1, PlainCommandType DEF GetControllerState, ReadHardware, SetServoAlgorithm,
     Synchronise, Send, clientIdle, servoVars
<1>2. ASSUME NEW n \in 1..MaxSteps, NEW r \in 0..(MaxSteps + 1), MoveServos(n, r)
      PROVE  HandshakeInv'
  BY <1>2, MoveCommandType DEF MoveServos, Send, clientIdle, servoVars
<1>3. CASE TakeReply
  BY <1>3 DEF TakeReply, servoVars
<1>4. CASE ReturnsError \/ ReturnsOk
  BY <1>4 DEF ReturnsError, ReturnsOk, clientIdle, servoVars
<1>5. CASE SynchroniseReads
  BY <1>5, PlainCommandType DEF SynchroniseReads, Send, clientIdle, servoVars
<1>6. CASE NoCommand
  BY <1>6 DEF NoCommand, KeepReply, servoOnly, masterVars
<1>7. CASE RefuseCommand
  BY <1>7 DEF RefuseCommand, ReplyToEdpMaster, servoOnly, masterVars
<1>8. CASE AcceptCommand
  BY <1>0, <1>8, CommandTypes DEF AcceptCommand, KeepReply, servoOnly, masterVars
<1>9. ASSUME NEW fault \in BOOLEAN, MovePassive(fault)
      PROVE  HandshakeInv'
  <2>1. CASE send_after_last_step
    BY <1>0, <1>9, <2>1 DEF MovePassive, ReplyToEdpMaster, servoOnly, masterVars
  <2>2. CASE ~send_after_last_step
    BY <1>0, <1>9, <2>2 DEF MovePassive, KeepReply, servoOnly, masterVars
  <2> QED BY <2>1, <2>2
<1>10. CASE AnswerAtOnce
  BY <1>0, <1>10, CommandTypes DEF AnswerAtOnce, ReplyToEdpMaster, servoOnly, masterVars, PlaceInv
<1>11. CASE MoveBegin
  <2>1. CASE command.r = 0
    BY <1>0, <1>11, <2>1, CommandTypes DEF MoveBegin, ReplyToEdpMaster, servoOnly, masterVars,
       PlaceInv
  <2>2. CASE command.r # 0
    <3>1. send_after_last_step' = (command.r > command.n)
      BY <1>11, <2>2 DEF MoveBegin, DueAfterLast
    <3>2. send_after_last_step' => command.r > command.n
      BY <3>1, Zenon
    <3> QED
      BY <1>0, <1>11, <2>2, <3>2, CommandTypes DEF MoveBegin, KeepReply, servoOnly, masterVars,
         PlaceInv
  <2> QED BY <2>1, <2>2
<1>12. CASE MoveStepDone
  <2>1. CASE DueAfterStep(step, command.r)
    BY <1>0, <1>12, <2>1, CommandTypes DEF DueAfterStep, MoveStepDone, ReplyToEdpMaster,
       servoOnly, masterVars, PlaceInv
  <2>2. CASE ~DueAfterStep(step, command.r)
    <3>1. command.r \in Nat /\ command.n \in Nat /\ spc = "step" /\ step < command.n
      BY <1>0, <1>12, CommandTypes DEF MoveStepDone, PlaceInv
    <3>2. (step + 1 < command.r <=> step < command.r) /\ (command.r > command.n <=> send_after_last_step)
      BY <1>0, <2>2, <3>1 DEF DueAfterStep, PlaceInv
    <3>3. CASE step + 1 < command.n
      BY <1>0, <1>12, <2>2, <3>1, <3>2, <3>3 DEF MoveStepDone, KeepReply, servoOnly, masterVars
    <3>4. CASE ~(step + 1 < command.n)
      <4>1. step < command.r => send_after_last_step
        BY <1>0, <3>1, <3>2, <3>4
      <4> QED
        BY <1>0, <1>12, <2>2, <3>1, <3>4, <4>1 DEF MoveStepDone, KeepReply, servoOnly, masterVars
    <3> QED BY <3>3, <3>4
  <2> QED BY <2>1, <2>2
<1>13. CASE MoveStepFails
  <2>1. CASE InPhase2(step, command.r)
    <3>1. spc = "step" /\ ~(step < command.r) /\ ~send_after_last_step
      BY <1>0, <1>13, <2>1, CommandTypes DEF InPhase2, MoveStepFails, PlaceInv
    <3> QED
      BY <1>0, <1>13, <2>1, <3>1 DEF MoveStepFails, KeepReply, servoOnly, masterVars
  <2>2. CASE ~InPhase2(step, command.r)
    BY <1>0, <1>13, <2>2, CommandTypes DEF InPhase2, MoveStepFails, ReplyToEdpMaster, servoOnly,
       masterVars, PlaceInv
  <2> QED BY <2>1, <2>2
<1>14. CASE SyncInTestMode \/ FinalStop \/ OtherAxisFault
  BY <1>0, <1>14 DEF SyncInTestMode, FinalStop, OtherAxisFault, SyncReplies, quietSync,
     ReplyToEdpMaster, servoOnly, masterVars
<1>15. ASSUME NEW reading \in AxisReading, SyncFault(reading)
      PROVE  HandshakeInv'
  BY <1>0, <1>15 DEF SyncFault, SyncReplies, quietSync, ReplyToEdpMaster, servoOnly, masterVars
<1>16. CASE SyncBegin
  BY <1>0, <1>16 DEF SyncBegin, ChooseAxis, KeepReply, quietSync, servoOnly, masterVars
<1>17. ASSUME NEW reading \in AxisReading,
             SwitchFound(reading) \/ StopStep(reading) \/ SwitchLeft(reading)
      PROVE  HandshakeInv'
  BY <1>0, <1>17 DEF SwitchFound, StopStep, SwitchLeft, KeepReply, quietSync, servoOnly,
     masterVars
<1>18. ASSUME NEW reading \in AxisReading, ZeroFound(reading)
      PROVE  HandshakeInv'
  BY <1>0, <1>18 DEF ZeroFound, ChooseAxis, KeepReply, quietSync, servoOnly, masterVars
<1>19. CASE UNCHANGED vars
  BY <1>19 DEF vars, masterVars, servoVars
<1> QED BY <1>1, <1>2, <1>3, <1>4, <1>5, <1>6, <1>7, <1>8, <1>9, <1>10, <1>11, <1>12, <1>13,
   <1>14, <1>15, <1>16, <1>17, <1>18, <1>19
   DEF Next, Client, ServoCycle, SyncStep

\* Every step preserves the pending error.
LEMMA ErrorStep ==
  ASSUME TypeOK, PlaceInv, HandshakeInv, ErrorInv, [Next]_vars
  PROVE  ErrorInv'
<1> USE DEF ErrorInv, NoFaultForgotten
<1>0. command \in Commands /\ servo_command \in Commands /\ unreported \in BOOLEAN
  BY DEF TypeOK
<1>1. CASE Client
  BY <1>1 DEF Client, GetControllerState, ReadHardware, SetServoAlgorithm, Synchronise,
     MoveServos, TakeReply, ReturnsError, ReturnsOk, SynchroniseReads, clientIdle, servoVars
<1>2. CASE NoCommand \/ AcceptCommand
  BY <1>2 DEF NoCommand, AcceptCommand
<1>3. CASE RefuseCommand
  BY <1>3, RefusalWord DEF RefuseCommand, ReplyToEdpMaster, TypeOK
<1>4. CASE AnswerAtOnce
  BY <1>4 DEF AnswerAtOnce, ReplyToEdpMaster
<1>5. ASSUME NEW fault \in BOOLEAN, MovePassive(fault)
      PROVE  ErrorInv'
  <2>1. CASE send_after_last_step
    BY <1>0, <1>5, <2>1, ErrorWords DEF MovePassive, PassiveStatus, ReplyToEdpMaster
  <2>2. CASE ~send_after_last_step
    BY <1>0, <1>5, <2>2, ErrorWords DEF MovePassive, PassiveStatus
  <2> QED BY <2>1, <2>2
<1>6. CASE MoveBegin
  BY <1>6 DEF MoveBegin, ReplyToEdpMaster
<1>7. CASE MoveStepDone
  BY <1>7 DEF MoveStepDone, ReplyToEdpMaster
<1>8. CASE MoveStepFails
  BY <1>8, ErrorWords DEF MoveStepFails, ReplyToEdpMaster
<1>9. CASE SyncInTestMode \/ FinalStop \/ OtherAxisFault
  BY <1>9, ErrorWords DEF SyncInTestMode, FinalStop, OtherAxisFault, SyncReplies, ReplyToEdpMaster
<1>10. ASSUME NEW reading \in AxisReading, SyncFault(reading)
      PROVE  ErrorInv'
  BY <1>10, ErrorWords DEF SyncFault, SyncReplies, ReplyToEdpMaster
<1>11. ASSUME NEW reading \in AxisReading,
             SwitchFound(reading) \/ StopStep(reading) \/ SwitchLeft(reading) \/ ZeroFound(reading) \/ SyncBegin
      PROVE  ErrorInv'
  BY <1>11 DEF SwitchFound, StopStep, SwitchLeft, ZeroFound, SyncBegin, ChooseAxis
<1>13. CASE SyncBegin
  BY <1>13 DEF SyncBegin, ChooseAxis
<1>12. CASE UNCHANGED vars
  BY <1>12 DEF vars, servoVars
<1> QED BY <1>1, <1>2, <1>3, <1>4, <1>5, <1>6, <1>7, <1>8, <1>9, <1>10, <1>11, <1>12, <1>13
   DEF Next, ServoCycle, SyncStep

\* Every step preserves the outstanding steps.
LEMMA DriftStep ==
  ASSUME TypeOK, PlaceInv, HandshakeInv, ErrorInv, DriftInv, [Next]_vars
  PROVE  DriftInv'
<1> USE DEF DriftInv, StepsWaiting, StepsRunning, ErrorOnItsWay
<1>0. command \in Commands /\ servo_command \in Commands /\ lag \in Int /\ step \in Nat 
      /\ command.n \in Nat /\ servo_command.n \in Nat
  BY CommandTypes DEF TypeOK
<1>1. CASE GetControllerState \/ ReadHardware \/ SetServoAlgorithm \/ Synchronise
  BY <1>0, <1>1, PlainCommandType DEF PlainCodes, GetControllerState, ReadHardware,
     SetServoAlgorithm, Synchronise, Send, clientIdle, servoVars, HandshakeInv
<1>2. ASSUME NEW n \in 1..MaxSteps, NEW r \in 0..(MaxSteps + 1), MoveServos(n, r)
      PROVE  DriftInv'
  BY <1>0, <1>2, MoveCommandType DEF MoveServos, Send, clientIdle, servoVars, HandshakeInv
<1>3. CASE TakeReply \/ ReturnsError
  BY <1>0, <1>3 DEF TakeReply, ReturnsError, servoVars, clientIdle, HandshakeInv
<1>4. CASE ReturnsOk
  <2>1. CASE op \in {"get_controller_state", "synchronise_read"}
    <3>1. ~servo_command_rdy /\ spc \notin {"MOVE", "step"}
      BY <1>4, <2>1 DEF ReturnsOk, HandshakeInv, Owes
    <3> QED 
      BY <1>4, <2>1, <3>1 DEF ReturnsOk, clientIdle, servoVars
  <2>2. CASE op \notin {"get_controller_state", "synchronise_read"}
    BY <1>0, <1>4, <2>2 DEF ReturnsOk, clientIdle, servoVars
  <2> QED BY <2>1, <2>2
<1>5. CASE SynchroniseReads
  BY <1>0, <1>5, PlainCommandType DEF SynchroniseReads, Send, clientIdle, servoVars, PlainCodes,
     HandshakeInv
<1>6. CASE NoCommand
  BY <1>0, <1>6 DEF NoCommand, KeepReply, servoOnly, masterVars
<1>7. CASE RefuseCommand
  BY <1>7, RefusalWord DEF RefuseCommand, ReplyToEdpMaster, TypeOK
<1>8. CASE AcceptCommand
  BY <1>0, <1>8, CommandTypes DEF AcceptCommand, KeepReply, servoOnly, masterVars, HandshakeInv,
     PlainCodes
<1>9. ASSUME NEW fault \in BOOLEAN, MovePassive(fault)
      PROVE  DriftInv'
  <2>1. CASE send_after_last_step
    BY <1>0, <1>9, <2>1, ErrorWords DEF MovePassive, ReplyToEdpMaster, PassiveStatus, servoOnly,
       masterVars, HandshakeInv, Owes
  <2>2. CASE ~send_after_last_step
    BY <1>0, <1>9, <2>2, ErrorWords DEF MovePassive, KeepReply, PassiveStatus, servoOnly,
       masterVars
  <2> QED BY <2>1, <2>2
<1>10. CASE AnswerAtOnce
  BY <1>0, <1>10, CommandTypes DEF AnswerAtOnce, ReplyToEdpMaster, servoOnly, masterVars,
     PlaceInv, HandshakeInv, Owes, PlainCodes, ErrorInv
<1>11. CASE MoveBegin
  <2>1. CASE command.r = 0
    BY <1>0, <1>11, <2>1, CommandTypes DEF MoveBegin, ReplyToEdpMaster, servoOnly, masterVars,
       HandshakeInv, Owes, ErrorInv
  <2>2. CASE command.r # 0
    BY <1>0, <1>11, <2>2, CommandTypes DEF MoveBegin, KeepReply, servoOnly, masterVars,
       HandshakeInv, Owes
  <2> QED BY <2>1, <2>2
<1>12. CASE MoveStepDone
  <2>1. CASE DueAfterStep(step, command.r)
    BY <1>0, <1>12, <2>1, CommandTypes DEF DueAfterStep, MoveStepDone, ReplyToEdpMaster,
       servoOnly, masterVars, PlaceInv, HandshakeInv, Owes, ErrorInv
  <2>2. CASE ~DueAfterStep(step, command.r)
    <3>1. spc = "step" /\ step < command.n /\ lag' = lag - 1 /\ StepsWaiting' = StepsWaiting
      BY <1>12 DEF MoveStepDone, servoOnly, PlaceInv
    <3>2. StepsRunning' = StepsRunning - 1
      BY <1>0, <1>12, <3>1 DEF MoveStepDone
    <3> HIDE DEF StepsRunning, StepsWaiting
    <3>3. StepsRunning \in Int /\ StepsWaiting \in Int
      BY <1>0, <3>1 DEF StepsRunning, StepsWaiting
    <3> QED
      BY <1>0, <1>12, <2>2, <3>1, <3>2, <3>3 DEF MoveStepDone, KeepReply, servoOnly, masterVars
  <2> QED BY <2>1, <2>2
<1>13. CASE MoveStepFails
  BY <1>0, <1>13, ErrorWords DEF MoveStepFails, ReplyToEdpMaster
<1>14. CASE SyncInTestMode \/ FinalStop \/ OtherAxisFault
  BY <1>0, <1>14, ErrorWords DEF SyncInTestMode, FinalStop, OtherAxisFault, SyncReplies,
     quietSync, ReplyToEdpMaster, servoOnly, masterVars, HandshakeInv, Owes, ErrorInv, SyncPlaces,
     PlainCodes
<1>15. ASSUME NEW reading \in AxisReading, SyncFault(reading)
      PROVE  DriftInv'
  BY <1>0, <1>15, ErrorWords DEF SyncFault, SyncReplies, ReplyToEdpMaster
<1>16. CASE SyncBegin
  BY <1>0, <1>16 DEF SyncBegin, ChooseAxis, KeepReply, quietSync, servoOnly, masterVars,
     HandshakeInv, Owes, ErrorInv, SyncPlaces, PlainCodes
<1>17. ASSUME NEW reading \in AxisReading,
             SwitchFound(reading) \/ StopStep(reading) \/ SwitchLeft(reading)
      PROVE  DriftInv'
  BY <1>0, <1>17 DEF SwitchFound, StopStep, SwitchLeft, KeepReply, quietSync, servoOnly,
     masterVars, HandshakeInv, Owes, ErrorInv, SyncPlaces, PlainCodes
<1>18. ASSUME NEW reading \in AxisReading, ZeroFound(reading)
      PROVE  DriftInv'
  BY <1>0, <1>18 DEF ZeroFound, ChooseAxis, KeepReply, quietSync, servoOnly, masterVars,
     HandshakeInv, Owes, ErrorInv, SyncPlaces, PlainCodes
<1>19. CASE UNCHANGED vars
  BY <1>19 DEF vars, masterVars, servoVars
<1> QED BY <1>1, <1>2, <1>3, <1>4, <1>5, <1>6, <1>7, <1>8, <1>9, <1>10, <1>11, <1>12, <1>13,
   <1>14, <1>15, <1>16, <1>17, <1>18, <1>19
   DEF Next, Client, ServoCycle, SyncStep

\* a macro step is answered only while its answer is owed
LEMMA MoveRepliesOwed ==
  ASSUME TypeOK, MoveBegin \/ MoveStepDone \/ MoveStepFails, ~UNCHANGED <<sg_reply, sg_reply_rdy>>
  PROVE  Owes
<1>0. command.r \in Nat /\ step \in Nat
  BY CommandTypes DEF TypeOK
<1>1. CASE MoveBegin
  BY <1>1 DEF MoveBegin, Owes
<1>2. CASE MoveStepDone
  <2>1. spc = "step" /\ DueAfterStep(step, command.r)
    BY <1>2, Zenon DEF MoveStepDone, KeepReply
  <2> QED
    BY <1>0, <2>1 DEF DueAfterStep, Owes
<1>3. CASE MoveStepFails
  <2>1. spc = "step" /\ ~InPhase2(step, command.r)
    BY <1>3, Zenon DEF MoveStepFails, KeepReply
  <2> QED
    BY <1>0, <2>1 DEF InPhase2, Owes
<1> QED BY <1>1, <1>2, <1>3

\* Every step preserves the axes that have found their zero.
LEMMA ZeroStep ==
  ASSUME TypeOK, PlaceInv, HandshakeInv, ErrorInv, ZeroInv, [Next]_vars
  PROVE  ZeroInv'
<1> USE ServoAssumption DEF ZeroInv, SyncPlaces
<1>0. zeroed \in SUBSET Axes /\ axis \in Axes /\ op \in MasterOps /\ Axes \subseteq Int
  BY DEF TypeOK, Axes
<1>1. CASE GetControllerState \/ ReadHardware \/ SetServoAlgorithm \/ Synchronise
  BY <1>1 DEF GetControllerState, ReadHardware, SetServoAlgorithm, Synchronise, Send,
     clientIdle, servoVars, HandshakeInv
<1>2. ASSUME NEW n \in 1..MaxSteps, NEW r \in 0..(MaxSteps + 1), MoveServos(n, r)
      PROVE  ZeroInv'
  BY <1>2 DEF MoveServos, Send, clientIdle, servoVars
<1>3. CASE TakeReply
  BY <1>3 DEF TakeReply, servoVars
<1>4. CASE ReturnsError \/ ReturnsOk
  BY <1>4 DEF ReturnsError, ReturnsOk, NextLoop, clientIdle, servoVars
<1>5. CASE SynchroniseReads
  BY <1>5 DEF SynchroniseReads, Send, clientIdle, servoVars
<1>6. CASE NoCommand
  BY <1>6 DEF NoCommand, KeepReply, servoOnly, masterVars
<1>7. CASE RefuseCommand
  BY <1>7, RefusalWord DEF RefuseCommand, ReplyToEdpMaster, servoOnly, masterVars, TypeOK
<1>8. CASE AcceptCommand
  BY <1>8, CommandTypes DEF AcceptCommand, KeepReply, servoOnly, masterVars, TypeOK, PlainCodes
<1>9. ASSUME NEW fault \in BOOLEAN, MovePassive(fault)
      PROVE  ZeroInv'
  <2>1. CASE send_after_last_step
    <3>1. op # "synchronise"
      BY <2>1 DEF HandshakeInv, Owes
    <3> QED
      BY <1>9, <2>1, <3>1 DEF MovePassive, ReplyToEdpMaster, servoOnly, masterVars
  <2>2. CASE ~send_after_last_step
    BY <1>9, <2>2 DEF MovePassive, KeepReply, servoOnly, masterVars
  <2> QED BY <2>1, <2>2
<1>10. CASE AnswerAtOnce
  BY <1>10 DEF AnswerAtOnce, ReplyToEdpMaster, servoOnly, masterVars, PlaceInv, HandshakeInv,
     Owes, PlainCodes
<1>11. CASE MoveBegin \/ MoveStepDone \/ MoveStepFails
  <2>1. UNCHANGED <<robot_test_mode, op, loop, mpc, zeroed>> /\ spc' \in {"step", "loop"}
    BY <1>11 DEF MoveBegin, MoveStepDone, MoveStepFails, servoOnly, masterVars
  <2>2. CASE UNCHANGED <<sg_reply, sg_reply_rdy>>
    BY <2>1, <2>2
  <2>3. CASE ~UNCHANGED <<sg_reply, sg_reply_rdy>>
    <3>1. Owes
      BY <1>11, <2>3, MoveRepliesOwed
    <3>2. op # "synchronise"
      BY <1>11, <3>1 DEF MoveBegin, MoveStepDone, MoveStepFails, HandshakeInv, PlaceInv
    <3> QED
      BY <2>1, <3>2
  <2> QED BY <2>2, <2>3
<1>12. CASE SyncInTestMode
  BY <1>12 DEF SyncInTestMode, SyncReplies, ReplyToEdpMaster, quietSync, servoOnly, masterVars
<1>13. CASE FinalStop
  BY <1>13 DEF FinalStop, SyncReplies, ReplyToEdpMaster, quietSync, servoOnly, masterVars
<1>14. CASE OtherAxisFault
  BY <1>14, ErrorWords DEF OtherAxisFault, SyncReplies, ReplyToEdpMaster, quietSync, servoOnly,
     masterVars
<1>15. ASSUME NEW reading \in AxisReading, SyncFault(reading)
      PROVE  ZeroInv'
  BY <1>15, ErrorWords DEF SyncFault, SyncReplies, ReplyToEdpMaster, quietSync, servoOnly,
     masterVars
<1>16. CASE SyncBegin
  BY <1>0, <1>16 DEF SyncBegin, ChooseAxis, KeepReply, quietSync, servoOnly, masterVars, Axes
<1>17. ASSUME NEW reading \in AxisReading, SwitchFound(reading) \/ SwitchLeft(reading)
      PROVE  ZeroInv'
  BY <1>17 DEF SwitchFound, SwitchLeft, KeepReply, quietSync, servoOnly, masterVars
<1>18. ASSUME NEW reading \in AxisReading, StopStep(reading)
      PROVE  ZeroInv'
  <2>1. op = "synchronise" /\ ~sg_reply_rdy /\ mpc = "sent" /\ spc = "stop"
    BY <1>18 DEF StopStep, HandshakeInv, Owes, PlaceInv
  <2>2. UNCHANGED <<op, loop, mpc, sg_reply_rdy, robot_test_mode, axis>> /\ spc' \in {"stop", "leave"}
    BY <1>18 DEF StopStep, KeepReply, quietSync, servoOnly, masterVars
  <2>3. \A a \in Axes : a < axis => a \in zeroed'
    BY <1>0, <1>18 DEF StopStep
  <2> QED
    BY <2>1, <2>2, <2>3
<1>19. ASSUME NEW reading \in AxisReading, ZeroFound(reading)
      PROVE  ZeroInv'
  <2>1. op = "synchronise" /\ ~sg_reply_rdy /\ mpc = "sent" /\ spc \in {"leave", "zero"}
    BY <1>19 DEF ZeroFound, HandshakeInv, Owes, PlaceInv
  <2>2. UNCHANGED <<op, loop, mpc, sg_reply_rdy, robot_test_mode>>
    BY <1>19 DEF ZeroFound, KeepReply, quietSync, servoOnly, masterVars
  <2>3. zeroed' = zeroed \cup {axis}
    BY <1>19 DEF ZeroFound
  <2>4. CASE LastAxis(axis)
    <3>1. \A a \in Axes : a < axis \/ a = axis
      BY <2>4 DEF LastAxis, Axes
    <3>2. zeroed' = Axes
      BY <1>0, <2>1, <2>3, <3>1
    <3> QED
      BY <1>19, <2>1, <2>2, <2>4, <3>2 DEF ZeroFound
  <2>5. CASE ~LastAxis(axis)
    <3>1. axis' = axis + 1 /\ spc' = "area"
      BY <1>19, <2>5 DEF ZeroFound, ChooseAxis
    <3>2. \A a \in Axes : a < axis + 1 => a \in zeroed'
      BY <1>0, <2>1, <2>3
    <3> QED
      BY <2>1, <2>2, <3>1, <3>2
  <2> QED BY <2>4, <2>5
<1>20. CASE UNCHANGED vars
  BY <1>20 DEF vars, masterVars, servoVars
<1> QED
  BY <1>1, <1>2, <1>3, <1>4, <1>5, <1>6, <1>7, <1>8, <1>9, <1>10, <1>11, <1>12, <1>13,
     <1>14, <1>15, <1>16, <1>17, <1>18, <1>19, <1>20
  DEF Next, Client, ServoCycle, SyncStep

\* nobody publishes a reply unless it owes one or refuses a command
LEMMA ReplyOnlyWhenOwed ==
  ASSUME TypeOK, PlaceInv, HandshakeInv, [Next]_vars, ~UNCHANGED sg_reply
  PROVE  mpc = "sent" /\ ~sg_reply_rdy
<1> USE DEF Owes, HandshakeInv, PlainCodes, SyncPlaces
<1>1. CASE Client
  BY <1>1 DEF Client, GetControllerState, ReadHardware, SetServoAlgorithm, Synchronise,
     MoveServos,
     TakeReply, ReturnsError, ReturnsOk, SynchroniseReads, clientIdle
<1>2. CASE NoCommand \/ RefuseCommand \/ AcceptCommand \/ AnswerAtOnce
  BY <1>2 DEF NoCommand, RefuseCommand, AcceptCommand, AnswerAtOnce, KeepReply
<1>3. ASSUME NEW fault \in BOOLEAN, MovePassive(fault)
      PROVE  mpc = "sent" /\ ~sg_reply_rdy
  BY <1>3 DEF MovePassive, KeepReply
<1>4. CASE MoveBegin \/ MoveStepDone \/ MoveStepFails
  BY <1>4, MoveRepliesOwed
<1>5. CASE SyncInTestMode \/ SyncBegin \/ FinalStop \/ OtherAxisFault
  BY <1>5 DEF SyncInTestMode, SyncBegin, FinalStop, OtherAxisFault, KeepReply
<1>6. ASSUME NEW x \in AxisReading,
             SwitchFound(x) \/ StopStep(x) \/ SwitchLeft(x) \/ ZeroFound(x) \/ SyncFault(x)
      PROVE  mpc = "sent" /\ ~sg_reply_rdy
  BY <1>6 DEF SwitchFound, StopStep, SwitchLeft, ZeroFound, SyncFault, KeepReply
<1>7. CASE UNCHANGED vars
  BY <1>7 DEF vars
<1> QED
  BY <1>1, <1>2, <1>3, <1>4, <1>5, <1>6, <1>7 DEF Next, ServoCycle, SyncStep

\* Every step preserves the steps made before the answer.
LEMMA PhaseStep ==
  ASSUME TypeOK, PlaceInv, HandshakeInv, PhaseOneComplete, [Next]_vars
  PROVE  PhaseOneComplete'
<1> USE DEF PhaseOneComplete
<1>0. /\ command \in Commands /\ command.r \in Nat /\ command.n \in Nat /\ step \in Nat
      /\ reply_status \in ErrorWord
  BY CommandTypes DEF TypeOK
<1>1. CASE Client
  BY <1>1 DEF Client, GetControllerState, ReadHardware, SetServoAlgorithm, Synchronise,
     MoveServos,
     TakeReply, ReturnsError, ReturnsOk, SynchroniseReads, Send, clientIdle
<1>2. CASE NoCommand \/ AcceptCommand
  BY <1>2 DEF NoCommand, AcceptCommand, KeepReply, servoOnly, masterVars
<1>3. CASE RefuseCommand
  BY <1>0, <1>3, RefusalWord DEF RefuseCommand, ReplyToEdpMaster
<1>4. CASE AnswerAtOnce
  BY <1>4 DEF AnswerAtOnce, ReplyToEdpMaster, PlaceInv, PlainCodes
<1>5. ASSUME NEW fault \in BOOLEAN, MovePassive(fault)
      PROVE  PhaseOneComplete'
  BY <1>0, <1>5 DEF MovePassive, ReplyToEdpMaster, KeepReply, servoOnly, masterVars, HandshakeInv
<1>6. CASE MoveBegin
  BY <1>0, <1>6, CommandTypes DEF MoveBegin, ReplyToEdpMaster, KeepReply, servoOnly, masterVars,
     PlaceInv
<1>7. CASE MoveStepDone
  BY <1>0, <1>7 DEF MoveStepDone, DueAfterStep, ReplyToEdpMaster, KeepReply, servoOnly,
     masterVars, PlaceInv
<1>8. CASE MoveStepFails
  BY <1>0, <1>8, ErrorWords DEF MoveStepFails, ReplyToEdpMaster, KeepReply, servoOnly, masterVars
<1>9. CASE SyncInTestMode \/ FinalStop \/ OtherAxisFault
  BY <1>9 DEF SyncInTestMode, FinalStop, OtherAxisFault, SyncReplies, ReplyToEdpMaster,
     PlaceInv, SyncPlaces, PlainCodes
<1>10. CASE SyncBegin
  BY <1>10 DEF SyncBegin, KeepReply, quietSync, servoOnly, masterVars
<1>11. ASSUME NEW x \in AxisReading, SyncFault(x)
       PROVE  PhaseOneComplete'
  BY <1>11 DEF SyncFault, SyncReplies, ReplyToEdpMaster, PlaceInv, SyncPlaces
<1>12. ASSUME NEW x \in AxisReading,
              SwitchFound(x) \/ StopStep(x) \/ SwitchLeft(x) \/ ZeroFound(x)
       PROVE  PhaseOneComplete'
  BY <1>12 DEF SwitchFound, StopStep, SwitchLeft, ZeroFound, KeepReply, quietSync, servoOnly,
     masterVars
<1>13. CASE UNCHANGED vars
  BY <1>13 DEF vars, masterVars
<1> QED
  BY <1>1, <1>2, <1>3, <1>4, <1>5, <1>6, <1>7, <1>8, <1>9, <1>10, <1>11, <1>12, <1>13
  DEF Next, ServoCycle, SyncStep

\* Every step of the servo thread and its client is a step of the abstract call.
LEMMA RefinementStep ==
  ASSUME TypeOK, PlaceInv, HandshakeInv, ErrorInv, [Next]_vars
  PROVE  [Abstract!Next]_(Abstract!vars)
<1> USE DEF CallPhase, Abstract!vars, Abstract!Next, Abstract!Call, Abstract!Accept, Abstract!Refuse, Abstract!Answer, Abstract!Raise, Abstract!Return, OK
<1>0. mpc \in {"idle", "sent", "reading"}
  BY DEF TypeOK
<1>1. CASE GetControllerState \/ ReadHardware \/ SetServoAlgorithm \/ Synchronise
  BY <1>1 DEF GetControllerState, ReadHardware, SetServoAlgorithm, Synchronise, Send,
     clientIdle, servoVars, HandshakeInv
<1>2. ASSUME NEW n \in 1..MaxSteps, NEW r \in 0..(MaxSteps + 1), MoveServos(n, r)
      PROVE  [Abstract!Next]_(Abstract!vars)
  BY <1>2 DEF MoveServos, Send, clientIdle, servoVars, HandshakeInv
<1>3. CASE TakeReply
  BY <1>3 DEF TakeReply, servoVars
<1>4. CASE ReturnsError \/ ReturnsOk
  BY <1>4 DEF ReturnsError, ReturnsOk, servoVars, clientIdle
<1>5. CASE SynchroniseReads
  BY <1>5 DEF SynchroniseReads, Send, servoVars, clientIdle, HandshakeInv
<1>6. CASE NoCommand
  BY <1>6 DEF NoCommand, KeepReply, servoOnly, masterVars
<1>7. CASE RefuseCommand
  BY <1>7, RefusalWord DEF RefuseCommand, ReplyToEdpMaster, servoOnly, masterVars, HandshakeInv,
     TypeOK
<1>8. CASE AcceptCommand
  BY <1>8 DEF AcceptCommand, KeepReply, servoOnly, masterVars, HandshakeInv
<1>9. ASSUME NEW fault \in BOOLEAN, MovePassive(fault)
      PROVE  [Abstract!Next]_(Abstract!vars)
  <2>1. CASE send_after_last_step
    <3>1. mpc = "sent" /\ ~servo_command_rdy /\ ~sg_reply_rdy
      BY <2>1 DEF HandshakeInv, Owes
    <3>2. reply_status' = OK /\ sg_reply'.error = PassiveStatus(fault) /\ sg_reply_rdy' /\ UNCHANGED <<mpc, servo_command_rdy>>
      BY <1>9, <2>1 DEF MovePassive, ReplyToEdpMaster, servoOnly, masterVars
    <3>3. reply_status # OK => PassiveStatus(fault) # OK
      BY ErrorWords DEF PassiveStatus
    <3>4. CallPhase = "executing" /\ CallPhase' = "answered"
      BY <3>1, <3>2
    <3>5. (sg_reply'.error # OK) \in IF reply_status # OK THEN {TRUE} ELSE BOOLEAN
      BY <3>2, <3>3, Zenon
    <3> QED
      BY <3>2, <3>4, <3>5
  <2>2. CASE ~send_after_last_step
    <3>1. CASE fault
      <4>1. reply_status' # OK
        BY <1>9, <2>2, <3>1, ErrorWords DEF MovePassive, PassiveStatus
      <4>2. CallPhase # "executing"
        BY <1>0, <1>9, <2>2 DEF HandshakeInv, Owes, MovePassive, PlainCodes, SyncPlaces
      <4> QED
        BY <1>9, <2>2, <4>1, <4>2 DEF MovePassive, KeepReply, servoOnly, masterVars
    <3>2. CASE ~fault
      BY <1>9, <2>2, <3>2 DEF MovePassive, PassiveStatus, KeepReply, servoOnly, masterVars
    <3> QED BY <3>1, <3>2
  <2> QED BY <2>1, <2>2
<1>10. CASE AnswerAtOnce
  BY <1>10 DEF AnswerAtOnce, ReplyToEdpMaster, servoOnly, masterVars, HandshakeInv, Owes,
     PlainCodes, ErrorInv
<1>11. CASE MoveBegin
  <2>1. CASE command.r = 0
    BY <1>11, <2>1 DEF MoveBegin, ReplyToEdpMaster, servoOnly, masterVars, HandshakeInv, Owes,
       ErrorInv
  <2>2. CASE command.r # 0
    BY <1>11, <2>2 DEF MoveBegin, KeepReply, servoOnly, masterVars
  <2> QED BY <2>1, <2>2
<1>12. CASE MoveStepDone
  <2>1. CASE DueAfterStep(step, command.r)
    <3>1. mpc = "sent" /\ ~servo_command_rdy /\ ~sg_reply_rdy
      BY <1>12, <2>1, CommandTypes DEF MoveStepDone, DueAfterStep, HandshakeInv, Owes, TypeOK
    <3> QED
      BY <1>12, <2>1, <3>1 DEF MoveStepDone, ReplyToEdpMaster, servoOnly, masterVars, ErrorInv
  <2>2. CASE ~DueAfterStep(step, command.r)
    BY <1>12, <2>2 DEF MoveStepDone, KeepReply, servoOnly, masterVars
  <2> QED BY <2>1, <2>2
<1>13. CASE MoveStepFails
  <2>1. CASE InPhase2(step, command.r)
    <3>1. spc = "step" /\ ~(step < command.r) /\ ~send_after_last_step
      BY <1>13, <2>1, CommandTypes DEF InPhase2, MoveStepFails, PlaceInv, TypeOK
    <3>2. CallPhase # "executing"
      BY <1>0, <3>1 DEF HandshakeInv, Owes, PlainCodes, SyncPlaces
    <3>3. reply_status' # OK
      BY <1>13, <2>1, ErrorWords DEF MoveStepFails
    <3> QED
      BY <1>13, <2>1, <3>2, <3>3 DEF MoveStepFails, KeepReply, servoOnly, masterVars
  <2>2. CASE ~InPhase2(step, command.r)
    <3>1. mpc = "sent" /\ ~servo_command_rdy /\ ~sg_reply_rdy
      BY <1>13, <2>2, CommandTypes DEF MoveStepFails, InPhase2, HandshakeInv, Owes, TypeOK
    <3>2. DriveFault \cup SERVO_ERROR_IN_PHASE_1 # OK
      BY ErrorWords
    <3>3. reply_status' = OK /\ sg_reply'.error # OK /\ sg_reply_rdy' /\ UNCHANGED <<mpc, servo_command_rdy>>
      BY <1>13, <2>2, <3>2 DEF MoveStepFails, ReplyToEdpMaster, servoOnly, masterVars
    <3>4. CallPhase = "executing" /\ CallPhase' = "answered"
      BY <3>1, <3>3
    <3> QED
      BY <3>3, <3>4
  <2> QED BY <2>1, <2>2
<1>14. CASE SyncInTestMode \/ FinalStop \/ OtherAxisFault
  <2>1. mpc = "sent" /\ ~servo_command_rdy /\ ~sg_reply_rdy /\ reply_status = OK
    BY <1>14 DEF SyncInTestMode, FinalStop, OtherAxisFault, HandshakeInv, Owes, PlainCodes,
       SyncPlaces, ErrorInv
  <2>2. reply_status' = OK /\ sg_reply_rdy' /\ UNCHANGED <<mpc, servo_command_rdy>>
    BY <1>14 DEF SyncInTestMode, FinalStop, OtherAxisFault, SyncReplies, ReplyToEdpMaster,
       quietSync, servoOnly, masterVars
  <2>3. CallPhase = "executing" /\ CallPhase' = "answered"
    BY <2>1, <2>2
  <2> QED
    BY <2>1, <2>2, <2>3
<1>15. ASSUME NEW reading \in AxisReading, SyncFault(reading)
      PROVE  [Abstract!Next]_(Abstract!vars)
  <2>1. mpc = "sent" /\ ~servo_command_rdy /\ ~sg_reply_rdy /\ reply_status = OK
    BY <1>15 DEF SyncFault, HandshakeInv, Owes, PlainCodes, SyncPlaces, ErrorInv
  <2>2. reply_status' = OK /\ sg_reply_rdy' /\ UNCHANGED <<mpc, servo_command_rdy>>
    BY <1>15 DEF SyncFault, SyncReplies, ReplyToEdpMaster, quietSync, servoOnly, masterVars
  <2>3. CallPhase = "executing" /\ CallPhase' = "answered"
    BY <2>1, <2>2
  <2> QED
    BY <2>1, <2>2, <2>3
<1>16. ASSUME NEW reading \in AxisReading,
              SyncBegin \/ SwitchFound(reading) \/ StopStep(reading) \/ SwitchLeft(reading) \/ ZeroFound(reading)
      PROVE  [Abstract!Next]_(Abstract!vars)
  <2>1. reply_status = OK /\ reply_status' = OK
    BY <1>16 DEF SyncBegin, SwitchFound, StopStep, SwitchLeft, ZeroFound, ChooseAxis, ErrorInv
  <2>2. UNCHANGED <<mpc, servo_command_rdy, sg_reply, sg_reply_rdy>>
    BY <1>16 DEF SyncBegin, SwitchFound, StopStep, SwitchLeft, ZeroFound, KeepReply, quietSync,
       servoOnly, masterVars
  <2> QED
    BY <2>1, <2>2
<1>17. CASE SyncBegin
  <2>1. "FAULT" \in AxisReading
    BY DEF AxisReading
  <2> QED
    BY <1>16, <1>17, <2>1
<1>19. CASE UNCHANGED vars
  BY <1>19 DEF vars, masterVars, servoVars
<1> QED BY <1>1, <1>2, <1>3, <1>4, <1>5, <1>6, <1>7, <1>8, <1>9, <1>10, <1>11, <1>12, <1>13,
   <1>14, <1>15, <1>16, <1>17, <1>19
   DEF Next, Client, ServoCycle, SyncStep
-----------------------------------------------------------------------------
(* The theorems *)

\* The inductive invariant.
THEOREM Invariant == Spec => []IInv
<1>1. Init => IInv
  <2> SUFFICES ASSUME Init PROVE IInv
    OBVIOUS
  <2> USE ServoAssumption DEF Init
  <2>1. TypeOK
    <3>1. OK \in ErrorWord
      BY ErrorWords
    <3>2. PlainCommand("READ") \in Commands
      BY PlainCommandType DEF PlainCodes
    <3>3. sg_reply \in Replies
      BY <3>1, <3>2 DEF Replies
    <3>4. Values
      BY <3>1, <3>2, <3>3 DEF Values, MasterOps, ServoPlaces, PlainCodes, Axes
    <3>5. Flags
      BY Zenon DEF Flags
    <3> QED
      BY <3>4, <3>5 DEF TypeOK, Flags, Values
  <2>2. PlaceInv
    BY DEF PlaceInv, SyncPlaces, PlainCodes
  <2>3. HandshakeInv
    BY DEF HandshakeInv, Owes, AnswerBelongsToCommand, SyncPlaces, PlainCodes
  <2>4. ErrorInv /\ DriftInv
    BY DEF ErrorInv, NoFaultForgotten, DriftInv, StepsWaiting, StepsRunning
  <2>5. ZeroInv /\ PhaseOneComplete
    BY DEF ZeroInv, SyncPlaces, PhaseOneComplete
  <2> QED
    BY <2>1, <2>2, <2>3, <2>4, <2>5 DEF IInv
<1>2. IInv /\ [Next]_vars => IInv'
  <2> SUFFICES ASSUME IInv, [Next]_vars PROVE IInv'
    OBVIOUS
  <2>1. TypeOK <=> Flags /\ Values
    BY DEF TypeOK, Flags, Values
  <2>2. TypeOK' <=> Flags' /\ Values'
    BY DEF TypeOK, Flags, Values
  <2>3. TypeOK'
    BY <2>1, <2>2, FlagsStep, ValuesStep DEF IInv
  <2> QED
    BY <2>1, <2>3, PlaceStep, HandshakeStep, ErrorStep, DriftStep, ZeroStep, PhaseStep DEF IInv
<1> QED
  BY <1>1, <1>2, PTL DEF Spec

\* Every variable keeps its type.
THEOREM TypeCorrect == Spec => []TypeOK
BY Invariant, PTL DEF IInv

\* A fault found by the servo thread stays pending until a reply carries an error.
THEOREM FaultsReported == Spec => []NoFaultForgotten
<1>1. IInv => NoFaultForgotten
  BY DEF IInv, ErrorInv
<1> QED
  BY <1>1, Invariant, PTL

\* The reply that wakes the client up answers the command it sent last.
THEOREM AnswersMatch == Spec => []AnswerBelongsToCommand
<1>1. IInv => AnswerBelongsToCommand
  BY DEF IInv, HandshakeInv
<1> QED
  BY <1>1, Invariant, PTL

\* A macro step answered without an error has made exactly the steps it was asked
\* to make before the answer.
THEOREM PhaseOne == Spec => []PhaseOneComplete
BY Invariant, PTL DEF IInv

\* When everybody rests and no error was reported, the arm is where it is believed to be.
THEOREM Drift == Spec => []NoSilentDrift
<1>1. IInv => NoSilentDrift
  BY DEF IInv, DriftInv, ErrorOnItsWay, StepsWaiting, StepsRunning, HandshakeInv, NoSilentDrift
<1> QED
  BY <1>1, Invariant, PTL

\* Instructions are served only by a robot whose axes have all found their zero,
\* whatever their number.
THEOREM Zeroed == Spec => []ServedOnlyWhenZeroed
<1>1. IInv => ServedOnlyWhenZeroed
  BY DEF IInv, ZeroInv, ServedOnlyWhenZeroed
<1> QED
  BY <1>1, Invariant, PTL

\* The reply is not overwritten while the client reads it without the mutex.
THEOREM ReplyStable == Spec => ReplyStableWhileRead
<1>1. IInv /\ [Next]_vars => [mpc = "reading" => UNCHANGED sg_reply]_vars
  BY ReplyOnlyWhenOwed DEF IInv
<1> QED
  BY <1>1, Invariant, PTL DEF Spec, ReplyStableWhileRead

\* The servo thread and its client implement the abstract call.
THEOREM Implements == Spec => ImplementsServoCall
<1>1. Init => Abstract!Init
  BY DEF Init, Abstract!Init, CallPhase
<1>2. IInv /\ [Next]_vars => [Abstract!Next]_(Abstract!vars)
  BY RefinementStep DEF IInv
<1> QED
  BY <1>1, <1>2, Invariant, PTL DEF Spec, ImplementsServoCall, Abstract!Spec
=============================================================================
