------------------------------ MODULE ServoCall ------------------------------
(***************************************************************************)
(* What the thread that executes instructions may assume of the servo      *)
(* thread when it calls send_to_SERVO_GROUP (base/edp/servo_gr.cc): every  *)
(* call is answered once; a fault found while no call is executing raises  *)
(* an alarm; a call made under an alarm is refused, never executed, and    *)
(* only an answer that reports a failure withdraws an alarm.               *)
(***************************************************************************)
VARIABLES phase,   \* "idle", "called", "executing" or "answered"
          alarm,   \* a fault waits to be reported
          failed   \* the last answer reported a failure

vars == <<phase, alarm, failed>>

Init == phase = "idle" /\ alarm = FALSE /\ failed = FALSE

Call   == /\ phase = "idle"
          /\ phase' = "called"
          /\ UNCHANGED <<alarm, failed>>

Accept == /\ phase = "called" /\ ~alarm
          /\ phase' = "executing"
          /\ UNCHANGED <<alarm, failed>>

Refuse == /\ phase = "called" /\ alarm
          /\ phase' = "answered"
          /\ alarm' = FALSE
          /\ failed' = TRUE

Answer == /\ phase = "executing"
          /\ phase' = "answered"
          /\ alarm' = FALSE
          /\ failed' \in (IF alarm THEN {TRUE} ELSE BOOLEAN)

Raise  == /\ phase # "executing"
          /\ alarm' = TRUE
          /\ UNCHANGED <<phase, failed>>

\* the caller may go on to its next call at once
Return == /\ phase = "answered"
          /\ phase' \in {"idle", "called"}
          /\ UNCHANGED <<alarm, failed>>

Next == Call \/ Accept \/ Refuse \/ Answer \/ Raise \/ Return
Spec == Init /\ [][Next]_vars
=============================================================================
