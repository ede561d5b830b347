---------------------------- MODULE TransThread ----------------------------
(***************************************************************************)
(* The transformation thread of an EDP process (base/edp/trans_t.h,        *)
(* manip_trans_t.cc) and the master thread that gives it orders.  Each     *)
(* direction has a condition_synchroniser: one bit that command() sets and *)
(* wait() blocks on and clears, so two commands before a wait count once.  *)
(*                                                                         *)
(* Every order is released once when it is done, except a macro step       *)
(* interpolated in the task space (TCIM): it is released after step v of n *)
(* and goes on, so that the master works beside it, and a failure of a     *)
(* later step releases the master again.                                   *)
(***************************************************************************)
EXTENDS Integers

CONSTANT MaxSteps    \* bound on motion_steps

ASSUME StepsAssumption == MaxSteps \in Nat \ {0}

VARIABLES
    manipulator,   \* the effector is a manip_effector; fixed for a process
    \* the master thread
    mpc,           \* "idle", "filled", "waiting", "checking" or "computing"
    tmp_cmd,       \* the order, in the shared buffer
    \* the two condition synchronisers
    ordered,       \* master_to_trans_synchroniser.has_command
    released,      \* trans_t_to_master_synchroniser.has_command
    error,
    \* the transformation thread
    tpc,           \* "wait", "copy", "execute" or "step"
    current_cmd, step,
    \* history
    latest,        \* current_cmd is the order the master has given last
    fresh,         \* the last release was for the order the master had given last
    answered,      \* current_cmd has released the master
    twice,         \* some order has released the master twice
    thrown         \* the master has thrown error

masterVars  == <<mpc, tmp_cmd>>
threadVars  == <<tpc, current_cmd, step>>
historyVars == <<latest, fresh, answered, twice, thrown>>
vars == <<manipulator, masterVars, ordered, released, error, threadVars, historyVars>>

\* OTHER stands for the four orders that only call a method of the effector which
\* looks for no switch; a move has motion_steps n and value_in_step_no v
Orders == [task : {"OTHER", "SYNCHRONISE"}, interp : {"MIM"}, n : {0}, v : {0}]
            \cup [task : {"MOVE_ARM"}, interp : {"MIM", "TCIM"},
                  n : 0..MaxSteps, v : 0..(MaxSteps + 1)]
NoOrder == [task |-> "OTHER", interp |-> "MIM", n |-> 0, v |-> 0]

\* System_error makes the process exit; it is left to the model of the master
Errors == {"NonFatal_erroR_2", "Fatal_erroR"}

\* what a catch clause leaves in error: catch (...) releases the master without
\* setting it
Caught == Errors \cup {"NO_ERROR"}

TypeOK ==
    /\ manipulator \in BOOLEAN
    /\ mpc \in {"idle", "filled", "waiting", "checking", "computing"}
    /\ tmp_cmd \in Orders /\ current_cmd \in Orders
    /\ ordered \in BOOLEAN /\ released \in BOOLEAN
    /\ error \in Errors \cup {"NO_ERROR"}
    /\ tpc \in {"wait", "copy", "execute", "step"}
    /\ step \in 1..(MaxSteps + 1)
    /\ latest \in BOOLEAN /\ fresh \in BOOLEAN /\ answered \in BOOLEAN
    /\ twice \in BOOLEAN /\ thrown \in BOOLEAN

\* error is not initialised by the code, but no order is released before it is
Init ==
    /\ manipulator \in BOOLEAN
    /\ mpc = "idle" /\ tmp_cmd = NoOrder
    /\ ordered = FALSE /\ released = FALSE
    /\ error = "NO_ERROR"
    /\ tpc = "wait" /\ current_cmd = NoOrder /\ step = 1
    /\ latest = FALSE /\ fresh = FALSE /\ answered = TRUE
    /\ twice = FALSE /\ thrown = FALSE
-----------------------------------------------------------------------------
(***************************************************************************)
(* The master: master_to_trans_t_order, and for a move the computation of  *)
(* the arm position that interpret_instruction makes in its own thread.    *)
(***************************************************************************)
FillOrder(cmd) ==
    /\ mpc = "idle"
    /\ tmp_cmd' = cmd
    /\ mpc' = "filled"
    /\ latest' = FALSE /\ fresh' = FALSE
    /\ UNCHANGED <<manipulator, ordered, released, error, threadVars, answered, twice, thrown>>

GiveOrder ==
    /\ mpc = "filled"
    /\ ordered' = TRUE
    /\ mpc' = "waiting"
    /\ UNCHANGED <<manipulator, tmp_cmd, released, error, threadVars, historyVars>>

\* mutants are kept beside the definition they replace, marked "mutant:"
\* mutant: wait() returns without clearing has_command
WaitForReleaseKeeps ==
    /\ mpc = "waiting" /\ released
    /\ mpc' = "checking"
    /\ UNCHANGED <<manipulator, tmp_cmd, ordered, released, error, threadVars, historyVars>>

WaitForRelease ==
    /\ mpc = "waiting" /\ released
    /\ released' = FALSE
    /\ mpc' = "checking"
    /\ UNCHANGED <<manipulator, tmp_cmd, ordered, error, threadVars, historyVars>>

\* mutant: a case of the switch is missing
ThrowsNonFatal(e) == e = "NonFatal_erroR_2"

\* the switch on error
Throws(e) == e # "NO_ERROR"

\* error is read without a lock
OrderReturns ==
    /\ mpc = "checking"
    /\ IF Throws(error)
         THEN mpc' = "idle" /\ thrown' = TRUE
         ELSE /\ mpc' = IF tmp_cmd.task = "MOVE_ARM" THEN "computing" ELSE "idle"
              /\ UNCHANGED thrown
    /\ UNCHANGED <<manipulator, tmp_cmd, ordered, released, error, threadVars,
                   latest, fresh, answered, twice>>

\* get_arm_position(false, instruction)
ComputePosition ==
    /\ mpc = "computing"
    /\ mpc' = "idle"
    /\ UNCHANGED <<manipulator, tmp_cmd, ordered, released, error, threadVars, historyVars>>

Master == GiveOrder \/ WaitForRelease \/ OrderReturns \/ ComputePosition
-----------------------------------------------------------------------------
(***************************************************************************)
(* The transformation thread.                                              *)
(***************************************************************************)
\* trans_t_to_master_synchroniser.command()
Release ==
    /\ released' = TRUE
    /\ fresh' = latest
    /\ answered' = TRUE
    /\ twice' = (twice \/ answered)

KeepRelease == UNCHANGED <<released, fresh, answered, twice>>

\* any of the catch clauses; error was NO_ERROR before
Fails(e) ==
    /\ error' = e
    /\ thrown' = FALSE
    /\ Release
    /\ tpc' = "wait"

Succeeds ==
    /\ Release
    /\ tpc' = "wait"
    /\ UNCHANGED <<error, thrown>>

WakeUp ==
    /\ tpc = "wait" /\ ordered
    /\ ordered' = FALSE
    /\ tpc' = "copy"
    /\ UNCHANGED <<manipulator, masterVars, released, error, current_cmd, step, historyVars>>

CopyOrder ==
    /\ tpc = "copy"
    /\ current_cmd' = tmp_cmd
    /\ error' = "NO_ERROR"
    /\ step' = 1
    /\ tpc' = "execute"
    /\ latest' = TRUE /\ answered' = FALSE
    /\ UNCHANGED <<manipulator, masterVars, ordered, released, fresh, twice, thrown>>

\* only manip_effector looks at interpolation_type
IsTcim(cmd) == manipulator /\ cmd.task = "MOVE_ARM" /\ cmd.interp = "TCIM"

\* the test that compute_motors, compute_joints and compute_frame have in common;
\* the latter two throw for some v too, which is left to Fails
ValidMotion(cmd) == cmd.n > 0

\* an order other than a synchronisation and a TCIM move, released once
ExecuteOrder ==
    /\ tpc = "execute" /\ ~IsTcim(current_cmd) /\ current_cmd.task # "SYNCHRONISE"
    /\ \/ \E e \in Caught : Fails(e)
       \/ current_cmd.task = "OTHER" /\ Succeeds
       \/ current_cmd.task = "MOVE_ARM" /\ ValidMotion(current_cmd) /\ Succeeds
    /\ UNCHANGED <<manipulator, masterVars, ordered, current_cmd, step, latest>>

\* the servo thread has looked for the switches of every axis, however long it took
Synchronise ==
    /\ tpc = "execute" /\ current_cmd.task = "SYNCHRONISE"
    /\ Succeeds \/ \E e \in Caught : Fails(e)
    /\ UNCHANGED <<manipulator, masterVars, ordered, current_cmd, step, latest>>

\* pose_force_torque_at_frame_move, up to the loop of iterate_macrostep
TcimBegin ==
    /\ tpc = "execute" /\ IsTcim(current_cmd)
    /\ tpc' = "step"
    /\ UNCHANGED <<manipulator, masterVars, ordered, released, error, current_cmd, step,
                   historyVars>>

TcimRefused ==
    /\ tpc = "execute" /\ IsTcim(current_cmd)
    /\ \E e \in Caught : Fails(e)
    /\ UNCHANGED <<manipulator, masterVars, ordered, current_cmd, step, latest>>

\* the loop over the steps goes on
MoreSteps(s, n) == s <= n

\* mutants: off by one, the master is released a step earlier or later
ReleaseStepEarly(s, v) == s = v - 1
ReleaseStepLate(s, v) == s = v + 1

\* the step after which the master is released
ReleaseStep(s, v) == s = v

TcimStepDone ==
    /\ tpc = "step" /\ MoreSteps(step, current_cmd.n)
    /\ step' = step + 1
    /\ IF ReleaseStep(step, current_cmd.v) THEN Release ELSE KeepRelease
    /\ UNCHANGED <<manipulator, masterVars, ordered, error, tpc, current_cmd, latest, thrown>>

\* the kinematics or move_servos throws
TcimStepFails ==
    /\ tpc = "step" /\ MoreSteps(step, current_cmd.n)
    /\ \E e \in Caught : Fails(e)
    /\ UNCHANGED <<manipulator, masterVars, ordered, current_cmd, step, latest>>

TcimEnd ==
    /\ tpc = "step" /\ ~MoreSteps(step, current_cmd.n)
    /\ tpc' = "wait"
    /\ UNCHANGED <<manipulator, masterVars, ordered, released, error, current_cmd, step,
                   historyVars>>

\* what ends by itself: everything but a synchronisation
BoundedWork == \/ WakeUp \/ CopyOrder \/ ExecuteOrder
               \/ TcimBegin \/ TcimRefused \/ TcimStepDone \/ TcimStepFails \/ TcimEnd

Thread == BoundedWork \/ Synchronise

Next == Master \/ Thread \/ \E cmd \in Orders : FillOrder(cmd)
Spec == Init /\ [][Next]_vars

(***************************************************************************)
(* Both threads run when they can; nothing makes a new order arrive, and   *)
(* nothing makes a synchronisation end, since the loops of the servo       *)
(* thread that look for a switch have no time limit.  Of the other orders, *)
(* a command to the servo thread is answered (ServoGroup) and one to the   *)
(* force sensor is carried out (ForceSensor).                              *)
(***************************************************************************)
FairSpec == Spec /\ WF_vars(Master) /\ WF_vars(BoundedWork)
-----------------------------------------------------------------------------
(* Properties *)

\* As long as no order has been released twice, the release that ends the wait
\* of master_to_trans_t_order belongs to the order just given.
ReleaseBelongsToOrder ==
    mpc \in {"checking", "computing"} /\ ~twice => fresh

\* A second release of the master for one order is that of a step of a TCIM move
\* that fails after step value_in_step_no.
TwiceOnlyByLateFailure ==
    [][twice' # twice => /\ IsTcim(current_cmd) /\ tpc = "step" /\ step > current_cmd.v
                         /\ tpc' = "wait"]_vars

\* As long as no order has been released twice, an error is thrown in the
\* master before the thread forgets it.
ErrorThrownFirst == [][error # "NO_ERROR" /\ error' # error => thrown \/ twice]_vars

\* As long as no order has been released twice, the master never writes tmp_cmd
\* while the thread copies it, and never overwrites an order not yet taken.
OrderNotTorn ==
    [][tmp_cmd' # tmp_cmd => twice \/ (tpc # "copy" /\ ~ordered)]_vars

\* The master computes the arm position in its own thread only while the
\* transformation thread rests, unless a TCIM move was released before its end.
PositionReadAlone ==
    mpc = "computing" /\ ~twice =>
       tpc = "wait" \/ (IsTcim(current_cmd) /\ step > current_cmd.v)

\* An order returns, if it is neither a synchronisation nor a TCIM move with a
\* value_in_step_no that the loop over its steps never meets.  Only where a second
\* release has let the master pass a synchronisation that still runs may the
\* order wait behind it.
OrderAnswered ==
    (/\ mpc = "waiting" /\ tmp_cmd.task # "SYNCHRONISE"
     /\ IsTcim(tmp_cmd) => tmp_cmd.v \in 1..tmp_cmd.n)
        ~> (mpc = "idle" \/ (twice /\ current_cmd.task = "SYNCHRONISE" /\ tpc = "execute"))
=============================================================================
