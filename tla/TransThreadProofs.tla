------------------------- MODULE TransThreadProofs -------------------------
(***************************************************************************)
(* Proofs about TransThread, for every MaxSteps.  The argument is that an  *)
(* order is, at any time, at one place: in the flag ordered, being copied, *)
(* being executed with its release still owed, in the flag released, or    *)
(* returned; it ceases to hold when an order releases the master twice.    *)
(***************************************************************************)
EXTENDS TransThread, TLAPS

\* where the thread is agrees with what it executes
PlaceInv ==
    /\ tpc = "execute" => ~answered
    /\ tpc = "step" => IsTcim(current_cmd)
    /\ tpc \in {"execute", "step"} => error = "NO_ERROR"

\* the release of the order under way is no longer owed
Settled == /\ ~ordered
           /\ tpc \in {"wait", "step"}
           /\ tpc = "step" => answered

\* the last order is at one place
OrderInv ==
    ~twice =>
      /\ mpc # "waiting" => Settled /\ ~released
      /\ mpc \in {"checking", "computing"} => fresh
      /\ mpc = "waiting" /\ ordered =>
           ~released /\ tpc \in {"wait", "step"} /\ (tpc = "step" => answered)
      /\ tpc = "copy" => ~released
      /\ tpc \in {"execute", "step"} /\ ~answered => latest /\ ~released
      /\ released => fresh
      /\ tpc = "step" /\ answered => step > current_cmd.v

\* an error not yet thrown is on its way to the master
ErrorInv ==
    ~twice /\ error # "NO_ERROR" /\ ~thrown => released \/ mpc = "checking"

Handover == PlaceInv /\ OrderInv /\ ErrorInv

IInv == TypeOK /\ Handover
-----------------------------------------------------------------------------
LEMMA OrderTypes ==
  /\ NoOrder \in Orders
  /\ \A cmd \in Orders : cmd.n \in 0..MaxSteps /\ cmd.v \in 0..(MaxSteps + 1)
<1>1. 0 \in 0..MaxSteps /\ 0 \in 0..(MaxSteps + 1)
  BY StepsAssumption
<1>2. NoOrder \in Orders
  BY DEF NoOrder, Orders
<1>3. ASSUME NEW cmd \in Orders PROVE cmd.n \in 0..MaxSteps /\ cmd.v \in 0..(MaxSteps + 1)
  <2>1. CASE cmd \in [task : {"OTHER", "SYNCHRONISE"}, interp : {"MIM"}, n : {0}, v : {0}]
    <3>1. cmd.n = 0 /\ cmd.v = 0
      BY <2>1
    <3> QED
      BY <1>1, <3>1
  <2>2. CASE cmd \in [task : {"MOVE_ARM"}, interp : {"MIM", "TCIM"},
                      n : 0..MaxSteps, v : 0..(MaxSteps + 1)]
    BY <2>2
  <2> QED
    BY <2>1, <2>2 DEF Orders
<1> QED
  BY <1>2, <1>3

(***************************************************************************)
(* Type correctness is inductive on its own.                               *)
(***************************************************************************)
LEMMA TypeStep == TypeOK /\ [Next]_vars => TypeOK'
<1> SUFFICES ASSUME TypeOK, [Next]_vars PROVE TypeOK'
  OBVIOUS
<1> USE StepsAssumption
<1>1. ASSUME NEW cmd \in Orders, FillOrder(cmd) PROVE TypeOK'
  BY <1>1 DEF TypeOK, FillOrder, threadVars
<1>2. CASE GiveOrder
  BY <1>2 DEF TypeOK, GiveOrder, threadVars, historyVars
<1>3. CASE WaitForRelease
  BY <1>3 DEF TypeOK, WaitForRelease, threadVars, historyVars
<1>4. CASE OrderReturns
  BY <1>4 DEF TypeOK, OrderReturns, threadVars
<1>5. CASE ComputePosition
  BY <1>5 DEF TypeOK, ComputePosition, threadVars, historyVars
<1>6. CASE WakeUp
  BY <1>6 DEF TypeOK, WakeUp, masterVars, historyVars
<1>7. CASE CopyOrder
  <2>1. current_cmd' \in Orders /\ step' \in 1..(MaxSteps + 1)
    BY <1>7 DEF TypeOK, CopyOrder
  <2> QED
    BY <1>7, <2>1 DEF TypeOK, CopyOrder, masterVars
<1>8. CASE ExecuteOrder
  BY <1>8 DEF TypeOK, ExecuteOrder, Caught, Fails, Succeeds, Release, masterVars
<1>9. CASE TcimBegin
  BY <1>9 DEF TypeOK, TcimBegin, masterVars, historyVars
<1>10. CASE TcimRefused
  BY <1>10 DEF TypeOK, TcimRefused, Caught, Fails, Release, masterVars
<1>11. CASE TcimStepDone
  <2>1. current_cmd.n \in 0..MaxSteps
    BY OrderTypes DEF TypeOK
  <2>2. step' \in 1..(MaxSteps + 1)
    BY <1>11, <2>1 DEF TypeOK, TcimStepDone, MoreSteps
  <2> QED
    BY <1>11, <2>2 DEF TypeOK, TcimStepDone, Release, KeepRelease, masterVars
<1>12. CASE TcimStepFails
  BY <1>12 DEF TypeOK, TcimStepFails, Caught, Fails, Release, masterVars
<1>13. CASE TcimEnd
  BY <1>13 DEF TypeOK, TcimEnd, masterVars, historyVars
<1>14. CASE Synchronise
  BY <1>14 DEF TypeOK, Synchronise, Caught, Fails, Succeeds, Release, masterVars
<1>15. CASE UNCHANGED vars
  BY <1>15 DEF TypeOK, vars, masterVars, threadVars, historyVars
<1> QED
  BY <1>1, <1>2, <1>3, <1>4, <1>5, <1>6, <1>7, <1>8, <1>9, <1>10, <1>11, <1>12, <1>13, <1>14, <1>15
     DEF Next, Master, Thread, BoundedWork

(***************************************************************************)
(* The rest of the invariant, action by action.                            *)
(***************************************************************************)
LEMMA HandoverStep == TypeOK /\ Handover /\ [Next]_vars => Handover'
<1> SUFFICES ASSUME TypeOK, Handover, [Next]_vars PROVE Handover'
  OBVIOUS
<1>0. /\ ordered \in BOOLEAN /\ released \in BOOLEAN
      /\ latest \in BOOLEAN /\ fresh \in BOOLEAN /\ answered \in BOOLEAN
      /\ twice \in BOOLEAN /\ thrown \in BOOLEAN
  BY Zenon DEF TypeOK
<1> USE DEF Handover, PlaceInv, OrderInv, ErrorInv, Settled, IsTcim
<1>1. ASSUME NEW cmd \in Orders, FillOrder(cmd) PROVE Handover'
  BY <1>0, <1>1 DEF FillOrder, threadVars
<1>2. CASE GiveOrder
  BY <1>0, <1>2 DEF GiveOrder, threadVars, historyVars
<1>3. CASE WaitForRelease
  <2>1. mpc = "waiting" /\ released
    BY <1>3 DEF WaitForRelease
  <2>2. ~twice => fresh /\ Settled
    BY <1>0, <2>1 DEF TypeOK
  <2> QED
    BY <1>0, <1>3, <2>2 DEF WaitForRelease, threadVars, historyVars
<1>4. CASE OrderReturns
  BY <1>0, <1>4 DEF OrderReturns, Throws, threadVars
<1>5. CASE ComputePosition
  BY <1>0, <1>5 DEF ComputePosition, threadVars, historyVars
<1>6. CASE WakeUp
  BY <1>0, <1>6 DEF WakeUp, masterVars, historyVars
<1>7. CASE CopyOrder
  BY <1>0, <1>7 DEF CopyOrder, masterVars
<1>8. CASE ExecuteOrder
  BY <1>0, <1>8 DEF ExecuteOrder, Caught, Fails, Succeeds, Release, masterVars
<1>9. CASE TcimBegin
  BY <1>0, <1>9 DEF TcimBegin, masterVars, historyVars
<1>10. CASE TcimRefused
  BY <1>0, <1>10 DEF TcimRefused, Caught, Fails, Release, masterVars
<1>11. CASE TcimStepDone
  <2>1. current_cmd.n \in 0..MaxSteps /\ current_cmd.v \in 0..(MaxSteps + 1)
    BY OrderTypes DEF TypeOK
  <2>2. step \in Nat
    BY DEF TypeOK
  <2> QED
    BY <1>0, <1>11, <2>2, <2>1
       DEF TcimStepDone, MoreSteps, ReleaseStep, Release, KeepRelease, masterVars
<1>12. CASE TcimStepFails
  BY <1>0, <1>12 DEF TcimStepFails, Caught, Fails, Release, masterVars
<1>13. CASE TcimEnd
  BY <1>0, <1>13 DEF TcimEnd, masterVars, historyVars
<1>14. CASE Synchronise
  BY <1>0, <1>14 DEF Synchronise, Caught, Fails, Succeeds, Release, masterVars
<1>15. CASE UNCHANGED vars
  BY <1>0, <1>15 DEF vars, masterVars, threadVars, historyVars
<1> QED
  BY <1>1, <1>2, <1>3, <1>4, <1>5, <1>6, <1>7, <1>8, <1>9, <1>10, <1>11, <1>12, <1>13, <1>14, <1>15
     DEF Next, Master, Thread, BoundedWork

LEMMA InitInv == Init => IInv
<1> SUFFICES ASSUME Init PROVE IInv
  OBVIOUS
<1>1. TypeOK
  <2>1. 1 \in 1..(MaxSteps + 1)
    BY StepsAssumption
  <2>2. tmp_cmd \in Orders /\ current_cmd \in Orders
    BY OrderTypes, Zenon DEF Init
  <2> QED
    BY <2>1, <2>2 DEF Init, TypeOK
<1>2. Handover
  BY DEF Init, Handover, PlaceInv, OrderInv, ErrorInv, Settled
<1> QED
  BY <1>1, <1>2 DEF IInv

\* The inductive invariant holds of every behaviour of the two threads.
THEOREM Invariant == Spec => []IInv
<1>1. IInv /\ [Next]_vars => IInv'
  BY TypeStep, HandoverStep DEF IInv
<1> QED
  BY InitInv, <1>1, PTL DEF Spec

\* Every variable of the two threads keeps its type (tmp_cmd, error, the flags).
THEOREM TypeCorrect == Spec => []TypeOK
<1>1. IInv => TypeOK
  BY DEF IInv
<1> QED
  BY Invariant, <1>1, PTL

\* The release that ends a wait of master_to_trans_t_order is for the order just
\* given, unless an order has released the master twice.
THEOREM ReleaseMatches == Spec => []ReleaseBelongsToOrder
<1>1. IInv => ReleaseBelongsToOrder
  BY DEF IInv, Handover, OrderInv, ReleaseBelongsToOrder
<1> QED
  BY Invariant, <1>1, PTL

\* Only a step of iterate_macrostep that fails after step value_in_step_no releases
\* the master for a second time.
THEOREM OnlyLateFailure == Spec => TwiceOnlyByLateFailure
<1> DEFINE Again == twice' # twice
           Late  == /\ IsTcim(current_cmd) /\ tpc = "step" /\ step > current_cmd.v
                    /\ tpc' = "wait"
<1>1. IInv /\ [Next]_vars => [Again => Late]_vars
  <2> SUFFICES ASSUME IInv, [Next]_vars, Again PROVE Late
    BY Zenon
  <2> USE DEF masterVars, threadVars, historyVars
  <2>1. /\ PlaceInv /\ OrderInv
        /\ twice \in BOOLEAN /\ answered \in BOOLEAN
    BY Zenon DEF IInv, Handover, TypeOK
  <2>2. ~twice /\ answered
    BY <2>1 DEF Next, Master, Thread, BoundedWork, FillOrder, GiveOrder, WaitForRelease,
                OrderReturns, ComputePosition, WakeUp, CopyOrder, ExecuteOrder, Synchronise,
                TcimBegin, TcimRefused, TcimStepDone, TcimStepFails, TcimEnd, Fails, Succeeds,
                Release, KeepRelease, vars
  <2>3. TcimStepDone \/ TcimStepFails
    BY <2>1, <2>2 DEF PlaceInv, Next, Master, Thread, BoundedWork, FillOrder, GiveOrder,
                WaitForRelease, OrderReturns, ComputePosition, WakeUp, CopyOrder,
                ExecuteOrder, Synchronise, TcimBegin, TcimRefused, TcimEnd, vars
  <2>4. tpc = "step" /\ IsTcim(current_cmd) /\ step > current_cmd.v
    BY <2>1, <2>2, <2>3 DEF PlaceInv, OrderInv, TcimStepDone, TcimStepFails
  <2>5. ~TcimStepDone
    <3>1. current_cmd.v \in 0..(MaxSteps + 1) /\ step \in Nat
      BY OrderTypes, StepsAssumption DEF IInv, TypeOK
    <3> QED
      BY <2>4, <3>1 DEF TcimStepDone, ReleaseStep, KeepRelease
  <2> QED
    BY <2>3, <2>4, <2>5 DEF TcimStepFails, Fails
<1> QED
  BY Invariant, <1>1, PTL DEF Spec, TwiceOnlyByLateFailure

\* get_arm_position(false) runs beside the transformation thread only after the
\* early release of a TCIM move.
THEOREM ReadAlone == Spec => []PositionReadAlone
<1>1. IInv => PositionReadAlone
  BY DEF IInv, Handover, OrderInv, PlaceInv, Settled, PositionReadAlone
<1> QED
  BY Invariant, <1>1, PTL

\* No error is forgotten before the master has thrown it, unless an order has
\* released the master twice.
THEOREM ErrorsThrown == Spec => ErrorThrownFirst
<1> DEFINE Forgets == error # "NO_ERROR" /\ error' # error
<1>1. IInv /\ [Next]_vars /\ Forgets => thrown \/ twice
  <2> SUFFICES ASSUME IInv, [Next]_vars, Forgets, ~twice PROVE thrown
    OBVIOUS
  <2> USE DEF masterVars, threadVars, historyVars
  <2>1. PlaceInv /\ OrderInv /\ ErrorInv
    BY DEF IInv, Handover
  <2>2. tpc \notin {"execute", "step"}
    BY <2>1 DEF PlaceInv
  <2>3. CASE CopyOrder
    BY <2>1, <2>3 DEF CopyOrder, ErrorInv, OrderInv, Settled
  <2>4. ~CopyOrder => error' = error
    BY <2>2 DEF Next, Master, Thread, BoundedWork, FillOrder, GiveOrder, WaitForRelease, OrderReturns,
                ComputePosition, WakeUp, ExecuteOrder, Synchronise, TcimBegin, TcimRefused,
                TcimStepDone, TcimStepFails, TcimEnd, vars
  <2> QED
    BY <2>3, <2>4
<1>2. IInv /\ [Next]_vars => [Forgets => thrown \/ twice]_vars
  BY <1>1
<1> QED
  BY Invariant, <1>2, PTL DEF Spec, ErrorThrownFirst

\* The master writes tmp_cmd only when the thread has taken the order before,
\* unless an order has released the master twice.
THEOREM OrdersWhole == Spec => OrderNotTorn
<1> DEFINE Writes == tmp_cmd' # tmp_cmd
           Free   == twice \/ (tpc # "copy" /\ ~ordered)
<1>1. IInv /\ [Next]_vars => [Writes => Free]_vars
  <2> SUFFICES ASSUME IInv, [Next]_vars, Writes, ~twice PROVE tpc # "copy" /\ ~ordered
    BY Zenon
  <2> USE DEF masterVars, threadVars, historyVars
  <2>1. PICK cmd \in Orders : FillOrder(cmd)
    BY DEF Next, Master, Thread, BoundedWork, GiveOrder, WaitForRelease, OrderReturns, ComputePosition,
           WakeUp, CopyOrder, ExecuteOrder, Synchronise, TcimBegin, TcimRefused, TcimStepDone,
           TcimStepFails, TcimEnd, vars
  <2> QED
    BY <2>1 DEF FillOrder, IInv, Handover, OrderInv, Settled
<1> QED
  BY Invariant, <1>1, PTL DEF Spec, OrderNotTorn
=============================================================================
