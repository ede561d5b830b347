------------------------- MODULE ForceSensorProofs -------------------------
(***************************************************************************)
(* Theorems about ForceSensor, for every set of tools and wherever the     *)
(* driver throws.                                                          *)
(*                                                                         *)
(* The slot holds one order.  The argument is about whose: while the       *)
(* master is not waiting only the servo thread's can be in it, and the     *)
(* sensor thread has the lock only while there is one.                     *)
(***************************************************************************)
EXTENDS ForceSensor, TLAPS

\* new_edp_command says whether an order is pending, and command which kind
SlotInv ==
    /\ new_edp_command = (pending # {})
    /\ "tool" \in pending => /\ pending = {"tool"}
                             /\ command = "FORCE_SET_TOOL" /\ next_force_tool = asked
    /\ pending # {} /\ "tool" \notin pending => command = "FORCE_CONFIGURE"

\* whose order it may be
OwnerInv ==
    /\ master = "create" => pending = {}
    /\ master = "idle" => pending \subseteq {"post"}
    /\ master = "wait" /\ has_command => pending \subseteq {"post"}

ThreadInv ==
    /\ force \in {"lock", "execute", "finish"} => pending # {}
    /\ force = "finish" /\ "tool" \in pending => current_force_tool = asked

\* what has become of the master's last tool order, and of its first wait
OutcomeInv ==
    /\ asked # NoTool => \/ current_force_tool = asked
                         \/ "tool" \in dropped \/ "tool" \in pending
    /\ master = "create" /\ round_made => measured
    /\ master # "create" => measured

ForceInv == TypeOK /\ SlotInv /\ OwnerInv /\ ThreadInv /\ OutcomeInv

LEMMA InitInv == Init => ForceInv
<1> SUFFICES ASSUME Init PROVE ForceInv
  OBVIOUS
<1>1. TypeOK
  BY DEF Init, TypeOK, Orders
<1>2. SlotInv /\ OwnerInv
  BY DEF Init, SlotInv, OwnerInv
<1>3. ThreadInv /\ OutcomeInv
  BY DEF Init, ThreadInv, OutcomeInv
<1> QED
  BY <1>1, <1>2, <1>3 DEF ForceInv

\* Every step keeps the types.
LEMMA NextTypes == TypeOK /\ [Next]_vars => TypeOK'
<1> SUFFICES ASSUME TypeOK, [Next]_vars PROVE TypeOK'
  OBVIOUS
<1> USE DEF TypeOK, threadOnly, slotVars, historyVars, sensorVars, masterOnly, Orders
<1>1. CASE Connect
  BY <1>1 DEF Connect
<1>2. CASE StartConfigure
  <2>1. /\ force' \in {"check", "exited"}
        /\ is_sensor_configured' \in BOOLEAN /\ gravity_transformation' \in BOOLEAN
    BY <1>2, Zenon DEF StartConfigure
  <2>2. UNCHANGED <<threadOnly, current_force_tool, has_command, round_made, measured>>
    BY <1>2 DEF StartConfigure
  <2> QED
    BY <2>1, <2>2
<1>3. CASE CheckCommand
  BY <1>3 DEF CheckCommand
<1>4. CASE LockCommand
  BY <1>4 DEF LockCommand
<1>5. CASE SetForceTool
  BY <1>5 DEF SetForceTool, CopiedTool
<1>6. CASE ConfigureSensor
  BY <1>6 DEF ConfigureSensor
<1>7. CASE ConfigureThrows
  BY <1>7 DEF ConfigureThrows, OrderStays
<1>8. CASE FinishCommand
  BY <1>8 DEF FinishCommand, AfterRound
<1>9. CASE ReadSensor
  BY <1>9 DEF ReadSensor, RoundOfReading
<1>10. CASE ReadThrows
  BY <1>10 DEF ReadThrows, RoundSkipped
<1>11. CASE ThreadCreated
  <2>1. round_made' \in BOOLEAN /\ master' \in {"create", "idle", "wait"}
    BY <1>11, Zenon DEF ThreadCreated
  <2>2. UNCHANGED <<masterOnly, synchronised, slotVars, has_command, historyVars>>
    BY <1>11 DEF ThreadCreated
  <2> QED
    BY <2>1, <2>2
<1>12. CASE OrderBias
  BY <1>12 DEF OrderBias, GiveOrder, null_command, Locked
<1>13. CASE OrderReturns
  <2>1. has_command' \in BOOLEAN /\ master' \in {"create", "idle", "wait"}
    BY <1>13, Zenon DEF OrderReturns
  <2>2. UNCHANGED <<masterOnly, synchronised, slotVars, round_made, historyVars>>
    BY <1>13 DEF OrderReturns
  <2> QED
    BY <2>1, <2>2
<1>14. CASE Synchronise
  BY <1>14 DEF Synchronise
<1>15. CASE PostSynchro
  BY <1>15 DEF PostSynchro, OnlyOnce, Locked
<1>16. ASSUME NEW t \in Tools, OrderTool(t) PROVE TypeOK'
  BY <1>16 DEF OrderTool, GiveOrder, null_command, Locked
<1>17. CASE UNCHANGED vars
  BY <1>17 DEF vars
<1> QED
  BY <1>1, <1>2, <1>3, <1>4, <1>5, <1>6, <1>7, <1>8, <1>9, <1>10, <1>11,
     <1>12, <1>13, <1>14, <1>15, <1>16, <1>17 DEF Next, SensorThread, Master

\* Every step keeps the rest.
LEMMA NextInv == ForceInv /\ [Next]_vars => ForceInv'
<1> SUFFICES ASSUME ForceInv, [Next]_vars PROVE SlotInv' /\ OwnerInv' /\ ThreadInv' /\ OutcomeInv'
  BY NextTypes DEF ForceInv
<1> USE DEF ForceInv, TypeOK, SlotInv, OwnerInv, ThreadInv, OutcomeInv, threadOnly, slotVars, historyVars,
        sensorVars, masterOnly, Orders
<1>1. CASE Connect
  BY <1>1 DEF Connect
<1>2. CASE StartConfigure
  BY <1>2 DEF StartConfigure
<1>3. CASE CheckCommand
  BY <1>3 DEF CheckCommand
<1>4. CASE LockCommand
  BY <1>4 DEF LockCommand
<1>5. CASE SetForceTool
  BY <1>5 DEF SetForceTool, CopiedTool
<1>6. CASE ConfigureSensor
  BY <1>6 DEF ConfigureSensor
<1>7. CASE ConfigureThrows
  BY <1>7 DEF ConfigureThrows, OrderStays
<1>8. CASE FinishCommand
  BY <1>8 DEF FinishCommand, AfterRound
<1>9. CASE ReadSensor
  BY <1>9 DEF ReadSensor, RoundOfReading
<1>10. CASE ReadThrows
  BY <1>10 DEF ReadThrows, RoundSkipped
<1>11. CASE ThreadCreated
  BY <1>11 DEF ThreadCreated
<1>12. CASE OrderBias
  BY <1>12 DEF OrderBias, GiveOrder, null_command, Locked
<1>13. CASE OrderReturns
  BY <1>13 DEF OrderReturns
<1>14. CASE Synchronise
  BY <1>14 DEF Synchronise
<1>15. CASE PostSynchro
  BY <1>15 DEF PostSynchro, OnlyOnce, Locked
<1>16. ASSUME NEW t \in Tools, OrderTool(t) PROVE SlotInv' /\ OwnerInv' /\ ThreadInv' /\ OutcomeInv'
  BY <1>16 DEF OrderTool, GiveOrder, null_command, Locked
<1>17. CASE UNCHANGED vars
  BY <1>17 DEF vars
<1> QED
  BY <1>1, <1>2, <1>3, <1>4, <1>5, <1>6, <1>7, <1>8, <1>9, <1>10, <1>11,
     <1>12, <1>13, <1>14, <1>15, <1>16, <1>17 DEF Next, SensorThread, Master

LEMMA Invariance == Spec => []ForceInv
<1>1. ForceInv /\ [Next]_vars => ForceInv'
  BY NextTypes, NextInv DEF ForceInv
<1> QED
  BY InitInv, <1>1, PTL DEF Spec

\* The variables keep their types.
THEOREM TypeCorrect == Spec => []TypeOK
<1>1. ForceInv => TypeOK
  BY DEF ForceInv
<1> QED
  BY Invariance, <1>1, PTL

\* Nobody is released by the servo thread's order before his own is carried out.
THEOREM OwnRelease == Spec => []ReleasedByOwnOrder
<1>1. ForceInv => ReleasedByOwnOrder
  BY DEF ForceInv, OwnerInv, ReleasedByOwnOrder
<1> QED
  BY Invariance, <1>1, PTL

\* The tool is written only while its only reader waits.
THEOREM WrittenAlone == Spec => []ToolWrittenAlone
<1>1. ForceInv => ToolWrittenAlone
  BY DEF ForceInv, TypeOK, SlotInv, OwnerInv, ThreadInv, ToolWrittenAlone, Locked, Orders
<1> QED
  BY Invariance, <1>1, PTL

\* A tool order that has returned was carried out, or overwritten.
THEOREM Honoured == Spec => []ToolHonoured
<1>1. ForceInv => ToolHonoured
  BY DEF ForceInv, OwnerInv, OutcomeInv, ToolHonoured
<1> QED
  BY Invariance, <1>1, PTL

\* The effector is not used before a measurement has been made.
THEOREM ReadFirst == Spec => []FirstReadingMade
<1>1. ForceInv => FirstReadingMade
  BY DEF ForceInv, OutcomeInv, FirstReadingMade
<1> QED
  BY Invariance, <1>1, PTL

\* After the servo thread's order no tool order is overwritten any more.
THEOREM SafeLater == Spec => SafeAfterPostSynchro
<1>1. ForceInv /\ [Next]_vars => [post_synchro /\ "tool" \in dropped' => "tool" \in dropped]_vars
  <2> SUFFICES ASSUME ForceInv, Next, post_synchro, "tool" \in dropped'
               PROVE  "tool" \in dropped
    OBVIOUS
  <2>1. CASE \E t \in Tools : OrderTool(t)
    <3>1. dropped' = (dropped \ {"tool"}) \cup pending /\ master = "idle"
      BY <2>1 DEF OrderTool, GiveOrder
    <3> QED
      BY <3>1 DEF ForceInv, OwnerInv
  <2>2. CASE PostSynchro
    BY <2>2, Zenon DEF PostSynchro, OnlyOnce
  <2>3. CASE SensorThread
    BY <2>3 DEF SensorThread, Connect, StartConfigure, CheckCommand, LockCommand, SetForceTool,
       ConfigureSensor, ConfigureThrows, FinishCommand, ReadSensor, ReadThrows, threadOnly, historyVars
  <2>4. CASE ThreadCreated \/ OrderBias \/ OrderReturns \/ Synchronise
    BY <2>4 DEF ThreadCreated, OrderBias, OrderReturns, Synchronise, GiveOrder, historyVars
  <2> QED
    BY <2>1, <2>2, <2>3, <2>4 DEF Next, Master
<1> QED
  BY Invariance, <1>1, PTL DEF Spec, SafeAfterPostSynchro
=============================================================================
