----------------------------- MODULE MpEcpProofs -----------------------------
(***************************************************************************)
(* Theorems about MpEcp, for any robots and any bounds: the types; that a  *)
(* START_TASK finds its ECP waiting for it, until a sensor has failed;     *)
(* that no ECP is forgotten in a pause; and that no acknowledgement MP     *)
(* waits for is lost, again until a sensor has failed.                     *)
(***************************************************************************)
EXTENDS MpEcp, SequenceTheorems, TLAPS

Buffers(q)  == q \in [ECPs -> [v : Replies \cup {"none"}, fresh : BOOLEAN]]
UiBuffer(b) == b \in [v : Pulses \cup {"none"}, fresh : BOOLEAN]
Channels(c) == c \in [ECPs -> Seq(Commands)]
Orders(g)   == g \in [ECPs -> NextStates \cup {"none"}]

\* what a round of generator::Move works on
MoveTypes ==
    /\ mp \in {"wait_for_start", "start_all", "algorithm", "receive", "wait_for_stop", "terminate_all"}
    /\ Buffers(reply) /\ gen \in Generators
    /\ paused \in BOOLEAN /\ ui_exit \in BOOLEAN /\ ecp_exit \in BOOLEAN
    /\ sensor_failed \in BOOLEAN
    /\ Orders(given) /\ Channels(cmds)

\* the rest of what MP works on
OtherTypes ==
    /\ ui_state \in {"waiting_for_start", "running", "paused"}
    /\ pressed \in 0..MaxPulses
    /\ pulses \in Seq(Pulses)
    /\ not_confirmed \in SUBSET ECPs
    /\ UiBuffer(ui_pulse)
    /\ moves \in 0..MaxMoves
    /\ ecp \in [ECPs -> {"wait_for_start", "get_next_state"} \cup NextStates]
    /\ held \in [ECPs -> BOOLEAN]
    /\ replies \in [ECPs -> Seq(Replies)]

LEMMA Parts == TypeOK <=> MoveTypes /\ OtherTypes
BY DEF TypeOK, MoveTypes, OtherTypes, Buffers, UiBuffer, Channels, Orders
-----------------------------------------------------------------------------
(* The operators *)

LEMMA CommandTypes ==
    /\ \A c \in {"START_TASK", "PAUSE_TASK", "RESUME_TASK", "NEXT_POSE", "END_MOTION", "STOP"} :
          Command(c) \in Commands /\ Command(c).command = c
    /\ \A s \in NextStates : NextState(s) \in Commands /\ NextState(s).command = "NEXT_STATE"
BY DEF Commands, Command, NextState

LEMMA SendTypes ==
    ASSUME NEW c, Channels(c), NEW S, NEW m \in Commands
    PROVE  Channels(Send(c, S, m))
BY DEF Channels, Send

LEMMA UsedTypes == ASSUME NEW q, Buffers(q) PROVE Buffers(AllUsed(q))
BY DEF Buffers, AllUsed, markAsUsed

LEMMA ErasureTypes ==
    ASSUME NEW S \in SUBSET ECPs, NEW M, NEW R \in Erasures(S, M)
    PROVE  R \in SUBSET S
BY DEF Erasures

LEMMA GeneratorTypes ==
    /\ NoGenerator \in Generators
    /\ \A S \in SUBSET ECPs, k \in {"set_next_ecps_state", "wait_for_task_termination",
                                   "end_motion", "continously_coordinated", "delay_ms"} :
          Generator(k, S) \in Generators
    /\ \A g \in Generators : g.robots \in SUBSET ECPs /\ g.rest \in SUBSET ECPs
    /\ \A g \in Generators, R \in SUBSET ECPs :
          /\ [g EXCEPT !.rest = R] \in Generators
          /\ \A b \in BOOLEAN : [g EXCEPT !.rest = R, !.activate_trigger = b] \in Generators
BY DEF Generators, NoGenerator, Generator

\* a message that arrives
LEMMA ArrivalTypes ==
    ASSUME OtherTypes, MoveTypes, NEW s \in {UI} \cup ECPs, Arrives(s)
    PROVE  /\ UiBuffer(UiPulseAfter(s)) /\ UiBuffer(markAsUsed(UiPulseAfter(s)))
           /\ Buffers(ReplyAfter(s))
<1>1. CASE s = UI
  <2>1. Head(pulses) \in Pulses
    BY <1>1 DEF OtherTypes, Arrives
  <2> QED
    BY <1>1, <2>1 DEF UiPulseAfter, ReplyAfter, Stored, UiBuffer, markAsUsed, MoveTypes
<1>2. CASE s # UI
  <2>1. Head(replies[s]) \in Replies
    BY <1>2 DEF OtherTypes, Arrives
  <2>2. Buffers(ReplyAfter(s))
    BY <1>2, <2>1 DEF ReplyAfter, Stored, Buffers, MoveTypes
  <2> QED
    BY <1>2, <2>2 DEF UiPulseAfter, UiBuffer, markAsUsed, OtherTypes
<1> QED
  BY <1>1, <1>2

LEMMA ConsumeTypes ==
    ASSUME OtherTypes, NEW s \in {UI} \cup ECPs, Arrives(s), Consume(s)
    PROVE  pulses' \in Seq(Pulses) /\ replies' \in [ECPs -> Seq(Replies)]
<1>1. CASE s = UI
  BY <1>1 DEF Consume, OtherTypes, Arrives
<1>2. CASE s # UI
  BY <1>2 DEF Consume, OtherTypes, Arrives
<1> QED
  BY <1>1, <1>2
-----------------------------------------------------------------------------
(* The rounds of Move *)

LEMMA NotMovingTypes ==
    ASSUME NotMoving
    PROVE  gen' \in Generators /\ paused' \in BOOLEAN /\ ui_exit' \in BOOLEAN /\ ecp_exit' \in BOOLEAN
BY GeneratorTypes DEF NotMoving

LEMMA ReceiveTypes ==
    ASSUME MoveTypes, NEW g \in Generators, NEW q, Buffers(q), NEW b, Channels(b), NEW a, Channels(a),
           Receive(g, q, b, a), Orders(given')
    PROVE  MoveTypes'
<1>1. CASE mp' = "receive" /\ gen' = g /\ UNCHANGED sensor_failed
           /\ reply' = AllUsed(q) /\ cmds' = a /\ paused' = FALSE /\ ui_exit' = FALSE
           /\ ecp_exit' = ~wait_for_ECP_pulse(g)
  <2>1. ecp_exit' \in BOOLEAN
    BY <1>1, Zenon
  <2>2. Buffers(reply') /\ Channels(cmds')
    BY <1>1, UsedTypes
  <2> QED
    BY <1>1, <2>1, <2>2 DEF MoveTypes, Orders, Buffers, Channels
<1>2. CASE sensor_failed' = TRUE /\ mp' = "wait_for_start" /\ NotMoving
           /\ reply' = q /\ cmds' \in {b, a}
  BY <1>2, NotMovingTypes DEF MoveTypes, Orders, Buffers, Channels
<1> QED
  BY <1>1, <1>2 DEF Receive

LEMMA MoveDoneTypes ==
    ASSUME MoveTypes, NEW q, Buffers(q), NEW c, Channels(c), NEW free, MoveDone(q, c, free)
    PROVE  MoveTypes'
<1>1. Buffers(reply') /\ Channels(cmds')
  BY UsedTypes DEF MoveDone
<1>2. Orders(given')
  BY DEF MoveDone, Orders, MoveTypes
<1> QED
  BY <1>1, <1>2, NotMovingTypes DEF MoveDone, MoveTypes, Buffers, Channels, Orders

LEMMA NextStepTypes ==
    ASSUME MoveTypes, NEW q, Buffers(q), NEW c, Channels(c), NEW t, NextStep(q, c, t)
    PROVE  MoveTypes'
<1>1. /\ gen \in Generators /\ gen.robots \in SUBSET ECPs /\ gen.rest \in SUBSET ECPs
      /\ Orders(given)
  BY GeneratorTypes DEF MoveTypes
<1>2. Command("NEXT_POSE") \in Commands
  BY CommandTypes
<1>3. Channels(Send(c, gen.robots, Command("NEXT_POSE")))
  BY <1>2, SendTypes
<1>4. ASSUME NEW free, MoveDone(q, c, free) PROVE MoveTypes'
  BY <1>4, MoveDoneTypes
<1>5. ASSUME NEW g \in Generators, NEW d, Channels(d), Receive(g, q, c, d), UNCHANGED given
      PROVE  MoveTypes'
  <2>1. Orders(given')
    BY <1>1, <1>5
  <2> QED
    BY <1>5, <2>1, ReceiveTypes
<1>6. ASSUME NEW M, NEW rest \in Erasures(gen.rest, M)
      PROVE  [gen EXCEPT !.rest = rest] \in Generators
  BY <1>1, <1>6, ErasureTypes, GeneratorTypes
<1>7. [gen EXCEPT !.rest = gen.robots] \in Generators
  BY <1>1, GeneratorTypes
<1> QED
  BY <1>1, <1>3, <1>4, <1>5, <1>6, <1>7 DEF NextStep

LEMMA LoopTypes ==
    ASSUME MoveTypes, NEW q, Buffers(q), NEW c, Channels(c), NEW p \in BOOLEAN, NEW u \in BOOLEAN,
           NEW e \in BOOLEAN, NEW t, Loop(q, c, p, u, e, t)
    PROVE  MoveTypes'
<1>1. CASE NextStep(q, c, t)
  BY <1>1, NextStepTypes
<1>2. CASE paused' = p /\ ui_exit' = u /\ ecp_exit' = e /\ reply' = q /\ cmds' = c
           /\ UNCHANGED <<mp, gen, given, sensor_failed>>
  BY <1>2 DEF MoveTypes, Buffers, Channels, Orders
<1> QED
  BY <1>1, <1>2 DEF Loop
-----------------------------------------------------------------------------
(* The types *)

LEMMA AcknowledgeTypes == ASSUME TypeOK, Acknowledge PROVE TypeOK'
<1>1. MoveTypes /\ OtherTypes
  BY Parts
<1>2. PICK s \in {UI} \cup ECPs :
         /\ Arrives(s) /\ Consume(s) /\ ui_pulse' = UiPulseAfter(s)
         /\ \E M : not_confirmed' \in Erasures(not_confirmed, M)
         /\ reply' = [r \in ECPs |-> IF r \in not_confirmed \ not_confirmed'
                                      THEN markAsUsed(ReplyAfter(s)[r]) ELSE ReplyAfter(s)[r]]
         /\ mp' \in {mp, "algorithm", "wait_for_start"}
  BY DEF Acknowledge, PulseInAcknowledge
<1>3. UiBuffer(ui_pulse') /\ Buffers(ReplyAfter(s))
  BY <1>1, <1>2, ArrivalTypes
<1>4. Buffers(reply')
  BY <1>2, <1>3 DEF Buffers, markAsUsed
<1>5. not_confirmed' \in SUBSET ECPs
  BY <1>1, <1>2, ErasureTypes DEF OtherTypes
<1>6. pulses' \in Seq(Pulses) /\ replies' \in [ECPs -> Seq(Replies)] /\ UNCHANGED <<uiVars, ecpVars>>
  BY <1>1, <1>2, ConsumeTypes DEF Consume
<1>7. Orders(given') /\ moves' \in 0..MaxMoves
  BY <1>1, MpEcpAssumption DEF Acknowledge, Orders, OtherTypes
<1>8. UNCHANGED <<gen, paused, ui_exit, ecp_exit, sensor_failed, cmds>>
  BY DEF Acknowledge
<1>9. MoveTypes'
  BY <1>1, <1>2, <1>4, <1>7, <1>8 DEF MoveTypes, Buffers, Orders, Channels
<1>10. OtherTypes'
  BY <1>1, <1>3, <1>5, <1>6, <1>7 DEF OtherTypes, uiVars, ecpVars, UiBuffer
<1> QED
  BY <1>9, <1>10, Parts DEF TypeOK, MoveTypes, OtherTypes, Buffers, UiBuffer, Channels, Orders

LEMMA WaitForTypes == ASSUME TypeOK, NEW f, NEW p, WaitFor(f, p) PROVE TypeOK'
<1>1. MoveTypes /\ OtherTypes
  BY Parts
<1>2. PICK s \in {UI} \cup ECPs :
         Arrives(s) /\ Consume(s) /\ ui_pulse' = markAsUsed(UiPulseAfter(s)) /\ reply' = ReplyAfter(s)
  BY DEF WaitFor
<1>3. UiBuffer(ui_pulse') /\ Buffers(reply')
  BY <1>1, <1>2, ArrivalTypes
<1>4. pulses' \in Seq(Pulses) /\ replies' \in [ECPs -> Seq(Replies)] /\ UNCHANGED <<uiVars, ecpVars>>
  BY <1>1, <1>2, ConsumeTypes DEF Consume
<1> QED
  BY <1>3, <1>4 DEF WaitFor, TypeOK, Buffers, UiBuffer, uiVars, ecpVars

LEMMA CommandAllTypes ==
    ASSUME MoveTypes, NEW f \in {"start_all", "terminate_all"}, NEW c \in {"START_TASK", "STOP"},
           NEW S, CommandAll(f, c, S), Buffers(reply'), UNCHANGED <<given, sensor_failed>>
    PROVE  MoveTypes' /\ not_confirmed' = ECPs
<1>1. Channels(cmds')
  BY CommandTypes, SendTypes DEF CommandAll, MoveTypes
<1> QED
  BY <1>1, NotMovingTypes DEF CommandAll, MoveTypes, Buffers, Orders, Channels

LEMMA StartStopTypes == ASSUME TypeOK, StartAll \/ TerminateAll PROVE TypeOK'
<1>1. MoveTypes /\ OtherTypes
  BY Parts
<1>2. UNCHANGED <<uiVars, pulses, ui_pulse, reply, moves, given, sensor_failed, ecpVars, replies>>
  BY DEF StartAll, TerminateAll
<1>3. Buffers(reply')
  BY <1>1, <1>2 DEF MoveTypes, Buffers
<1>4. MoveTypes' /\ not_confirmed' = ECPs
  BY <1>1, <1>2, <1>3, CommandAllTypes DEF StartAll, TerminateAll
<1> QED
  BY <1>1, <1>2, <1>4 DEF TypeOK, MoveTypes, OtherTypes, Buffers, UiBuffer, Channels, Orders, uiVars, ecpVars

LEMMA AlgorithmTypes == ASSUME TypeOK, Algorithm PROVE TypeOK'
<1>1. MoveTypes /\ OtherTypes
  BY Parts
<1>2. ASSUME NEW g \in Generators, NEW c, Channels(c), Begins(g, c), Orders(given') PROVE TypeOK'
  <2>1. Receive(g, reply, cmds, c) /\ Buffers(reply) /\ Channels(cmds)
    BY <1>1, <1>2 DEF Begins, MoveTypes
  <2>2. MoveTypes'
    BY <1>1, <1>2, <2>1, ReceiveTypes
  <2>3. moves' \in 0..MaxMoves /\ UNCHANGED <<uiVars, pulses, not_confirmed, ui_pulse, ecpVars, replies>>
    BY <1>1, <1>2, MpEcpAssumption DEF Begins, ProgramGoesOn, OtherTypes
  <2> QED
    BY <1>1, <2>2, <2>3 DEF TypeOK, MoveTypes, OtherTypes, Buffers, UiBuffer, Channels, Orders, uiVars, ecpVars
<1>3. Channels(cmds) /\ Orders(given)
  BY <1>1 DEF MoveTypes
<1>4. CASE AlgorithmEnds
  BY <1>4 DEF AlgorithmEnds, TypeOK, uiVars, ecpVars
<1>5. CASE WaitMs
  <2>1. Generator("delay_ms", {}) \in Generators
    BY GeneratorTypes
  <2> QED
    BY <1>2, <1>3, <1>5, <2>1 DEF WaitMs
<1>6. ASSUME NEW S \in SUBSET ECPs, NEW s \in NextStates, SetNextEcpState(S, s) PROVE TypeOK'
  <2>1. /\ Generator("set_next_ecps_state", S) \in Generators
        /\ Channels(Send(cmds, S, NextState(s)))
    BY <1>3, CommandTypes, SendTypes, GeneratorTypes
  <2>2. Orders(given')
    BY <1>3, <1>6 DEF SetNextEcpState, Orders
  <2> QED
    BY <1>2, <1>6, <2>1, <2>2 DEF SetNextEcpState
<1>7. ASSUME NEW S \in SUBSET ECPs, SendEndMotion(S) PROVE TypeOK'
  <2>1. /\ Generator("end_motion", S) \in Generators
        /\ Channels(Send(cmds, S, Command("END_MOTION")))
    BY <1>3, CommandTypes, SendTypes, GeneratorTypes
  <2>2. Orders(given')
    BY <1>3, <1>7 DEF SendEndMotion, Orders
  <2> QED
    BY <1>2, <1>7, <2>1, <2>2 DEF SendEndMotion
<1>8. ASSUME NEW S \in SUBSET ECPs, Coordinate(S) PROVE TypeOK'
  <2>1. /\ Generator("continously_coordinated", S) \in Generators
        /\ Channels(Send(cmds, S, Command("NEXT_POSE")))
    BY <1>3, CommandTypes, SendTypes, GeneratorTypes
  <2> QED
    BY <1>2, <1>3, <1>8, <2>1 DEF Coordinate
<1>9. ASSUME NEW S \in SUBSET ECPs, NEW a \in BOOLEAN, WaitForTaskTermination(S, a) PROVE TypeOK'
  <2>1. PICK rest \in Erasures(S, Terminated(reply)) :
           \/ /\ Begins([Generator("wait_for_task_termination", S)
                         EXCEPT !.rest = rest, !.activate_trigger = a], cmds)
              /\ UNCHANGED given
           \/ /\ ProgramGoesOn
              /\ given' = [r \in ECPs |-> IF r \in S THEN "none" ELSE given[r]]
              /\ UNCHANGED <<uiVars, pulses, mp, not_confirmed, ui_pulse, reply, gen, paused,
                             ui_exit, ecp_exit, sensor_failed, ecpVars, cmds, replies>>
    BY <1>9 DEF WaitForTaskTermination
  <2>2. [Generator("wait_for_task_termination", S)
            EXCEPT !.rest = rest, !.activate_trigger = a] \in Generators
    <3>1. rest \in SUBSET ECPs
      BY ErasureTypes
    <3>2. Generator("wait_for_task_termination", S) \in Generators
      BY GeneratorTypes
    <3> QED
      BY <3>1, <3>2, GeneratorTypes
  <2>3. CASE Begins([Generator("wait_for_task_termination", S)
                         EXCEPT !.rest = rest, !.activate_trigger = a], cmds)
             /\ UNCHANGED given
    BY <1>2, <1>3, <2>2, <2>3
  <2>4. CASE /\ ProgramGoesOn
             /\ given' = [r \in ECPs |-> IF r \in S THEN "none" ELSE given[r]]
             /\ UNCHANGED <<uiVars, pulses, mp, not_confirmed, ui_pulse, reply, gen, paused,
                            ui_exit, ecp_exit, sensor_failed, ecpVars, cmds, replies>>
    <3>1. given' \in [ECPs -> NextStates \cup {"none"}]
      BY <1>3, <2>4 DEF Orders
    <3>2. moves' \in 0..MaxMoves
      BY <1>1, <2>4, MpEcpAssumption DEF ProgramGoesOn, OtherTypes
    <3> QED
      BY <2>4, <3>1, <3>2 DEF TypeOK, uiVars, ecpVars
  <2> QED
    BY <2>1, <2>3, <2>4
<1> QED
  BY <1>4, <1>5, <1>6, <1>7, <1>8, <1>9 DEF Algorithm

LEMMA MessageTypes ==
    ASSUME TypeOK, NEW s \in {UI} \cup ECPs, ReceiveUiOrEcpMessage(s)
    PROVE  TypeOK'
<1>1. MoveTypes /\ OtherTypes
  BY Parts
<1>2. /\ Arrives(s) /\ Consume(s) /\ ui_pulse' = markAsUsed(UiPulseAfter(s)) /\ UNCHANGED moves
  BY DEF ReceiveUiOrEcpMessage
<1>3. UiBuffer(ui_pulse') /\ Buffers(ReplyAfter(s))
  BY <1>1, <1>2, ArrivalTypes
<1>4. pulses' \in Seq(Pulses) /\ replies' \in [ECPs -> Seq(Replies)] /\ UNCHANGED <<uiVars, ecpVars>>
  BY <1>1, <1>2, ConsumeTypes DEF Consume
<1>5. /\ Channels(cmds) /\ paused \in BOOLEAN /\ ui_exit \in BOOLEAN /\ ecp_exit \in BOOLEAN
      /\ \A c \in {"PAUSE_TASK", "RESUME_TASK"} : Channels(Send(cmds, ECPs, Command(c)))
  BY <1>1, CommandTypes, SendTypes DEF MoveTypes
<1>6. ASSUME NEW p, ActOnPulse(p, ReplyAfter(s)) PROVE MoveTypes' /\ not_confirmed' \in SUBSET ECPs
  <2>1. ASSUME NEW c, Channels(c), NEW i \in BOOLEAN, NEW u \in BOOLEAN, NEW e \in BOOLEAN, NEW t,
               Loop(ReplyAfter(s), c, i, u, e, t)
        PROVE  MoveTypes'
    BY <1>1, <1>3, <2>1, LoopTypes
  <2>2. CASE CommandAll("terminate_all", "STOP", ToStop) /\ reply' = ReplyAfter(s)
             /\ UNCHANGED <<given, sensor_failed>>
    BY <1>1, <1>3, <2>2, CommandAllTypes
  <2>3. CASE ~(CommandAll("terminate_all", "STOP", ToStop) /\ reply' = ReplyAfter(s)
               /\ UNCHANGED <<given, sensor_failed>>)
    <3>1. UNCHANGED not_confirmed
      BY <1>6, <2>3 DEF ActOnPulse
    <3>2. MoveTypes'
      BY <1>5, <1>6, <2>1, <2>3 DEF ActOnPulse, ResumeAll
    <3> QED
      BY <1>1, <3>1, <3>2 DEF OtherTypes
  <2> QED
    BY <2>2, <2>3
<1>7. ASSUME ActOnReply(ReplyAfter(s)) PROVE MoveTypes'
  <2>1. CASE mp' = AfterError /\ reply' = ReplyAfter(s) /\ NotMoving
             /\ UNCHANGED <<given, sensor_failed, cmds>>
    BY <1>1, <1>3, <2>1, NotMovingTypes DEF AfterError, MoveTypes, Buffers, Orders, Channels
  <2>2. CASE Loop(ReplyAfter(s), cmds, paused, ui_exit \/ ~paused, TRUE, FALSE)
    <3>1. (ui_exit \/ ~paused) \in BOOLEAN
      BY Zenon
    <3> QED
      BY <1>1, <1>3, <1>5, <2>2, <3>1, LoopTypes
  <2> QED
    BY <1>7, <2>1, <2>2 DEF ActOnReply
<1>8. MoveTypes' /\ not_confirmed' \in SUBSET ECPs
  <2>1. CASE ActOnPulse(UiPulseAfter(s).v, ReplyAfter(s))
    BY <1>6, <2>1
  <2>2. CASE ActOnReply(ReplyAfter(s)) /\ UNCHANGED not_confirmed
    BY <1>1, <1>7, <2>2 DEF OtherTypes
  <2> QED
    BY <2>1, <2>2 DEF ReceiveUiOrEcpMessage
<1> QED
  BY <1>1, <1>2, <1>3, <1>4, <1>8 DEF TypeOK, MoveTypes, OtherTypes, Buffers, UiBuffer, Channels,
     Orders, uiVars, ecpVars

LEMMA NothingTypes == ASSUME TypeOK, NothingToReceive PROVE TypeOK'
<1>1. MoveTypes /\ OtherTypes
  BY Parts
<1>2. /\ Buffers(reply) /\ Channels(cmds) /\ Loop(reply, cmds, FALSE, TRUE, TRUE, FALSE)
      /\ UNCHANGED <<uiVars, pulses, not_confirmed, ui_pulse, moves, ecpVars, replies>>
  BY <1>1 DEF MoveTypes, NothingToReceive
<1>3. MoveTypes'
  BY <1>1, <1>2, LoopTypes
<1> QED
  BY <1>1, <1>2, <1>3 DEF TypeOK, MoveTypes, OtherTypes, Buffers, UiBuffer, Channels, Orders, uiVars, ecpVars

\* what an ECP does with one command
LEMMA AnswerTypes ==
    ASSUME TypeOK, NEW r \in ECPs, cmds[r] # <<>>, NEW as \in Seq(Replies),
           NEW f \in {"wait_for_start", "get_next_state"} \cup NextStates, NEW h \in BOOLEAN,
           Answer(r, as, f, h)
    PROVE  TypeOK'
<1>1. cmds' \in [ECPs -> Seq(Commands)]
  BY DEF Answer, TypeOK
<1>2. replies' \in [ECPs -> Seq(Replies)]
  <2>1. replies[r] \in Seq(Replies)
    BY DEF TypeOK
  <2>2. replies[r] \o as \in Seq(Replies)
    BY <2>1, ConcatProperties
  <2> QED
    BY <2>2 DEF Answer, TypeOK
<1>3. /\ ecp' \in [ECPs -> {"wait_for_start", "get_next_state"} \cup NextStates]
      /\ held' \in [ECPs -> BOOLEAN]
  BY DEF Answer, TypeOK
<1> QED
  BY <1>1, <1>2, <1>3 DEF Answer, TypeOK, uiVars, mpVars

\* the answers of an ECP
LEMMA AnswersTyped ==
    /\ <<>> \in Seq(Replies) /\ <<"ECP_ACKNOWLEDGE">> \in Seq(Replies)
    /\ <<"INCORRECT_MP_COMMAND", "ERROR_IN_ECP">> \in Seq(Replies)
BY DEF Replies

LEMMA HandlesTypes == ASSUME TypeOK, NEW r \in ECPs, HandlesCommand(r) PROVE TypeOK'
<1>1. cmds[r] # <<>> /\ Head(cmds[r]) \in Commands
  <2>1. cmds[r] # <<>>
    BY DEF HandlesCommand, EcpWaitForStart, GetNextState, WaitForResume, PeekMpMessage
  <2>2. cmds[r] \in Seq(Commands)
    BY DEF TypeOK
  <2> QED
    BY <2>1, <2>2
<1>2. ecp[r] \in {"wait_for_start", "get_next_state"} \cup NextStates
  BY DEF TypeOK
<1>3. ASSUME Refuse(r) \/ Stop(r) PROVE TypeOK'
  BY <1>1, <1>3, AnswerTypes, AnswersTyped DEF Refuse, Stop
<1>4. CASE EcpWaitForStart(r)
  BY <1>1, <1>3, <1>4, AnswerTypes, AnswersTyped DEF EcpWaitForStart
<1>5. CASE GetNextState(r)
  <2>1. CASE OrdersState(Head(cmds[r])) /\ Answer(r, <<"ECP_ACKNOWLEDGE">>, Head(cmds[r]).next_state, FALSE)
    <3>1. Head(cmds[r]).next_state \in NextStates
      BY <1>1, <2>1 DEF OrdersState, Commands, Command, NextState
    <3> QED
      BY <1>1, <2>1, <3>1, AnswerTypes, AnswersTyped
  <2>2. CASE Answer(r, <<>>, ecp[r], TRUE)
    BY <1>1, <1>2, <2>2, AnswerTypes, AnswersTyped
  <2> QED
    BY <1>3, <1>5, <2>1, <2>2 DEF GetNextState
<1>6. CASE WaitForResume(r)
  BY <1>1, <1>2, <1>3, <1>6, AnswerTypes, AnswersTyped DEF WaitForResume
<1>7. CASE PeekMpMessage(r)
  <2>1. ASSUME NEW as \in {<<>>, <<"ECP_ACKNOWLEDGE">>}, NEW h \in BOOLEAN,
               Answer(r, as, ecp[r], h) \/ Answer(r, as, "get_next_state", h)
        PROVE  TypeOK'
    BY <1>1, <1>2, <2>1, AnswerTypes, AnswersTyped
  <2> QED
    BY <1>3, <1>7, <2>1 DEF PeekMpMessage
<1> QED
  BY <1>4, <1>5, <1>6, <1>7 DEF HandlesCommand

LEMMA EndsTypes == ASSUME TypeOK, NEW r \in ECPs, TaskTerminates(r) \/ Fails(r) PROVE TypeOK'
<1>1. Append(replies[r], "TASK_TERMINATED") \in Seq(Replies) /\ Append(replies[r], "ERROR_IN_ECP") \in Seq(Replies)
  BY DEF TypeOK, Replies
<1>2. replies' \in [ECPs -> Seq(Replies)]
  <2>1. replies \in [ECPs -> Seq(Replies)]
    BY DEF TypeOK
  <2>2. \/ replies' = [replies EXCEPT ![r] = Append(@, "TASK_TERMINATED")]
        \/ replies' = [replies EXCEPT ![r] = Append(@, "ERROR_IN_ECP")]
        \/ replies' = replies
    BY DEF TaskTerminates, Fails
  <2> QED
    BY <1>1, <2>1, <2>2
<1>3. /\ ecp' \in [ECPs -> {"wait_for_start", "get_next_state"} \cup NextStates]
      /\ UNCHANGED <<uiVars, pulses, mpVars, held, cmds>>
  BY DEF TaskTerminates, Fails, TypeOK
<1> QED
  BY <1>2, <1>3 DEF TypeOK, uiVars, mpVars

LEMMA InitTypes == Init => TypeOK
<1> SUFFICES ASSUME Init PROVE TypeOK
  OBVIOUS
<1>1. pulses \in Seq(Pulses) /\ cmds \in [ECPs -> Seq(Commands)] /\ replies \in [ECPs -> Seq(Replies)]
  <2>1. <<>> \in Seq(Pulses) /\ <<>> \in Seq(Commands) /\ <<>> \in Seq(Replies)
    OBVIOUS
  <2> QED
    BY <2>1 DEF Init
<1>2. gen \in Generators
  BY GeneratorTypes DEF Init
<1>3. pressed \in 0..MaxPulses /\ moves \in 0..MaxMoves
  BY MpEcpAssumption DEF Init
<1>4. /\ ui_pulse \in [v : Pulses \cup {"none"}, fresh : BOOLEAN]
      /\ reply \in [ECPs -> [v : Replies \cup {"none"}, fresh : BOOLEAN]]
  BY DEF Init
<1> QED
  BY <1>1, <1>2, <1>3, <1>4 DEF Init, TypeOK

LEMMA NextTypes == TypeOK /\ [Next]_vars => TypeOK'
<1> SUFFICES ASSUME TypeOK, [Next]_vars PROVE TypeOK'
  OBVIOUS
<1>1. ASSUME NEW p \in Pulses, Press(p) PROVE TypeOK'
  <2>1. /\ ui_state' \in {"waiting_for_start", "running", "paused"}
        /\ pressed' \in 0..MaxPulses /\ pulses' \in Seq(Pulses)
    BY <1>1, MpEcpAssumption DEF Press, UiAfter, TypeOK
  <2> QED
    BY <1>1, <2>1 DEF Press, TypeOK, mpVars, ecpVars
<1>2. CASE UNCHANGED vars
  BY <1>2 DEF vars, uiVars, mpVars, ecpVars, TypeOK
<1>3. CASE Mp
  BY <1>3, WaitForTypes, StartStopTypes, AcknowledgeTypes, AlgorithmTypes, NothingTypes, MessageTypes DEF Mp
<1>4. CASE \E r \in ECPs : Ecp(r)
  BY <1>4, HandlesTypes, EndsTypes DEF Ecp
<1> QED
  BY <1>1, <1>2, <1>3, <1>4 DEF Next

\* MP, the ECPs, their channels and buffers keep to their types, whatever the robots.
THEOREM TypeCorrect == Spec => []TypeOK
BY InitTypes, NextTypes, PTL DEF Spec
-----------------------------------------------------------------------------
(* The order of the commands *)

\* In the channel s of an ECP that is in e, a START_TASK comes right after a STOP, or finds
\* the ECP waiting for it.
Ordered(e, s) ==
    \A i \in DOMAIN s :
       s[i].command = "START_TASK" =>
          IF i = 1 THEN e = "wait_for_start" ELSE s[i - 1].command = "STOP"

\* the ECP waits, or has a STOP as its last command
Stops(e, s) == IF s = <<>> THEN e = "wait_for_start" ELSE s[Len(s)].command = "STOP"

\* MP starts a task in these two only after the STOP of the one before
Stopping == {"wait_for_start", "terminate_all"}

QueueInv == \A r \in ECPs : Ordered(ecp[r], cmds[r]) /\ (mp \in Stopping => Stops(ecp[r], cmds[r]))

LEMMA EmptyQueue == \A s : s = <<>> => Len(s) = 0 /\ DOMAIN s = {}
  OBVIOUS

LEMMA OrderedAppend ==
    ASSUME NEW e, NEW s \in Seq(Commands), NEW m \in Commands, Ordered(e, s),
           m.command = "START_TASK" => Stops(e, s)
    PROVE  Ordered(e, Append(s, m)) /\ (m.command = "STOP" => Stops(e, Append(s, m)))
BY DEF Ordered, Stops

LEMMA OrderedTail ==
    ASSUME NEW e, NEW f, NEW s \in Seq(Commands), s # <<>>, Ordered(e, s),
           Head(s).command = "STOP" => f = "wait_for_start"
    PROVE  Ordered(f, Tail(s)) /\ (Stops(e, s) => Stops(f, Tail(s)))
<1>1. Len(s) \in Nat \ {0} /\ Len(Tail(s)) = Len(s) - 1 /\ DOMAIN Tail(s) = 1..(Len(s) - 1)
  OBVIOUS
<1>2. Head(s) = s[1] /\ \A i \in 1..(Len(s) - 1) : Tail(s)[i] = s[i + 1]
  OBVIOUS
<1>3. Ordered(f, Tail(s))
  <2> SUFFICES ASSUME NEW i \in 1..(Len(s) - 1), Tail(s)[i].command = "START_TASK"
               PROVE  IF i = 1 THEN f = "wait_for_start" ELSE Tail(s)[i - 1].command = "STOP"
    BY <1>1 DEF Ordered
  <2>1. i + 1 \in DOMAIN s /\ i + 1 # 1 /\ (i + 1) - 1 = i /\ s[i + 1].command = "START_TASK"
    BY <1>1, <1>2
  <2>2. s[i].command = "STOP"
    BY <2>1 DEF Ordered
  <2>3. i # 1 => i - 1 \in 1..(Len(s) - 1) /\ Tail(s)[i - 1] = s[i]
    BY <1>1, <1>2
  <2> QED
    BY <1>2, <2>2, <2>3
<1>4. ASSUME Stops(e, s) PROVE Stops(f, Tail(s))
  <2>1. s[Len(s)].command = "STOP"
    BY <1>4 DEF Stops
  <2>2. CASE Len(s) = 1
    BY <1>1, <1>2, <2>1, <2>2 DEF Stops
  <2>3. CASE Len(s) # 1
    <3>1. Len(s) - 1 \in 1..(Len(s) - 1) /\ (Len(s) - 1) + 1 = Len(s)
      BY <1>1, <2>3
    <3>2. Tail(s)[Len(s) - 1] = s[Len(s)] /\ Len(Tail(s)) # 0
      BY <1>1, <1>2, <3>1
    <3>3. Tail(s) # <<>>
      BY <3>2, EmptyQueue
    <3> QED
      BY <1>1, <2>1, <3>2, <3>3 DEF Stops
  <2> QED
    BY <2>2, <2>3
<1> QED
  BY <1>3, <1>4

\* channels in order
InOrder(c) == Channels(c) /\ \A r \in ECPs : Ordered(ecp[r], c[r])

LEMMA SendInOrder ==
    ASSUME NEW c, InOrder(c), NEW S, NEW m \in Commands,
           m.command = "START_TASK" => \A r \in ECPs : Stops(ecp[r], c[r])
    PROVE  InOrder(Send(c, S, m))
<1>1. Channels(Send(c, S, m))
  BY SendTypes DEF InOrder
<1>2. ASSUME NEW r \in ECPs PROVE Ordered(ecp[r], Send(c, S, m)[r])
  <2>1. c[r] \in Seq(Commands) /\ Ordered(ecp[r], c[r])
    BY DEF InOrder, Channels
  <2>2. Send(c, S, m)[r] \in {c[r], Append(c[r], m)}
    BY DEF Send
  <2> QED
    BY <2>1, <2>2, OrderedAppend
<1> QED
  BY <1>1, <1>2 DEF InOrder

\* what the rounds of Move leave when no sensor throws
LEMMA RoundOrder ==
    ASSUME ~sensor_failed', NEW c, InOrder(c), NEW q, NEW t, NextStep(q, c, t)
    PROVE  mp' \in {"receive", "algorithm"} /\ InOrder(cmds')
<1>1. InOrder(Send(c, gen.robots, Command("NEXT_POSE")))
  BY CommandTypes, SendInOrder
<1>2. ASSUME NEW g, NEW p, NEW b, NEW a, InOrder(a), Receive(g, p, b, a)
      PROVE  mp' \in {"receive", "algorithm"} /\ InOrder(cmds')
  BY <1>2 DEF Receive
<1>3. ASSUME NEW free, MoveDone(q, c, free)
      PROVE  mp' \in {"receive", "algorithm"} /\ InOrder(cmds')
  BY <1>3 DEF MoveDone
<1> QED
  BY <1>1, <1>2, <1>3 DEF NextStep

LEMMA LoopOrder ==
    ASSUME ~sensor_failed', mp = "receive", NEW c, InOrder(c), NEW q, NEW p, NEW u, NEW e, NEW t,
           Loop(q, c, p, u, e, t)
    PROVE  mp' \in {"receive", "algorithm"} /\ InOrder(cmds')
BY RoundOrder DEF Loop

\* what a step of MP leaves in the channels
MpOrder ==
    /\ InOrder(cmds')
    /\ mp' \in Stopping => (mp \in Stopping /\ cmds' = cmds) \/ cmds' = Send(cmds, ECPs, Command("STOP"))

LEMMA MpKeepsOrder ==
    ASSUME ~sensor_failed', TypeOK, QueueInv, Mp
    PROVE  MpOrder
<1>1. InOrder(cmds)
  BY DEF TypeOK, QueueInv, InOrder, Channels
<1>2. \A c \in {"PAUSE_TASK", "RESUME_TASK", "NEXT_POSE", "END_MOTION", "STOP"}, S \in SUBSET ECPs :
         InOrder(Send(cmds, S, Command(c)))
  BY <1>1, CommandTypes, SendInOrder
<1>3. CASE \E f, p : WaitFor(f, p)
  BY <1>1, <1>3 DEF WaitFor, MpOrder
<1>4. CASE StartAll
  <2>1. \A r \in ECPs : Stops(ecp[r], cmds[r])
    BY <1>4 DEF StartAll, QueueInv, Stopping
  <2>2. InOrder(Send(cmds, ECPs, Command("START_TASK")))
    BY <1>1, <2>1, CommandTypes, SendInOrder
  <2> QED
    BY <1>4, <2>2 DEF StartAll, CommandAll, MpOrder, Stopping
<1>5. CASE TerminateAll
  BY <1>2, <1>5 DEF TerminateAll, CommandAll, ToStop, MpOrder
<1>6. CASE Acknowledge
  BY <1>1, <1>6 DEF Acknowledge, MpOrder, Stopping
<1>7. CASE Algorithm
  <2>1. ASSUME NEW g, NEW c, InOrder(c), Begins(g, c) PROVE MpOrder
    BY <2>1 DEF Begins, Receive, MpOrder, Stopping
  <2>2. ASSUME NEW S, NEW s \in NextStates, SetNextEcpState(S, s) PROVE MpOrder
    BY <1>1, <2>1, <2>2, CommandTypes, SendInOrder DEF SetNextEcpState
  <2>3. ASSUME NEW S \in SUBSET ECPs, SendEndMotion(S) \/ Coordinate(S) PROVE MpOrder
    BY <1>2, <2>1, <2>3 DEF SendEndMotion, Coordinate
  <2>4. ASSUME NEW S, NEW a, WaitForTaskTermination(S, a) PROVE MpOrder
    <3>1. CASE \E g : Begins(g, cmds)
      BY <1>1, <2>1, <3>1
    <3>2. CASE mp = "algorithm" /\ mp' = mp /\ cmds' = cmds
      BY <1>1, <3>2 DEF MpOrder, Stopping
    <3> QED
      BY <2>4, <3>1, <3>2 DEF WaitForTaskTermination, ProgramGoesOn
  <2>5. CASE AlgorithmEnds
    BY <1>1, <2>5 DEF AlgorithmEnds, MpOrder, Stopping
  <2>6. CASE WaitMs
    BY <1>1, <2>1, <2>6 DEF WaitMs
  <2> QED
    BY <1>7, <2>2, <2>3, <2>4, <2>5, <2>6 DEF Algorithm
<1>8. ASSUME mp = "receive", mp' \in {"receive", "algorithm"}, InOrder(cmds') PROVE MpOrder
  BY <1>8 DEF MpOrder, Stopping
<1>9. CASE NothingToReceive
  BY <1>1, <1>8, <1>9, LoopOrder DEF NothingToReceive
<1>10. ASSUME NEW s \in {UI} \cup ECPs, ReceiveUiOrEcpMessage(s) PROVE MpOrder
  <2>1. mp = "receive"
    BY <1>10 DEF ReceiveUiOrEcpMessage
  <2>2. ASSUME NEW c, InOrder(c), NEW q, NEW p, NEW u, NEW e, NEW t, Loop(q, c, p, u, e, t)
        PROVE  MpOrder
    BY <1>8, <2>1, <2>2, LoopOrder
  <2>3. ASSUME NEW p, NEW q, ActOnPulse(p, q) PROVE MpOrder
    <3>1. CASE CommandAll("terminate_all", "STOP", ToStop)
      BY <1>2, <3>1 DEF CommandAll, ToStop, MpOrder
    <3> QED
      BY <1>1, <1>2, <2>2, <2>3, <3>1 DEF ActOnPulse, ResumeAll
  <2>4. ASSUME NEW q, ActOnReply(q) PROVE MpOrder
    <3>1. CASE mp' = AfterError /\ cmds' = cmds
      BY <1>1, <3>1 DEF AfterError, MpOrder, Stopping
    <3> QED
      BY <1>1, <2>2, <2>4, <3>1 DEF ActOnReply
  <2> QED
    BY <1>10, <2>3, <2>4 DEF ReceiveUiOrEcpMessage
<1> QED
  BY <1>3, <1>4, <1>5, <1>6, <1>7, <1>9, <1>10 DEF Mp

LEMMA MpQueue == ASSUME ~sensor_failed', TypeOK, QueueInv, Mp PROVE QueueInv'
<1>1. ecp' = ecp
  BY DEF Mp, WaitFor, StartAll, TerminateAll, Acknowledge, Algorithm, AlgorithmEnds, WaitMs,
     SetNextEcpState, WaitForTaskTermination, SendEndMotion, Coordinate, Begins,
     NothingToReceive, ReceiveUiOrEcpMessage, Consume, ecpVars
<1>2. MpOrder
  BY MpKeepsOrder
<1>3. ASSUME NEW r \in ECPs PROVE Ordered(ecp[r], cmds'[r])
  BY <1>2 DEF MpOrder, InOrder
<1>4. ASSUME NEW r \in ECPs, mp' \in Stopping PROVE Stops(ecp[r], cmds'[r])
  <2>1. CASE mp \in Stopping /\ cmds' = cmds
    BY <2>1 DEF QueueInv
  <2>2. CASE cmds' = Send(cmds, ECPs, Command("STOP"))
    <3>1. cmds[r] \in Seq(Commands) /\ Ordered(ecp[r], cmds[r])
      BY DEF TypeOK, QueueInv
    <3>2. cmds'[r] = Append(cmds[r], Command("STOP"))
      BY <2>2 DEF Send
    <3> QED
      BY <3>1, <3>2, CommandTypes, OrderedAppend
  <2> QED
    BY <1>2, <1>4, <2>1, <2>2 DEF MpOrder
<1> QED
  BY <1>1, <1>3, <1>4 DEF QueueInv

LEMMA EcpQueue == ASSUME TypeOK, QueueInv, NEW r \in ECPs, Ecp(r) PROVE QueueInv'
<1>1. mp' = mp /\ cmds[r] \in Seq(Commands)
  BY DEF Ecp, HandlesCommand, EcpWaitForStart, GetNextState, WaitForResume, PeekMpMessage,
     TaskTerminates, Fails, Refuse, Stop, Answer, mpVars, TypeOK
<1>2. Ordered(ecp[r], cmds[r]) /\ (mp \in Stopping => Stops(ecp[r], cmds[r]))
  BY DEF QueueInv
<1>3. \A d \in ECPs : d # r => ecp'[d] = ecp[d] /\ cmds'[d] = cmds[d]
  BY DEF Ecp, HandlesCommand, EcpWaitForStart, GetNextState, WaitForResume, PeekMpMessage,
     TaskTerminates, Fails, Refuse, Stop, Answer, TypeOK
<1>4. Ordered(ecp'[r], cmds'[r]) /\ (mp \in Stopping => Stops(ecp'[r], cmds'[r]))
  <2>1. CASE HandlesCommand(r)
    <3>1. /\ cmds[r] # <<>> /\ cmds'[r] = Tail(cmds[r])
          /\ Head(cmds[r]).command = "STOP" => ecp'[r] = "wait_for_start"
      BY <2>1 DEF HandlesCommand, EcpWaitForStart, GetNextState, WaitForResume, PeekMpMessage,
         Refuse, Stop, Answer, Next_command, OrdersState, TypeOK
    <3> QED
      BY <1>1, <1>2, <3>1, OrderedTail
  <2>2. CASE Fails(r)
    <3>1. cmds'[r] = cmds[r] /\ ecp'[r] = "wait_for_start"
      BY <2>2 DEF Fails, TypeOK
    <3> QED
      BY <1>2, <3>1 DEF Ordered, Stops
  <2>3. CASE TaskTerminates(r)
    <3>1. cmds'[r] = cmds[r] /\ ecp[r] # "wait_for_start"
      BY <2>3 DEF TaskTerminates
    <3> QED
      BY <1>2, <3>1 DEF Ordered, Stops
  <2> QED
    BY <2>1, <2>2, <2>3 DEF Ecp
<1> QED
  BY <1>1, <1>3, <1>4 DEF QueueInv

\* MP never forgets that a sensor has failed, and none fails where none is used.
LEMMA RoundFails ==
    ASSUME NEW c, NEW q, NEW t, NextStep(q, c, t)
    PROVE  UNCHANGED sensor_failed \/ (SensorErrors /\ sensor_failed' = TRUE)
<1>1. ASSUME NEW g, NEW p, NEW b, NEW a, Receive(g, p, b, a)
      PROVE  UNCHANGED sensor_failed \/ (SensorErrors /\ sensor_failed' = TRUE)
  BY <1>1, Zenon DEF Receive
<1>2. ASSUME NEW p, NEW d, NEW free, MoveDone(p, d, free) PROVE UNCHANGED sensor_failed
  BY <1>2, Zenon DEF MoveDone
<1> QED
  BY <1>1, <1>2, Zenon DEF NextStep

LEMMA SensorFails ==
    ASSUME [Next]_vars
    PROVE  UNCHANGED sensor_failed \/ (SensorErrors /\ sensor_failed' = TRUE)
<1> DEFINE Known == UNCHANGED sensor_failed \/ (SensorErrors /\ sensor_failed' = TRUE)
<1>1. ASSUME NEW q, NEW c, NEW p, NEW u, NEW e, NEW t, Loop(q, c, p, u, e, t) PROVE Known
  BY <1>1, RoundFails, Zenon DEF Loop
<1>2. CASE Algorithm
  <2>1. ASSUME NEW g, NEW c, Begins(g, c) PROVE Known
    BY <2>1, Zenon DEF Begins, Receive
  <2>2. ASSUME NEW S, NEW s, SetNextEcpState(S, s) PROVE Known
    BY <2>1, <2>2, Zenon DEF SetNextEcpState
  <2>3. ASSUME NEW S, SendEndMotion(S) \/ Coordinate(S) PROVE Known
    BY <2>1, <2>3, Zenon DEF SendEndMotion, Coordinate
  <2>4. ASSUME NEW S, NEW a, WaitForTaskTermination(S, a) PROVE Known
    BY <2>1, <2>4, Zenon DEF WaitForTaskTermination
  <2> QED
    BY <1>2, <2>1, <2>2, <2>3, <2>4, Zenon DEF Algorithm, AlgorithmEnds, WaitMs
<1>3. ASSUME NEW s, ReceiveUiOrEcpMessage(s) PROVE Known
  <2>1. ASSUME NEW p, NEW q, ActOnPulse(p, q) PROVE Known
    BY <1>1, <2>1, Zenon DEF ActOnPulse
  <2>2. ASSUME NEW q, ActOnReply(q) PROVE Known
    BY <1>1, <2>2, Zenon DEF ActOnReply
  <2> QED
    BY <1>3, <2>1, <2>2, Zenon DEF ReceiveUiOrEcpMessage
<1>4. CASE Mp
  BY <1>1, <1>2, <1>3, <1>4, Zenon DEF Mp, WaitFor, StartAll, TerminateAll, Acknowledge, NothingToReceive
<1>5. ASSUME NEW r \in ECPs, Ecp(r) PROVE UNCHANGED sensor_failed
  BY <1>5 DEF Ecp, HandlesCommand, EcpWaitForStart, GetNextState, WaitForResume, PeekMpMessage,
     TaskTerminates, Fails, Refuse, Stop, Answer, mpVars
<1>6. ASSUME NEW p \in Pulses, Press(p) PROVE UNCHANGED sensor_failed
  BY <1>6 DEF Press, mpVars
<1>7. CASE UNCHANGED vars
  BY <1>7 DEF vars, mpVars
<1> QED
  BY <1>4, <1>5, <1>6, <1>7, Zenon DEF Next

QueueKept == TypeOK /\ (~sensor_failed => QueueInv)

LEMMA QueueInvariance == Spec => []QueueKept
<1>1. Init => QueueKept
  <2> SUFFICES ASSUME Init PROVE QueueInv
    BY InitTypes DEF QueueKept
  <2>1. \A r \in ECPs : cmds[r] = <<>> /\ ecp[r] = "wait_for_start"
    BY DEF Init
  <2>2. ASSUME NEW r \in ECPs PROVE Ordered(ecp[r], cmds[r]) /\ Stops(ecp[r], cmds[r])
    <3>1. cmds[r] = <<>> /\ ecp[r] = "wait_for_start" /\ DOMAIN cmds[r] = {}
      BY <2>1, EmptyQueue
    <3>2. Stops(ecp[r], cmds[r])
      BY <3>1, Zenon DEF Stops
    <3> QED
      BY <3>1, <3>2 DEF Ordered
  <2> QED
    BY <2>2 DEF QueueInv
<1>2. ASSUME TypeOK, QueueInv, [Next]_vars, ~sensor_failed' PROVE QueueInv'
  <2>1. CASE \E p \in Pulses : Press(p)
    BY <1>2, <2>1 DEF Press, QueueInv, mpVars, ecpVars
  <2>2. CASE UNCHANGED vars
    BY <1>2, <2>2 DEF vars, mpVars, ecpVars, QueueInv
  <2> QED
    BY <1>2, <2>1, <2>2, MpQueue, EcpQueue DEF Next
<1>3. ASSUME QueueKept, [Next]_vars PROVE QueueKept'
  <2>1. TypeOK'
    BY <1>3, NextTypes DEF QueueKept
  <2>2. ~sensor_failed' => ~sensor_failed
    BY <1>3, SensorFails, Zenon
  <2> QED
    BY <1>2, <1>3, <2>1, <2>2, Zenon DEF QueueKept
<1> QED
  BY <1>1, <1>3, PTL DEF Spec

StartsExpected ==
    \A r \in ECPs : cmds[r] # <<>> /\ Next_command(r) = "START_TASK" => ecp[r] = "wait_for_start"

LEMMA StartFinds == TypeOK /\ QueueInv => StartsExpected
<1> SUFFICES ASSUME TypeOK, QueueInv, NEW r \in ECPs, cmds[r] # <<>>, Next_command(r) = "START_TASK"
             PROVE  ecp[r] = "wait_for_start"
  BY DEF StartsExpected
<1>1. cmds[r] \in Seq(Commands) /\ Ordered(ecp[r], cmds[r])
  BY DEF TypeOK, QueueInv
<1>2. 1 \in DOMAIN cmds[r] /\ cmds[r][1].command = "START_TASK"
  BY <1>1 DEF Next_command
<1> QED
  BY <1>1, <1>2 DEF Ordered

\* Until MP has caught an exception of a sensor, a START_TASK finds its ECP in
\* wait_for_start, however the run before was ended and whatever was still under way.
THEOREM StartExpected == Spec => []StartFindsEcpWaiting
<1>1. QueueKept => StartFindsEcpWaiting
  BY StartFinds, Zenon DEF QueueKept, StartFindsEcpWaiting, StartsExpected
<1> QED
  BY <1>1, QueueInvariance, PTL
-----------------------------------------------------------------------------
(* Pauses *)

Ends(m) == m.command \in {"RESUME_TASK", "STOP"}

\* an ECP with these commands is in wait_for_resume, or will be, and nothing lets it out
Stuck(h, s) ==
    \/ h /\ \A i \in DOMAIN s : ~Ends(s[i])
    \/ \E i \in DOMAIN s : s[i].command = "PAUSE_TASK" /\ \A j \in DOMAIN s : j > i => ~Ends(s[j])

Calm(c) == Channels(c) /\ \A r \in ECPs : ~Stuck(held[r], c[r])

\* MP knows: it is paused, and then leaves receive_ui_or_ecp_message only by what ends the
\* pause, or it waits for the STOP
PauseInv ==
    /\ paused \/ mp = "wait_for_stop" \/ Calm(cmds)
    /\ paused => mp = "receive" /\ ~ui_exit

LEMMA StuckAppend ==
    ASSUME NEW h, NEW s \in Seq(Commands), NEW m \in Commands
    PROVE  /\ Stuck(h, Append(s, m)) /\ m.command # "PAUSE_TASK" => Stuck(h, s)
           /\ Ends(m) => ~Stuck(h, Append(s, m))
<1>1. /\ DOMAIN Append(s, m) = 1..(Len(s) + 1) /\ DOMAIN s = 1..Len(s) /\ Len(s) \in Nat
      /\ Append(s, m)[Len(s) + 1] = m
      /\ \A i \in 1..Len(s) : Append(s, m)[i] = s[i]
  OBVIOUS
<1>2. Ends(m) => ~Stuck(h, Append(s, m))
  BY <1>1 DEF Stuck, Ends
<1>3. Stuck(h, Append(s, m)) /\ m.command # "PAUSE_TASK" => Stuck(h, s)
  BY <1>1 DEF Stuck
<1> QED
  BY <1>2, <1>3

LEMMA StuckTail ==
    ASSUME NEW h, NEW k, NEW s \in Seq(Commands), s # <<>>, Stuck(k, Tail(s)),
           k => Head(s).command = "PAUSE_TASK"
    PROVE  Stuck(h, s)
<1>1. /\ Len(s) \in Nat \ {0} /\ DOMAIN s = 1..Len(s) /\ DOMAIN Tail(s) = 1..(Len(s) - 1)
      /\ Head(s) = s[1] /\ \A i \in 1..(Len(s) - 1) : Tail(s)[i] = s[i + 1]
  OBVIOUS
<1>2. \A j \in DOMAIN s : j > 1 => j - 1 \in DOMAIN Tail(s) /\ Tail(s)[j - 1] = s[j]
  BY <1>1
<1>3. CASE k /\ \A i \in DOMAIN Tail(s) : ~Ends(Tail(s)[i])
  <2>1. 1 \in DOMAIN s /\ s[1].command = "PAUSE_TASK"
    BY <1>1, <1>3
  <2>2. \A j \in DOMAIN s : j > 1 => ~Ends(s[j])
    BY <1>2, <1>3
  <2> QED
    BY <2>1, <2>2 DEF Stuck
<1>4. ASSUME NEW i \in DOMAIN Tail(s), Tail(s)[i].command = "PAUSE_TASK",
             \A j \in DOMAIN Tail(s) : j > i => ~Ends(Tail(s)[j])
      PROVE  Stuck(h, s)
  <2>1. i + 1 \in DOMAIN s /\ s[i + 1].command = "PAUSE_TASK"
    BY <1>1, <1>4
  <2>2. ASSUME NEW j \in DOMAIN s, j > i + 1 PROVE ~Ends(s[j])
    <3>1. j > 1 /\ j - 1 > i
      BY <1>1, <2>2
    <3> QED
      BY <1>2, <1>4, <3>1
  <2> QED
    BY <2>1, <2>2 DEF Stuck
<1> QED
  BY <1>3, <1>4 DEF Stuck

LEMMA SendCalm ==
    ASSUME NEW c, Channels(c), NEW S \in SUBSET ECPs, NEW m \in Commands
    PROVE  /\ Calm(c) /\ m.command # "PAUSE_TASK" => Calm(Send(c, S, m))
           /\ Ends(m) => Calm(Send(c, ECPs, m))
<1>1. Channels(Send(c, S, m)) /\ Channels(Send(c, ECPs, m))
  BY SendTypes
<1>2. ASSUME NEW r \in ECPs
      PROVE  /\ c[r] \in Seq(Commands)
             /\ Send(c, S, m)[r] \in {c[r], Append(c[r], m)} /\ Send(c, ECPs, m)[r] = Append(c[r], m)
  BY DEF Send, Channels
<1>3. ASSUME Calm(c), m.command # "PAUSE_TASK", NEW r \in ECPs
      PROVE  ~Stuck(held[r], Send(c, S, m)[r])
  BY <1>2, <1>3, StuckAppend DEF Calm
<1>4. ASSUME Ends(m), NEW r \in ECPs PROVE ~Stuck(held[r], Send(c, ECPs, m)[r])
  BY <1>2, <1>4, StuckAppend
<1> QED
  BY <1>1, <1>3, <1>4 DEF Calm

\* a round of Move ends no pause and begins none
LEMMA RoundCalm ==
    ASSUME TypeOK, NEW c, Calm(c), NEW q, NEW t, NextStep(q, c, t)
    PROVE  Calm(cmds') /\ paused' = FALSE
<1>1. gen.robots \in SUBSET ECPs
  BY GeneratorTypes DEF TypeOK
<1>2. Calm(Send(c, gen.robots, Command("NEXT_POSE")))
  BY <1>1, CommandTypes, SendCalm DEF Calm
<1>3. ASSUME NEW g, NEW p, NEW a, Calm(a), Receive(g, p, c, a) PROVE Calm(cmds') /\ paused' = FALSE
  BY <1>3 DEF Receive, NotMoving
<1>4. ASSUME NEW free, MoveDone(q, c, free) PROVE Calm(cmds') /\ paused' = FALSE
  BY <1>4 DEF MoveDone, NotMoving
<1> QED
  BY <1>2, <1>3, <1>4 DEF NextStep

LEMMA MpKeepsPause ==
    ASSUME TypeOK, PauseInv, Mp
    PROVE  /\ paused' \/ mp' = "wait_for_stop" \/ Calm(cmds')
           /\ paused' => mp' = "receive" /\ ~ui_exit'
<1> DEFINE Kept == /\ paused' \/ mp' = "wait_for_stop" \/ Calm(cmds')
                   /\ paused' => mp' = "receive" /\ ~ui_exit'
<1>1. Channels(cmds)
  BY DEF TypeOK, Channels
<1>2. ASSUME Calm(cmds), NEW S \in SUBSET ECPs
      PROVE  /\ \A c \in {"START_TASK", "NEXT_POSE", "END_MOTION"} : Calm(Send(cmds, S, Command(c)))
             /\ \A s \in NextStates : Calm(Send(cmds, S, NextState(s)))
  BY <1>1, <1>2, CommandTypes, SendCalm
<1>3. \A c \in {"RESUME_TASK", "STOP"} : Calm(Send(cmds, ECPs, Command(c)))
  BY <1>1, CommandTypes, SendCalm DEF Ends
<1>4. ~paused /\ mp # "wait_for_stop" => Calm(cmds)
  BY DEF PauseInv
<1>5. CASE \E f, p : WaitFor(f, p)
  BY <1>5, <1>4 DEF WaitFor, PauseInv
<1>6. CASE StartAll
  <2>1. Calm(cmds)
    BY <1>4, <1>6 DEF StartAll, PauseInv
  <2> QED
    BY <1>2, <1>6, <2>1 DEF StartAll, CommandAll, NotMoving
<1>7. CASE TerminateAll
  BY <1>3, <1>7 DEF TerminateAll, CommandAll, ToStop, NotMoving
<1>8. CASE Acknowledge
  <2>1. ~paused /\ Calm(cmds) /\ cmds' = cmds /\ paused' = paused
    BY <1>4, <1>8 DEF Acknowledge, PauseInv
  <2> QED
    BY <2>1
<1>9. CASE Algorithm
  <2>1. mp = "algorithm"
    BY <1>9 DEF Algorithm, AlgorithmEnds, WaitMs, SetNextEcpState, WaitForTaskTermination, SendEndMotion,
       Coordinate, Begins, ProgramGoesOn
  <2>2. ~paused /\ Calm(cmds)
    BY <1>4, <2>1 DEF PauseInv
  <2>3. ASSUME NEW g, NEW c, Calm(c), Begins(g, c) PROVE Kept
    BY <2>2, <2>3 DEF Begins, Receive, NotMoving
  <2>4. ASSUME NEW S \in SUBSET ECPs, NEW s \in NextStates, SetNextEcpState(S, s) PROVE Kept
    BY <1>2, <2>2, <2>3, <2>4 DEF SetNextEcpState
  <2>5. ASSUME NEW S \in SUBSET ECPs, SendEndMotion(S) \/ Coordinate(S) PROVE Kept
    BY <1>2, <2>2, <2>3, <2>5 DEF SendEndMotion, Coordinate
  <2>6. ASSUME NEW S, NEW a, WaitForTaskTermination(S, a) PROVE Kept
    <3>1. CASE \E g : Begins(g, cmds)
      BY <2>2, <2>3, <3>1
    <3>2. CASE cmds' = cmds /\ paused' = paused
      BY <2>2, <3>2
    <3> QED
      BY <2>6, <3>1, <3>2 DEF WaitForTaskTermination
  <2>7. CASE AlgorithmEnds
    BY <2>2, <2>7 DEF AlgorithmEnds
  <2>8. CASE WaitMs
    BY <2>2, <2>3, <2>8 DEF WaitMs
  <2> QED
    BY <1>9, <2>4, <2>5, <2>6, <2>7, <2>8 DEF Algorithm
\* leaving the pause, or going on without one
<1>10. ASSUME NEW c, Calm(c), NEW q, NEW u, NEW e, NEW t, Loop(q, c, FALSE, u, e, t) PROVE Kept
  BY <1>10, RoundCalm DEF Loop
\* going on in the pause, which leaves the loop by no other way
<1>11. ASSUME mp = "receive", NEW c, NEW q, NEW e, NEW t, Loop(q, c, TRUE, FALSE, e, t) PROVE Kept
  BY <1>11 DEF Loop
<1>12. CASE NothingToReceive
  <2>1. Calm(cmds) /\ Loop(reply, cmds, FALSE, TRUE, TRUE, FALSE)
    BY <1>4, <1>12 DEF NothingToReceive
  <2> QED
    BY <1>10, <2>1
<1>13. ASSUME NEW s \in {UI} \cup ECPs, ReceiveUiOrEcpMessage(s) PROVE Kept
  <2>1. mp = "receive"
    BY <1>13 DEF ReceiveUiOrEcpMessage
  <2>2. ASSUME NEW q, NEW u, NEW e, Loop(q, cmds, paused, u, e, FALSE), paused => u = FALSE PROVE Kept
    <3>1. CASE paused
      <4>1. Loop(q, cmds, TRUE, FALSE, e, FALSE)
        <5>1. paused = TRUE /\ u = FALSE
          BY <2>2, <3>1 DEF TypeOK
        <5> QED
          BY <2>2, <5>1
      <4> QED
        BY <1>11, <2>1, <4>1
    <3>2. CASE ~paused
      <4>1. Loop(q, cmds, FALSE, u, e, FALSE) /\ Calm(cmds)
        <5>1. paused = FALSE
          BY <3>2 DEF TypeOK
        <5> QED
          BY <1>4, <2>1, <2>2, <3>2, <5>1
      <4> QED
        BY <1>10, <4>1
    <3> QED
      BY <3>1, <3>2
  <2>3. paused => ui_exit = FALSE /\ (ui_exit \/ ~paused) = FALSE
    BY Zenon DEF PauseInv, TypeOK
  <2>4. ASSUME NEW p, NEW q, ActOnPulse(p, q) PROVE Kept
    <3>1. CASE CommandAll("terminate_all", "STOP", ToStop)
      BY <1>3, <3>1 DEF CommandAll, ToStop, NotMoving
    <3>2. CASE Loop(q, Send(cmds, ECPs, Command("PAUSE_TASK")), TRUE, FALSE, ecp_exit, FALSE)
      BY <1>11, <2>1, <3>2
    <3>3. CASE Loop(q, ResumeAll(cmds), FALSE, TRUE, ecp_exit, FALSE)
      BY <1>3, <1>10, <3>3 DEF ResumeAll
    <3>4. CASE ~paused /\ Loop(q, cmds, FALSE, TRUE, TRUE, TRUE)
      BY <1>4, <1>10, <2>1, <3>4
    <3>5. CASE Loop(q, cmds, paused, ui_exit, ecp_exit, FALSE)
      BY <2>2, <2>3, <3>5
    <3> QED
      BY <2>4, <3>1, <3>2, <3>3, <3>4, <3>5 DEF ActOnPulse
  <2>5. ASSUME NEW q, ActOnReply(q) PROVE Kept
    <3>1. CASE mp' = AfterError /\ NotMoving
      BY <3>1 DEF AfterError, NotMoving
    <3>2. CASE Loop(q, cmds, paused, ui_exit \/ ~paused, TRUE, FALSE)
      BY <2>2, <2>3, <3>2
    <3> QED
      BY <2>5, <3>1, <3>2 DEF ActOnReply
  <2> QED
    BY <1>13, <2>4, <2>5 DEF ReceiveUiOrEcpMessage
<1> QED
  BY <1>5, <1>6, <1>7, <1>8, <1>9, <1>12, <1>13 DEF Mp

LEMMA MpPause == ASSUME TypeOK, PauseInv, Mp PROVE PauseInv'
<1>1. held' = held
  BY DEF Mp, WaitFor, StartAll, TerminateAll, Acknowledge, Algorithm, AlgorithmEnds, WaitMs,
     SetNextEcpState, WaitForTaskTermination, SendEndMotion, Coordinate, Begins,
     NothingToReceive, ReceiveUiOrEcpMessage, Consume, ecpVars
<1>2. Calm(cmds') => Calm(cmds)'
  BY <1>1 DEF Calm, Channels
<1> QED
  BY <1>2, MpKeepsPause DEF PauseInv

LEMMA EcpPause == ASSUME TypeOK, TypeOK', PauseInv, NEW r \in ECPs, Ecp(r) PROVE PauseInv'
<1>1. UNCHANGED <<mp, paused, ui_exit>>
  BY DEF Ecp, HandlesCommand, EcpWaitForStart, GetNextState, WaitForResume, PeekMpMessage,
     TaskTerminates, Fails, Refuse, Stop, Answer, mpVars
<1>2. \A d \in ECPs : d # r => held'[d] = held[d] /\ cmds'[d] = cmds[d]
  BY DEF Ecp, HandlesCommand, EcpWaitForStart, GetNextState, WaitForResume, PeekMpMessage,
     TaskTerminates, Fails, Refuse, Stop, Answer, TypeOK
<1>3. Stuck(held'[r], cmds'[r]) => Stuck(held[r], cmds[r])
  <2>1. CASE HandlesCommand(r)
    <3>1. /\ cmds[r] # <<>> /\ cmds'[r] = Tail(cmds[r])
          /\ held'[r] => Head(cmds[r]).command = "PAUSE_TASK"
      BY <2>1 DEF HandlesCommand, EcpWaitForStart, GetNextState, WaitForResume, PeekMpMessage,
         Refuse, Stop, Answer, Next_command, TypeOK
    <3>2. cmds[r] \in Seq(Commands)
      BY DEF TypeOK
    <3> QED
      BY <3>1, <3>2, StuckTail
  <2>2. CASE TaskTerminates(r) \/ Fails(r)
    BY <2>2 DEF TaskTerminates, Fails
  <2> QED
    BY <2>1, <2>2 DEF Ecp
<1>4. ASSUME Calm(cmds) PROVE Calm(cmds)'
  <2>1. ASSUME NEW d \in ECPs PROVE ~Stuck(held'[d], cmds'[d])
    BY <1>2, <1>3, <1>4 DEF Calm
  <2>2. Channels(cmds')
    BY DEF TypeOK, Channels
  <2> QED
    BY <2>1, <2>2 DEF Calm, Channels
<1> QED
  BY <1>1, <1>4 DEF PauseInv

LEMMA PauseInvariance == Spec => [](TypeOK /\ PauseInv)
<1>1. Init => TypeOK /\ PauseInv
  <2> SUFFICES ASSUME Init PROVE PauseInv
    BY InitTypes
  <2>1. ASSUME NEW r \in ECPs PROVE ~Stuck(held[r], cmds[r])
    <3>1. held[r] = FALSE /\ DOMAIN cmds[r] = {}
      BY EmptyQueue DEF Init
    <3> QED
      BY <3>1 DEF Stuck
  <2>2. Channels(cmds)
    BY InitTypes DEF TypeOK, Channels
  <2>3. Calm(cmds)
    BY <2>1, <2>2 DEF Calm
  <2> QED
    BY <2>3 DEF PauseInv, Init
<1>2. ASSUME TypeOK, PauseInv, [Next]_vars PROVE PauseInv'
  <2>1. CASE \E p \in Pulses : Press(p)
    BY <1>2, <2>1 DEF Press, PauseInv, mpVars, ecpVars, Calm, Channels
  <2>2. CASE UNCHANGED vars
    BY <1>2, <2>2 DEF vars, mpVars, ecpVars, PauseInv, Calm, Channels
  <2> QED
    BY <1>2, <2>1, <2>2, NextTypes, MpPause, EcpPause DEF Next
<1> QED
  BY <1>1, <1>2, NextTypes, PTL DEF Spec

\* No ECP is forgotten in wait_for_resume: MP is still paused, waits for the STOP, or what
\* ends the pause is on its way; for any robots, and with the exceptions of sensors.
THEOREM NobodyForgotten == Spec => []PauseIsEnded
<1>1. ASSUME TypeOK, PauseInv PROVE PauseIsEnded
  BY <1>1 DEF PauseInv, PauseIsEnded, Calm, Stuck, Ends, Has
<1> QED
  BY <1>1, PauseInvariance, PTL
-----------------------------------------------------------------------------
(* Acknowledgements *)

Asking == {"start_all", "terminate_all"}

\* What MP has asked of a robot is its last command; or the ECP has answered it as the
\* last thing it did, and the answer is in the channel or, fresh, in the buffer.
Asked(r) == cmds[r] # <<>> /\ cmds[r][Len(cmds[r])].command \in {"START_TASK", "STOP"}

Silent(r) == cmds[r] = <<>> /\ ecp[r] \in {"wait_for_start", "get_next_state"}

AnswerSent(r) ==
    Silent(r) /\ replies[r] # <<>> /\ replies[r][Len(replies[r])] = "ECP_ACKNOWLEDGE"

AnswerKept(r) == Silent(r) /\ replies[r] = <<>> /\ reply[r] = Stored("ECP_ACKNOWLEDGE")

\* A single robot's answer is confirmed when it is received; with several, the
\* traversal that erases one may miss another, whose answer stays in its buffer.
AskInv ==
    mp \in Asking => \A r \in not_confirmed :
       Asked(r) \/ AnswerSent(r) \/ (AnswerKept(r) /\ ECPs # {r})

HeldActs == \A r \in ECPs : held[r] => ecp[r] # "wait_for_start"

\* MP begins to wait only when it has just sent what is to be acknowledged.
LEMMA RoundAsksNobody ==
    ASSUME NEW c, NEW q, NEW t, NextStep(q, c, t)
    PROVE  mp' \notin Asking
<1>1. ASSUME NEW g, NEW p, NEW b, NEW a, Receive(g, p, b, a) PROVE mp' \notin Asking
  BY <1>1 DEF Receive, Asking
<1>2. ASSUME NEW p, NEW d, NEW free, MoveDone(p, d, free) PROVE mp' \notin Asking
  BY <1>2 DEF MoveDone, Asking
<1> QED
  BY <1>1, <1>2 DEF NextStep

LEMMA MpAsks ==
    ASSUME Mp, mp' \in Asking
    PROVE  Acknowledge \/ \E c \in {"START_TASK", "STOP"} : cmds' = Send(cmds, ECPs, Command(c))
<1> DEFINE Sent == \E c \in {"START_TASK", "STOP"} : cmds' = Send(cmds, ECPs, Command(c))
<1>1. ASSUME NEW q, NEW c, NEW p, NEW u, NEW e, NEW t, Loop(q, c, p, u, e, t), mp = "receive" PROVE FALSE
  BY <1>1, RoundAsksNobody DEF Loop, Asking
<1>2. CASE \E s \in {UI} \cup ECPs : ReceiveUiOrEcpMessage(s)
  <2>1. mp = "receive"
    BY <1>2 DEF ReceiveUiOrEcpMessage
  <2>2. ASSUME NEW p, NEW q, ActOnPulse(p, q) PROVE Sent
    <3>1. CASE CommandAll("terminate_all", "STOP", ToStop)
      BY <3>1 DEF CommandAll, ToStop
    <3> QED
      BY <1>1, <2>1, <2>2, <3>1 DEF ActOnPulse
  <2>3. ASSUME NEW q, ActOnReply(q) PROVE FALSE
    BY <1>1, <2>1, <2>3 DEF ActOnReply, AfterError, Asking
  <2> QED
    BY <1>2, <2>2, <2>3 DEF ReceiveUiOrEcpMessage
<1>3. CASE Algorithm
  <2>1. ASSUME NEW g, NEW c, Begins(g, c) PROVE FALSE
    BY <2>1 DEF Begins, Receive, Asking
  <2>2. ASSUME NEW S, NEW a, WaitForTaskTermination(S, a) PROVE FALSE
    BY <2>1, <2>2 DEF WaitForTaskTermination, ProgramGoesOn, Asking
  <2> QED
    BY <1>3, <2>1, <2>2 DEF Algorithm, AlgorithmEnds, WaitMs, SetNextEcpState, SendEndMotion, Coordinate, Asking
<1>4. CASE NothingToReceive
  BY <1>1, <1>4 DEF NothingToReceive
<1>5. CASE \E f, p : f \in {"wait_for_start", "wait_for_stop"} /\ WaitFor(f, p)
  BY <1>5 DEF WaitFor, Asking
<1>6. CASE StartAll \/ TerminateAll
  BY <1>6 DEF StartAll, TerminateAll, CommandAll, ToStop
<1> QED
  BY <1>2, <1>3, <1>4, <1>5, <1>6 DEF Mp

LEMMA TailLast ==
    ASSUME NEW T, NEW s \in Seq(T), s # <<>>
    PROVE  /\ Len(s) = 1 => Tail(s) = <<>> /\ Head(s) = s[Len(s)]
           /\ Len(s) # 1 => Tail(s) # <<>> /\ Tail(s)[Len(Tail(s))] = s[Len(s)]
<1>1. /\ Len(s) \in Nat \ {0} /\ Len(Tail(s)) = Len(s) - 1 /\ Head(s) = s[1]
      /\ Tail(s) \in Seq(T) /\ \A i \in 1..(Len(s) - 1) : Tail(s)[i] = s[i + 1]
  OBVIOUS
<1>2. ASSUME Len(s) = 1 PROVE Tail(s) = <<>>
  <2>1. \A t \in Seq(T) : t # <<>> => Len(t) \in Nat \ {0}
    BY EmptySeq, Zenon
  <2>2. Tail(s) \in Seq(T) /\ Len(Tail(s)) = 0
    BY <1>1, <1>2
  <2>3. Len(Tail(s)) \notin Nat \ {0}
    BY <2>2
  <2> QED
    BY <2>1, <2>2, <2>3, Zenon
<1>3. ASSUME Len(s) # 1 PROVE Tail(s) # <<>> /\ Tail(s)[Len(Tail(s))] = s[Len(s)]
  <2>1. Len(s) - 1 \in 1..(Len(s) - 1) /\ (Len(s) - 1) + 1 = Len(s)
    BY <1>1, <1>3
  <2>2. Tail(s)[Len(s) - 1] = s[Len(s)] /\ Len(Tail(s)) # 0
    BY <1>1, <2>1
  <2> QED
    BY <1>1, <2>2, EmptyQueue
<1> QED
  BY <1>1, <1>2, <1>3

\* A message that arrives from a robot leaves its last answer in the channel, or
\* is that answer: then it is kept, or confirmed at once when there is one robot.
LEMMA AcknowledgeAsks == ASSUME TypeOK, AskInv, Acknowledge PROVE AskInv'
<1>1. PICK s \in {UI} \cup ECPs :
         LET acknowledged == {r \in FreshIn(ReplyAfter(s)) : ReplyAfter(s)[r].v = "ECP_ACKNOWLEDGE"}
         IN  /\ Arrives(s) /\ Consume(s)
             /\ not_confirmed' \in Erasures(not_confirmed, acknowledged)
             /\ reply' = [r \in ECPs |-> IF r \in not_confirmed \ not_confirmed'
                                         THEN markAsUsed(ReplyAfter(s)[r]) ELSE ReplyAfter(s)[r]]
  BY DEF Acknowledge
<1>2. /\ mp \in Asking /\ UNCHANGED <<cmds, ecp>>
      /\ not_confirmed \in SUBSET ECPs /\ not_confirmed' \in SUBSET not_confirmed
  BY <1>1, ErasureTypes DEF Acknowledge, Consume, ecpVars, TypeOK, Asking
<1> SUFFICES ASSUME NEW r \in not_confirmed'
             PROVE  Asked(r)' \/ AnswerSent(r)' \/ (AnswerKept(r)' /\ ECPs # {r})
  BY DEF AskInv
<1>3. /\ r \in ECPs /\ r # UI /\ reply'[r] = ReplyAfter(s)[r]
      /\ Asked(r) \/ AnswerSent(r) \/ (AnswerKept(r) /\ ECPs # {r})
  BY <1>1, <1>2, UIAssumption DEF AskInv
<1>4. Silent(r)' <=> Silent(r)
  BY <1>2 DEF Silent
<1>5. CASE Asked(r)
  BY <1>2, <1>5 DEF Asked
<1>6. CASE s # r
  <2>1. reply'[r] = reply[r] /\ replies'[r] = replies[r]
    BY <1>1, <1>3, <1>6 DEF ReplyAfter, Consume, TypeOK
  <2> QED
    BY <1>2, <1>3, <1>4, <2>1 DEF Asked, AnswerSent, AnswerKept
<1>7. CASE s = r /\ AnswerSent(r)
  <2>1. replies[r] \in Seq(Replies) /\ replies[r] # <<>>
    BY <1>3, <1>7 DEF AnswerSent, TypeOK
  <2>2. replies'[r] = Tail(replies[r]) /\ reply'[r] = Stored(Head(replies[r]))
    BY <1>1, <1>3, <1>7 DEF Consume, ReplyAfter, TypeOK
  <2>3. CASE Len(replies[r]) = 1
    <3>1. replies'[r] = <<>> /\ Head(replies[r]) = "ECP_ACKNOWLEDGE"
      BY <1>7, <2>1, <2>2, <2>3, TailLast DEF AnswerSent
    <3>2. AnswerKept(r)'
      BY <1>4, <1>7, <2>2, <3>1 DEF AnswerKept, AnswerSent
    <3>3. ECPs # {r}
      <4> SUFFICES ASSUME ECPs = {r} PROVE FALSE
        OBVIOUS
      <4>1. r \in FreshIn(ReplyAfter(s)) /\ ReplyAfter(s)[r].v = "ECP_ACKNOWLEDGE"
        <5>1. ReplyAfter(s)[r] = [v |-> "ECP_ACKNOWLEDGE", fresh |-> TRUE]
          BY <1>3, <2>2, <3>1 DEF Stored
        <5> QED
          BY <1>3, <5>1 DEF FreshIn
      <4>2. not_confirmed = {r}
        BY <1>2
      <4>3. r \notin not_confirmed'
        BY <1>1, <4>1, <4>2 DEF Erasures
      <4> QED
        BY <4>3
    <3> QED
      BY <3>2, <3>3
  <2>4. CASE Len(replies[r]) # 1
    <3>1. /\ Tail(replies[r]) # <<>>
          /\ Tail(replies[r])[Len(Tail(replies[r]))] = replies[r][Len(replies[r])]
      BY <2>1, <2>4, TailLast
    <3> QED
      BY <1>4, <1>7, <2>2, <3>1 DEF AnswerSent
  <2> QED
    BY <2>3, <2>4
<1>8. CASE s = r /\ AnswerKept(r)
  BY <1>1, <1>3, <1>8 DEF Arrives, AnswerKept
<1> QED
  BY <1>3, <1>5, <1>6, <1>7, <1>8

LEMMA MpAskInv == ASSUME TypeOK, AskInv, Mp PROVE AskInv'
<1> SUFFICES ASSUME mp' \in Asking PROVE AskInv'
  BY DEF AskInv
<1>1. CASE Acknowledge
  BY <1>1, AcknowledgeAsks
<1>2. ASSUME NEW c \in {"START_TASK", "STOP"}, cmds' = Send(cmds, ECPs, Command(c)) PROVE AskInv'
  <2>1. ASSUME NEW r \in ECPs PROVE Asked(r)'
    <3>1. cmds[r] \in Seq(Commands) /\ cmds'[r] = Append(cmds[r], Command(c))
      BY <1>2 DEF TypeOK, Send
    <3>2. cmds'[r] # <<>> /\ cmds'[r][Len(cmds'[r])] = Command(c)
      BY <3>1, CommandTypes
    <3> QED
      BY <3>2, CommandTypes DEF Asked
  <2>2. not_confirmed' \subseteq ECPs
    BY NextTypes DEF Next, TypeOK
  <2> QED
    BY <2>1, <2>2 DEF AskInv
<1> QED
  BY <1>1, <1>2, MpAsks

\* Whatever state an ECP is in it acknowledges a STOP, and it waits for its START_TASK.
LEMMA LastIsAnswered ==
    ASSUME TypeOK, StartsExpected, HeldActs, NEW r \in ECPs, HandlesCommand(r),
           Next_command(r) \in {"START_TASK", "STOP"}
    PROVE  /\ replies'[r] = replies[r] \o <<"ECP_ACKNOWLEDGE">>
           /\ ecp'[r] \in {"wait_for_start", "get_next_state"}
<1>1. cmds[r] # <<>> /\ replies[r] \in Seq(Replies) /\ ecp \in [ECPs -> {"wait_for_start", "get_next_state"} \cup NextStates]
      /\ replies \in [ECPs -> Seq(Replies)]
  BY DEF HandlesCommand, EcpWaitForStart, GetNextState, WaitForResume, PeekMpMessage, TypeOK
<1>2. ASSUME NEW f \in {"wait_for_start", "get_next_state"}, NEW h, Answer(r, <<"ECP_ACKNOWLEDGE">>, f, h)
      PROVE  /\ replies'[r] = replies[r] \o <<"ECP_ACKNOWLEDGE">>
             /\ ecp'[r] \in {"wait_for_start", "get_next_state"}
  BY <1>1, <1>2 DEF Answer
<1>3. CASE Stop(r)
  BY <1>2, <1>3 DEF Stop
<1>4. CASE EcpWaitForStart(r) /\ ~Stop(r)
  BY <1>2, <1>4 DEF EcpWaitForStart
<1>5. CASE Next_command(r) = "START_TASK"
  <2>1. ecp[r] = "wait_for_start" /\ ~held[r]
    BY <1>1, <1>5 DEF StartsExpected, HeldActs
  <2>2. EcpWaitForStart(r)
    BY <2>1 DEF HandlesCommand, GetNextState, WaitForResume, PeekMpMessage, NextStates
  <2> QED
    BY <1>3, <1>4, <2>2
<1>6. CASE Next_command(r) = "STOP"
  BY <1>3, <1>4, <1>6 DEF HandlesCommand, GetNextState, WaitForResume, PeekMpMessage, OrdersState, Next_command
<1> QED
  BY <1>5, <1>6

LEMMA EcpAskInv ==
    ASSUME TypeOK, StartsExpected, HeldActs, AskInv, NEW d \in ECPs, Ecp(d)
    PROVE  AskInv'
<1>1. /\ UNCHANGED <<mp, not_confirmed, reply>>
      /\ not_confirmed \subseteq ECPs
  BY DEF Ecp, HandlesCommand, EcpWaitForStart, GetNextState, WaitForResume, PeekMpMessage,
     TaskTerminates, Fails, Refuse, Stop, Answer, mpVars, TypeOK
<1>2. \A r \in ECPs \ {d} : cmds'[r] = cmds[r] /\ replies'[r] = replies[r] /\ ecp'[r] = ecp[r]
  <2>1. /\ ecp \in [ECPs -> {"wait_for_start", "get_next_state"} \cup NextStates]
        /\ cmds \in [ECPs -> Seq(Commands)] /\ replies \in [ECPs -> Seq(Replies)]
    BY DEF TypeOK
  <2>2. ASSUME NEW as, NEW f, NEW h, Answer(d, as, f, h)
        PROVE  \A r \in ECPs \ {d} : cmds'[r] = cmds[r] /\ replies'[r] = replies[r] /\ ecp'[r] = ecp[r]
    BY <2>1, <2>2 DEF Answer
  <2>3. CASE TaskTerminates(d) \/ Fails(d)
    BY <2>1, <2>3 DEF TaskTerminates, Fails
  <2> QED
    BY <2>2, <2>3 DEF Ecp, HandlesCommand, EcpWaitForStart, GetNextState, WaitForResume, PeekMpMessage,
       Refuse, Stop
<1> SUFFICES ASSUME mp \in Asking, NEW r \in not_confirmed
             PROVE  Asked(r)' \/ AnswerSent(r)' \/ (AnswerKept(r)' /\ ECPs # {r})
  BY <1>1 DEF AskInv
<1>3. Asked(r) \/ AnswerSent(r) \/ (AnswerKept(r) /\ ECPs # {r})
  BY DEF AskInv
<1>4. CASE r # d
  <2>1. cmds'[r] = cmds[r] /\ replies'[r] = replies[r] /\ ecp'[r] = ecp[r] /\ reply'[r] = reply[r]
    BY <1>1, <1>2, <1>4
  <2> QED
    BY <1>3, <2>1 DEF Asked, AnswerSent, AnswerKept, Silent
<1>5. CASE r = d /\ HandlesCommand(d)
  <2>1. cmds[r] # <<>> /\ cmds[r] \in Seq(Commands) /\ replies[r] \in Seq(Replies)
    BY <1>1, <1>5 DEF HandlesCommand, EcpWaitForStart, GetNextState, WaitForResume, PeekMpMessage, TypeOK
  <2>2. cmds[r][Len(cmds[r])].command \in {"START_TASK", "STOP"}
    BY <1>3, <2>1 DEF Asked, AnswerSent, AnswerKept, Silent
  <2>3. cmds'[r] = Tail(cmds[r])
    BY <1>5, <1>1 DEF HandlesCommand, EcpWaitForStart, GetNextState, WaitForResume, PeekMpMessage,
       Refuse, Stop, Answer, TypeOK
  <2>4. CASE Len(cmds[r]) = 1
    <3>1. cmds'[r] = <<>> /\ Next_command(r) \in {"START_TASK", "STOP"}
      BY <2>1, <2>2, <2>3, <2>4, TailLast DEF Next_command
    <3>2. /\ replies'[r] = replies[r] \o <<"ECP_ACKNOWLEDGE">>
          /\ ecp'[r] \in {"wait_for_start", "get_next_state"}
      BY <1>5, <3>1, LastIsAnswered
    <3>3. replies'[r] # <<>> /\ replies'[r][Len(replies'[r])] = "ECP_ACKNOWLEDGE"
      BY <2>1, <3>2
    <3> QED
      BY <3>1, <3>2, <3>3 DEF AnswerSent, Silent
  <2>5. CASE Len(cmds[r]) # 1
    <3>1. Tail(cmds[r]) # <<>> /\ Tail(cmds[r])[Len(Tail(cmds[r]))] = cmds[r][Len(cmds[r])]
      BY <2>1, <2>5, TailLast
    <3> QED
      BY <2>2, <2>3, <3>1 DEF Asked
  <2> QED
    BY <2>4, <2>5
<1>6. CASE r = d /\ (TaskTerminates(d) \/ Fails(d))
  <2>1. ecp[r] \in NextStates /\ cmds' = cmds
    BY <1>6 DEF TaskTerminates, Fails, NextStates
  <2>2. Asked(r)
    BY <1>3, <2>1 DEF AnswerSent, AnswerKept, Silent, NextStates
  <2> QED
    BY <2>1, <2>2 DEF Asked
<1> QED
  BY <1>4, <1>5, <1>6 DEF Ecp

LEMMA EcpHeldActs == ASSUME TypeOK, HeldActs, NEW d \in ECPs, Ecp(d) PROVE HeldActs'
<1>1. /\ ecp \in [ECPs -> {"wait_for_start", "get_next_state"} \cup NextStates]
      /\ held \in [ECPs -> BOOLEAN]
  BY DEF TypeOK
<1>2. ASSUME NEW as, NEW f, NEW h, Answer(d, as, f, h), h => f # "wait_for_start" PROVE HeldActs'
  BY <1>1, <1>2 DEF Answer, HeldActs
<1>3. CASE TaskTerminates(d) \/ Fails(d)
  BY <1>1, <1>3 DEF TaskTerminates, Fails, HeldActs
<1>4. CASE HandlesCommand(d)
  BY <1>2, <1>4 DEF HandlesCommand, EcpWaitForStart, GetNextState, WaitForResume, PeekMpMessage,
     Refuse, Stop, HeldActs, NextStates
<1> QED
  BY <1>3, <1>4 DEF Ecp

AskKept == QueueKept /\ HeldActs /\ (~sensor_failed => AskInv)

LEMMA AskInvariance == Spec => []AskKept
<1>1. Init => HeldActs /\ AskInv
  BY DEF Init, HeldActs, AskInv, Asking
<1>2. ASSUME QueueKept, HeldActs, [Next]_vars PROVE HeldActs'
  <2>1. ASSUME NEW d \in ECPs, Ecp(d) PROVE HeldActs'
    BY <1>2, <2>1, EcpHeldActs DEF QueueKept
  <2>2. CASE UNCHANGED ecpVars
    BY <1>2, <2>2 DEF ecpVars, HeldActs
  <2>3. Mp => UNCHANGED ecpVars
    BY DEF Mp, WaitFor, StartAll, TerminateAll, Acknowledge, Algorithm, AlgorithmEnds, WaitMs,
       SetNextEcpState, WaitForTaskTermination, SendEndMotion, Coordinate, Begins,
       NothingToReceive, ReceiveUiOrEcpMessage, Consume, ecpVars
  <2> QED
    BY <1>2, <2>1, <2>2, <2>3 DEF Next, Press, vars
<1>3. ASSUME TypeOK, QueueInv, HeldActs, AskInv, [Next]_vars PROVE AskInv'
  <2>1. CASE UNCHANGED <<mpVars, ecpVars, cmds, replies>>
    BY <1>3, <2>1 DEF mpVars, ecpVars, AskInv, Asked, AnswerSent, AnswerKept, Silent
  <2>2. CASE Mp
    BY <1>3, <2>2, MpAskInv
  <2>3. ASSUME NEW d \in ECPs, Ecp(d) PROVE AskInv'
    BY <1>3, <2>3, StartFinds, EcpAskInv
  <2> QED
    BY <1>3, <2>1, <2>2, <2>3 DEF Next, Press, vars
<1>4. ASSUME AskKept, [Next]_vars PROVE HeldActs' /\ (~sensor_failed' => AskInv')
  <2>1. ~sensor_failed' => ~sensor_failed
    BY <1>4, SensorFails, Zenon
  <2> QED
    BY <1>2, <1>3, <1>4, <2>1, Zenon DEF AskKept, QueueKept
<1> QED
  BY <1>1, <1>4, QueueInvariance, PTL DEF Spec, AskKept

LEMMA AskedHas == ASSUME TypeOK, NEW r \in ECPs, Asked(r) PROVE Has(r, {"START_TASK", "STOP"})
<1>1. cmds[r] \in Seq(Commands) /\ cmds[r] # <<>>
  BY DEF TypeOK, Asked
<1>2. Len(cmds[r]) \in DOMAIN cmds[r]
  BY <1>1
<1> QED
  BY <1>2 DEF Asked, Has

LEMMA SentComes ==
    ASSUME TypeOK, NEW r \in ECPs, AnswerSent(r)
    PROVE  \E i \in DOMAIN replies[r] : replies[r][i] = "ECP_ACKNOWLEDGE"
<1>1. replies[r] \in Seq(Replies) /\ replies[r] # <<>>
  BY DEF TypeOK, AnswerSent
<1>2. Len(replies[r]) \in DOMAIN replies[r]
  BY <1>1
<1> QED
  BY <1>2 DEF AnswerSent

\* However many robots there are, no acknowledgement that MP waits for is lost: until a
\* sensor has failed, it comes, or lies fresh in its buffer.
THEOREM AcknowledgementKept == Spec => []AcknowledgeNotLost
<1>1. ASSUME TypeOK, AskInv PROVE AcknowledgeNotLost
  <2> SUFFICES ASSUME mp \in Asking, NEW r \in not_confirmed
               PROVE  \/ Has(r, {"START_TASK", "STOP"})
                      \/ \E i \in DOMAIN replies[r] : replies[r][i] = "ECP_ACKNOWLEDGE"
                      \/ reply[r] = Stored("ECP_ACKNOWLEDGE")
    BY DEF AcknowledgeNotLost, Asking
  <2>1. r \in ECPs
    BY <1>1 DEF TypeOK
  <2>2. Asked(r) \/ AnswerSent(r) \/ AnswerKept(r)
    BY <1>1 DEF AskInv
  <2> QED
    BY <1>1, <2>1, <2>2, AskedHas, SentComes DEF AnswerKept
<1>2. AskKept => AcknowledgeNotLost
  BY <1>1, Zenon DEF AskKept, QueueKept, AcknowledgeNotLost
<1> QED
  BY <1>2, AskInvariance, PTL

\* With one robot wait_for_all_robots_acknowledge never waits for nothing: a command to
\* acknowledge or the acknowledgement is on its way, until a sensor has failed.
THEOREM AcknowledgementComes == ASSUME NEW r, ECPs = {r} PROVE Spec => []AcknowledgeComing
<1>1. ASSUME TypeOK, AskInv PROVE AcknowledgeComing
  <2> SUFFICES ASSUME mp \in Asking, r \in not_confirmed
               PROVE  \/ Has(r, {"START_TASK", "STOP"})
                      \/ \E i \in DOMAIN replies[r] : replies[r][i] = "ECP_ACKNOWLEDGE"
    BY <1>1 DEF AcknowledgeComing, Asking, TypeOK
  <2>1. Asked(r) \/ AnswerSent(r)
    BY <1>1 DEF AskInv
  <2> QED
    BY <1>1, <2>1, AskedHas, SentComes
<1>2. AskKept => AcknowledgeComing
  BY <1>1, Zenon DEF AskKept, QueueKept, AcknowledgeComing
<1> QED
  BY <1>2, AskInvariance, PTL
=============================================================================
