------------------------------- MODULE MpEcp --------------------------------
(***************************************************************************)
(* The coordination of a task: the process MP (base/mp), one process ECP   *)
(* per robot (base/ecp) and the buttons of the user interface.             *)
(*                                                                         *)
(* Everybody sends without waiting and keeps one input buffer per sender   *)
(* (base/lib/agent): a message received overwrites the buffer and makes it *)
(* fresh.  The messages of one sender arrive in order, those of different  *)
(* senders in any order.  A step of MP is what it does between two         *)
(* receives; the messages it sends on the way go out in that step.         *)
(***************************************************************************)
EXTENDS Sequences, Naturals

CONSTANTS ECPs,         \* the robots of the task
          MaxPulses,    \* bound: presses of a button in a behaviour
          MaxMoves,     \* bound: generators run between two stops
          SensorErrors  \* the generators of MP use sensors, which may throw

ASSUME MpEcpAssumption == MaxPulses \in Nat /\ MaxMoves \in Nat /\ SensorErrors \in BOOLEAN

UI == "ui"
ASSUME UIAssumption == UI \notin ECPs

VARIABLES
    ui_state,      \* mp.state of the interface: what the buttons allow
    pressed,       \* bounds the behaviour
    pulses,        \* sent by the UI, not received
    \* MP
    mp,            \* the function it is in
    not_confirmed,
    ui_pulse,      \* the input buffers, [v, fresh]
    reply,
    gen,           \* the generator whose Move is under way
    paused,        \* mp_state of receive_ui_or_ecp_message
    ui_exit,       \* ui_exit_from_while, ecp_exit_from_while
    ecp_exit,
    moves,         \* bounds the user program
    given,         \* what the user program knows of each robot: the state it ordered
    sensor_failed, \* history: MP has caught an exception of a sensor
    \* ECPs
    ecp,           \* the function the ECP is in, or the kind of state it executes
    held,          \* in wait_for_resume
    cmds,          \* sent by MP, not received
    replies        \* sent by the ECP, not received by MP

uiVars  == <<ui_state, pressed>>
mpVars  == <<mp, not_confirmed, ui_pulse, reply, gen, paused, ui_exit, ecp_exit, moves,
             given, sensor_failed>>
ecpVars == <<ecp, held>>
vars    == <<uiVars, pulses, mpVars, ecpVars, cmds, replies>>

Pulses == {"START", "STOP", "PAUSE", "RESUME", "TRIGGER"}

\* A state ordered by NEXT_STATE is executed by generators of the ECP alone, "own",
\* or by the transparent one, which only NEXT_POSE and END_MOTION drive
NextStates == {"own", "transparent"}
Command(c) == [command |-> c, next_state |-> "none"]
NextState(s) == [command |-> "NEXT_STATE", next_state |-> s]
Commands == {Command(c) : c \in {"START_TASK", "PAUSE_TASK", "RESUME_TASK", "NEXT_POSE",
                                 "END_MOTION", "STOP"}} \cup {NextState(s) : s \in NextStates}

Replies == {"INCORRECT_MP_COMMAND", "ERROR_IN_ECP", "ECP_ACKNOWLEDGE", "TASK_TERMINATED"}

\* the base generators of MP; robots is robot_m, rest the robots not heard of yet
Generators == [kind : {"set_next_ecps_state", "wait_for_task_termination", "end_motion",
                       "continously_coordinated", "delay_ms"},
               robots : SUBSET ECPs, rest : SUBSET ECPs, activate_trigger : BOOLEAN]
NoGenerator == [kind |-> "delay_ms", robots |-> {}, rest |-> {}, activate_trigger |-> FALSE]
wait_for_ECP_pulse(g) == g.kind \notin {"end_motion", "delay_ms"}

TypeOK ==
    /\ ui_state \in {"waiting_for_start", "running", "paused"}
    /\ pressed \in 0..MaxPulses
    /\ pulses \in Seq(Pulses)
    /\ mp \in {"wait_for_start", "start_all", "algorithm", "receive",
              "wait_for_stop", "terminate_all"}
    /\ not_confirmed \in SUBSET ECPs
    /\ ui_pulse \in [v : Pulses \cup {"none"}, fresh : BOOLEAN]
    /\ reply \in [ECPs -> [v : Replies \cup {"none"}, fresh : BOOLEAN]]
    /\ gen \in Generators
    /\ paused \in BOOLEAN /\ ui_exit \in BOOLEAN /\ ecp_exit \in BOOLEAN
    /\ moves \in 0..MaxMoves
    /\ sensor_failed \in BOOLEAN
    /\ given \in [ECPs -> NextStates \cup {"none"}]
    /\ ecp \in [ECPs -> {"wait_for_start", "get_next_state"} \cup NextStates]
    /\ held \in [ECPs -> BOOLEAN]
    /\ cmds \in [ECPs -> Seq(Commands)]
    /\ replies \in [ECPs -> Seq(Replies)]

Init ==
    /\ ui_state = "waiting_for_start" /\ pressed = 0 /\ pulses = <<>>
    /\ mp = "wait_for_start" /\ not_confirmed = {}
    /\ ui_pulse = [v |-> "none", fresh |-> FALSE]
    /\ reply = [r \in ECPs |-> [v |-> "none", fresh |-> FALSE]]
    /\ gen = NoGenerator /\ paused = FALSE /\ ui_exit = FALSE /\ ecp_exit = FALSE
    /\ sensor_failed = FALSE
    /\ moves = 0 /\ given = [r \in ECPs |-> "none"]
    /\ ecp = [r \in ECPs |-> "wait_for_start"] /\ held = [r \in ECPs |-> FALSE]
    /\ cmds = [r \in ECPs |-> <<>>] /\ replies = [r \in ECPs |-> <<>>]
-----------------------------------------------------------------------------
(***************************************************************************)
(* The user interface: pulse_start_mp and its sisters.                     *)
(***************************************************************************)
UiAfter(p) == CASE p = "STOP" -> "waiting_for_start"
                [] p = "PAUSE" -> "paused"
                [] OTHER -> "running"

Allowed(p) == CASE p = "START" -> {"waiting_for_start"}
                [] p = "STOP" -> {"running", "paused"}
                [] p = "RESUME" -> {"paused"}
                [] OTHER -> {"running"}

Press(p) ==
    /\ pressed < MaxPulses
    /\ ui_state \in Allowed(p)
    /\ ui_state' = UiAfter(p)
    /\ pressed' = pressed + 1
    /\ pulses' = Append(pulses, p)
    /\ UNCHANGED <<mpVars, ecpVars, cmds, replies>>
-----------------------------------------------------------------------------
(***************************************************************************)
(* MP: receiving.                                                          *)
(***************************************************************************)
\* ReceiveSingleMessage: the channel of sender s holds a message, which goes to its buffer
Arrives(s) == IF s = UI THEN pulses # <<>> ELSE replies[s] # <<>>
Stored(v)  == [v |-> v, fresh |-> TRUE]
UiPulseAfter(s) == IF s = UI THEN Stored(Head(pulses)) ELSE ui_pulse
ReplyAfter(s)   == IF s = UI THEN reply ELSE [reply EXCEPT ![s] = Stored(Head(replies[s]))]

Consume(s) ==
    /\ pulses' = IF s = UI THEN Tail(pulses) ELSE pulses
    /\ replies' = IF s = UI THEN replies ELSE [replies EXCEPT ![s] = Tail(@)]
    /\ UNCHANGED <<uiVars, ecpVars>>

markAsUsed(b) == [b EXCEPT !.fresh = FALSE]
AllUsed(q)    == [r \in ECPs |-> markAsUsed(q[r])]
FreshIn(q)    == {r \in ECPs : q[r].fresh}

Send(c, S, m) == [r \in ECPs |-> IF r \in S THEN Append(c[r], m) ELSE c[r]]

\* What is left of S when the loop of BOOST_FOREACH over S erases its members that are in
\* M: erasing the member under the iterator leaves the rest of the traversal undefined.
Erasures(S, M) == IF M \cap S = {} THEN {S}
                  ELSE {S \ E : E \in (SUBSET (M \cap S)) \ {{}}}

\* outside Move the locals of receive_ui_or_ecp_message have no value
NotMoving == gen' = NoGenerator /\ paused' = FALSE /\ ui_exit' = FALSE /\ ecp_exit' = FALSE

\* terminate_all commands every robot
ToStopUnlessTerminated == {r \in ECPs : reply[r].v # "TASK_TERMINATED"}
ToStop == ECPs

\* start_all and terminate_all: the command to S, then wait_for_all_robots_acknowledge
CommandAll(f, c, S) ==
    /\ cmds' = Send(cmds, S, Command(c))
    /\ mp' = f /\ not_confirmed' = ECPs
    /\ NotMoving

\* a pulse received in wait_for_all_robots_acknowledge stays fresh
PulseInAcknowledgeUsed(s) == markAsUsed(UiPulseAfter(s))
PulseInAcknowledge(s) == UiPulseAfter(s)

Acknowledge ==
    /\ mp \in {"start_all", "terminate_all"}
    /\ \E s \in {UI} \cup ECPs :
          LET q == ReplyAfter(s)
              acknowledged == {r \in FreshIn(q) : q[r].v = "ECP_ACKNOWLEDGE"}
          IN  /\ Arrives(s) /\ Consume(s)
              /\ ui_pulse' = PulseInAcknowledge(s)
              /\ not_confirmed' \in Erasures(not_confirmed, acknowledged)
              /\ reply' = [r \in ECPs |-> IF r \in not_confirmed \ not_confirmed'
                                          THEN markAsUsed(q[r]) ELSE q[r]]
              /\ mp' = CASE not_confirmed' # {} -> mp
                         [] mp = "start_all"   -> "algorithm"
                         [] OTHER              -> "wait_for_start"
    /\ moves' = IF mp = "terminate_all" THEN 0 ELSE moves
    /\ given' = [r \in ECPs |-> "none"]
    /\ UNCHANGED <<gen, paused, ui_exit, ecp_exit, sensor_failed, cmds>>

\* the value decides, fresh or not; every message is received until it does
WaitFor(place, p) ==
    /\ mp = place
    /\ ui_pulse.v # p
    /\ \E s \in {UI} \cup ECPs :
          /\ Arrives(s) /\ Consume(s)
          /\ ui_pulse' = markAsUsed(UiPulseAfter(s))
          /\ reply' = ReplyAfter(s)
    /\ UNCHANGED <<mp, not_confirmed, gen, paused, ui_exit, ecp_exit, moves,
                   given, sensor_failed, cmds>>

StartAll ==
    /\ mp = "wait_for_start" /\ ui_pulse.v = "START"
    /\ CommandAll("start_all", "START_TASK", ECPs)
    /\ UNCHANGED <<uiVars, pulses, ui_pulse, reply, moves, given, sensor_failed, ecpVars, replies>>

TerminateAll ==
    /\ mp = "wait_for_stop" /\ ui_pulse.v = "STOP"
    /\ CommandAll("terminate_all", "STOP", ToStop)
    /\ UNCHANGED <<uiVars, pulses, ui_pulse, reply, moves, given, sensor_failed, ecpVars, replies>>
-----------------------------------------------------------------------------
(***************************************************************************)
(* MP: the user program, a sequence of generators, and generator::Move.    *)
(***************************************************************************)
\* One more round of Move: execute_all turns the commands from before to after, and
\* receive_ui_or_ecp_message starts with every reply used.  A sensor may throw when it is
\* to be read, before the commands or after them: main only displays a message.
Receive(g, q, before, after) ==
    \/ /\ mp' = "receive" /\ gen' = g
       /\ UNCHANGED sensor_failed
       /\ reply' = AllUsed(q) /\ cmds' = after
       /\ paused' = FALSE /\ ui_exit' = FALSE
       /\ ecp_exit' = ~wait_for_ECP_pulse(g)
    \/ /\ SensorErrors /\ sensor_failed' = TRUE
       /\ mp' = "wait_for_start" /\ NotMoving
       /\ reply' = q /\ cmds' \in {before, after}

\* Move returns
MoveDone(q, c, free) ==
    /\ mp' = "algorithm" /\ NotMoving
    /\ reply' = AllUsed(q) /\ cmds' = c
    /\ given' = [r \in ECPs |-> IF r \in free THEN "none" ELSE given[r]]
    /\ UNCHANGED sensor_failed

Generator(k, S) == [NoGenerator EXCEPT !.kind = k, !.robots = S, !.rest = S]

ProgramGoesOn == mp = "algorithm" /\ moves < MaxMoves /\ moves' = moves + 1

Begins(g, c) ==
    /\ ProgramGoesOn
    /\ Receive(g, reply, cmds, c)
    /\ UNCHANGED <<uiVars, pulses, not_confirmed, ui_pulse, ecpVars, replies>>

SetNextEcpState(S, s) ==
    /\ \A r \in S : given[r] = "none"
    /\ Begins(Generator("set_next_ecps_state", S), Send(cmds, S, NextState(s)))
    /\ given' = [r \in ECPs |-> IF r \in S THEN s ELSE given[r]]

\* a program ends what would not end on its own, or what it does not wait for any more
SendEndMotion(S) ==
    /\ \A r \in S : given[r] # "none"
    /\ Begins(Generator("end_motion", S), Send(cmds, S, Command("END_MOTION")))
    /\ given' = [r \in ECPs |-> IF r \in S THEN "none" ELSE given[r]]

\* robot_m is left empty of the robots whose last reply is TASK_TERMINATED
Terminated(q) == {r \in ECPs : q[r].v = "TASK_TERMINATED"}

WaitForTaskTermination(S, activate) ==
    /\ \A r \in S : given[r] = "own"
    /\ \E rest \in Erasures(S, Terminated(reply)) :
          LET g == [Generator("wait_for_task_termination", S)
                    EXCEPT !.rest = rest, !.activate_trigger = activate]
          IN  \/ /\ rest # {} /\ Begins(g, cmds) /\ UNCHANGED given
              \/ /\ rest = {} /\ ProgramGoesOn       \* first_step ends Move
                 /\ given' = [r \in ECPs |-> IF r \in S THEN "none" ELSE given[r]]
                 /\ UNCHANGED <<uiVars, pulses, mp, not_confirmed, ui_pulse, reply, gen, paused,
                                ui_exit, ecp_exit, sensor_failed, ecpVars, cmds, replies>>

\* the first_step of the coordinated generators of the applications
Coordinate(S) ==
    /\ \A r \in S : given[r] = "transparent"
    /\ Begins(Generator("continously_coordinated", S), Send(cmds, S, Command("NEXT_POSE")))
    /\ UNCHANGED given

WaitMs == Begins(Generator("delay_ms", {}), cmds) /\ UNCHANGED given

\* main_task_algorithm returns, or throws MP_error, which is a stop_and_terminate
AlgorithmEnds ==
    /\ mp = "algorithm" /\ mp' = "wait_for_stop"
    /\ UNCHANGED <<uiVars, pulses, not_confirmed, ui_pulse, reply, gen, paused, ui_exit, ecp_exit,
                   moves, given, sensor_failed, ecpVars, cmds, replies>>

Algorithm ==
    \/ AlgorithmEnds \/ WaitMs
    \/ \E S \in (SUBSET ECPs) \ {{}} :
          \/ \E s \in NextStates : SetNextEcpState(S, s)
          \/ \E activate \in BOOLEAN : WaitForTaskTermination(S, activate)
          \/ SendEndMotion(S) \/ Coordinate(S)

\* next_step of each generator, after a receive that left the replies q and the
\* commands c; trigger is the flag of the generator
NextStep(q, c, trigger) ==
    \/ gen.kind = "end_motion" /\ MoveDone(q, c, {})
    \/ gen.kind = "delay_ms" /\ MoveDone(q, c, {})
    \/ gen.kind = "delay_ms" /\ Receive(gen, q, c, c) /\ UNCHANGED given
    \/ gen.kind = "wait_for_task_termination" /\ trigger /\ gen.activate_trigger
       /\ MoveDone(q, c, {})
    \/ /\ \/ gen.kind \in {"set_next_ecps_state", "continously_coordinated"}
          \/ gen.kind = "wait_for_task_termination" /\ ~(trigger /\ gen.activate_trigger)
       /\ \E rest \in Erasures(gen.rest, IF gen.kind = "wait_for_task_termination"
                                          THEN Terminated(q) ELSE FreshIn(q)) :
             \/ /\ rest # {}
                /\ Receive([gen EXCEPT !.rest = rest], q, c, c) /\ UNCHANGED given
             \/ /\ rest = {}
                /\ MoveDone(q, c, IF gen.kind = "wait_for_task_termination"
                                  THEN gen.robots ELSE {})
             \/ /\ rest = {} /\ gen.kind = "continously_coordinated"    \* the next pose
                /\ Receive([gen EXCEPT !.rest = gen.robots], q, c,
                           Send(c, gen.robots, Command("NEXT_POSE")))
                /\ UNCHANGED given
-----------------------------------------------------------------------------
(***************************************************************************)
(* MP: receive_ui_or_ecp_message.                                          *)
(***************************************************************************)
\* the loop goes on with these exits, or the receive is over
Loop(q, c, is_paused, ui, e, trigger) ==
    \/ /\ ~(ui /\ e)
       /\ paused' = is_paused /\ ui_exit' = ui /\ ecp_exit' = e
       /\ reply' = q /\ cmds' = c
       /\ UNCHANGED <<mp, gen, given, sensor_failed>>
    \/ ui /\ e /\ NextStep(q, c, trigger)

\* ReceiveSingleMessage does not block and finds nothing
NothingToReceive ==
    /\ mp = "receive" /\ ~paused /\ ecp_exit
    /\ \A s \in {UI} \cup ECPs : ~Arrives(s)
    /\ Loop(reply, cmds, FALSE, TRUE, TRUE, FALSE)
    /\ UNCHANGED <<uiVars, pulses, not_confirmed, ui_pulse, moves, ecpVars, replies>>

ResumeMoving(c) == Send(c, gen.robots, Command("RESUME_TASK"))
ResumeAll(c) == Send(c, ECPs, Command("RESUME_TASK"))

\* a pulse is looked at as soon as it is fresh, whatever has just arrived
ActOnPulse(p, q) ==
    \/ /\ p = "STOP"
       /\ CommandAll("terminate_all", "STOP", ToStop)
       /\ reply' = q /\ UNCHANGED <<given, sensor_failed>>
    \/ /\ p = "PAUSE"
       /\ Loop(q, Send(cmds, ECPs, Command("PAUSE_TASK")), TRUE, FALSE, ecp_exit, FALSE)
       /\ UNCHANGED not_confirmed
    \/ /\ p = "RESUME" /\ paused
       /\ Loop(q, ResumeAll(cmds), FALSE, TRUE, ecp_exit, FALSE)
       /\ UNCHANGED not_confirmed
    \/ /\ p = "TRIGGER" /\ ~paused
       /\ Loop(q, cmds, FALSE, TRUE, TRUE, TRUE)
       /\ UNCHANGED not_confirmed
    \/ /\ p = "START" \/ (p = "RESUME" /\ ~paused) \/ (p = "TRIGGER" /\ paused)
       /\ Loop(q, cmds, paused, ui_exit, ecp_exit, FALSE)
       /\ UNCHANGED not_confirmed

\* main catches MP_error with stop_and_terminate
AfterErrorForgets == "wait_for_start"
AfterError == "wait_for_stop"

\* ecp_errors_handler throws out of Move and of the user program
ActOnReply(q) ==
    \/ /\ wait_for_ECP_pulse(gen)
       /\ \E r \in FreshIn(q) : q[r].v = "ERROR_IN_ECP"
       /\ mp' = AfterError /\ reply' = q
       /\ NotMoving /\ UNCHANGED <<given, sensor_failed, cmds>>
    \/ /\ wait_for_ECP_pulse(gen) => \A r \in FreshIn(q) : q[r].v # "ERROR_IN_ECP"
       /\ Loop(q, cmds, paused, ui_exit \/ ~paused, TRUE, FALSE)

ReceiveUiOrEcpMessage(s) ==
    /\ mp = "receive"
    /\ Arrives(s) /\ Consume(s)
    /\ ui_pulse' = markAsUsed(UiPulseAfter(s))
    /\ UNCHANGED moves
    /\ \/ /\ UiPulseAfter(s).fresh
          /\ ActOnPulse(UiPulseAfter(s).v, ReplyAfter(s))
       \/ /\ ~UiPulseAfter(s).fresh
          /\ ActOnReply(ReplyAfter(s))
          /\ UNCHANGED not_confirmed

Mp == \/ WaitFor("wait_for_start", "START") \/ StartAll
      \/ WaitFor("wait_for_stop", "STOP") \/ TerminateAll
      \/ Acknowledge \/ Algorithm \/ NothingToReceive
      \/ \E s \in {UI} \cup ECPs : ReceiveUiOrEcpMessage(s)
-----------------------------------------------------------------------------
(***************************************************************************)
(* An ECP.                                                                 *)
(***************************************************************************)
\* one command is received and answered, and the ECP goes on in a function
Answer(r, as, place, hold) ==
    /\ cmds' = [cmds EXCEPT ![r] = Tail(@)]
    /\ replies' = [replies EXCEPT ![r] = @ \o as]
    /\ ecp' = [ecp EXCEPT ![r] = place]
    /\ held' = [held EXCEPT ![r] = hold]
    /\ UNCHANGED <<uiVars, pulses, mpVars>>

\* INVALID_MP_COMMAND: main reports the error too and waits for a start
Refuse(r) == Answer(r, <<"INCORRECT_MP_COMMAND", "ERROR_IN_ECP">>, "wait_for_start", FALSE)
Stop(r)   == Answer(r, <<"ECP_ACKNOWLEDGE">>, "wait_for_start", FALSE)

Next_command(r) == Head(cmds[r]).command

EcpWaitForStart(r) ==
    /\ ecp[r] = "wait_for_start" /\ cmds[r] # <<>>
    /\ \/ /\ Next_command(r) = "START_TASK"
          /\ Answer(r, <<"ECP_ACKNOWLEDGE">>, "get_next_state", FALSE)
       \/ Next_command(r) = "STOP" /\ Stop(r)
       \/ Next_command(r) \notin {"START_TASK", "STOP"} /\ Refuse(r)

OrdersState(m) == m.command = "NEXT_STATE"

GetNextState(r) ==
    /\ ecp[r] = "get_next_state" /\ ~held[r] /\ cmds[r] # <<>>
    /\ \/ /\ OrdersState(Head(cmds[r]))
          /\ Answer(r, <<"ECP_ACKNOWLEDGE">>, Head(cmds[r]).next_state, FALSE)
       \/ Next_command(r) = "PAUSE_TASK" /\ Answer(r, <<>>, ecp[r], TRUE)
       \/ Next_command(r) = "STOP" /\ Stop(r)
       \/ Next_command(r) \notin {"NEXT_STATE", "PAUSE_TASK", "STOP"} /\ Refuse(r)

WaitForResume(r) ==
    /\ held[r] /\ cmds[r] # <<>>
    /\ \/ Next_command(r) = "RESUME_TASK" /\ Answer(r, <<>>, ecp[r], FALSE)
       \/ Next_command(r) = "STOP" /\ Stop(r)
       \/ Next_command(r) \notin {"RESUME_TASK", "STOP"} /\ Refuse(r)

\* peek_mp_message, once in each step of a generator
PeekMpMessage(r) ==
    /\ ecp[r] \in NextStates /\ ~held[r] /\ cmds[r] # <<>>
    /\ \/ /\ Next_command(r) = "NEXT_POSE"
          /\ Answer(r, IF ecp[r] = "transparent" THEN <<"ECP_ACKNOWLEDGE">> ELSE <<>>, ecp[r], FALSE)
       \/ Next_command(r) = "END_MOTION" /\ Answer(r, <<>>, "get_next_state", FALSE)
       \/ Next_command(r) = "PAUSE_TASK" /\ Answer(r, <<>>, ecp[r], TRUE)
       \/ Next_command(r) = "STOP" /\ Stop(r)
       \/ Next_command(r) \notin {"NEXT_POSE", "END_MOTION", "PAUSE_TASK", "STOP"} /\ Refuse(r)

\* the generator comes to its end by itself: termination_notice
TaskTerminates(r) ==
    /\ ecp[r] = "own" /\ ~held[r]
    /\ ecp' = [ecp EXCEPT ![r] = "get_next_state"]
    /\ replies' = [replies EXCEPT ![r] = Append(@, "TASK_TERMINATED")]
    /\ UNCHANGED <<uiVars, pulses, mpVars, held, cmds>>

\* An exception in a generator: an error of the EDP is reported to MP, one of a sensor, of
\* a transmitter or of the library only displayed; either way main waits for a start
Fails(r) ==
    /\ ecp[r] \in NextStates /\ ~held[r]
    /\ ecp' = [ecp EXCEPT ![r] = "wait_for_start"]
    /\ \/ replies' = [replies EXCEPT ![r] = Append(@, "ERROR_IN_ECP")]
       \/ UNCHANGED replies
    /\ UNCHANGED <<uiVars, pulses, mpVars, held, cmds>>

HandlesCommand(r) ==
    EcpWaitForStart(r) \/ GetNextState(r) \/ WaitForResume(r) \/ PeekMpMessage(r)

Ecp(r) == HandlesCommand(r) \/ TaskTerminates(r) \/ Fails(r)
-----------------------------------------------------------------------------
Next == \/ \E p \in Pulses : Press(p)
        \/ Mp
        \/ \E r \in ECPs : Ecp(r)

Spec == Init /\ [][Next]_vars

\* Nobody presses a button, ends a motion or fails because it must.  MP and the ECPs go
\* on; a pulse is not passed over for ever in favour of replies.
FairSpec == /\ Spec
            /\ WF_vars(Mp) /\ \A r \in ECPs : WF_vars(HandlesCommand(r))
            /\ SF_vars(ReceiveUiOrEcpMessage(UI))
-----------------------------------------------------------------------------
(***************************************************************************)
(* Properties.                                                             *)
(***************************************************************************)
Waiting(r) == ecp[r] = "wait_for_start" /\ cmds[r] = <<>>
Has(r, cs) == \E i \in DOMAIN cmds[r] : cmds[r][i].command \in cs

\* As long as no sensor has failed in a generator of MP, a START_TASK finds its ECP in
\* wait_for_start, whether a STOP, an error of an ECP or of MP's user program, or the end
\* of the program ended the run before: no ECP answers a start with INCORRECT_MP_COMMAND
\* (task_base::wait_for_start), which would leave start_all waiting for an acknowledgement
\* that never comes.  The exception of a sensor leaves the ECPs running (mp_m.cc:292).
StartFindsEcpWaiting ==
    ~sensor_failed =>
       \A r \in ECPs :
          cmds[r] # <<>> /\ Next_command(r) = "START_TASK" => ecp[r] = "wait_for_start"

\* An ECP that sits in wait_for_resume is not forgotten: MP is still paused, or waits for
\* the STOP that an error left it with, or what ends the pause is on its way.
PauseIsEnded ==
    \A r \in ECPs : held[r] => paused \/ mp = "wait_for_stop" \/ Has(r, {"RESUME_TASK", "STOP"})

\* wait_for_all_robots_acknowledge never waits for nothing: each robot it still waits for
\* has an acknowledgement on its way or a command to acknowledge.
\* The exceptions of sensors are excepted: main only displays them and leaves the ECPs
\* running, which then refuse the next START_TASK.
AcknowledgeComing ==
    mp \in {"start_all", "terminate_all"} /\ ~sensor_failed =>
        \A r \in not_confirmed :
            \/ Has(r, {"START_TASK", "STOP"})
            \/ \E i \in DOMAIN replies[r] : replies[r][i] = "ECP_ACKNOWLEDGE"

\* However many robots there are, and as long as no sensor has failed, no acknowledgement
\* is lost: what has come and was missed by the loop that erases from not_confirmed while it
\* traverses it still lies fresh in its buffer. With two robots that may be all there is,
\* and MP then waits for nothing.
AcknowledgeNotLost ==
    mp \in {"start_all", "terminate_all"} /\ ~sensor_failed =>
        \A r \in not_confirmed :
            \/ Has(r, {"START_TASK", "STOP"})
            \/ \E i \in DOMAIN replies[r] : replies[r][i] = "ECP_ACKNOWLEDGE"
            \/ reply[r] = Stored("ECP_ACKNOWLEDGE")

\* If STOP is the button pressed last, then whatever was under way - a start, a pause, a
\* move, an error, a pulse received while MP looked elsewhere - MP ends up waiting for a
\* start and so does every ECP.  The exceptions of sensors are excepted, as above.
StopEndsTask ==
    []~sensor_failed /\ <>[](ui_state = "waiting_for_start") =>
        <>[](mp = "wait_for_start" /\ \A r \in ECPs : Waiting(r))

\* "waits for acknowledge reply from all robots": when terminate_all has returned, every
\* ECP has acknowledged the STOP and waits for a start.
StoppedWhenAcknowledged == mp = "wait_for_start" => \A r \in ECPs : Waiting(r)
=============================================================================
