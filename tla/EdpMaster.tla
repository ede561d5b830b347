----------------------------- MODULE EdpMaster -----------------------------
(***************************************************************************)
(* The master thread of an EDP process: the three loops of                 *)
(* base/edp/edp_e_motor_driven.cc over the messages of base/edp/           *)
(* edp_effector.h, and the clients that call it (base/ecp/ecp_robot.h; the *)
(* user interface and the ECP of the task both connect to an EDP).         *)
(*                                                                         *)
(* A client sends an instruction, gets an acknowledgement, sends QUERY and *)
(* gets the result.  messip blocks the sender until it is replied to, and  *)
(* a channel with no message pending cannot be replied to: messip_reply    *)
(* stops the process on an assertion.  A client may be killed between its  *)
(* two messages; the next one finds the EDP in the middle of the dialogue. *)
(***************************************************************************)
EXTENDS Naturals

CONSTANTS Clients,    \* processes connected to the EDP
          None        \* no client, no message

ASSUME ClientsAssumption == None \notin Clients

VARIABLES
    \* the clients
    phase,             \* "idle", or what the client is blocked for: the acknowledgement
                       \* "acked?", the "result?", or the answer to the QUERY of a failed call
    doing,             \* the instruction the client is carrying through
    request,           \* the message a client has sent and the EDP not received
    answer,            \* the reply a client has not looked at
    synchronised,      \* ecp_robot_base::synchronised
    \* the EDP
    loop,              \* "pre", "synchro" or "post"
    next_state,
    received,          \* the message being interpreted
    caller,            \* the client whose message has not been replied to
    reply,             \* what the EDP will answer
    is_synchronised,   \* controller_state_edp_buf.is_synchronised
    instruction,       \* the instruction acknowledged last
    owner,             \* history: the client that sent it, while it still waits for it
    position_read      \* history: since the synchronisation the position has been read

clientVars == <<phase, doing, request, answer, synchronised>>
edpVars    == <<loop, next_state, received, caller, reply, is_synchronised, instruction, owner,
               position_read>>
vars == <<clientVars, edpVars>>

\* instruction_type, with the attributes that steer the loops: SET_PRE is a SET
\* that pre_synchro_motion allows, GET_STATE a GET of the controller state
Instructions == {"SET_PRE", "SET", "GET_STATE", "GET", "SET_GET", "SYNCHRO"}
Messages     == Instructions \cup {"QUERY"}

\* type is what a client can tell apart of reply_type; of and good are history:
\* for whose instruction the reply was built, and whether that one succeeded
Replies == [type : {"ACKNOWLEDGE", "SYNCHRO_OK", "ERROR"},
            of : Clients \cup {None}, good : BOOLEAN]

ASSUME NoneAssumption == None \notin Messages \cup Replies

States == {"GET_STATE", "WAIT", "GET_SYNCHRO", "SYNCHRO_TERMINATED", "WAIT_Q",
           "GET_INSTRUCTION", "EXECUTE_INSTRUCTION",
           "REFUSE",                        \* an exception after the acknowledgement
           "FATAL_QUERY", "FATAL_AGAIN",    \* the receives of the Fatal_error handler
           "exited", "aborted"}             \* System_error; the assertion of messip_reply

TypeOK ==
    /\ phase \in [Clients -> {"idle", "acked?", "result?", "clearing"}]
    /\ doing \in [Clients -> Instructions]
    /\ request \in [Clients -> Messages \cup {None}]
    /\ answer \in [Clients -> Replies \cup {None}]
    /\ synchronised \in [Clients -> BOOLEAN]
    /\ loop \in {"pre", "synchro", "post"}
    /\ next_state \in States
    /\ received \in Messages \cup {None}
    /\ caller \in Clients \cup {None}
    /\ reply \in Replies
    /\ is_synchronised \in BOOLEAN
    /\ instruction \in Instructions
    /\ owner \in Clients \cup {None}
    /\ position_read \in BOOLEAN

\* some hardware interfaces find the robot synchronised, and read where it is, when
\* the EDP starts
Init ==
    /\ phase = [c \in Clients |-> "idle"]
    /\ doing = [c \in Clients |-> "GET_STATE"]
    /\ request = [c \in Clients |-> None]
    /\ answer = [c \in Clients |-> None]
    /\ synchronised = [c \in Clients |-> FALSE]
    /\ loop = "pre" /\ next_state = "GET_STATE"
    /\ received = None /\ caller = None
    /\ reply = [type |-> "ACKNOWLEDGE", of |-> None, good |-> FALSE]
    /\ is_synchronised \in BOOLEAN
    /\ instruction = "GET_STATE" /\ owner = None
    /\ position_read = is_synchronised

Alive == next_state \notin {"exited", "aborted"}
-----------------------------------------------------------------------------
(***************************************************************************)
(* The clients.                                                            *)
(***************************************************************************)
\* the call of c is over: nothing is its result any more
Leave(c) ==
    /\ owner' = IF owner = c THEN None ELSE owner
    /\ reply' = IF reply.of = c THEN [reply EXCEPT !.of = None] ELSE reply
    /\ UNCHANGED <<loop, next_state, received, caller, is_synchronised, instruction, position_read>>

\* execute_motion, and synchronise for SYNCHRO: the first send
Call(c, i) ==
    /\ phase[c] = "idle"
    /\ phase' = [phase EXCEPT ![c] = "acked?"]
    /\ doing' = [doing EXCEPT ![c] = i]
    /\ request' = [request EXCEPT ![c] = i]
    /\ UNCHANGED <<answer, synchronised, edpVars>>

\* execute_motion queries before it throws; synchronise does not look
AfterAck(i, type) == IF type = "ERROR" /\ i # "SYNCHRO" THEN "clearing" ELSE "result?"

Query(c) ==
    /\ phase[c] = "acked?" /\ answer[c] # None
    /\ phase' = [phase EXCEPT ![c] = AfterAck(doing[c], answer[c].type)]
    /\ answer' = [answer EXCEPT ![c] = None]
    /\ request' = [request EXCEPT ![c] = "QUERY"]
    /\ UNCHANGED <<doing, synchronised, edpVars>>

\* the call returns, or throws ECP_error
Return(c) ==
    /\ phase[c] \in {"result?", "clearing"} /\ answer[c] # None
    /\ phase' = [phase EXCEPT ![c] = "idle"]
    /\ answer' = [answer EXCEPT ![c] = None]
    /\ synchronised' = IF doing[c] = "SYNCHRO"
                         THEN [synchronised EXCEPT ![c] = answer[c].type = "SYNCHRO_OK"]
                         ELSE synchronised
    /\ Leave(c)
    /\ UNCHANGED <<doing, request>>

\* killed between its two messages, and started again
Killed(c) ==
    /\ phase[c] = "acked?" /\ answer[c] # None
    /\ phase' = [phase EXCEPT ![c] = "idle"]
    /\ answer' = [answer EXCEPT ![c] = None]
    /\ synchronised' = [synchronised EXCEPT ![c] = FALSE]
    /\ Leave(c)
    /\ UNCHANGED <<doing, request>>

\* port_send fails once the EDP has gone
SendFails(c) ==
    /\ ~Alive /\ phase[c] # "idle" /\ answer[c] = None
    /\ phase' = [phase EXCEPT ![c] = "idle"]
    /\ request' = [request EXCEPT ![c] = None]
    /\ Leave(c)
    /\ UNCHANGED <<doing, answer, synchronised>>
-----------------------------------------------------------------------------
(***************************************************************************)
(* receive_instruction and reply_to_instruction.                           *)
(***************************************************************************)
Receiving == {"GET_STATE", "WAIT", "GET_SYNCHRO", "SYNCHRO_TERMINATED", "WAIT_Q",
              "GET_INSTRUCTION", "FATAL_QUERY", "FATAL_AGAIN"}

ReceiveInstruction(c) ==
    /\ next_state \in Receiving /\ received = None
    /\ request[c] # None
    /\ received' = request[c]
    /\ request' = [request EXCEPT ![c] = None]
    /\ caller' = c
    /\ UNCHANGED <<phase, doing, answer, synchronised, loop, next_state, reply,
                   is_synchronised, instruction, owner, position_read>>

\* r is sent to caller, and the loop goes on in state s; messip_reply aborts when
\* the message received last has already been replied to
ReplyToInstruction(r, s) ==
    IF caller = None
      THEN next_state' = "aborted" /\ UNCHANGED <<answer, caller>>
      ELSE /\ answer' = [answer EXCEPT ![caller] = r]
           /\ caller' = None
           /\ next_state' = s

\* the message interpreted in state s of loop l
Interprets(l, s) ==
    /\ loop = l /\ next_state = s /\ received # None
    /\ received' = None
    /\ UNCHANGED <<phase, doing, request, synchronised, is_synchronised, position_read>>

Acknowledge == [type |-> "ACKNOWLEDGE", of |-> None, good |-> FALSE]
Error       == [type |-> "ERROR", of |-> None, good |-> FALSE]

\* the message is acknowledged and will be executed
Accept ==
    /\ ReplyToInstruction(Acknowledge, "EXECUTE_INSTRUCTION")
    /\ reply' = Acknowledge
    /\ instruction' = received /\ owner' = caller

\* mutants are kept beside the definition they replace, marked "mutant:"
\* mutant: the refusal is left to the QUERY, as NonFatal_error_2 does
RefuseLater(s) ==
    /\ next_state' = s
    /\ reply' = Error
    /\ UNCHANGED <<answer, caller, instruction, owner>>

\* NonFatal_error_1, and NonFatal_error_3 whose second establish_error undoes the
\* restored reply_type
Refuse(s) ==
    /\ ReplyToInstruction(Error, s)
    /\ reply' = Error
    /\ UNCHANGED <<instruction, owner>>

\* the reply kept for the QUERY is sent
Tell(s) ==
    /\ ReplyToInstruction(reply, s)
    /\ UNCHANGED <<reply, instruction, owner>>
-----------------------------------------------------------------------------
(***************************************************************************)
(* The three loops.  EXECUTE_INSTRUCTION is a state of the last one only;  *)
(* it stands for the execution in the first two as well.                   *)
(***************************************************************************)
GetState ==
    /\ Interprets("pre", "GET_STATE")
    /\ CASE received = "GET_STATE" -> Accept
         [] received = "GET" -> /\ ReplyToInstruction(Acknowledge, "REFUSE")
                                /\ reply' = Acknowledge
                                /\ UNCHANGED <<instruction, owner>>
         [] OTHER -> Refuse("GET_STATE")
    /\ UNCHANGED loop

\* a GET of anything but the state is refused after its acknowledgement
RefuseGet ==
    /\ next_state = "REFUSE"
    /\ Refuse("GET_STATE")
    /\ UNCHANGED <<phase, doing, request, synchronised, loop, received, is_synchronised,
                   position_read>>

PreWait ==
    /\ Interprets("pre", "WAIT")
    /\ CASE received # "QUERY" -> Refuse("GET_STATE") /\ UNCHANGED loop
         [] received = "QUERY" /\ is_synchronised -> Tell("GET_INSTRUCTION") /\ loop' = "post"
         [] OTHER -> Tell("GET_SYNCHRO") /\ loop' = "synchro"

GetSynchro ==
    /\ Interprets("synchro", "GET_SYNCHRO")
    /\ IF received \in {"SYNCHRO", "SET_PRE"} THEN Accept ELSE Refuse("GET_SYNCHRO")
    /\ UNCHANGED loop

\* NonFatal_error_4 keeps the state and what the reply says
SynchroTerminated ==
    /\ Interprets("synchro", "SYNCHRO_TERMINATED")
    /\ IF received = "QUERY"
         THEN /\ reply' = [reply EXCEPT !.type = "SYNCHRO_OK"]
              /\ ReplyToInstruction(reply', "GET_INSTRUCTION")
              /\ loop' = "post"
         ELSE ReplyToInstruction(Error, "SYNCHRO_TERMINATED") /\ UNCHANGED <<loop, reply>>
    /\ UNCHANGED <<instruction, owner>>

WaitQ ==
    /\ Interprets("synchro", "WAIT_Q")
    /\ IF received = "QUERY" THEN Tell("GET_SYNCHRO") ELSE Refuse("GET_SYNCHRO")
    /\ UNCHANGED loop

\* the messages that GET_INSTRUCTION refuses
NotAnInstruction == {"SYNCHRO", "QUERY"}

GetInstruction ==
    /\ Interprets("post", "GET_INSTRUCTION")
    /\ IF received \in NotAnInstruction THEN Refuse("GET_INSTRUCTION") ELSE Accept
    /\ UNCHANGED loop

PostWait ==
    /\ Interprets("post", "WAIT")
    /\ IF received = "QUERY" THEN Tell("GET_INSTRUCTION") ELSE Refuse("GET_INSTRUCTION")
    /\ UNCHANGED loop

\* the handler of Fatal_error in synchro_loop receives by itself; after a message
\* other than QUERY the next one is answered whatever it is
FatalQuery ==
    /\ Interprets("synchro", "FATAL_QUERY")
    /\ IF received = "QUERY"
         THEN ReplyToInstruction(reply, "GET_SYNCHRO")
         ELSE ReplyToInstruction(Error, "FATAL_AGAIN")
    /\ UNCHANGED <<loop, reply, instruction, owner>>

FatalAgain ==
    /\ Interprets("synchro", "FATAL_AGAIN")
    /\ Tell("GET_SYNCHRO")
    /\ UNCHANGED loop

Dialogue ==
    \/ GetState \/ RefuseGet \/ PreWait
    \/ GetSynchro \/ SynchroTerminated \/ WaitQ \/ FatalQuery \/ FatalAgain
    \/ GetInstruction \/ PostWait
-----------------------------------------------------------------------------
(***************************************************************************)
(* The execution of the instruction acknowledged last, and what its        *)
(* exceptions make of it.                                                  *)
(***************************************************************************)
Executes ==
    /\ next_state = "EXECUTE_INSTRUCTION"
    /\ UNCHANGED <<phase, doing, request, synchronised, loop, received, instruction, owner>>

\* mutant: establish_error leaves reply_type alone
FailureSilent == [type |-> "ACKNOWLEDGE", of |-> owner, good |-> FALSE]

\* establish_error
Failure == [type |-> "ERROR", of |-> owner, good |-> FALSE]

\* controller_state_edp_buf.is_synchronised after an execution
FlagAfterSuccess == is_synchronised \/ instruction = "SYNCHRO"

\* synchronise sets the flag before it reads the position back, so that it may
\* be set though the synchronisation fails and the position is not known
FlagsAfterFailure == {is_synchronised, FlagAfterSuccess}

FailureFlags == is_synchronised' \in FlagsAfterFailure /\ UNCHANGED position_read

\* mutant: whether the synchronisation was made is read from the flag
StateAfterFatalByFlag ==
    CASE loop # "synchro" -> "WAIT"
      [] is_synchronised' -> "SYNCHRO_TERMINATED"
      [] OTHER            -> "FATAL_QUERY"

\* where the handlers of Fatal_error wait for the QUERY
StateAfterFatal == IF loop = "synchro" THEN "FATAL_QUERY" ELSE "WAIT"

Succeeds ==
    /\ Executes
    /\ reply' = [type |-> "ACKNOWLEDGE", of |-> owner, good |-> TRUE]
    /\ next_state' = CASE loop # "synchro" -> "WAIT"
                       [] instruction = "SYNCHRO" -> "SYNCHRO_TERMINATED"
                       [] OTHER -> "WAIT_Q"
    /\ is_synchronised' = FlagAfterSuccess
    /\ position_read' = (position_read \/ instruction = "SYNCHRO")
    /\ UNCHANGED <<answer, caller>>

\* NonFatal_error_2; in synchro_loop its handler replies, which the others leave
\* to the QUERY, and keeps the reply_type
FailsNonFatal ==
    /\ Executes
    /\ IF loop = "synchro"
         THEN ReplyToInstruction(Failure, "WAIT_Q") /\ UNCHANGED reply
         ELSE next_state' = "WAIT" /\ reply' = Failure /\ UNCHANGED <<answer, caller>>
    /\ FailureFlags

FailsFatal ==
    /\ Executes
    /\ reply' = Failure
    /\ FailureFlags
    /\ next_state' = StateAfterFatal
    /\ UNCHANGED <<answer, caller>>

\* System_error is caught in main only
FailsSystem ==
    /\ Executes
    /\ next_state' = "exited"
    /\ FailureFlags
    /\ UNCHANGED <<answer, caller, reply>>

Execute == Succeeds \/ FailsNonFatal \/ FailsFatal \/ FailsSystem

Edp == Dialogue \/ Execute \/ \E c \in Clients : ReceiveInstruction(c)

Client(c) == Query(c) \/ Return(c) \/ SendFails(c)

Next == \/ Edp
        \/ \E c \in Clients : Client(c) \/ Killed(c) \/ \E i \in Instructions : Call(c, i)
Spec == Init /\ [][Next]_vars

(***************************************************************************)
(* The EDP goes on while there is a message or an instruction to execute;  *)
(* an execution ends because the servo thread answers every command, a     *)
(* synchronisation excepted.  Nothing makes a client begin a call, and     *)
(* which of two pending messages is received is left open.                 *)
(***************************************************************************)
FairSpec == /\ Spec
            /\ WF_vars(Dialogue \/ \E c \in Clients : ReceiveInstruction(c))
            /\ WF_vars(Execute /\ instruction # "SYNCHRO")
            /\ \A c \in Clients : WF_vars(Client(c))
-----------------------------------------------------------------------------
(* Properties *)

\* execute_motion of the only client returns without an exception only when its
\* own instruction was executed without one, whatever an earlier process of the
\* client, killed in the middle of its dialogue, has left behind.
ResultIsOwn ==
    \A c \in Clients :
       phase[c] = "result?" /\ doing[c] # "SYNCHRO" /\ answer[c] # None
         => answer[c].type = "ERROR" \/ (answer[c].of = c /\ answer[c].good)

\* A robot is reported synchronised, and ordinary instructions are received, only after
\* a synchronisation that was made whole: is_synchronised is set and the position has been
\* read back.  The flag alone does not say so, a failure of the reading leaves it set, and
\* neither the handlers of the exceptions nor the clients may go by it.
SynchronisedTruly ==
    /\ loop = "post" => is_synchronised /\ position_read
    /\ \A c \in Clients : synchronised[c] => is_synchronised /\ position_read

\* The EDP never waits for a message while a client waits for the reply to the one received
\* last: caller is the only memory of who waits.
CallerReplied == next_state \in Receiving /\ received = None => caller = None

\* A client blocked in messip gets a reply, or the EDP has gone or is looking for
\* the switches of the axes, which may never end.
Synchronising == next_state = "EXECUTE_INSTRUCTION" /\ instruction = "SYNCHRO"
ClientReplied ==
    \A c \in Clients :
       (phase[c] # "idle") ~> (answer[c] # None \/ ~Alive \/ Synchronising)

\* messip_reply asserts that the channel it replies on has a message pending.
ReplyHasCaller == next_state # "aborted"
=============================================================================
