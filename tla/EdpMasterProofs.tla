--------------------------- MODULE EdpMasterProofs ---------------------------
(***************************************************************************)
(* Theorems about EdpMaster, for every set of clients; the last one for a  *)
(* single client.                                                          *)
(***************************************************************************)
EXTENDS EdpMaster, TLAPS

LEMMA InitTypes == Init => TypeOK
BY DEF Init, TypeOK, Replies, Instructions, Messages, States

\* the replies that are built
LEMMA ReplyTypes ==
    ASSUME TypeOK
    PROVE  /\ Acknowledge \in Replies /\ Error \in Replies /\ Failure \in Replies
           /\ \A t \in {"ACKNOWLEDGE", "SYNCHRO_OK", "ERROR"} : [reply EXCEPT !.type = t] \in Replies
           /\ [reply EXCEPT !.of = None] \in Replies
           /\ [type |-> "ACKNOWLEDGE", of |-> owner, good |-> TRUE] \in Replies
BY DEF TypeOK, Replies, Acknowledge, Error, Failure

\* what a reply changes
LEMMA ReplyStep ==
    ASSUME TypeOK, NEW r \in Replies, NEW s \in States, ReplyToInstruction(r, s)
    PROVE  /\ answer' \in [Clients -> Replies \cup {None}]
           /\ caller' \in Clients \cup {None}
           /\ next_state' \in States
BY DEF TypeOK, ReplyToInstruction, States

\* what interpreting a message leaves alone
DialogueTypes ==
    /\ answer' \in [Clients -> Replies \cup {None}]
    /\ caller' \in Clients \cup {None}
    /\ next_state' \in States
    /\ loop' \in {"pre", "synchro", "post"}
    /\ received' \in Messages \cup {None}
    /\ reply' \in Replies
    /\ instruction' \in Instructions
    /\ owner' \in Clients \cup {None}

LEMMA AcceptTypes ==
    ASSUME TypeOK, Accept, received \in Instructions
    PROVE  /\ answer' \in [Clients -> Replies \cup {None}] /\ caller' \in Clients \cup {None}
           /\ next_state' \in States /\ reply' \in Replies
           /\ instruction' \in Instructions /\ owner' \in Clients \cup {None}
<1>1. ReplyToInstruction(Acknowledge, "EXECUTE_INSTRUCTION") /\ "EXECUTE_INSTRUCTION" \in States
  BY DEF Accept, States
<1> QED
  BY <1>1, ReplyTypes, ReplyStep DEF Accept, TypeOK

LEMMA RefuseTypes ==
    ASSUME TypeOK, NEW s \in States, Refuse(s)
    PROVE  /\ answer' \in [Clients -> Replies \cup {None}] /\ caller' \in Clients \cup {None}
           /\ next_state' \in States /\ reply' \in Replies
           /\ instruction' \in Instructions /\ owner' \in Clients \cup {None}
BY ReplyTypes, ReplyStep DEF Refuse, TypeOK

LEMMA TellTypes ==
    ASSUME TypeOK, NEW s \in States, Tell(s)
    PROVE  /\ answer' \in [Clients -> Replies \cup {None}] /\ caller' \in Clients \cup {None}
           /\ next_state' \in States /\ reply' \in Replies
           /\ instruction' \in Instructions /\ owner' \in Clients \cup {None}
BY ReplyTypes, ReplyStep DEF Tell, TypeOK

\* Every message that is interpreted keeps the types.
LEMMA DialogueKeepsTypes ==
    ASSUME TypeOK, Dialogue
    PROVE  TypeOK'
<1>1. DialogueTypes
  <2> USE DEF DialogueTypes, States, Interprets, Messages
  <2>1. CASE GetState
    <3>1. CASE received = "GET_STATE"
      BY <2>1, <3>1, AcceptTypes DEF GetState, TypeOK, Instructions
    <3>2. CASE received = "GET"
      BY <2>1, <3>2, ReplyTypes, ReplyStep DEF GetState, TypeOK
    <3>3. CASE received \notin {"GET_STATE", "GET"}
      BY <2>1, <3>3, RefuseTypes DEF GetState, TypeOK
    <3> QED
      BY <3>1, <3>2, <3>3
  <2>2. CASE RefuseGet
    BY <2>2, RefuseTypes DEF RefuseGet, TypeOK
  <2>3. CASE PreWait
    <3>1. CASE received # "QUERY"
      BY <2>3, <3>1, RefuseTypes DEF PreWait, TypeOK
    <3>2. CASE received = "QUERY" /\ is_synchronised
      BY <2>3, <3>2, TellTypes DEF PreWait, TypeOK
    <3>3. CASE received = "QUERY" /\ ~is_synchronised
      BY <2>3, <3>3, TellTypes DEF PreWait, TypeOK
    <3> QED
      BY <3>1, <3>2, <3>3
  <2>4. CASE GetSynchro
    <3>1. CASE received \in {"SYNCHRO", "SET_PRE"}
      BY <2>4, <3>1, AcceptTypes DEF GetSynchro, TypeOK, Instructions
    <3>2. CASE received \notin {"SYNCHRO", "SET_PRE"}
      BY <2>4, <3>2, RefuseTypes DEF GetSynchro, TypeOK
    <3> QED
      BY <3>1, <3>2
  <2>5. CASE SynchroTerminated
    <3>1. CASE received = "QUERY"
      BY <2>5, <3>1, ReplyTypes, ReplyStep DEF SynchroTerminated, TypeOK
    <3>2. CASE received # "QUERY"
      BY <2>5, <3>2, ReplyTypes, ReplyStep DEF SynchroTerminated, TypeOK
    <3> QED
      BY <3>1, <3>2
  <2>6. CASE WaitQ
    BY <2>6, TellTypes, RefuseTypes DEF WaitQ, TypeOK
  <2>7. CASE FatalQuery
    <3>1. ReplyToInstruction(reply, "GET_SYNCHRO") \/ ReplyToInstruction(Error, "FATAL_AGAIN")
      BY <2>7, Zenon DEF FatalQuery
    <3>2. reply \in Replies
      BY DEF TypeOK
    <3> QED
      BY <2>7, <3>1, <3>2, ReplyTypes, ReplyStep DEF FatalQuery, TypeOK
  <2>8. CASE FatalAgain
    BY <2>8, TellTypes DEF FatalAgain, TypeOK
  <2>9. CASE GetInstruction
    <3>1. CASE received \in NotAnInstruction
      BY <2>9, <3>1, RefuseTypes DEF GetInstruction, TypeOK
    <3>2. CASE received \notin NotAnInstruction
      <4>1. received \in Instructions
        BY <2>9, <3>2 DEF GetInstruction, NotAnInstruction, TypeOK
      <4> QED
        BY <2>9, <3>2, <4>1, AcceptTypes DEF GetInstruction, TypeOK
    <3> QED
      BY <3>1, <3>2
  <2>10. CASE PostWait
    BY <2>10, TellTypes, RefuseTypes DEF PostWait, TypeOK
  <2> QED
    BY <2>1, <2>2, <2>3, <2>4, <2>5, <2>6, <2>7, <2>8, <2>9, <2>10 DEF Dialogue
<1>2. UNCHANGED <<phase, doing, request, synchronised, is_synchronised, position_read>>
  BY DEF Dialogue, Interprets, GetState, RefuseGet, PreWait, GetSynchro, SynchroTerminated, WaitQ,
     FatalQuery, FatalAgain, GetInstruction, PostWait
<1> QED
  BY <1>1, <1>2 DEF DialogueTypes, TypeOK

\* The flag is never taken back, nor is the reading of the position.
LEMMA ExecuteFlag ==
    ASSUME TypeOK, Execute
    PROVE  /\ is_synchronised' \in BOOLEAN /\ (is_synchronised => is_synchronised')
           /\ position_read' \in BOOLEAN /\ (position_read => position_read')
           /\ Succeeds /\ instruction = "SYNCHRO" => is_synchronised' /\ position_read'
           /\ instruction # "SYNCHRO" => is_synchronised' = is_synchronised
<1>1. is_synchronised \in BOOLEAN /\ position_read \in BOOLEAN
  BY DEF TypeOK
<1>2. is_synchronised' = FlagAfterSuccess \/ is_synchronised' \in FlagsAfterFailure
  BY Zenon DEF Execute, Succeeds, FailsNonFatal, FailsFatal, FailsSystem, FailureFlags
<1>3. FlagAfterSuccess \in BOOLEAN /\ (is_synchronised => FlagAfterSuccess)
  BY <1>1, Zenon DEF FlagAfterSuccess
<1>4. is_synchronised' = FlagAfterSuccess \/ is_synchronised' = is_synchronised
  BY <1>2, Zenon DEF FlagsAfterFailure
<1>5. Succeeds /\ instruction = "SYNCHRO" => is_synchronised' /\ position_read'
  BY Zenon DEF Succeeds, FlagAfterSuccess
<1>6. position_read' = position_read \/ position_read' = (position_read \/ instruction = "SYNCHRO")
  BY Zenon DEF Execute, Succeeds, FailsNonFatal, FailsFatal, FailsSystem, FailureFlags
<1>7. position_read' \in BOOLEAN /\ (position_read => position_read')
  BY <1>1, <1>6, Zenon
<1>8. instruction # "SYNCHRO" => FlagAfterSuccess = is_synchronised
  BY <1>1, Zenon DEF FlagAfterSuccess
<1> QED
  BY <1>1, <1>3, <1>4, <1>5, <1>7, <1>8, Zenon

LEMMA ExecuteKeepsTypes == ASSUME TypeOK, Execute PROVE TypeOK'
<1>1. is_synchronised' \in BOOLEAN /\ position_read' \in BOOLEAN
  BY ExecuteFlag
<1>2. UNCHANGED <<phase, doing, request, synchronised, loop, received, instruction, owner>>
  BY DEF Execute, Succeeds, FailsNonFatal, FailsFatal, FailsSystem, Executes
<1>3. /\ answer' \in [Clients -> Replies \cup {None}] /\ caller' \in Clients \cup {None}
      /\ next_state' \in States /\ reply' \in Replies
  <2>1. CASE Succeeds
    BY <2>1, ReplyTypes DEF Succeeds, TypeOK, States
  <2>2. CASE FailsNonFatal
    <3>1. CASE loop = "synchro"
      BY <2>2, <3>1, ReplyTypes, ReplyStep DEF FailsNonFatal, TypeOK, States
    <3>2. CASE loop # "synchro"
      BY <2>2, <3>2, ReplyTypes DEF FailsNonFatal, TypeOK, States
    <3> QED
      BY <3>1, <3>2
  <2>3. CASE FailsFatal
    BY <2>3, ReplyTypes DEF FailsFatal, StateAfterFatal, TypeOK, States
  <2>4. CASE FailsSystem
    BY <2>4 DEF FailsSystem, TypeOK, States
  <2> QED
    BY <2>1, <2>2, <2>3, <2>4 DEF Execute
<1> QED
  BY <1>1, <1>2, <1>3 DEF TypeOK

\* what the clients and the arrival of their messages do
ClientStep(c) ==
    Query(c) \/ Return(c) \/ SendFails(c) \/ Killed(c) \/ (\E i \in Instructions : Call(c, i))

LEMMA ClientKeepsTypes == ASSUME TypeOK, NEW c \in Clients, ClientStep(c) PROVE TypeOK'
<1>1. CASE Query(c)
  BY <1>1 DEF Query, AfterAck, TypeOK, edpVars, Messages
<1>2. ASSUME Leave(c)
      PROVE  owner' \in Clients \cup {None} /\ reply' \in Replies
  BY <1>2, ReplyTypes DEF Leave, TypeOK
<1>3. CASE Return(c)
  <2>1. synchronised' \in [Clients -> BOOLEAN]
    BY <1>3 DEF Return, TypeOK
  <2>2. /\ Leave(c) /\ UNCHANGED <<doing, request>>
        /\ phase' = [phase EXCEPT ![c] = "idle"] /\ answer' = [answer EXCEPT ![c] = None]
    BY <1>3 DEF Return
  <2> QED
    BY <1>2, <2>1, <2>2 DEF Leave, TypeOK
<1>4. CASE Killed(c)
  BY <1>2, <1>4 DEF Killed, Leave, TypeOK
<1>5. CASE SendFails(c)
  BY <1>2, <1>5 DEF SendFails, Leave, TypeOK
<1>6. ASSUME NEW i \in Instructions, Call(c, i) PROVE TypeOK'
  BY <1>6 DEF Call, TypeOK, edpVars, Messages
<1> QED
  BY <1>1, <1>3, <1>4, <1>5, <1>6 DEF ClientStep

LEMMA ReceiveKeepsTypes == ASSUME TypeOK, NEW c \in Clients, ReceiveInstruction(c) PROVE TypeOK'
BY DEF ReceiveInstruction, TypeOK

LEMMA NextCases ==
    ASSUME Next
    PROVE  \/ Dialogue \/ Execute
           \/ \E c \in Clients : ReceiveInstruction(c) \/ ClientStep(c)
BY DEF Next, Edp, Client, ClientStep

LEMMA NextTypes == TypeOK /\ [Next]_vars => TypeOK'
<1>1. ASSUME TypeOK, UNCHANGED vars PROVE TypeOK'
  BY <1>1 DEF TypeOK, vars, clientVars, edpVars
<1> QED
  BY <1>1, NextCases, DialogueKeepsTypes, ExecuteKeepsTypes, ReceiveKeepsTypes, ClientKeepsTypes

\* The variables keep their types.
THEOREM TypeCorrect == Spec => []TypeOK
BY InitTypes, NextTypes, PTL DEF Spec
-----------------------------------------------------------------------------
\* the only memory of who waits: without a message there is no caller
CallerInv == received = None => caller = None

LEMMA NextCaller == CallerInv /\ [Next]_vars => CallerInv'
<1> SUFFICES ASSUME CallerInv, [Next]_vars PROVE CallerInv'
  OBVIOUS
<1>1. ASSUME NEW r, NEW t, ReplyToInstruction(r, t) PROVE caller' = None
  BY <1>1 DEF ReplyToInstruction
<1>2. CASE Dialogue
  <2>1. ASSUME NEW t, Accept \/ Refuse(t) \/ Tell(t) PROVE caller' = None
    BY <1>1, <2>1 DEF Accept, Refuse, Tell
  <2>2. ASSUME GetState \/ RefuseGet PROVE caller' = None
    BY <1>1, <2>1, <2>2 DEF GetState, RefuseGet
  <2>3. ASSUME PreWait PROVE caller' = None
    BY <2>1, <2>3, Zenon DEF PreWait
  <2>4. ASSUME GetSynchro \/ WaitQ \/ FatalAgain PROVE caller' = None
    BY <2>1, <2>4 DEF GetSynchro, WaitQ, FatalAgain
  <2>5. ASSUME SynchroTerminated \/ FatalQuery PROVE caller' = None
    BY <1>1, <2>5 DEF SynchroTerminated, FatalQuery
  <2>6. ASSUME GetInstruction \/ PostWait PROVE caller' = None
    BY <2>1, <2>6 DEF GetInstruction, PostWait
  <2> QED
    BY <1>2, <2>2, <2>3, <2>4, <2>5, <2>6 DEF Dialogue, CallerInv
<1>3. CASE Execute
  <2>1. received' = received /\ (caller' = caller \/ caller' = None)
    BY <1>1, <1>3 DEF Execute, Succeeds, FailsNonFatal, FailsFatal, FailsSystem, Executes
  <2> QED
    BY <2>1 DEF CallerInv
<1>4. CASE \E c \in Clients : ReceiveInstruction(c)
  BY <1>4 DEF CallerInv, ReceiveInstruction
<1>5. CASE \E c \in Clients : ClientStep(c)
  BY <1>5 DEF CallerInv, ClientStep, Query, Return, Killed, SendFails, Call, Leave, edpVars
<1>6. CASE UNCHANGED vars
  BY <1>6 DEF CallerInv, vars, edpVars
<1> QED
  BY <1>2, <1>3, <1>4, <1>5, <1>6, NextCases

LEMMA CallerInvariance == Spec => []CallerInv
<1>1. Init => CallerInv
  BY DEF Init, CallerInv
<1> QED
  BY <1>1, NextCaller, PTL DEF Spec

\* The EDP never waits for a message while a client waits for the reply to the last one.
THEOREM NobodyForgotten == Spec => []CallerReplied
<1>1. CallerInv => CallerReplied
  BY DEF CallerInv, CallerReplied
<1> QED
  BY <1>1, CallerInvariance, PTL
-----------------------------------------------------------------------------
\* a synchronisation has been made whole
Located == is_synchronised /\ position_read

\* SYNCHRO_OK, and the loop for a synchronised robot, come after it; in the first loop, where
\* nothing is synchronised, the flag is as the EDP has found it
OkTruly(r) == r.type = "SYNCHRO_OK" => Located

SyncInv ==
    /\ SynchronisedTruly
    /\ next_state = "SYNCHRO_TERMINATED" => Located
    /\ loop = "pre" => instruction # "SYNCHRO" /\ (is_synchronised => position_read)
    /\ OkTruly(reply)
    /\ \A c \in Clients : answer[c] # None => OkTruly(answer[c])

LEMMA ReplyTruly ==
    ASSUME TypeOK, SyncInv, NEW r \in Replies, NEW s, ReplyToInstruction(r, s), OkTruly(r),
           UNCHANGED <<is_synchronised, position_read>>
    PROVE  /\ \A c \in Clients : answer'[c] # None => OkTruly(answer[c])'
           /\ next_state' \in {s, "aborted"}
BY DEF TypeOK, SyncInv, ReplyToInstruction, OkTruly, Located

LEMMA DialogueTruly == ASSUME TypeOK, SyncInv, Dialogue PROVE SyncInv'
<1> USE DEF Located
<1>1. UNCHANGED <<phase, doing, request, synchronised, is_synchronised, position_read>>
  BY DEF Dialogue, Interprets, GetState, RefuseGet, PreWait, GetSynchro, SynchroTerminated, WaitQ,
     FatalQuery, FatalAgain, GetInstruction, PostWait
<1>2. /\ OkTruly(Acknowledge) /\ OkTruly(Error) /\ OkTruly(reply)
      /\ Acknowledge \in Replies /\ Error \in Replies /\ reply \in Replies
  BY ReplyTypes DEF OkTruly, Acknowledge, Error, SyncInv, TypeOK
<1> DEFINE Told == /\ \A c \in Clients : answer'[c] # None => OkTruly(answer[c])'
                   /\ OkTruly(reply)'
<1>3. ASSUME NEW t, Accept \/ Refuse(t) \/ Tell(t)
      PROVE  Told /\ next_state' \in {t, "EXECUTE_INSTRUCTION", "aborted"}
  <2>1. CASE Accept
    BY <1>1, <1>2, <2>1, ReplyTruly DEF Accept, OkTruly
  <2>2. CASE Refuse(t)
    BY <1>1, <1>2, <2>2, ReplyTruly DEF Refuse, OkTruly
  <2>3. CASE Tell(t)
    BY <1>1, <1>2, <2>3, ReplyTruly DEF Tell, OkTruly
  <2> QED
    BY <1>3, <2>1, <2>2, <2>3
<1>4. Told
  <2>1. ASSUME GetState \/ RefuseGet PROVE Told
    BY <1>1, <1>2, <1>3, <2>1, ReplyTruly DEF GetState, RefuseGet, OkTruly
  <2>2. ASSUME PreWait PROVE Told
    BY <1>3, <2>2, Zenon DEF PreWait
  <2>3. ASSUME GetSynchro \/ WaitQ \/ FatalAgain PROVE Told
    BY <1>3, <2>3, Zenon DEF GetSynchro, WaitQ, FatalAgain
  <2>4. ASSUME SynchroTerminated PROVE Told
    <3>1. Located
      BY <2>4 DEF SynchroTerminated, Interprets, SyncInv
    <3>2. Located'
      BY <1>1, <3>1
    <3> QED
      BY <3>2 DEF OkTruly
  <2>5. ASSUME FatalQuery PROVE Told
    BY <1>1, <1>2, <2>5, ReplyTruly DEF FatalQuery, OkTruly
  <2>6. ASSUME GetInstruction \/ PostWait PROVE Told
    BY <1>3, <2>6, Zenon DEF GetInstruction, PostWait
  <2> QED
    BY <2>1, <2>2, <2>3, <2>4, <2>5, <2>6 DEF Dialogue
<1>5. /\ loop' = "post" => Located
      /\ next_state' = "SYNCHRO_TERMINATED" => Located
  <2>1. CASE Located
    BY <2>1
  <2>2. CASE ~Located
    <3>1. ~SynchroTerminated
      BY <2>2 DEF SynchroTerminated, Interprets, SyncInv
    <3>2. loop' # "post"
      BY <2>2, <3>1 DEF Dialogue, Interprets, GetState, RefuseGet, PreWait, GetSynchro, WaitQ,
         FatalQuery, FatalAgain, GetInstruction, PostWait, SyncInv, SynchronisedTruly
    <3>3. ASSUME NEW r, NEW t, ReplyToInstruction(r, t) PROVE next_state' \in {t, "aborted"}
      BY <3>3 DEF ReplyToInstruction
    <3>4. next_state' # "SYNCHRO_TERMINATED"
      <4>1. CASE GetState \/ RefuseGet
        BY <1>3, <3>3, <4>1 DEF GetState, RefuseGet
      <4>2. CASE PreWait
        BY <1>3, <4>2 DEF PreWait
      <4>3. CASE GetSynchro \/ WaitQ \/ FatalAgain
        BY <1>3, <4>3 DEF GetSynchro, WaitQ, FatalAgain
      <4>4. CASE FatalQuery
        BY <3>3, <4>4 DEF FatalQuery
      <4>5. CASE GetInstruction \/ PostWait
        BY <1>3, <4>5 DEF GetInstruction, PostWait
      <4> QED
        BY <3>1, <4>1, <4>2, <4>3, <4>4, <4>5 DEF Dialogue
    <3> QED
      BY <3>2, <3>4
  <2> QED
    BY <2>1, <2>2
<1>6. loop' = "pre" => instruction' # "SYNCHRO"
  BY DEF Dialogue, Interprets, GetState, RefuseGet, PreWait, GetSynchro, SynchroTerminated, WaitQ,
     FatalQuery, FatalAgain, GetInstruction, PostWait, Accept, Refuse, SyncInv
<1>7. loop' = "pre" => loop = "pre"
  BY DEF Dialogue, Interprets, GetState, RefuseGet, PreWait, GetSynchro, SynchroTerminated, WaitQ,
     FatalQuery, FatalAgain, GetInstruction, PostWait
<1> QED
  BY <1>1, <1>4, <1>5, <1>6, <1>7 DEF SyncInv, SynchronisedTruly

LEMMA ExecuteTruly == ASSUME TypeOK, SyncInv, Execute PROVE SyncInv'
<1> USE DEF Located
<1>1. Located => Located'
  BY ExecuteFlag
<1>2. UNCHANGED <<synchronised, loop, instruction>>
  BY DEF Execute, Succeeds, FailsNonFatal, FailsFatal, FailsSystem, Executes
<1>3. next_state' = "SYNCHRO_TERMINATED" => Located'
  <2>1. CASE Succeeds
    BY <2>1, ExecuteFlag DEF Succeeds
  <2>2. CASE FailsNonFatal
    BY <2>2 DEF FailsNonFatal, ReplyToInstruction
  <2>3. CASE FailsFatal \/ FailsSystem
    BY <2>3 DEF FailsFatal, FailsSystem, StateAfterFatal
  <2> QED
    BY <2>1, <2>2, <2>3 DEF Execute
<1>4. /\ reply' = reply \/ reply'.type # "SYNCHRO_OK"
      /\ \A c \in Clients : answer'[c] = answer[c] \/ answer'[c].type # "SYNCHRO_OK"
  <2>1. CASE Succeeds
    BY <2>1 DEF Succeeds
  <2>2. CASE FailsNonFatal
    BY <2>2 DEF FailsNonFatal, ReplyToInstruction, Failure, TypeOK
  <2>3. CASE FailsFatal \/ FailsSystem
    BY <2>3 DEF FailsFatal, FailsSystem, Failure
  <2> QED
    BY <2>1, <2>2, <2>3 DEF Execute
<1>5. loop = "pre" => instruction # "SYNCHRO" /\ (is_synchronised' => position_read')
  BY ExecuteFlag DEF SyncInv
<1> QED
  BY <1>1, <1>2, <1>3, <1>4, <1>5 DEF SyncInv, SynchronisedTruly, OkTruly

LEMMA ClientTruly == ASSUME TypeOK, SyncInv, NEW c \in Clients, ClientStep(c) PROVE SyncInv'
<1> USE DEF Located
<1>1. UNCHANGED <<loop, next_state, is_synchronised, position_read, instruction>>
  BY DEF ClientStep, Query, Return, Killed, SendFails, Call, Leave, edpVars
<1>2. reply'.type = reply.type
  BY DEF ClientStep, Query, Return, Killed, SendFails, Call, Leave, edpVars, TypeOK, Replies
<1>3. \A d \in Clients : answer'[d] = answer[d] \/ answer'[d] = None
  BY DEF ClientStep, Query, Return, Killed, SendFails, Call, TypeOK
<1>4. \A d \in Clients : synchronised'[d] => synchronised[d] \/ Located
  <2>1. CASE Return(c)
    <3>1. CASE doing[c] = "SYNCHRO"
      <4>1. /\ answer[c] # None
            /\ synchronised' = [synchronised EXCEPT ![c] = (answer[c].type = "SYNCHRO_OK")]
        BY <2>1, <3>1 DEF Return
      <4>2. answer[c].type = "SYNCHRO_OK" => Located
        BY <4>1 DEF SyncInv, OkTruly
      <4> QED
        BY <4>1, <4>2 DEF TypeOK
    <3>2. CASE doing[c] # "SYNCHRO"
      BY <2>1, <3>2 DEF Return
    <3> QED
      BY <3>1, <3>2
  <2>2. CASE Killed(c)
    BY <2>2 DEF Killed, TypeOK
  <2>3. CASE Query(c) \/ SendFails(c) \/ \E i \in Instructions : Call(c, i)
    BY <2>3 DEF Query, SendFails, Call
  <2> QED
    BY <2>1, <2>2, <2>3 DEF ClientStep
<1> QED
  BY <1>1, <1>2, <1>3, <1>4 DEF SyncInv, SynchronisedTruly, OkTruly

LEMMA SyncInvariance == Spec => [](TypeOK /\ SyncInv)
<1> USE DEF Located
<1>1. Init => TypeOK /\ SyncInv
  BY InitTypes DEF Init, SyncInv, SynchronisedTruly, OkTruly
<1>2. ASSUME TypeOK, SyncInv, [Next]_vars PROVE SyncInv'
  <2>1. CASE \E c \in Clients : ReceiveInstruction(c)
    BY <1>2, <2>1 DEF ReceiveInstruction, SyncInv, SynchronisedTruly, OkTruly
  <2>2. CASE UNCHANGED vars
    BY <1>2, <2>2 DEF vars, clientVars, edpVars, SyncInv, SynchronisedTruly, OkTruly
  <2> QED
    BY <1>2, <2>1, <2>2, NextCases, DialogueTruly, ExecuteTruly, ClientTruly
<1> QED
  BY <1>1, <1>2, NextTypes, PTL DEF Spec

\* Nobody is told of a synchronisation that was not made.
THEOREM ToldTruly == Spec => []SynchronisedTruly
<1>1. TypeOK /\ SyncInv => SynchronisedTruly
  BY DEF SyncInv
<1> QED
  BY SyncInvariance, <1>1, PTL
-----------------------------------------------------------------------------
(* The dialogue with a single client *)

\* what a client may take for the result of its instruction
Own(r, c) == r.type = "ERROR" \/ (r.of = c /\ r.good)

\* the instruction of c will be executed, or its result is kept for the QUERY, or the
\* EDP is about to go, or has gone
Underway(c) ==
    \/ ~Alive \/ next_state = "REFUSE"
    \/ next_state = "EXECUTE_INSTRUCTION" /\ owner = c /\ instruction = doing[c]
    \/ next_state \in {"WAIT", "WAIT_Q", "FATAL_QUERY"} /\ Own(reply, c)

\* one message or one answer at a time, and the message belongs to the phase
Exchange(c) ==
    /\ phase[c] = "idle" => request[c] = None /\ answer[c] = None
    /\ answer[c] # None => request[c] = None /\ received = None
    /\ received # None => caller = c /\ request[c] = None /\ phase[c] # "idle" /\ next_state \in Receiving
    /\ \A m \in {request[c], received} :
          m # None => m = IF phase[c] = "acked?" THEN doing[c] ELSE "QUERY"

Fatal == next_state \in {"FATAL_QUERY", "FATAL_AGAIN"} => reply.type = "ERROR"

\* what the client makes of its acknowledgement and of its answer
Told(c) ==
    doing[c] # "SYNCHRO" =>
      /\ phase[c] = "acked?" /\ answer[c] # None => answer[c].type = "ERROR" \/ Underway(c)
      /\ phase[c] = "result?" /\ answer[c] = None => Underway(c)
      /\ phase[c] = "result?" /\ answer[c] # None => Own(answer[c], c)

ResultInv(c) == Exchange(c) /\ Fatal /\ Told(c)

\* the EDP replies to c, which is the client whose message it interprets
LEMMA AnswerStep ==
    ASSUME NEW c \in Clients, TypeOK, caller = c, NEW r \in Replies, NEW s, ReplyToInstruction(r, s)
    PROVE  answer'[c] = r /\ next_state' = s
BY ClientsAssumption DEF TypeOK, ReplyToInstruction

\* What a client is answered: an acknowledgement of the instruction that is executed next,
\* an error, or, to a QUERY, the reply kept for it.
Answer(c) ==
    \/ received # "QUERY" /\ next_state' = "EXECUTE_INSTRUCTION" /\ owner' = c /\ instruction' = received
    \/ answer'[c].type = "ERROR"
    \/ received # "QUERY" /\ next_state' = "REFUSE"
    \/ received = "QUERY" /\ next_state \in {"WAIT", "WAIT_Q", "FATAL_QUERY"} /\ answer'[c] = reply
    \/ received = "QUERY" /\ next_state = "SYNCHRO_TERMINATED"

\* none but the handler of Fatal_error goes on in one of its states
FatalKept == next_state' \in {"FATAL_QUERY", "FATAL_AGAIN"} => next_state = "FATAL_QUERY" /\ reply' = reply

LEMMA Answers ==
    ASSUME NEW c \in Clients, TypeOK, ResultInv(c), Dialogue, ~RefuseGet
    PROVE  /\ received # None /\ received' = None
           /\ answer'[c] # None /\ Answer(c) /\ FatalKept
<1>1. received # None /\ received' = None
  BY DEF Dialogue, Interprets, GetState, PreWait, GetSynchro, SynchroTerminated, WaitQ,
     FatalQuery, FatalAgain, GetInstruction, PostWait
<1>2. caller = c /\ next_state \in Receiving
  BY <1>1 DEF ResultInv, Exchange
<1>3. /\ Acknowledge \in Replies /\ Error \in Replies /\ reply \in Replies
      /\ Error.type = "ERROR" /\ None \notin Replies
  BY ReplyTypes, NoneAssumption DEF TypeOK, Error
<1> DEFINE Answered == answer'[c] # None /\ Answer(c) /\ FatalKept
<1>4. ASSUME Accept, received # "QUERY" PROVE Answered
  <2>1. ReplyToInstruction(Acknowledge, "EXECUTE_INSTRUCTION") /\ owner' = c /\ instruction' = received
    BY <1>2, <1>4 DEF Accept
  <2>2. answer'[c] = Acknowledge /\ next_state' = "EXECUTE_INSTRUCTION"
    BY <1>2, <1>3, <2>1, AnswerStep
  <2> QED
    BY <1>3, <1>4, <2>1, <2>2 DEF Answer, FatalKept
<1>5. ASSUME NEW s, Refuse(s), s \notin {"FATAL_QUERY", "FATAL_AGAIN"} PROVE Answered
  <2>1. ReplyToInstruction(Error, s)
    BY <1>5 DEF Refuse
  <2>2. answer'[c] = Error /\ next_state' = s
    BY <1>2, <1>3, <2>1, AnswerStep
  <2> QED
    BY <1>3, <1>5, <2>2 DEF Answer, FatalKept
<1>6. ASSUME NEW s, Tell(s), s \notin {"FATAL_QUERY", "FATAL_AGAIN"},
             (received = "QUERY" /\ next_state \in {"WAIT", "WAIT_Q"}) \/ next_state = "FATAL_AGAIN"
      PROVE  Answered
  <2>1. ReplyToInstruction(reply, s)
    BY <1>6 DEF Tell
  <2>2. answer'[c] = reply /\ next_state' = s
    BY <1>2, <1>3, <2>1, AnswerStep
  <2>3. next_state = "FATAL_AGAIN" => reply.type = "ERROR"
    BY DEF ResultInv, Fatal
  <2> QED
    BY <1>3, <1>6, <2>2, <2>3 DEF Answer, FatalKept
<1>7. ASSUME GetState PROVE Answered
  <2>1. CASE received = "GET_STATE"
    BY <1>4, <1>7, <2>1 DEF GetState
  <2>2. CASE received = "GET"
    <3>1. ReplyToInstruction(Acknowledge, "REFUSE")
      BY <1>7, <2>2 DEF GetState
    <3>2. answer'[c] = Acknowledge /\ next_state' = "REFUSE"
      BY <1>2, <1>3, <3>1, AnswerStep
    <3> QED
      BY <1>3, <2>2, <3>2 DEF Answer, FatalKept
  <2>3. CASE received \notin {"GET_STATE", "GET"}
    BY <1>5, <1>7, <2>3 DEF GetState
  <2> QED
    BY <2>1, <2>2, <2>3
<1>8. ASSUME PreWait PROVE Answered
  <2>1. CASE received # "QUERY"
    BY <1>5, <1>8, <2>1 DEF PreWait
  <2>2. CASE received = "QUERY"
    BY <1>6, <1>8, <2>2 DEF PreWait, Interprets
  <2> QED
    BY <2>1, <2>2
<1>9. ASSUME GetSynchro PROVE Answered
  BY <1>4, <1>5, <1>9 DEF GetSynchro
<1>10. ASSUME SynchroTerminated PROVE Answered
  <2>1. CASE received = "QUERY"
    <3>1. /\ next_state = "SYNCHRO_TERMINATED" /\ reply' \in Replies
          /\ ReplyToInstruction(reply', "GET_INSTRUCTION")
      BY <1>10, <2>1, ReplyTypes DEF SynchroTerminated, Interprets
    <3>2. answer'[c] = reply' /\ next_state' = "GET_INSTRUCTION"
      BY <1>2, <3>1, AnswerStep
    <3> QED
      BY <1>3, <2>1, <3>1, <3>2 DEF Answer, FatalKept
  <2>2. CASE received # "QUERY"
    <3>1. ReplyToInstruction(Error, "SYNCHRO_TERMINATED")
      BY <1>10, <2>2 DEF SynchroTerminated
    <3>2. answer'[c] = Error /\ next_state' = "SYNCHRO_TERMINATED"
      BY <1>2, <1>3, <3>1, AnswerStep
    <3> QED
      BY <1>3, <3>2 DEF Answer, FatalKept
  <2> QED
    BY <2>1, <2>2
<1>11. ASSUME WaitQ \/ PostWait \/ FatalAgain PROVE Answered
  BY <1>5, <1>6, <1>11 DEF WaitQ, PostWait, FatalAgain, Interprets
<1>12. ASSUME GetInstruction PROVE Answered
  BY <1>4, <1>5, <1>12 DEF GetInstruction, NotAnInstruction
<1>13. ASSUME FatalQuery PROVE Answered
  <2>1. next_state = "FATAL_QUERY" /\ reply' = reply
    BY <1>13 DEF FatalQuery, Interprets
  <2>2. CASE received = "QUERY"
    <3>1. ReplyToInstruction(reply, "GET_SYNCHRO")
      BY <1>13, <2>2 DEF FatalQuery
    <3>2. answer'[c] = reply /\ next_state' = "GET_SYNCHRO"
      BY <1>2, <1>3, <3>1, AnswerStep
    <3> QED
      BY <1>3, <2>1, <2>2, <3>2 DEF Answer, FatalKept
  <2>3. CASE received # "QUERY"
    <3>1. ReplyToInstruction(Error, "FATAL_AGAIN")
      BY <1>13, <2>3 DEF FatalQuery
    <3>2. answer'[c] = Error /\ next_state' = "FATAL_AGAIN"
      BY <1>2, <1>3, <3>1, AnswerStep
    <3> QED
      BY <1>3, <2>1, <3>2 DEF Answer, FatalKept
  <2> QED
    BY <2>2, <2>3
<1> QED
  BY <1>1, <1>7, <1>8, <1>9, <1>10, <1>11, <1>12, <1>13 DEF Dialogue

LEMMA DialogueResult ==
    ASSUME NEW c \in Clients, TypeOK, CallerInv, ResultInv(c), Dialogue
    PROVE  ResultInv(c)'
<1>1. UNCHANGED <<phase, doing, request, synchronised>>
  BY DEF Dialogue, Interprets, GetState, RefuseGet, PreWait, GetSynchro, SynchroTerminated, WaitQ,
     FatalQuery, FatalAgain, GetInstruction, PostWait
<1>2. CASE RefuseGet
  <2>1. caller = None
    BY <1>2 DEF RefuseGet, ResultInv, Exchange, CallerInv, Receiving
  <2>2. next_state' = "aborted" /\ UNCHANGED <<answer, caller, received>>
    BY <1>2, <2>1 DEF RefuseGet, Refuse, ReplyToInstruction
  <2>3. received = None
    BY <1>2 DEF RefuseGet, ResultInv, Exchange, Receiving
  <2> QED
    BY <1>1, <2>2, <2>3 DEF ResultInv, Exchange, Fatal, Told, Underway, Alive
<1>3. CASE ~RefuseGet
  <2>1. received # None /\ received' = None /\ answer'[c] # None /\ Answer(c) /\ FatalKept
    BY <1>3, Answers
  <2>2. request[c] = None /\ phase[c] # "idle" /\ next_state \in Receiving
    BY <2>1 DEF ResultInv, Exchange
  <2>3. received = IF phase[c] = "acked?" THEN doing[c] ELSE "QUERY"
    BY <2>1 DEF ResultInv, Exchange
  <2>4. Exchange(c)'
    BY <1>1, <2>1, <2>2 DEF Exchange
  <2>5. Fatal'
    BY <2>1 DEF FatalKept, Fatal, ResultInv
  <2>6. ASSUME doing[c] # "SYNCHRO", phase[c] = "acked?"
        PROVE  answer'[c].type = "ERROR" \/ Underway(c)'
    <3>1. received = doing[c] /\ received # "QUERY"
      BY <2>3, <2>6 DEF TypeOK, Instructions
    <3> QED
      BY <1>1, <2>1, <3>1 DEF Answer, Underway
  <2>7. ASSUME doing[c] # "SYNCHRO", phase[c] = "result?" PROVE Own(answer[c], c)'
    <3>1. received = "QUERY" /\ answer[c] = None
      BY <2>1, <2>3, <2>7 DEF ResultInv, Exchange
    <3>2. Underway(c)
      BY <2>7, <3>1 DEF ResultInv, Told
    <3>3. next_state \in {"WAIT", "WAIT_Q", "FATAL_QUERY"} /\ Own(reply, c)
      BY <2>2, <3>2 DEF Underway, Receiving, Alive
    <3> QED
      BY <2>1, <3>1, <3>3 DEF Answer, Own
  <2>8. Told(c)'
    BY <1>1, <2>1, <2>6, <2>7 DEF Told
  <2> QED
    BY <2>4, <2>5, <2>8 DEF ResultInv
<1> QED
  BY <1>2, <1>3

LEMMA ExecuteResult ==
    ASSUME NEW c \in Clients, TypeOK, CallerInv, ResultInv(c), Execute
    PROVE  ResultInv(c)'
<1>1. /\ next_state = "EXECUTE_INSTRUCTION"
      /\ UNCHANGED <<phase, doing, request, synchronised, loop, received, instruction, owner>>
  BY DEF Execute, Succeeds, FailsNonFatal, FailsFatal, FailsSystem, Executes
<1>2. received = None /\ caller = None
  BY <1>1 DEF ResultInv, Exchange, CallerInv, Receiving
<1>3. answer' = answer
  BY <1>2 DEF Execute, Succeeds, FailsNonFatal, FailsFatal, FailsSystem, StateAfterFatal,
         ReplyToInstruction
<1>4. Exchange(c)'
  BY <1>1, <1>2, <1>3 DEF ResultInv, Exchange
<1>5. Fatal'
  BY <1>2 DEF Execute, Succeeds, FailsNonFatal, FailsFatal, FailsSystem, ReplyToInstruction, Failure, Fatal
<1>6. ASSUME doing[c] # "SYNCHRO", Underway(c) PROVE Underway(c)'
  <2>1. owner = c /\ instruction = doing[c]
    BY <1>1, <1>6 DEF Underway, Alive
  <2>2. CASE Succeeds
    <3>1. Own(reply, c)'
      BY <2>1, <2>2 DEF Succeeds, Own
    <3>2. next_state' \in {"WAIT", "WAIT_Q"}
      BY <1>6, <2>1, <2>2 DEF Succeeds
    <3> QED
      BY <3>1, <3>2 DEF Underway
  <2>3. CASE FailsNonFatal \/ FailsFatal \/ FailsSystem
    <3>1. Own(Failure, c)
      BY DEF Own, Failure
    <3>2. next_state' \in {"aborted", "exited"} \/ (next_state' \in {"WAIT", "FATAL_QUERY"} /\ reply' = Failure)
      BY <1>2, <2>3 DEF FailsNonFatal, FailsFatal, FailsSystem, StateAfterFatal,
         ReplyToInstruction
    <3> QED
      BY <3>1, <3>2 DEF Underway, Alive, Own
  <2> QED
    BY <2>2, <2>3 DEF Execute
<1>7. Told(c)'
  BY <1>1, <1>3, <1>6 DEF ResultInv, Told, Own
<1> QED
  BY <1>4, <1>5, <1>7 DEF ResultInv

LEMMA ClientResult ==
    ASSUME NEW c \in Clients, TypeOK, ResultInv(c), ClientStep(c)
    PROVE  ResultInv(c)'
<1>1. UNCHANGED <<next_state, received, caller, instruction>> /\ reply'.type = reply.type
  BY DEF ClientStep, Query, Return, Killed, SendFails, Call, Leave, edpVars, TypeOK, Replies
<1>2. Fatal'
  BY <1>1 DEF ResultInv, Fatal
<1>3. CASE Query(c)
  <2>1. /\ phase[c] = "acked?" /\ answer[c] # None /\ answer'[c] = None /\ request'[c] = "QUERY"
        /\ phase'[c] = AfterAck(doing[c], answer[c].type)
        /\ UNCHANGED <<doing, edpVars>>
    BY <1>3 DEF Query, TypeOK
  <2>2. Exchange(c)'
    BY <1>1, <2>1 DEF ResultInv, Exchange, AfterAck
  <2>3. Told(c)'
    BY <2>1 DEF ResultInv, Told, AfterAck, Underway, Own, Alive, edpVars
  <2> QED
    BY <1>2, <2>2, <2>3 DEF ResultInv
<1>4. CASE Return(c) \/ Killed(c)
  <2>1. /\ answer[c] # None /\ answer'[c] = None /\ phase'[c] = "idle" /\ request' = request
    BY <1>4 DEF Return, Killed, TypeOK
  <2> QED
    BY <1>1, <1>2, <2>1 DEF ResultInv, Exchange, Told
<1>5. CASE SendFails(c)
  <2>1. ~Alive /\ answer[c] = None /\ answer' = answer /\ phase'[c] = "idle" /\ request'[c] = None
    BY <1>5 DEF SendFails, TypeOK
  <2>2. received = None
    BY <2>1 DEF ResultInv, Exchange, Alive, Receiving
  <2> QED
    BY <1>1, <1>2, <2>1, <2>2 DEF ResultInv, Exchange, Told
<1>6. ASSUME NEW i \in Instructions, Call(c, i) PROVE ResultInv(c)'
  <2>1. /\ phase[c] = "idle" /\ phase'[c] = "acked?" /\ doing'[c] = i /\ request'[c] = i
        /\ answer' = answer
    BY <1>6 DEF Call, TypeOK
  <2> QED
    BY <1>1, <1>2, <2>1 DEF ResultInv, Exchange, Told
<1> QED
  BY <1>3, <1>4, <1>5, <1>6 DEF ClientStep

LEMMA ReceiveResult ==
    ASSUME NEW c \in Clients, TypeOK, ResultInv(c), ReceiveInstruction(c)
    PROVE  ResultInv(c)'
<1>1. /\ next_state \in Receiving /\ received = None /\ request[c] # None
      /\ received' = request[c] /\ request'[c] = None /\ caller' = c
      /\ UNCHANGED <<phase, doing, answer, synchronised, loop, next_state, reply,
                     is_synchronised, instruction, owner>>
  BY DEF ReceiveInstruction, TypeOK
<1>2. answer[c] = None /\ phase[c] # "idle"
  BY <1>1 DEF ResultInv, Exchange
<1>3. Exchange(c)'
  BY <1>1, <1>2 DEF ResultInv, Exchange
<1>4. Told(c)' /\ Fatal'
  BY <1>1, <1>2 DEF ResultInv, Told, Fatal, Underway, Own, Alive
<1> QED
  BY <1>3, <1>4 DEF ResultInv

\* execute_motion of the only client returns without an exception only when its own
\* instruction was executed without one, whichever client was killed before it.
THEOREM OwnResult == ASSUME NEW c, Clients = {c} PROVE Spec => []ResultIsOwn
<1>1. Init => ResultInv(c)
  BY DEF Init, ResultInv, Exchange, Fatal, Told, Acknowledge
<1>2. ASSUME TypeOK, CallerInv, ResultInv(c), [Next]_vars PROVE ResultInv(c)'
  <2>1. CASE UNCHANGED vars
    BY <1>2, <2>1 DEF vars, clientVars, edpVars, ResultInv, Exchange, Fatal, Told, Underway, Own, Alive
  <2>2. CASE \E d \in Clients : ReceiveInstruction(d) \/ ClientStep(d)
    BY <1>2, <2>2, ClientResult, ReceiveResult
  <2> QED
    BY <1>2, <2>1, <2>2, NextCases, DialogueResult, ExecuteResult
<1>3. ResultInv(c) => ResultIsOwn
  BY DEF ResultInv, Told, Own, ResultIsOwn
<1> QED
  BY <1>1, <1>2, <1>3, TypeCorrect, CallerInvariance, PTL DEF Spec
==============================================================================
