--------------------------- MODULE UiDialogsProofs ---------------------------
(***************************************************************************)
(* Theorems about UiDialogs, for any number of processes that ask, any     *)
(* kinds of question and any bound on the queued signals: the types, a     *)
(* question is on the screen as long as it is waited for, and the answer   *)
(* is the answer to it.                                                    *)
(***************************************************************************)
EXTENDS UiDialogs, TLAPS

USE AskersAssumption, QuestionsAssumption, SlotsAssumption

\* what is open belongs to the question that is waited for, and nothing else is
Signalled  == slots = 1 /\ files = 0 /\ visible = {} /\ window = "idle"
FileShown  == slots = 0 /\ files = 1 /\ visible = {} /\ window = "idle" /\ "FILE" \in current
OneShown   == /\ slots = 0 /\ files = 0 /\ window = "idle"
              /\ \E d \in current : visible = {d}
Chosen     == /\ slots = 0 /\ files = 0 /\ window = "chosen"
              /\ dialog \in current /\ visible = {dialog} /\ ui_rep = "own"
Hiding     == /\ slots = 0 /\ files = 0 /\ window = "hiding" /\ visible = {}
              /\ dialog \in current
              /\ communication_state = "REPLY_READY" => ui_rep = "own"
Commanding == /\ slots = 0 /\ files = 0 /\ window = "commanding" /\ visible = {}
              /\ ui_rep = "own"
Answered   == NothingOpen /\ has_command /\ ui_rep = "own"

\* the stages of a question, from the signal to the answer
Stage ==
    \/ ~has_command /\ communication_state = "AFTER_REPLY" /\ (Signalled \/ FileShown \/ OneShown)
    \/ ~has_command /\ (Chosen \/ Hiding \/ Commanding)
    \/ Answered

\* as long as no dialog has stayed open after an answer
OneQuestion ==
    ~left_open =>
      /\ comm # "wait" => NothingOpen
      /\ comm = "raise" => ~has_command
      /\ comm \in {"receive", "received", "raise"} => communication_state = "AFTER_REPLY"
      /\ comm = "reply" => ui_rep = "own"
      /\ comm = "wait" => Stage
-----------------------------------------------------------------------------
\* what the window tells apart
LEMMA MessageKinds == "FILE" \notin Dialogs /\ "MESSAGE" \notin Dialogs /\ None \notin Dialogs
  BY DEF Dialogs

LEMMA TypeInit == Init => TypeOK
<1> SUFFICES ASSUME Init PROVE TypeOK
  OBVIOUS
<1>1. /\ asked \in [Askers -> Kinds \cup {"nothing"}]
      /\ slots = 0 /\ files = 0 /\ 0 \in Nat
      /\ visible \subseteq Dialogs /\ current \subseteq Dialogs \cup {"FILE"}
  BY DEF Init
<1>2. QED
  BY <1>1 DEF Init, TypeOK

LEMMA TypeStep == TypeOK /\ [Next]_vars => TypeOK'
<1> SUFFICES ASSUME TypeOK, [Next]_vars PROVE TypeOK'
  OBVIOUS
<1>1. ASSUME NEW a \in Askers, NEW k \in Kinds, Ask(a, k) PROVE TypeOK'
  BY <1>1 DEF Ask, TypeOK, windowVars, commVars, notWindow, Dialogs, Kinds, ReplyFrom
<1>2. ASSUME NEW a \in Askers, Receive(a) PROVE TypeOK'
  BY <1>2 DEF Receive, PlaceAfter, TypeOK, windowVars, commVars, notWindow, Dialogs, Kinds, ReplyFrom
<1>3. ASSUME NEW d \in Dialogs, Click(d) PROVE TypeOK'
  BY <1>3 DEF Click, Usable, TypeOK, windowVars, commVars, notWindow, Dialogs, Kinds, ReplyFrom
<1>4. ASSUME NEW d \in Dialogs, Close(d) PROVE TypeOK'
  BY <1>4 DEF Close, Usable, TypeOK, windowVars, commVars, notWindow, Dialogs, Kinds, ReplyFrom
<1>5. ASSUME ResetState PROVE TypeOK'
  BY <1>5 DEF ResetState, StateAfterReply, TypeOK, windowVars, commVars, notWindow, Dialogs, Kinds, ReplyFrom
<1>6. ASSUME NullCommand PROVE TypeOK'
  BY <1>6 DEF NullCommand, PlaceAfter, TypeOK, windowVars, commVars, notWindow, Dialogs, Kinds, ReplyFrom
<1>7. ASSUME RaiseWindow PROVE TypeOK'
  BY <1>7 DEF RaiseWindow, PlaceAfter, TypeOK, windowVars, commVars, notWindow, Dialogs, Kinds, ReplyFrom
<1>8. ASSUME Wait PROVE TypeOK'
  BY <1>8 DEF Wait, TypeOK, windowVars, commVars, notWindow, Dialogs, Kinds, ReplyFrom
<1>9. ASSUME Reply PROVE TypeOK'
  BY <1>9 DEF Reply, TypeOK, windowVars, commVars, notWindow, Dialogs, Kinds, ReplyFrom
<1>10. ASSUME RaiseSlot PROVE TypeOK'
  <2>1. CASE ecp_to_ui_msg \in Dialogs
    <3>1. /\ slots > 0 /\ slots' = slots - 1
          /\ visible' = visible \cup {ecp_to_ui_msg}
          /\ current' = current \cup {ecp_to_ui_msg}
          /\ UNCHANGED <<window, files, ui_rep, notWindow, communication_state, has_command,
                         dialog, left_open>>
      BY <1>10, <2>1, MessageKinds DEF RaiseSlot
    <3>2. visible' \subseteq Dialogs /\ current' \subseteq Dialogs \cup {"FILE"}
      BY <3>1, <2>1 DEF TypeOK
    <3>3. slots' \in Nat
      BY <3>1 DEF TypeOK
    <3>4. QED
      BY <3>1, <3>2, <3>3 DEF TypeOK, notWindow, commVars
  <2>2. CASE ecp_to_ui_msg = "FILE"
    BY <1>10, <2>2, MessageKinds DEF RaiseSlot, TypeOK, windowVars, commVars, notWindow, Dialogs
  <2>3. CASE ecp_to_ui_msg = "MESSAGE"
    BY <1>10, <2>3, MessageKinds DEF RaiseSlot, TypeOK, windowVars, commVars, notWindow, Dialogs
  <2>4. QED
    BY <2>1, <2>2, <2>3 DEF TypeOK, Kinds, Dialogs
<1>11. ASSUME ChooseFile PROVE TypeOK'
  BY <1>11 DEF ChooseFile, TypeOK, windowVars, commVars, notWindow, Dialogs, Kinds, ReplyFrom
<1>12. ASSUME SendMove PROVE TypeOK'
  BY <1>12 DEF SendMove, Usable, TypeOK, windowVars, commVars, notWindow, Dialogs, Kinds, ReplyFrom
<1>13. ASSUME SetReady PROVE TypeOK'
  BY <1>13 DEF SetReady, TypeOK, windowVars, commVars, notWindow, Dialogs, Kinds, ReplyFrom
<1>14. ASSUME HideEvent PROVE TypeOK'
  BY <1>14 DEF HideEvent, TypeOK, windowVars, commVars, notWindow, Dialogs, Kinds, ReplyFrom
<1>15. ASSUME Command PROVE TypeOK'
  BY <1>15 DEF Command, TypeOK, windowVars, commVars, notWindow, Dialogs, Kinds, ReplyFrom
<1>17. ASSUME NEW d \in Dialogs, Cover(d) PROVE TypeOK'
  BY <1>17 DEF Cover, TypeOK, windowVars, commVars, notWindow, Dialogs, Kinds
<1>16. ASSUME UNCHANGED vars PROVE TypeOK'
  BY <1>16 DEF vars, TypeOK, windowVars, commVars, notWindow, Dialogs, Kinds, ReplyFrom
<1> QED
  BY <1>1, <1>2, <1>3, <1>4, <1>5, <1>6, <1>7, <1>8, <1>9, <1>10, <1>11, <1>12, <1>13, <1>14, <1>15, <1>16, <1>17
  DEF Next, Comm, Handlers, Operator

\* The thread, the window, the dialogs and the processes keep to their types: the
\* communication state is one of the two that the code sets.
THEOREM TypeCorrect == Spec => []TypeOK
<1>1. QED
  BY TypeInit, TypeStep, PTL DEF Spec
-----------------------------------------------------------------------------
LEMMA ShownStep == TypeOK /\ QuestionShown /\ [Next]_vars => QuestionShown'
<1> SUFFICES ASSUME TypeOK, QuestionShown, [Next]_vars PROVE QuestionShown'
  OBVIOUS
<1>1. ASSUME NEW a \in Askers, NEW k \in Kinds, Ask(a, k) PROVE QuestionShown'
  BY <1>1 DEF Ask, TypeOK, QuestionShown, windowVars, commVars, notWindow, Dialogs, Kinds, ReplyFrom
<1>2. ASSUME NEW a \in Askers, Receive(a) PROVE QuestionShown'
  BY <1>2 DEF Receive, PlaceAfter, TypeOK, QuestionShown, windowVars, commVars, notWindow, Dialogs, Kinds, ReplyFrom
<1>3. ASSUME NEW d \in Dialogs, Click(d) PROVE QuestionShown'
  BY <1>3 DEF Click, Usable, TypeOK, QuestionShown, windowVars, commVars, notWindow, Dialogs, Kinds, ReplyFrom
<1>4. ASSUME NEW d \in Dialogs, Close(d) PROVE QuestionShown'
  BY <1>4 DEF Close, Usable, TypeOK, QuestionShown, windowVars, commVars, notWindow, Dialogs, Kinds, ReplyFrom
<1>5. ASSUME ResetState PROVE QuestionShown'
  BY <1>5 DEF ResetState, StateAfterReply, TypeOK, QuestionShown, windowVars, commVars, notWindow, Dialogs, Kinds, ReplyFrom
<1>6. ASSUME NullCommand PROVE QuestionShown'
  BY <1>6 DEF NullCommand, PlaceAfter, TypeOK, QuestionShown, windowVars, commVars, notWindow, Dialogs, Kinds, ReplyFrom
<1>7. ASSUME RaiseWindow PROVE QuestionShown'
  BY <1>7 DEF RaiseWindow, PlaceAfter, TypeOK, QuestionShown, windowVars, commVars, notWindow, Dialogs, Kinds, ReplyFrom
<1>8. ASSUME Wait PROVE QuestionShown'
  BY <1>8 DEF Wait, TypeOK, QuestionShown, windowVars, commVars, notWindow, Dialogs, Kinds, ReplyFrom
<1>9. ASSUME Reply PROVE QuestionShown'
  BY <1>9 DEF Reply, TypeOK, QuestionShown, windowVars, commVars, notWindow, Dialogs, Kinds, ReplyFrom
<1>10. ASSUME RaiseSlot PROVE QuestionShown'
  <2>1. CASE ecp_to_ui_msg \in Dialogs
    BY <1>10, <2>1, MessageKinds DEF RaiseSlot, TypeOK, QuestionShown, windowVars, commVars, notWindow, Dialogs
  <2>2. CASE ecp_to_ui_msg = "FILE"
    BY <1>10, <2>2, MessageKinds DEF RaiseSlot, TypeOK, QuestionShown, windowVars, commVars, notWindow, Dialogs
  <2>3. CASE ecp_to_ui_msg = "MESSAGE"
    BY <1>10, <2>3, MessageKinds DEF RaiseSlot, TypeOK, QuestionShown, windowVars, commVars, notWindow, Dialogs
  <2>4. QED
    BY <2>1, <2>2, <2>3 DEF TypeOK, Kinds, Dialogs
<1>11. ASSUME ChooseFile PROVE QuestionShown'
  BY <1>11 DEF ChooseFile, TypeOK, QuestionShown, windowVars, commVars, notWindow, Dialogs, Kinds, ReplyFrom
<1>12. ASSUME SendMove PROVE QuestionShown'
  BY <1>12 DEF SendMove, Usable, TypeOK, QuestionShown, windowVars, commVars, notWindow, Dialogs, Kinds, ReplyFrom
<1>13. ASSUME SetReady PROVE QuestionShown'
  BY <1>13 DEF SetReady, TypeOK, QuestionShown, windowVars, commVars, notWindow, Dialogs, Kinds, ReplyFrom
<1>14. ASSUME HideEvent PROVE QuestionShown'
  BY <1>14 DEF HideEvent, TypeOK, QuestionShown, windowVars, commVars, notWindow, Dialogs, Kinds, ReplyFrom
<1>15. ASSUME Command PROVE QuestionShown'
  BY <1>15 DEF Command, TypeOK, QuestionShown, windowVars, commVars, notWindow, Dialogs, Kinds, ReplyFrom
<1>17. ASSUME NEW d \in Dialogs, Cover(d) PROVE QuestionShown'
  BY <1>17 DEF Cover, TypeOK, QuestionShown, windowVars, commVars, notWindow, Dialogs, Kinds
<1>16. ASSUME UNCHANGED vars PROVE QuestionShown'
  BY <1>16 DEF vars, TypeOK, QuestionShown, windowVars, commVars, notWindow, Dialogs, Kinds, ReplyFrom
<1> QED
  BY <1>1, <1>2, <1>3, <1>4, <1>5, <1>6, <1>7, <1>8, <1>9, <1>10, <1>11, <1>12, <1>13, <1>14, <1>15, <1>16, <1>17
  DEF Next, Comm, Handlers, Operator

\* While comm waits for an answer to the question of any process, the operator can
\* give it: no order of the queued signal, stray commands and dialogs left open loses
\* the question.
THEOREM Shown == Spec => []QuestionShown
<1>1. Init => QuestionShown
  BY DEF Init, QuestionShown
<1>2. QED
  BY TypeInit, TypeStep, ShownStep, <1>1, PTL DEF Spec
-----------------------------------------------------------------------------
LEMMA OneStep == TypeOK /\ OneQuestion /\ [Next]_vars => OneQuestion'
<1> SUFFICES ASSUME TypeOK, OneQuestion, [Next]_vars PROVE OneQuestion'
  OBVIOUS
<1> USE DEF NothingOpen, Stage, Signalled, FileShown, OneShown, Chosen, Hiding, Commanding,
            Answered
<1>1. ASSUME NEW a \in Askers, NEW k \in Kinds, Ask(a, k) PROVE OneQuestion'
  BY <1>1 DEF Ask, TypeOK, OneQuestion, windowVars, commVars, notWindow, Dialogs, Kinds, ReplyFrom
<1>2. ASSUME NEW a \in Askers, Receive(a) PROVE OneQuestion'
  BY <1>2 DEF Receive, PlaceAfter, TypeOK, OneQuestion, windowVars, commVars, notWindow, Dialogs, Kinds, ReplyFrom
<1>3. ASSUME NEW d \in Dialogs, Click(d) PROVE OneQuestion'
  BY <1>3 DEF Click, Usable, TypeOK, OneQuestion, windowVars, commVars, notWindow, Dialogs, Kinds, ReplyFrom
<1>4. ASSUME NEW d \in Dialogs, Close(d) PROVE OneQuestion'
  BY <1>4 DEF Close, Usable, TypeOK, OneQuestion, windowVars, commVars, notWindow, Dialogs, Kinds, ReplyFrom
<1>5. ASSUME ResetState PROVE OneQuestion'
  BY <1>5 DEF ResetState, StateAfterReply, TypeOK, OneQuestion, windowVars, commVars, notWindow, Dialogs, Kinds, ReplyFrom
<1>6. ASSUME NullCommand PROVE OneQuestion'
  BY <1>6 DEF NullCommand, PlaceAfter, TypeOK, OneQuestion, windowVars, commVars, notWindow, Dialogs, Kinds, ReplyFrom
<1>7. ASSUME RaiseWindow PROVE OneQuestion'
  BY <1>7 DEF RaiseWindow, PlaceAfter, TypeOK, OneQuestion, windowVars, commVars, notWindow, Dialogs, Kinds, ReplyFrom
<1>8. ASSUME Wait PROVE OneQuestion'
  BY <1>8 DEF Wait, TypeOK, OneQuestion, windowVars, commVars, notWindow, Dialogs, Kinds, ReplyFrom
<1>9. ASSUME Reply PROVE OneQuestion'
  BY <1>9 DEF Reply, TypeOK, OneQuestion, windowVars, commVars, notWindow, Dialogs, Kinds, ReplyFrom
<1>10. ASSUME RaiseSlot PROVE OneQuestion'
  <2>1. CASE ecp_to_ui_msg \in Dialogs
    <3>1. /\ slots > 0 /\ window = "idle" /\ slots' = slots - 1
          /\ visible' = visible \cup {ecp_to_ui_msg}
          /\ current' = current \cup {ecp_to_ui_msg}
          /\ UNCHANGED <<window, files, ui_rep, notWindow, communication_state, has_command,
                         dialog, left_open>>
      BY <1>10, <2>1, MessageKinds DEF RaiseSlot
    <3>2. ~left_open => comm = "wait" /\ Signalled /\ ~has_command /\ communication_state = "AFTER_REPLY"
      BY <3>1 DEF TypeOK, OneQuestion
    <3>3. ~left_open => visible' = {ecp_to_ui_msg} /\ ecp_to_ui_msg \in current' /\ slots' = 0
      BY <3>1, <3>2 DEF Signalled
    <3>4. ~left_open => OneShown'
      BY <3>1, <3>2, <3>3 DEF Signalled, OneShown
    <3>5. QED
      BY <3>1, <3>2, <3>4 DEF OneQuestion, Stage, notWindow, commVars
  <2>2. CASE ecp_to_ui_msg = "FILE"
    BY <1>10, <2>2, MessageKinds DEF RaiseSlot, TypeOK, OneQuestion, windowVars, commVars, notWindow, Dialogs
  <2>3. CASE ecp_to_ui_msg = "MESSAGE"
    BY <1>10, <2>3, MessageKinds DEF RaiseSlot, TypeOK, OneQuestion, windowVars, commVars, notWindow, Dialogs
  <2>4. QED
    BY <2>1, <2>2, <2>3 DEF TypeOK, Kinds, Dialogs
<1>11. ASSUME ChooseFile PROVE OneQuestion'
  BY <1>11 DEF ChooseFile, TypeOK, OneQuestion, windowVars, commVars, notWindow, Dialogs, Kinds, ReplyFrom
<1>12. ASSUME SendMove PROVE OneQuestion'
  BY <1>12 DEF SendMove, Usable, TypeOK, OneQuestion, windowVars, commVars, notWindow, Dialogs, Kinds, ReplyFrom
<1>13. ASSUME SetReady PROVE OneQuestion'
  BY <1>13 DEF SetReady, TypeOK, OneQuestion, windowVars, commVars, notWindow, Dialogs, Kinds, ReplyFrom
<1>14. ASSUME HideEvent PROVE OneQuestion'
  BY <1>14 DEF HideEvent, TypeOK, OneQuestion, windowVars, commVars, notWindow, Dialogs, Kinds, ReplyFrom
<1>15. ASSUME Command PROVE OneQuestion'
  BY <1>15 DEF Command, TypeOK, OneQuestion, windowVars, commVars, notWindow, Dialogs, Kinds, ReplyFrom
<1>17. ASSUME NEW d \in Dialogs, Cover(d) PROVE OneQuestion'
  BY <1>17 DEF Cover, TypeOK, OneQuestion, windowVars, commVars, notWindow, Dialogs, Kinds
<1>16. ASSUME UNCHANGED vars PROVE OneQuestion'
  BY <1>16 DEF vars, TypeOK, OneQuestion, windowVars, commVars, notWindow, Dialogs, Kinds, ReplyFrom
<1> QED
  BY <1>1, <1>2, <1>3, <1>4, <1>5, <1>6, <1>7, <1>8, <1>9, <1>10, <1>11, <1>12, <1>13, <1>14, <1>15, <1>16, <1>17
  DEF Next, Comm, Handlers, Operator

\* A process gets the answer given in a dialog opened for its own question, unless a
\* dialog has stayed open after it had answered, and what belongs to it is not gone.
THEOREM OwnAnswer == Spec => []AnswerIsOwn
<1>1. Init => OneQuestion
  BY DEF Init, OneQuestion, NothingOpen
<1>2. OneQuestion => AnswerIsOwn
  BY DEF OneQuestion, AnswerIsOwn
<1>3. QED
  BY TypeInit, TypeStep, OneStep, <1>1, <1>2, PTL DEF Spec
=============================================================================
