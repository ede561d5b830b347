------------------------------ MODULE UiDialogs ------------------------------
(***************************************************************************)
(* The questions that the MP and the ECPs ask the operator: the thread     *)
(* "comm" of the user interface (ui-qt/base/ui_ecp.cc), which receives a   *)
(* message, has its window raised and waits for the answer; the window     *)
(* (raise_ui_ecp_window_slot of ui-qt/base/interface.cc); the dialogs      *)
(* (ui-qt/base/ui_ecp_dialogs); and the processes that ask                 *)
(* (base/ecp_mp/ecp_mp_task.cc, generator/ecp/ecp_g_teach_in.cc).          *)
(*                                                                         *)
(* The thread and the window share one message, one reply, one state and   *)
(* one condition_synchroniser without a lock, and the signal that raises   *)
(* the window is queued.  A dialog answers whatever is asked when it is    *)
(* closed or covered; the teaching dialog stays open after an answer, and  *)
(* so does a dialog that was covered.                                      *)
(***************************************************************************)
EXTENDS Naturals, FiniteSets

CONSTANTS Askers,      \* the MP and the ECPs
          Questions,   \* the kinds of question with a dialog that is closed by its answer
          MaxSlots,    \* bound: signals in the queue of the window, and file dialogs
          None         \* no process, no dialog

ASSUME AskersAssumption == None \notin Askers
ASSUME QuestionsAssumption ==
          None \notin Questions \cup {"TEACHING"} /\ Questions \cap {"TEACHING", "MESSAGE", "FILE", "nothing"} = {}
ASSUME SlotsAssumption == MaxSlots \in Nat \ {0}

VARIABLES
    asked,                \* what each process is blocked for: a kind of message, or "nothing"
    \* the thread comm
    comm,                 \* its place in the loop
    asker,                \* the process whose message it answers
    ecp_to_ui_msg,        \* the message received last, by its kind
    communication_state,
    has_command,          \* of synchroniser
    ui_rep,               \* where the reply comes from: given in a dialog opened for the
                          \* message, in one opened for another, or before the message came
    \* the window
    slots,                \* signals raised and not delivered
    window,               \* the place in the handler that runs, or "idle"
    dialog,               \* the dialog of that handler, as long as it is needed
    files,                \* file dialogs that are open, one inside the other
    visible,              \* the dialogs that are open
    current,              \* history: the dialogs opened since the message was received
    left_open             \* history: a dialog has answered and stayed open, and what belongs
                          \* to it has not been gone at the end of a question since

commVars   == <<comm, asker, ecp_to_ui_msg>>
windowVars == <<window, dialog, files, visible>>
vars == <<asked, commVars, communication_state, has_command, ui_rep, slots, windowVars,
          current, left_open>>

\* ECP_TO_UI_COMMAND: the four coordinates of teaching are one kind, so are loading and
\* saving a file; nothing sends those the window has no case for
Kinds   == Questions \cup {"TEACHING", "MESSAGE", "FILE"}
Dialogs == Questions \cup {"TEACHING"}

TypeOK ==
    /\ asked \in [Askers -> Kinds \cup {"nothing"}]
    /\ comm \in {"reset", "receive", "received", "raise", "wait", "reply"}
    /\ asker \in Askers \cup {None}
    /\ ecp_to_ui_msg \in Kinds
    /\ communication_state \in {"AFTER_REPLY", "REPLY_READY"}
    /\ has_command \in BOOLEAN
    /\ ui_rep \in {"own", "other", "old"}
    /\ slots \in Nat
    /\ window \in {"idle", "chosen", "moved", "hiding", "commanding"}
    /\ dialog \in Dialogs \cup {None}
    /\ files \in Nat
    /\ visible \subseteq Dialogs /\ current \subseteq Dialogs \cup {"FILE"}
    /\ left_open \in BOOLEAN

\* ecp_to_ui_msg is set before it is read
Init ==
    /\ asked = [a \in Askers |-> "nothing"]
    /\ comm = "reset" /\ asker = None /\ ecp_to_ui_msg \in Kinds
    /\ communication_state = "AFTER_REPLY" /\ has_command = FALSE /\ ui_rep = "old"
    /\ slots = 0 /\ window = "idle" /\ dialog = None /\ files = 0
    /\ visible = {} /\ current = {} /\ left_open = FALSE
-----------------------------------------------------------------------------
(* The processes *)

\* operator_reaction, choose_option, input_integer, input_double, show_message, teach: the
\* process is blocked in port_send.  The bound leaves room for the signal of every question, and
\* for the file dialog that it may open.
Ask(a, k) ==
    /\ asked[a] = "nothing"
    /\ slots + files + Cardinality({b \in Askers : asked[b] # "nothing"}) < MaxSlots
    /\ asked' = [asked EXCEPT ![a] = k]
    /\ UNCHANGED <<commVars, communication_state, has_command, ui_rep, slots, windowVars,
                   current, left_open>>
-----------------------------------------------------------------------------
(* The thread comm *)

\* mutants are kept beside the definition they replace, marked "mutant:"
\* mutant: the window is raised before the synchroniser is cleared
PlaceAfterSwapped(p) ==
    CASE p = "receive" -> "raise" [] p = "received" -> "wait" [] p = "raise" -> "received"

\* the order of the calls after a message is received
PlaceAfter(p) ==
    CASE p = "receive" -> "received" [] p = "received" -> "raise" [] p = "raise" -> "wait"

\* mutant: the state is not reset
StateKept == communication_state

\* communication_state at the head of the loop
StateAfterReply == "AFTER_REPLY"

\* nothing is left of a dialog that has stayed open
NothingOpen == visible = {} /\ slots = 0 /\ files = 0 /\ window = "idle"

ResetState ==
    /\ comm = "reset"
    /\ comm' = "receive"
    /\ communication_state' = StateAfterReply
    /\ left_open' = (left_open /\ ~NothingOpen)
    /\ UNCHANGED <<asked, asker, ecp_to_ui_msg, has_command, ui_rep, slots, windowVars, current>>

Receive(a) ==
    /\ comm = "receive" /\ asked[a] # "nothing"
    /\ comm' = PlaceAfter("receive")
    /\ asker' = a /\ ecp_to_ui_msg' = asked[a]
    /\ ui_rep' = "old" /\ current' = {}
    /\ UNCHANGED <<asked, communication_state, has_command, slots, windowVars, left_open>>

\* synchroniser.null_command
NullCommand ==
    /\ comm = "received"
    /\ comm' = PlaceAfter("received")
    /\ has_command' = FALSE
    /\ UNCHANGED <<asked, asker, ecp_to_ui_msg, communication_state, ui_rep, slots, windowVars,
                   current, left_open>>

\* raise_ui_ecp_window_signal, a queued connection
RaiseWindow ==
    /\ comm = "raise"
    /\ comm' = PlaceAfter("raise")
    /\ slots' = slots + 1
    /\ UNCHANGED <<asked, asker, ecp_to_ui_msg, communication_state, has_command, ui_rep,
                   windowVars, current, left_open>>

\* synchroniser.wait
Wait ==
    /\ comm = "wait" /\ has_command
    /\ comm' = "reply" /\ has_command' = FALSE
    /\ UNCHANGED <<asked, asker, ecp_to_ui_msg, communication_state, ui_rep, slots, windowVars,
                   current, left_open>>

\* port_reply, whatever ui_rep holds
Reply ==
    /\ comm = "reply"
    /\ comm' = "reset" /\ asker' = None
    /\ asked' = [asked EXCEPT ![asker] = "nothing"]
    /\ UNCHANGED <<ecp_to_ui_msg, communication_state, has_command, ui_rep, slots, windowVars,
                   current, left_open>>

Comm == ResetState \/ NullCommand \/ RaiseWindow \/ Wait \/ Reply \/ \E a \in Askers : Receive(a)
-----------------------------------------------------------------------------
(* The window: its handlers run one at a time, interleaved with comm *)

ReplyFrom(d) == IF d \in current THEN "own" ELSE "other"

notWindow == <<asked, commVars>>

\* the signal is delivered, also while a file dialog is open: the message is the one received
\* last, whether its signal or an earlier one
RaiseSlot ==
    /\ slots > 0 /\ window = "idle"
    /\ slots' = slots - 1
    /\ CASE ecp_to_ui_msg \in Dialogs ->
              /\ visible' = visible \cup {ecp_to_ui_msg}
              /\ current' = current \cup {ecp_to_ui_msg}
              /\ UNCHANGED <<window, files, ui_rep>>
         [] ecp_to_ui_msg = "FILE" ->
              /\ files' = files + 1
              /\ current' = current \cup {"FILE"}
              /\ UNCHANGED <<window, visible, ui_rep>>
         [] ecp_to_ui_msg = "MESSAGE" ->
              window' = "commanding" /\ ui_rep' = "own" /\ UNCHANGED <<files, visible, current>>
    /\ UNCHANGED <<notWindow, communication_state, has_command, dialog, left_open>>

\* a file is chosen in the innermost file dialog, or none
ChooseFile ==
    /\ files > 0 /\ window = "idle"
    /\ files' = files - 1
    /\ ui_rep' = ReplyFrom("FILE")
    /\ window' = "commanding"
    /\ UNCHANGED <<notWindow, communication_state, has_command, slots, dialog, visible, current,
                   left_open>>

\* a file dialog is modal: no other one can be used
Usable(d) == d \in visible /\ window = "idle" /\ files = 0

\* a button that answers and closes: the reply is written, the state set, the dialog hidden
Click(d) ==
    /\ Usable(d)
    /\ window' = "chosen" /\ dialog' = d
    /\ ui_rep' = ReplyFrom(d)
    /\ UNCHANGED <<notWindow, communication_state, has_command, slots, files, visible, current,
                   left_open>>

\* on_pushButton_send_move_clicked: the dialog stays
SendMove ==
    /\ Usable("TEACHING")
    /\ window' = "moved" /\ dialog' = "TEACHING"
    /\ ui_rep' = ReplyFrom("TEACHING") /\ left_open' = TRUE
    /\ UNCHANGED <<notWindow, communication_state, has_command, slots, files, visible, current>>

SetReady ==
    /\ window \in {"chosen", "moved"}
    /\ communication_state' = "REPLY_READY"
    /\ IF window = "chosen"
         THEN window' = "hiding" /\ visible' = visible \ {dialog} /\ UNCHANGED dialog
         ELSE window' = "commanding" /\ dialog' = None /\ UNCHANGED visible
    /\ UNCHANGED <<notWindow, has_command, ui_rep, slots, files, current, left_open>>

\* the dialog is closed without an answer
Close(d) ==
    /\ Usable(d)
    /\ window' = "hiding" /\ dialog' = d /\ visible' = visible \ {d}
    /\ UNCHANGED <<notWindow, communication_state, has_command, ui_rep, slots, files, current,
                   left_open>>

\* the dialogs are tabs of the main window: that one is minimised, or another tab comes
\* to the front, because the operator or my_open raises it.  The dialog is there again
\* afterwards.
Cover(d) ==
    /\ d \in visible /\ window = "idle"
    /\ window' = "hiding" /\ dialog' = d /\ left_open' = TRUE
    /\ UNCHANGED <<notWindow, communication_state, has_command, ui_rep, slots, files, visible,
                   current>>

\* hideEvent: QUIT unless an answer is ready
HideEvent ==
    /\ window = "hiding"
    /\ window' = "commanding" /\ dialog' = None
    /\ ui_rep' = IF communication_state # "REPLY_READY" THEN ReplyFrom(dialog) ELSE ui_rep
    /\ UNCHANGED <<notWindow, communication_state, has_command, slots, files, visible, current,
                   left_open>>

\* synchroniser.command
Command ==
    /\ window = "commanding"
    /\ window' = "idle" /\ has_command' = TRUE
    /\ UNCHANGED <<notWindow, communication_state, ui_rep, slots, dialog, files, visible,
                   current, left_open>>

Handlers == RaiseSlot \/ SetReady \/ HideEvent \/ Command
Operator == ChooseFile \/ SendMove \/ \E d \in Dialogs : Click(d) \/ Close(d)

Next == \/ \E a \in Askers, k \in Kinds : Ask(a, k)
        \/ Comm \/ Handlers \/ Operator
        \/ \E d \in Dialogs : Cover(d)
Spec == Init /\ [][Next]_vars

(***************************************************************************)
(* The thread and the event loop go on, and the operator does something    *)
(* with a dialog that is open.  Nothing makes a process ask.               *)
(***************************************************************************)
FairSpec == Spec /\ WF_vars(Comm) /\ WF_vars(Handlers) /\ WF_vars(Operator)
-----------------------------------------------------------------------------
(* Properties *)

\* While comm waits for an answer, the operator can give it: the dialog of the question is
\* open, or the signal that opens it is on its way, or an answer is.
QuestionShown ==
    comm = "wait" /\ ~has_command
      => slots > 0 \/ files > 0 \/ window # "idle" \/ ecp_to_ui_msg \in visible

\* A process gets the answer that was given in a dialog opened for its question, or QUIT when
\* that one was closed, never an answer to another question, unless a dialog has stayed open
\* after it had answered: the teaching dialog after a move, another when it was covered.
AnswerIsOwn == comm = "reply" => ui_rep = "own" \/ left_open

\* Every question that is received is answered.
QuestionAnswered == (comm = "received") ~> (comm = "reply")
=============================================================================
