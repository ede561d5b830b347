------------------------------- MODULE Reader -------------------------------
(***************************************************************************)
(* The measurement (reader) thread of an EDP (base/edp/reader.cc): the     *)
(* servo thread fills step_data during a step and announces it by new_data *)
(* and a condition variable; the user interface starts, marks and stops a  *)
(* measurement by pulses; a measurement is written to a file at its end.   *)
(*                                                                         *)
(* step_data is shared field by field: what the servo thread computes      *)
(* before the announcement (pwm, the regulators) and after it (joints) is  *)
(* stamped with the step it belongs to.                                    *)
(***************************************************************************)
EXTENDS Integers, Sequences, SequencesExt

CONSTANTS
    reader_samples,   \* capacity of the circular buffer
    MaxSteps,         \* bound on step_counter
    MaxPulses         \* bound on the pulses under way

ASSUME CapacityAssumption == reader_samples \in Nat \ {0}
ASSUME BoundAssumption == MaxSteps \in Nat /\ MaxPulses \in Nat

VARIABLES
    \* the servo thread
    servo,          \* "regulators", "count", "announce" or "frame"
    step_counter,
    step_data, new_data,
    \* the reader thread
    reader,         \* "idle", "clear", "wait", "pulse" or "write"
    ui_trigger,
    reader_buf,
    \* the user interface
    edp_state,      \* 1: ready, 2: measuring
    pulses,         \* sent and not yet received
    \* history
    started,        \* the last step announced when the measurement started
    kept,           \* the buffer holds an older measurement that has no file
    written,        \* the last step that is in a file
    owed            \* triggers received and not yet in a sample

servoVars  == <<servo, step_counter, step_data, new_data>>
uiVars     == <<edp_state>>
readerVars == <<reader, ui_trigger, reader_buf, started, kept, written, owed>>
vars == <<servoVars, uiVars, pulses, readerVars>>

Samples == [step : 0..MaxSteps, pwm : 0..MaxSteps, joints : 0..MaxSteps, ui_trigger : BOOLEAN]

TypeOK ==
    /\ servo \in {"regulators", "count", "announce", "frame"}
    /\ step_counter \in 0..MaxSteps
    /\ step_data \in [step : 0..MaxSteps, pwm : 0..MaxSteps, joints : 0..MaxSteps]
    /\ new_data \in BOOLEAN
    /\ reader \in {"idle", "clear", "wait", "pulse", "write"}
    /\ ui_trigger \in BOOLEAN
    /\ reader_buf \in Seq(Samples) /\ Len(reader_buf) <= reader_samples
    /\ edp_state \in {1, 2}
    /\ pulses \in Seq({"READER_START", "READER_STOP", "READER_TRIGGER"})
    /\ Len(pulses) <= MaxPulses
    /\ started \in 0..MaxSteps /\ written \in 0..MaxSteps
    /\ kept \in BOOLEAN /\ owed \in Nat

Init ==
    /\ servo = "regulators" /\ step_counter = 0
    /\ step_data = [step |-> 0, pwm |-> 0, joints |-> 0] /\ new_data = FALSE
    /\ reader = "idle" /\ ui_trigger = FALSE /\ reader_buf = <<>>
    /\ edp_state = 1 /\ pulses = <<>>
    /\ started = 0 /\ kept = FALSE /\ written = 0 /\ owed = 0
-----------------------------------------------------------------------------
(***************************************************************************)
(* The servo thread: a step of all axes (Move_1_step), then the joints and *)
(* the frame, which a robot that is not synchronised goes without.  Its    *)
(* writes to step_data are made under reader_mutex, step_counter is        *)
(* increased without it.                                                   *)
(***************************************************************************)
Regulators ==
    /\ servo = "regulators" /\ step_counter < MaxSteps
    /\ step_data' = [step_data EXCEPT !.pwm = step_counter + 1]
    /\ servo' = "count"
    /\ UNCHANGED <<step_counter, new_data, uiVars, pulses, readerVars>>

Count ==
    /\ servo = "count"
    /\ step_counter' = step_counter + 1
    /\ servo' = "announce"
    /\ UNCHANGED <<step_data, new_data, uiVars, pulses, readerVars>>

StampEarly == step_counter + 1
Stamp == step_counter

Announce ==
    /\ servo = "announce"
    /\ step_data' = [step_data EXCEPT !.step = Stamp]
    /\ new_data' = TRUE
    /\ servo' = "frame"
    /\ UNCHANGED <<step_counter, uiVars, pulses, readerVars>>

JointsAndFrame ==
    /\ servo = "frame"
    /\ \/ step_data' = [step_data EXCEPT !.joints = step_counter]
       \/ UNCHANGED step_data
    /\ servo' = "regulators"
    /\ UNCHANGED <<step_counter, new_data, uiVars, pulses, readerVars>>
-----------------------------------------------------------------------------
(***************************************************************************)
(* The user interface (pulse_reader_*_exec_pulse).                         *)
(***************************************************************************)
SendPulse(p, from, to) ==
    /\ edp_state = from /\ Len(pulses) < MaxPulses
    /\ pulses' = Append(pulses, p)
    /\ edp_state' = to
    /\ UNCHANGED <<servoVars, readerVars>>

Ui ==
    \/ SendPulse("READER_START", 1, 2)
    \/ SendPulse("READER_STOP", 2, 1)
    \/ SendPulse("READER_TRIGGER", 2, 2)
-----------------------------------------------------------------------------
(***************************************************************************)
(* The reader thread.  It holds reader_mutex in TakeSample only.           *)
(***************************************************************************)

\* a pulse that is not a start is thrown away
AwaitStart ==
    /\ reader = "idle" /\ pulses # <<>>
    /\ pulses' = Tail(pulses)
    /\ IF Head(pulses) = "READER_START"
       THEN reader' = "clear" /\ started' = step_data.step
       ELSE UNCHANGED <<reader, started>>
    /\ UNCHANGED <<servoVars, uiVars, ui_trigger, reader_buf, kept, written, owed>>

StaleData == new_data
NoData == FALSE

\* new_data is cleared before the lock is taken
ClearNewData ==
    /\ reader = "clear"
    /\ new_data' = NoData
    /\ reader' = "wait"
    /\ UNCHANGED <<servo, step_counter, step_data, uiVars, pulses, ui_trigger, reader_buf,
                   started, kept, written, owed>>

\* push_back of a circular_buffer drops the oldest element when it is full
push_back(s, x) == Append(IF Len(s) = reader_samples THEN Tail(s) ELSE s, x)

Sample == [step |-> step_data.step, pwm |-> step_data.pwm, joints |-> step_data.joints,
           ui_trigger |-> ui_trigger]

TakeSample ==
    /\ reader = "wait" /\ new_data
    /\ reader_buf' = push_back(reader_buf, Sample)
    /\ owed' = IF ui_trigger THEN owed - 1 ELSE owed
    /\ reader' = "pulse"
    /\ UNCHANGED <<servoVars, uiVars, pulses, ui_trigger, started, kept, written>>

TriggerLeft(p) == ui_trigger \/ p = "READER_TRIGGER"
TriggerOf(p) == p = "READER_TRIGGER"

\* the pulse is received without waiting
CheckPulse ==
    /\ reader = "pulse"
    /\ LET p == IF pulses = <<>> THEN "none" ELSE Head(pulses)
       IN  /\ ui_trigger' = TriggerOf(p)
           /\ owed' = IF p = "READER_TRIGGER" THEN owed + 1 ELSE owed
           /\ reader' = IF p = "READER_STOP" THEN "write" ELSE "clear"
    /\ pulses' = IF pulses = <<>> THEN <<>> ELSE Tail(pulses)
    /\ UNCHANGED <<servoVars, uiVars, reader_buf, started, kept, written>>

BufferCopied == reader_buf
BufferDrained == <<>>

\* when the file cannot be opened the samples stay in the buffer
WriteFile ==
    /\ reader = "write"
    /\ reader' = "idle"
    /\ \/ /\ reader_buf' = BufferDrained
          /\ written' = Last(reader_buf).step
          /\ kept' = FALSE
       \/ kept' = TRUE /\ UNCHANGED <<reader_buf, written>>
    /\ UNCHANGED <<servoVars, uiVars, pulses, ui_trigger, started, owed>>
-----------------------------------------------------------------------------
Servo == Regulators \/ Count \/ Announce \/ JointsAndFrame
ReaderThread == AwaitStart \/ ClearNewData \/ TakeSample \/ CheckPulse \/ WriteFile

Next == Servo \/ Ui \/ ReaderThread

Spec == Init /\ [][Next]_vars
-----------------------------------------------------------------------------
Indices == DOMAIN reader_buf

\* A sample mixes fields of neighbouring steps only: the regulators' fields are of
\* its own step or of the next one, the joints of no later step than the number
\* it is filed under, however late the reader wakes up (reader.cc 215-226).
SampleCoherent ==
    \A i \in Indices : /\ reader_buf[i].pwm - reader_buf[i].step \in {0, 1}
                       /\ reader_buf[i].joints <= reader_buf[i].step

\* No step is measured twice, in one file or in two, although new_data is cleared
\* without the lock and a full buffer drops samples (reader.cc 212, 225, 294).
StepsIncrease ==
    /\ \A i \in Indices : i > 1 => reader_buf[i - 1].step < reader_buf[i].step
    /\ reader_buf # <<>> => written < reader_buf[1].step

\* A measurement holds only steps announced after its start was received; what an
\* older one has left in the buffer is there only because its file failed.
OwnSamples == ~kept => \A i \in Indices : reader_buf[i].step > started

\* A trigger that the operator gives during a measurement marks exactly one sample of it:
\* the next one, before another pulse is looked at (reader.cc 222, 232, 244), and a reader
\* that throws away what is not a start (reader.cc 191) never meets a trigger.
TriggerMarksOne ==
    /\ owed = IF reader \in {"clear", "wait"} /\ ui_trigger THEN 1 ELSE 0
    /\ reader = "idle" /\ pulses # <<>> => Head(pulses) = "READER_START"
=============================================================================
