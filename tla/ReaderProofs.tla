---------------------------- MODULE ReaderProofs ----------------------------
(***************************************************************************)
(* Theorems about Reader, for every capacity of the buffer and every bound *)
(* on steps and pulses.                                                    *)
(*                                                                         *)
(* A sample is coherent because the fields of step_data lag or lead        *)
(* step_counter by a distance that the place of the servo thread tells.    *)
(* Steps increase because new_data, seen by a reader that waits, means     *)
(* that a step has been announced since the last sample.  No trigger is    *)
(* thrown away because starts and stops alternate in the channel.          *)
(***************************************************************************)
EXTENDS Reader, TLAPS

\* how far the fields of step_data are from step_counter
StepDataInv ==
    /\ step_data.step = IF servo = "announce" THEN step_counter - 1 ELSE step_counter
    /\ step_data.pwm = IF servo = "count" THEN step_counter + 1 ELSE step_counter
    /\ step_data.joints <= step_data.step
    /\ servo = "count" => step_counter < MaxSteps

\* the last step that was taken, in the buffer or in a file
Taken == IF reader_buf = <<>> THEN written ELSE reader_buf[Len(reader_buf)].step

TakenInv ==
    /\ Taken <= step_data.step /\ started <= step_data.step
    /\ reader = "wait" /\ new_data => Taken < step_data.step /\ started < step_data.step

BufferInv ==
    /\ reader \in {"pulse", "write"} => reader_buf # <<>>
    /\ reader = "idle" /\ ~kept => reader_buf = <<>>
    /\ reader \in {"idle", "write"} => ~ui_trigger

\* what is under way before the i-th pulse, or after the last one: no measurement
Resting(i) == IF i = 1 THEN reader \in {"idle", "write"} ELSE pulses[i - 1] = "READER_STOP"

PulseInv ==
    /\ \A i \in 1..Len(pulses) : pulses[i] = "READER_START" <=> Resting(i)
    /\ edp_state = 1 <=> Resting(Len(pulses) + 1)

\* the buffer holds a trigger that has been received, and no other
OwedInv == owed = IF reader \in {"clear", "wait"} /\ ui_trigger THEN 1 ELSE 0

ReaderInv ==
    /\ TypeOK /\ StepDataInv /\ TakenInv /\ BufferInv
    /\ SampleCoherent /\ StepsIncrease /\ OwnSamples /\ OwedInv /\ PulseInv

\* what a push does to a buffer: the new element is the last one, the others keep
\* their order, and the capacity is kept
Pushed(S, s, x, b) ==
    /\ b \in Seq(S) /\ Len(b) \in 1..reader_samples /\ b[Len(b)] = x
    /\ \/ Len(b) = Len(s) + 1 /\ \A i \in 1..Len(s) : b[i] = s[i]
       \/ Len(b) = Len(s) /\ s # <<>> /\ \A i \in 1..(Len(s) - 1) : b[i] = s[i + 1]

LEMMA PushBack ==
    ASSUME NEW S, NEW s \in Seq(S), NEW x \in S, Len(s) <= reader_samples
    PROVE  Pushed(S, s, x, push_back(s, x))
<1> USE DEF Pushed
<1>1. CASE Len(s) = reader_samples
  <2>1. s # <<>> /\ Tail(s) \in Seq(S) /\ Len(Tail(s)) = Len(s) - 1
    BY <1>1, CapacityAssumption
  <2>2. \A i \in 1..(Len(s) - 1) : Tail(s)[i] = s[i + 1]
    BY <2>1
  <2>3. push_back(s, x) = Append(Tail(s), x)
    BY <1>1 DEF push_back
  <2> QED
    BY <1>1, <2>1, <2>2, <2>3, CapacityAssumption
<1>2. CASE Len(s) # reader_samples
  BY <1>2, CapacityAssumption DEF push_back
<1> QED
  BY <1>1, <1>2

LEMMA TakenType == ASSUME TypeOK PROVE Taken \in 0..MaxSteps
<1>1. CASE reader_buf = <<>>
  BY <1>1 DEF Taken, TypeOK
<1>2. CASE reader_buf # <<>>
  <2>1. reader_buf[Len(reader_buf)] \in Samples
    BY <1>2 DEF TypeOK
  <2> QED
    BY <1>2, <2>1 DEF Taken, Samples
<1> QED
  BY <1>1, <1>2

LEMMA InitInv == Init => ReaderInv
<1> SUFFICES ASSUME Init PROVE ReaderInv
  OBVIOUS
<1> USE BoundAssumption, CapacityAssumption DEF Init
<1>1. TypeOK
  <2>1. reader_buf \in Seq(Samples) /\ Len(reader_buf) <= reader_samples
    OBVIOUS
  <2>2. pulses \in Seq({"READER_START", "READER_STOP", "READER_TRIGGER"}) /\ Len(pulses) <= MaxPulses
    OBVIOUS
  <2>3. /\ new_data \in BOOLEAN /\ ui_trigger \in BOOLEAN /\ kept \in BOOLEAN
        /\ servo \in {"regulators", "count", "announce", "frame"}
        /\ reader \in {"idle", "clear", "wait", "pulse", "write"}
        /\ edp_state \in {1, 2}
    BY Zenon
  <2>4. /\ step_counter \in 0..MaxSteps
        /\ step_data \in [step : 0..MaxSteps, pwm : 0..MaxSteps, joints : 0..MaxSteps]
        /\ started \in 0..MaxSteps /\ written \in 0..MaxSteps /\ owed \in Nat
    OBVIOUS
  <2> HIDE DEF Init
  <2> QED
    BY <2>1, <2>2, <2>3, <2>4 DEF TypeOK
<1>2. StepDataInv /\ TakenInv
  BY DEF StepDataInv, TakenInv, Taken
<1>3. BufferInv
  BY DEF BufferInv
<1>4. SampleCoherent /\ StepsIncrease /\ OwnSamples
  BY DEF SampleCoherent, StepsIncrease, OwnSamples, Indices
<1>5. OwedInv
  BY DEF OwedInv
<1>6. PulseInv
  BY DEF PulseInv, Resting
<1> QED
  BY <1>1, <1>2, <1>3, <1>4, <1>5, <1>6 DEF ReaderInv

\* The servo thread only advances step_data and step_counter.
LEMMA ServoKeeps == ASSUME ReaderInv, Servo PROVE ReaderInv'
<1> USE BoundAssumption DEF ReaderInv
<1>1. TypeOK'
  <2>1. /\ UNCHANGED <<reader, ui_trigger, reader_buf, edp_state, pulses, started, written, kept, owed>>
        /\ servo' \in {"regulators", "count", "announce", "frame"}
        /\ new_data' \in BOOLEAN
    BY DEF Servo, Regulators, Count, Announce, JointsAndFrame, uiVars, readerVars, TypeOK
  <2>2. /\ step_counter' \in 0..MaxSteps
        /\ step_data' \in [step : 0..MaxSteps, pwm : 0..MaxSteps, joints : 0..MaxSteps]
    BY DEF Servo, Regulators, Count, Announce, Stamp, JointsAndFrame, TypeOK, StepDataInv
  <2> QED
    BY <2>1, <2>2 DEF TypeOK
<1>2. StepDataInv'
  BY DEF Servo, Regulators, Count, Announce, Stamp, JointsAndFrame, TypeOK, uiVars, readerVars, StepDataInv
<1>3. UNCHANGED <<uiVars, pulses, readerVars>> /\ step_data'.step >= step_data.step
  BY DEF Servo, Regulators, Count, Announce, Stamp, JointsAndFrame, TypeOK, StepDataInv
<1>4. (new_data' /\ ~new_data) => step_data'.step = step_data.step + 1
  <2>1. (new_data' /\ ~new_data) => Announce
    BY Zenon DEF Servo, Regulators, Count, JointsAndFrame
  <2> QED
    BY <2>1 DEF Announce, Stamp, StepDataInv, TypeOK
<1>5. BufferInv' /\ SampleCoherent' /\ StepsIncrease' /\ OwnSamples' /\ OwedInv' /\ PulseInv'
  BY <1>3 DEF BufferInv, SampleCoherent, StepsIncrease, OwnSamples, OwedInv, PulseInv, Resting,
              Indices, uiVars, readerVars
<1>6. Taken' = Taken /\ Taken \in Int /\ step_data.step \in Int /\ step_data'.step \in Int
  BY <1>1, <1>3, TakenType DEF Taken, readerVars, TypeOK
<1>7. Taken' <= step_data'.step /\ started' <= step_data'.step
  BY <1>1, <1>3, <1>6 DEF TakenInv, TypeOK, readerVars
<1>8. ASSUME reader' = "wait", new_data'
      PROVE  Taken' < step_data'.step /\ started' < step_data'.step
  <2>1. CASE new_data
    BY <1>1, <1>3, <1>6, <1>8, <2>1 DEF TakenInv, TypeOK, readerVars
  <2>2. CASE ~new_data
    <3>1. step_data'.step = step_data.step + 1
      BY <1>4, <1>8, <2>2, Zenon
    <3> QED
      BY <1>1, <1>3, <1>6, <3>1 DEF TakenInv, TypeOK, readerVars
  <2> QED
    BY <2>1, <2>2
<1>9. TakenInv'
  BY <1>7, <1>8 DEF TakenInv
<1> QED
  BY <1>1, <1>2, <1>5, <1>9

\* The user interface only changes what is under way.
LEMMA UiKeeps == ASSUME ReaderInv, Ui PROVE ReaderInv'
<1> USE DEF ReaderInv, Ui, SendPulse
<1>1. TypeOK'
  <2>1. /\ pulses' \in Seq({"READER_START", "READER_STOP", "READER_TRIGGER"})
        /\ Len(pulses') <= MaxPulses
    <3>1. /\ pulses \in Seq({"READER_START", "READER_STOP", "READER_TRIGGER"})
          /\ Len(pulses) < MaxPulses
      BY DEF TypeOK
    <3>2. PICK x \in {"READER_START", "READER_STOP", "READER_TRIGGER"} : pulses' = Append(pulses, x)
      OBVIOUS
    <3> QED
      BY <3>1, <3>2, BoundAssumption
  <2>2. edp_state' \in {1, 2} /\ UNCHANGED <<servoVars, readerVars>>
    OBVIOUS
  <2> QED
    BY <2>1, <2>2 DEF TypeOK, servoVars, readerVars
<1>2. UNCHANGED <<servoVars, readerVars>>
  OBVIOUS
<1>3. PulseInv'
  <2>1. PICK p \in {"READER_START", "READER_STOP", "READER_TRIGGER"}, n \in {1, 2} :
           /\ pulses' = Append(pulses, p) /\ edp_state' = n
           /\ p = "READER_START" <=> edp_state = 1
           /\ p = "READER_STOP" <=> n = 1
    <3>1. CASE SendPulse("READER_START", 1, 2)
      BY <3>1
    <3>2. CASE SendPulse("READER_STOP", 2, 1)
      BY <3>2
    <3>3. CASE SendPulse("READER_TRIGGER", 2, 2)
      BY <3>3
    <3> QED
      BY <3>1, <3>2, <3>3
  <2> PICK k \in Nat : k = Len(pulses)
    BY DEF TypeOK
  <2>2. /\ Len(pulses') = k + 1
        /\ pulses'[k + 1] = p /\ \A i \in 1..k : pulses'[i] = pulses[i]
    BY <2>1 DEF TypeOK
  <2>3. reader' = reader
    BY DEF readerVars
  <2>4. ASSUME NEW i \in 1..(k + 1) PROVE Resting(i)' <=> Resting(i)
    BY <2>2, <2>3 DEF Resting
  <2>5. Resting(k + 2)' <=> p = "READER_STOP"
    <3>1. k + 2 # 1 /\ (k + 2) - 1 = k + 1
      OBVIOUS
    <3> QED
      BY <2>2, <3>1 DEF Resting
  <2>6. \A i \in 1..Len(pulses') : (pulses'[i] = "READER_START") <=> Resting(i)'
    BY <2>1, <2>2, <2>4 DEF PulseInv
  <2>7. (edp_state' = 1) <=> Resting(k + 2)'
    BY <2>1, <2>5
  <2> QED
    BY <2>2, <2>6, <2>7 DEF PulseInv, Resting
<1> QED
  BY <1>1, <1>2, <1>3 DEF StepDataInv, TakenInv, Taken, BufferInv, SampleCoherent, StepsIncrease, OwnSamples,
     OwedInv, Indices, servoVars, readerVars

\* Taking the first pulse, if the reader then is where that pulse leads.
LEMMA PulseTaken ==
    ASSUME TypeOK, PulseInv, pulses # <<>>, pulses' = Tail(pulses), UNCHANGED edp_state,
           reader' \in {"idle", "write"} <=> Head(pulses) = "READER_STOP"
    PROVE  PulseInv'
<1> PICK k \in Nat : k = Len(pulses)
  BY DEF TypeOK
<1>1. /\ k > 0 /\ Len(pulses') = k - 1
      /\ \A i \in 1..(k - 1) : pulses'[i] = pulses[i + 1]
      /\ Head(pulses) = pulses[1]
  BY DEF TypeOK
<1>2. ASSUME NEW i \in 1..k PROVE Resting(i)' <=> Resting(i + 1)
  <2>1. CASE i = 1
    BY <1>1, <2>1 DEF Resting
  <2>2. CASE i # 1
    <3>1. i - 1 \in 1..(k - 1) /\ i + 1 # 1 /\ (i + 1) - 1 = i /\ (i - 1) + 1 = i
      BY <1>1, <2>2
    <3> QED
      BY <1>1, <2>2, <3>1 DEF Resting
  <2> QED
    BY <2>1, <2>2
<1>3. \A i \in 1..Len(pulses') : (pulses'[i] = "READER_START") <=> Resting(i)'
  BY <1>1, <1>2 DEF PulseInv
<1>4. (edp_state' = 1) <=> Resting(k)'
  BY <1>1, <1>2 DEF PulseInv
<1> QED
  BY <1>1, <1>3, <1>4 DEF PulseInv, Resting

\* The reader thread: a start finds the buffer empty unless the last file failed.
LEMMA StartKeeps == ASSUME ReaderInv, AwaitStart PROVE ReaderInv'
<1> USE DEF ReaderInv
<1>1. /\ reader = "idle" /\ reader' \in {"idle", "clear"} /\ started' \in 0..MaxSteps
      /\ \/ reader' = "clear" /\ started' = step_data.step
         \/ reader' = "idle" /\ started' = started
      /\ UNCHANGED <<servoVars, uiVars, ui_trigger, reader_buf, kept, written, owed>>
  <2>1. CASE Head(pulses) = "READER_START"
    <3>1. reader = "idle" /\ reader' = "clear" /\ started' = step_data.step
      BY <2>1, Zenon DEF AwaitStart
    <3>2. UNCHANGED <<servoVars, uiVars, ui_trigger, reader_buf, kept, written, owed>>
      BY DEF AwaitStart
    <3>3. step_data.step \in 0..MaxSteps
      BY DEF TypeOK
    <3> HIDE DEF ReaderInv
    <3> QED
      BY <3>1, <3>2, <3>3
  <2>2. CASE Head(pulses) # "READER_START"
    BY <2>2 DEF AwaitStart, TypeOK
  <2> QED
    BY <2>1, <2>2
<1>2. pulses' \in Seq({"READER_START", "READER_STOP", "READER_TRIGGER"}) /\ Len(pulses') <= MaxPulses
  <2>1. pulses # <<>> /\ pulses' = Tail(pulses)
    BY DEF AwaitStart
  <2>2. pulses \in Seq({"READER_START", "READER_STOP", "READER_TRIGGER"}) /\ Len(pulses) <= MaxPulses
    BY DEF TypeOK
  <2> QED
    BY <2>1, <2>2, BoundAssumption
<1>3. TypeOK'
  BY <1>1, <1>2 DEF TypeOK, servoVars, uiVars
<1>4. Taken' = Taken /\ StepDataInv'
  BY <1>1 DEF Taken, StepDataInv, servoVars
<1>5. TakenInv'
  BY <1>1, <1>4, TakenType DEF TakenInv, TypeOK, servoVars
<1>6. BufferInv'
  BY <1>1, Zenon DEF BufferInv
<1>7. SampleCoherent' /\ StepsIncrease'
  BY <1>1 DEF SampleCoherent, StepsIncrease, Indices
<1>8. OwnSamples'
  BY <1>1 DEF OwnSamples, Indices, BufferInv
<1>9. OwedInv'
  BY <1>1, Zenon DEF OwedInv, BufferInv
<1>10. PulseInv'
  <2>1. pulses # <<>> /\ pulses' = Tail(pulses) /\ Len(pulses) > 0 /\ Head(pulses) = pulses[1]
    BY DEF AwaitStart, TypeOK
  <2>2. Head(pulses) = "READER_START"
    BY <1>1, <2>1 DEF PulseInv, Resting, TypeOK
  <2>3. reader' = "clear"
    BY <2>2 DEF AwaitStart
  <2> QED
    BY <1>1, <2>1, <2>2, <2>3, PulseTaken DEF uiVars
<1> QED
  BY <1>3, <1>4, <1>5, <1>6, <1>7, <1>8, <1>9, <1>10

LEMMA ClearKeeps == ASSUME ReaderInv, ClearNewData PROVE ReaderInv'
<1> USE DEF ReaderInv
<1>1. /\ reader = "clear" /\ reader' = "wait" /\ ~new_data'
      /\ UNCHANGED <<servo, step_counter, step_data, uiVars, pulses, ui_trigger, reader_buf,
                     started, kept, written, owed>>
  BY Zenon DEF ClearNewData, NoData
<1>2. new_data' \in BOOLEAN
  BY DEF ClearNewData, NoData
<1>3. TypeOK'
  BY <1>1, <1>2 DEF TypeOK, uiVars
<1>4. StepDataInv' /\ Taken' = Taken
  BY <1>1 DEF StepDataInv, Taken
<1>5. TakenInv'
  BY <1>1, <1>4 DEF TakenInv
<1>6. BufferInv' /\ SampleCoherent' /\ StepsIncrease' /\ OwnSamples'
  BY <1>1 DEF BufferInv, SampleCoherent, StepsIncrease, OwnSamples, Indices
<1>7. OwedInv'
  BY <1>1, Zenon DEF OwedInv
<1>8. PulseInv'
  BY <1>1 DEF PulseInv, Resting, uiVars
<1> QED
  BY <1>3, <1>4, <1>5, <1>6, <1>7, <1>8

\* A sample is of a step later than all that were taken and than the start.
LEMMA SampleKeeps == ASSUME ReaderInv, TakeSample PROVE ReaderInv'
<1> USE DEF ReaderInv
<1>1. /\ reader = "wait" /\ new_data /\ reader' = "pulse"
      /\ reader_buf' = push_back(reader_buf, Sample)
      /\ UNCHANGED <<servoVars, uiVars, pulses, ui_trigger, started, kept, written>>
  BY DEF TakeSample
<1>2. Sample \in Samples
  BY DEF Sample, Samples, TypeOK
<1>3. Sample.step = step_data.step /\ Sample.pwm - Sample.step \in {0, 1} /\ Sample.joints <= Sample.step
  BY DEF Sample, StepDataInv, TypeOK
<1>4. Pushed(Samples, reader_buf, Sample, reader_buf')
  <2>1. reader_buf \in Seq(Samples) /\ Len(reader_buf) <= reader_samples
    BY DEF TypeOK
  <2>2. Pushed(Samples, reader_buf, Sample, push_back(reader_buf, Sample))
    BY <1>2, <2>1, PushBack
  <2> QED
    BY <1>1, <2>2
<1>5. /\ reader_buf' \in Seq(Samples) /\ Len(reader_buf') \in 1..reader_samples
      /\ reader_buf'[Len(reader_buf')] = Sample
  BY <1>4 DEF Pushed
<1>6. owed' = 0
  BY <1>1, SMT DEF TakeSample, OwedInv, TypeOK
<1>7. TypeOK'
  BY <1>1, <1>5, <1>6, CapacityAssumption DEF TypeOK, servoVars, uiVars
<1>8. StepDataInv'
  BY <1>1 DEF StepDataInv, servoVars
<1>9. reader_buf' # <<>> /\ Taken' = step_data.step
  BY <1>3, <1>5 DEF Taken
<1>10. TakenInv' /\ BufferInv'
  BY <1>1, <1>9, <1>7 DEF TakenInv, BufferInv, servoVars, TypeOK
<1>11. Taken < step_data.step /\ started < step_data.step
  BY <1>1 DEF TakenInv
<1>12. \A i \in 1..Len(reader_buf') :
          \/ i = Len(reader_buf') /\ reader_buf'[i] = Sample
          \/ \E j \in 1..Len(reader_buf) : reader_buf'[i] = reader_buf[j]
  <2>1. Len(reader_buf) \in Nat /\ (reader_buf # <<>> => Len(reader_buf) > 0)
    BY DEF TypeOK
  <2>2. CASE Len(reader_buf') = Len(reader_buf) + 1
    BY <1>4, <2>1, <2>2 DEF Pushed
  <2>3. CASE Len(reader_buf') = Len(reader_buf)
    <3> SUFFICES ASSUME NEW i \in 1..(Len(reader_buf') - 1)
                 PROVE  reader_buf'[i] = reader_buf[i + 1] /\ i + 1 \in 1..Len(reader_buf)
      BY <1>5, <2>1
    <3> QED
      BY <1>4, <2>1, <2>3 DEF Pushed
  <2> QED
    BY <1>4, <2>2, <2>3 DEF Pushed
<1>13. SampleCoherent'
  <2> SUFFICES ASSUME NEW i \in 1..Len(reader_buf')
               PROVE  /\ reader_buf'[i].pwm - reader_buf'[i].step \in {0, 1}
                      /\ reader_buf'[i].joints <= reader_buf'[i].step
    BY <1>5 DEF SampleCoherent, Indices
  <2>1. \A j \in 1..Len(reader_buf) : /\ reader_buf[j].pwm - reader_buf[j].step \in {0, 1}
                                       /\ reader_buf[j].joints <= reader_buf[j].step
    BY DEF SampleCoherent, Indices, TypeOK
  <2> QED
    BY <1>3, <1>12, <2>1
<1>14. OwnSamples'
  <2> SUFFICES ASSUME ~kept, NEW i \in 1..Len(reader_buf') PROVE reader_buf'[i].step > started
    BY <1>1, <1>5 DEF OwnSamples, Indices
  <2>1. \A j \in 1..Len(reader_buf) : reader_buf[j].step > started
    BY DEF OwnSamples, Indices, TypeOK
  <2>2. Sample.step > started
    BY <1>3, <1>11 DEF TypeOK
  <2> QED
    BY <1>12, <2>1, <2>2
<1>15. StepsIncrease'
  <2>1. /\ Len(reader_buf) \in Nat /\ (reader_buf # <<>> => Len(reader_buf) > 0)
        /\ \A i \in 1..Len(reader_buf) : reader_buf[i].step \in Int
        /\ written \in Int /\ step_data.step \in Int
    <3>1. \A i \in 1..Len(reader_buf) : reader_buf[i] \in Samples
      BY DEF TypeOK
    <3>2. \A i \in 1..Len(reader_buf) : reader_buf[i].step \in Int
      BY <3>1, BoundAssumption DEF Samples
    <3> QED
      BY <3>2, BoundAssumption DEF TypeOK
  <2>2. /\ \A i \in 2..Len(reader_buf) : reader_buf[i - 1].step < reader_buf[i].step
        /\ reader_buf # <<>> => /\ written < reader_buf[1].step
                               /\ reader_buf[Len(reader_buf)].step < step_data.step
        /\ reader_buf = <<>> => written < step_data.step
    <3>1. \A i \in 2..Len(reader_buf) : reader_buf[i - 1].step < reader_buf[i].step
      <4>1. DOMAIN reader_buf = 1..Len(reader_buf)
        BY DEF TypeOK
      <4>2. \A i \in 1..Len(reader_buf) : i > 1 => reader_buf[i - 1].step < reader_buf[i].step
        BY <4>1 DEF StepsIncrease, Indices
      <4>3. \A i \in 2..Len(reader_buf) : i \in 1..Len(reader_buf) /\ i > 1
        BY <2>1
      <4> QED
        BY <4>2, <4>3
    <3>2. reader_buf # <<>> => written < reader_buf[1].step
      BY DEF StepsIncrease
    <3>3. /\ reader_buf # <<>> => reader_buf[Len(reader_buf)].step < step_data.step
          /\ reader_buf = <<>> => written < step_data.step
      BY <1>11 DEF Taken
    <3> QED
      BY <3>1, <3>2, <3>3
  <2>3. /\ \A i \in 2..Len(reader_buf') : reader_buf'[i - 1].step < reader_buf'[i].step
        /\ written < reader_buf'[1].step
    <3>1. CASE Len(reader_buf') = Len(reader_buf) + 1
      <4>1. \A i \in 1..Len(reader_buf) : reader_buf'[i] = reader_buf[i]
        BY <1>4, <2>1, <3>1 DEF Pushed
      <4>2. reader_buf'[Len(reader_buf) + 1].step = step_data.step
        BY <1>3, <1>5, <3>1
      <4>3. ASSUME NEW i \in 2..Len(reader_buf')
            PROVE  reader_buf'[i - 1].step < reader_buf'[i].step
        <5>1. CASE i = Len(reader_buf) + 1
          BY <2>1, <2>2, <4>1, <4>2, <5>1
        <5>2. CASE i \in 2..Len(reader_buf)
          BY <2>1, <2>2, <4>1, <5>2
        <5> QED
          BY <2>1, <3>1, <5>1, <5>2
      <4>4. written < reader_buf'[1].step
        BY <2>1, <2>2, <4>1, <4>2
      <4> QED
        BY <4>3, <4>4
    <3>2. CASE Len(reader_buf') = Len(reader_buf)
      <4>1. /\ Len(reader_buf) > 0
            /\ \A i \in 1..(Len(reader_buf) - 1) : reader_buf'[i] = reader_buf[i + 1]
        BY <1>4, <2>1, <3>2 DEF Pushed
      <4>2. reader_buf'[Len(reader_buf)].step = step_data.step
        BY <1>3, <1>5, <3>2
      <4>3. ASSUME NEW i \in 2..Len(reader_buf')
            PROVE  reader_buf'[i - 1].step < reader_buf'[i].step
        <5>1. reader_buf'[i - 1] = reader_buf[i]
          BY <2>1, <3>2, <4>1
        <5>2. CASE i = Len(reader_buf)
          BY <2>1, <2>2, <4>1, <4>2, <5>1, <5>2
        <5>3. CASE i \in 2..(Len(reader_buf) - 1)
          <6>1. reader_buf'[i] = reader_buf[i + 1]
            BY <2>1, <4>1, <5>3
          <6>2. i + 1 \in 2..Len(reader_buf) /\ (i + 1) - 1 = i
            BY <2>1, <5>3
          <6>3. reader_buf[i].step < reader_buf[i + 1].step
            BY <2>2, <6>2
          <6> QED
            BY <5>1, <6>1, <6>3
        <5> QED
          BY <2>1, <3>2, <5>2, <5>3
      <4>4. written < reader_buf'[1].step
        <5>1. CASE Len(reader_buf) = 1
          BY <2>1, <2>2, <4>1, <4>2, <5>1
        <5>2. CASE Len(reader_buf) > 1
          <6>1. reader_buf'[1] = reader_buf[2]
            BY <2>1, <4>1, <5>2
          <6> QED
            BY <2>1, <2>2, <5>2, <6>1
        <5>3. Len(reader_buf) = 1 \/ Len(reader_buf) > 1
          <6>1. \A n \in Nat : n > 0 => n = 1 \/ n > 1
            OBVIOUS
          <6>2. Len(reader_buf) \in Nat /\ Len(reader_buf) > 0
            BY <2>1, <4>1
          <6> QED
            BY <6>1, <6>2, Zenon
        <5> QED
          BY <5>1, <5>2, <5>3
      <4> QED
        BY <4>3, <4>4
    <3> QED
      BY <1>4, <3>1, <3>2 DEF Pushed
  <2> QED
    BY <1>1, <1>5, <2>3 DEF StepsIncrease, Indices
<1>16. OwedInv'
  BY <1>1, <1>6 DEF OwedInv
<1>17. PulseInv'
  BY <1>1 DEF PulseInv, Resting, uiVars
<1> QED
  BY <1>7, <1>8, <1>10, <1>13, <1>14, <1>15, <1>16, <1>17

\* A pulse is looked at between two samples; its trigger is for the next one.
LEMMA PulseKeeps == ASSUME ReaderInv, CheckPulse PROVE ReaderInv'
<1> USE DEF ReaderInv
<1>1. /\ reader = "pulse" /\ reader' \in {"clear", "write"}
      /\ UNCHANGED <<servoVars, uiVars, reader_buf, started, kept, written>>
  BY DEF CheckPulse
<1>2. PICK p : /\ ui_trigger' = (p = "READER_TRIGGER")
               /\ owed' = IF p = "READER_TRIGGER" THEN owed + 1 ELSE owed
               /\ reader' = IF p = "READER_STOP" THEN "write" ELSE "clear"
  BY DEF CheckPulse, TriggerOf
<1>3. owed = 0
  BY <1>1 DEF OwedInv
<1>4. /\ ui_trigger' \in BOOLEAN /\ owed' \in Nat
      /\ OwedInv' /\ (reader' = "write" => ~ui_trigger')
  <2>1. CASE p = "READER_TRIGGER"
    <3>1. ui_trigger' /\ ui_trigger' \in BOOLEAN /\ owed' = owed + 1 /\ reader' = "clear"
      BY <1>2, <2>1, Zenon
    <3>2. owed' = 1
      BY <1>3, <3>1
    <3> QED
      BY <3>1, <3>2 DEF OwedInv
  <2>2. CASE p # "READER_TRIGGER"
    <3>1. ~ui_trigger' /\ ui_trigger' \in BOOLEAN /\ owed' = 0
      BY <1>2, <1>3, <2>2, Zenon
    <3> QED
      BY <3>1 DEF OwedInv
  <2> QED
    BY <2>1, <2>2
<1>5. pulses' \in Seq({"READER_START", "READER_STOP", "READER_TRIGGER"}) /\ Len(pulses') <= MaxPulses
  <2>1. pulses \in Seq({"READER_START", "READER_STOP", "READER_TRIGGER"}) /\ Len(pulses) <= MaxPulses
    BY DEF TypeOK
  <2>2. CASE pulses = <<>>
    BY <2>1, <2>2, BoundAssumption DEF CheckPulse
  <2>3. CASE pulses # <<>>
    BY <2>1, <2>3, BoundAssumption DEF CheckPulse
  <2> QED
    BY <2>2, <2>3
<1>6. TypeOK'
  BY <1>1, <1>4, <1>5 DEF TypeOK, servoVars, uiVars
<1>7. StepDataInv' /\ Taken' = Taken
  BY <1>1 DEF StepDataInv, Taken, servoVars
<1>8. TakenInv'
  BY <1>1, <1>7 DEF TakenInv, servoVars
<1>9. BufferInv'
  BY <1>1, <1>4 DEF BufferInv
<1>10. SampleCoherent' /\ StepsIncrease' /\ OwnSamples'
  BY <1>1 DEF SampleCoherent, StepsIncrease, OwnSamples, Indices
<1>11. PulseInv'
  <2>1. CASE pulses = <<>>
    BY <1>1, <2>1 DEF CheckPulse, PulseInv, Resting, uiVars
  <2>2. CASE pulses # <<>>
    BY <1>1, <2>2, PulseTaken DEF CheckPulse, uiVars
  <2> QED
    BY <2>1, <2>2
<1> QED
  BY <1>4, <1>6, <1>7, <1>8, <1>9, <1>10, <1>11

\* A file takes all samples, or none.
LEMMA WriteKeeps == ASSUME ReaderInv, WriteFile PROVE ReaderInv'
<1> USE DEF ReaderInv
<1>1. /\ reader = "write" /\ reader' = "idle"
      /\ UNCHANGED <<servoVars, uiVars, pulses, ui_trigger, started, owed>>
  BY DEF WriteFile
<1>2. reader_buf # <<>> /\ ~ui_trigger /\ Taken = reader_buf[Len(reader_buf)].step
  BY <1>1 DEF BufferInv, Taken
<1>3. StepDataInv'
  BY <1>1 DEF StepDataInv, servoVars
<1>4. OwedInv'
  BY <1>1, <1>2, Zenon DEF OwedInv
<1>7. PulseInv'
  BY <1>1 DEF PulseInv, Resting, uiVars
<1>5. CASE /\ reader_buf' = <<>> /\ ~kept' /\ kept' \in BOOLEAN
           /\ written' = reader_buf[Len(reader_buf)].step
  <2>1. Taken' = Taken /\ written' \in 0..MaxSteps
    BY <1>2, <1>5, TakenType DEF Taken
  <2>2. TypeOK'
    BY <1>1, <1>5, <2>1, CapacityAssumption DEF TypeOK, servoVars, uiVars
  <2>3. TakenInv' /\ BufferInv'
    BY <1>1, <1>2, <1>5, <2>1 DEF TakenInv, BufferInv, servoVars
  <2>4. SampleCoherent' /\ StepsIncrease' /\ OwnSamples'
    BY <1>5 DEF SampleCoherent, StepsIncrease, OwnSamples, Indices
  <2> QED
    BY <1>3, <1>4, <1>7, <2>2, <2>3, <2>4
<1>6. CASE kept' /\ kept' \in BOOLEAN /\ UNCHANGED <<reader_buf, written>>
  <2>1. TypeOK' /\ Taken' = Taken
    BY <1>1, <1>6 DEF TypeOK, Taken, servoVars, uiVars
  <2>2. TakenInv' /\ BufferInv'
    BY <1>1, <1>2, <1>6, <2>1 DEF TakenInv, BufferInv, servoVars
  <2>3. SampleCoherent' /\ StepsIncrease' /\ OwnSamples'
    BY <1>6 DEF SampleCoherent, StepsIncrease, OwnSamples, Indices
  <2> QED
    BY <1>3, <1>4, <1>7, <2>1, <2>2, <2>3
<1> QED
  BY <1>5, <1>6 DEF WriteFile, BufferDrained, Last

LEMMA Invariance == Spec => []ReaderInv
<1>1. ReaderInv /\ [Next]_vars => ReaderInv'
  <2> SUFFICES ASSUME ReaderInv, [Next]_vars PROVE ReaderInv'
    OBVIOUS
  <2>1. CASE Servo
    BY <2>1, ServoKeeps
  <2>2. CASE Ui
    BY <2>2, UiKeeps
  <2>3. CASE ReaderThread
    BY <2>3, StartKeeps, ClearKeeps, SampleKeeps, PulseKeeps, WriteKeeps DEF ReaderThread
  <2>4. CASE UNCHANGED vars
    BY <2>4 DEF ReaderInv, TypeOK, StepDataInv, TakenInv, Taken, BufferInv, SampleCoherent,
       StepsIncrease, OwnSamples, OwedInv, PulseInv, Resting, Indices, vars, servoVars, uiVars, readerVars
  <2> QED
    BY <2>1, <2>2, <2>3, <2>4 DEF Next
<1> QED
  BY InitInv, <1>1, PTL DEF Spec

\* The variables keep their types; the buffer never exceeds its capacity.
THEOREM TypeCorrect == Spec => []TypeOK
<1>1. ReaderInv => TypeOK
  BY DEF ReaderInv
<1> QED
  BY Invariance, <1>1, PTL

\* A sample mixes fields of neighbouring steps only, however late it is taken.
THEOREM Coherent == Spec => []SampleCoherent
<1>1. ReaderInv => SampleCoherent
  BY DEF ReaderInv
<1> QED
  BY Invariance, <1>1, PTL

\* No step is measured twice, in one file or in two.
THEOREM Increasing == Spec => []StepsIncrease
<1>1. ReaderInv => StepsIncrease
  BY DEF ReaderInv
<1> QED
  BY Invariance, <1>1, PTL

\* A measurement holds only steps made after its start was received.
THEOREM Own == Spec => []OwnSamples
<1>1. ReaderInv => OwnSamples
  BY DEF ReaderInv
<1> QED
  BY Invariance, <1>1, PTL

\* A trigger given during a measurement marks exactly one sample of it.
THEOREM MarksOne == Spec => []TriggerMarksOne
<1>1. ASSUME ReaderInv PROVE TriggerMarksOne
  <2>1. ASSUME reader = "idle", pulses # <<>> PROVE Head(pulses) = "READER_START"
    <3>1. 1 \in 1..Len(pulses) /\ Head(pulses) = pulses[1]
      BY <1>1, <2>1 DEF ReaderInv, TypeOK
    <3> QED
      BY <1>1, <2>1, <3>1 DEF ReaderInv, PulseInv, Resting
  <2> QED
    BY <1>1, <2>1 DEF ReaderInv, OwedInv, TriggerMarksOne
<1> QED
  BY Invariance, <1>1, PTL
=============================================================================
