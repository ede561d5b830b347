# MRROC++ in TLA+

MRROC++ is a framework for robot controllers.  A controller is a set of processes
connected by messages (messip); this directory holds TLA+ specifications of its core,
their TLC configurations and their TLAPS proofs.  Paths are relative to the root of the
repository; `base/` stands for `src/base/`.

## The system

| component | state | operations | interacts with |
|---|---|---|---|
| **MP** (`base/mp`) multi-robot task | the map of robots, their last replies, the pulses of the user interface | start, stop, pause, resume, trigger; generators that drive the ECPs | ECPs over agents, UI by pulses |
| **ECP** (`base/ecp`) one task per robot | the last MP command, the reply, the robot's image | wait for start, execute next state, generators that move the robot | MP, its EDP, VSPs |
| **ECP robot proxy** (`base/ecp/ecp_robot.h`) | command and reply package, `synchronised` | `execute_motion`, `query`, `synchronise` | EDP master |
| **EDP master thread** (`base/edp/edp_e_motor_driven.cc`) | the state of three message loops, the reply kept for the QUERY, `is_synchronised` | receive, acknowledge, execute, answer the QUERY, five kinds of exceptions | ECP and UI, the transformation thread |
| **EDP transformation thread** (`base/edp/manip_trans_t.cc`, `trans_t.h`) | the order buffer, two condition synchronisers, the error | executes orders; interpolates task-space moves | EDP master, servo thread |
| **EDP servo thread** (`base/edp/servo_gr.cc`) | command and reply buffers, the pending error, the step in the macro step | passive step, macro step, read, change of algorithm, synchronisation | the thread that executes instructions, the drives, the reader |
| **EDP reader thread** (`base/edp/reader.cc`) | `step_data`, `new_data`, the circular buffer, the trigger | start, sample, trigger, stop, write the file | servo thread, UI by pulses |
| **EDP force sensor thread** (`base/edp/edp_force_sensor.cc`) | one order slot, two synchronisers, the force tool, the state of the sensor | connect, configure, set tool, read | EDP master, servo thread |
| **EDP shell** (`base/edp/edp_shell.cc`, `edp_m.cc`) | a pid file per robot | detect a busy hardware, claim it, give it back | other EDPs of the robot, the process that starts it |
| **VSP** (`base/vsp`) | sensor state machine | configure, initiate, get reading | ECP, MP |
| **UI** (`src/ui-qt`): process control | the state of every EDP and of the MP, the menus, the threads of the robots | load, synchronise, unload; derive whether the MP may be loaded | EDPs and MP as child processes |
| **UI**: questions | the last message, the reply, one synchroniser, the open dialogs | receive a question, raise its window, answer | MP and ECPs, blocked until the reply |
| **UI**: panels | buttons, its own ECP robots | pulses to MP, ECPs and the reader | MP, ECP, EDP |
| **lib** (`base/lib`) | agents and buffers, condition synchronisers, messip, configuration, logs | send, receive, wait, command | all |

Hard behaviours: the servo thread answers a move before the move has ended, and so does
the transformation thread to the master; errors found when nobody waits must reach
somebody; two clients may talk to one EDP; a client may die between the two messages of a
dialogue; any step of a synchronisation may fail; loops that wait for a switch have no
time limit; sensors and pulses are polled.  The hazards, each at its line, are listed in
`PROJECT.json`.

### What makes each component correct

* servo thread: a fault is reported exactly once and never lost; each command has one
  reply, of its own; a move is reported at the step it asks for; nothing moves without
  the client knowing; only zeroed axes serve ordinary instructions.
* transformation thread: one release per order; errors thrown in the master; the order
  buffer never written while it is read; every order that looks for no switch ends.
* EDP master: one reply per message; the QUERY gets the result of the instruction it
  follows; `SYNCHRO_OK` only after a synchronisation.
* force sensor: the master is released by its own order, an order that is not overwritten
  is carried out although the driver throws, the tool is never read while it is written.
* reader: the steps of a file increase and are its own, a sample is coherent, a trigger
  marks one sample.
* hardware-busy file: at most one EDP has the hardware of a robot, and the file names it.
* UI, process control: a loaded robot is connected to its own EDP, an unloading ends, the
  MP may be loaded only over ready EDPs.  UI, questions: every question is shown and
  answered, with its own answer.
* MP and ECP: commands and acknowledgements stay paired through stop, pause and errors;
  after a stop every ECP waits for a start.

## The modules

| module | models | runs |
|---|---|---|
| `ServoCall` | what `send_to_SERVO_GROUP` promises its caller (abstract) | property of `servo_group` |
| `ServoGroup` | servo thread and its client | `servo_group` |
| `TransThread` | transformation thread, its synchronisers and the master's side of an order | `trans_thread` |
| `EdpMaster` | the message loops of the EDP and its clients | `edp_master`, `edp_reply` |
| `MpEcp` | MP, its generators, the ECPs, their buffers and the buttons of the UI | `mp_ecp`, `mp_stop`, `mp_stale_ack` |
| `ForceSensor` | force sensor thread, with the master and the servo thread that order it | `force_sensor` |
| `Reader` | reader thread, with the servo thread that fills a sample and the UI's pulses | `reader` |
| `HardwareBusy` | the EDP processes and their pid files; its specification says what a starter must respect (abstract for `UiProcesses`) | property of `ui_processes` |
| `UiProcesses` | process control of the UI, composed with `HardwareBusy` | `ui_processes`, `ui_load_twice` |
| `UiDialogs` | the questions to the operator: the asking processes, the thread `comm`, the window | `ui_dialogs` |
| `ServoGroupProofs`, `TransThreadProofs`, `EdpMasterProofs`, `MpEcpProofs`, `ForceSensorProofs`, `ReaderProofs`, `UiProcessesProofs` (with those of `HardwareBusy`), `UiDialogsProofs` | theorems | - |
| `MC*` | model-checking instances | - |

### ServoGroup

State: `servo_command`, `servo_command_rdy`, `sg_reply`, `sg_reply_rdy`, `command`,
`reply_status` and `send_after_last_step` are the variables of `servo_buffer`; `spc` is
the place in `operator()` (the passive step, a macro step, a phase of `synchronise`) and
`step` the counter of the loop there.  `mpc` is the place of the client inside
`send_to_SERVO_GROUP`; `op` and `loop` tell which operation and which loop of
`edp_e_motor_driven.cc` it belongs to.  A C++ block that holds no blocking call between
two accesses to shared state is one action; `send_to_SERVO_GROUP` is three (raise the
flag, wake up, read the reply outside the mutex).

Abstractions.  `lag` stands for all positions: it is the distance between the position the
client has commanded (`desired_motor_pos_old`) and the one the servo thread has driven to.
Error words are sets of bits, so that the `|=` of the code is a union and two error codes
that share bits collide as they do in the code.  A reading of the synchronised axis is a
member of `AxisReading`.  Readings that only repeat a loop are no steps.  Real values,
regulators, ramps, and the reader's sample are left out.  Three variables are history:
`zeroed`, `unreported`, `faulted`.

### TransThread

`ordered` and `released` are the `has_command` bits of the two condition synchronisers;
`tmp_cmd`, `current_cmd` and `error` are those of `trans_t`.  The orders other than
`MT_MOVE_ARM` and `MT_SYNCHRONISE` only call a method of the effector and are one;
`Synchronise` is an action of its own, because its loops in the servo thread have no time
limit.  `manipulator` says whether the effector overrides `multi_thread_move_arm` with the
task-space interpolation.  `step` counts the loop of `iterate_macrostep`.  A failure is any
exception the catch clauses catch, except `System_error`, which ends the process;
`catch (...)` releases the master with `error` as it was, `NO_ERROR` (`Caught`).  History:
`latest`, `fresh`, `answered`, `twice`, `thrown`.

### EdpMaster

`loop` and `next_state` say where `main_loop` is; `caller` is the client of the message
received last, `None` once it has been replied to (a reply without one ends in the
assertion of `messip_reply`).  `reply` keeps what a client can tell apart (`type`) and, as
history, for whose instruction it was built and whether that succeeded.  `position_read`,
history too, tells a synchronisation that read the position back from one that failed
there and left `is_synchronised` set (`edp_e_motor_driven.cc:499`).  `Accept`,
`Refuse` and `Tell` are the three things a loop does with a message; what differs between
the handlers of `NonFatal_error_1` to `NonFatal_error_4` and `Fatal_error` is kept.
A client is a pair of messages (`ecp_robot.h`), may be killed between them, and may go on
to synchronise.

### MpEcp

`mp` is the function MP is in: `wait_for_start`, `start_all`, the user program
(`algorithm`), `receive_ui_or_ecp_message` (`receive`), `wait_for_stop` or
`terminate_all`; `not_confirmed`, `paused`, `ui_exit` and `ecp_exit` are the locals of
these functions.  `ecp` is the function each ECP is in, or the kind of state it executes.
`ui_pulse` and `reply` are the input buffers of MP with their `fresh` flags; `pulses`,
`cmds` and `replies` are what is sent and not yet received.  The buffer of an ECP is not
a variable: an ECP looks at each command as it receives it.  A step of MP is everything it
does between two receives, the commands it sends included; a step of an ECP is one command
with its answer, the end of a generator, or an exception that reaches `main`.

The user program is any sequence of the base generators that orders states of robots that
have none, ends or awaits what it has ordered, coordinates robots in the transparent
state, or waits a while (`given` is what such a program knows).  A state is `own`, which
may end by itself, or `transparent`, which only commands drive.  `Erasures` stands for the
loops that erase elements of the map they traverse: some of those due are erased, at
least one.

Abstractions.  Which sender is received first is open, each sender's messages stay in
order.  The payload of states and poses, sensors' values and trajectories are left out.
A receive that does not block finds nothing only if nothing has been sent.  Exits of a
process, ECP tasks that replace `main_task_algorithm` and start a second generator after
an `END_MOTION` are not modelled.

### ForceSensor

`force` is the place of the sensor thread, which holds `mtx` only at `execute` and
`finish`; `command`, `new_edp_command` and `next_force_tool` are the slot the master and
the servo thread write under the same lock; `has_command` and `round_made` are the bits
of `new_command_synchroniser` and `edp_vsp_synchroniser`.  `new_edp_command` is read
without the lock, so that reading it and locking are two actions.  A driver may throw in
each of `ErrorSites`; what the two drivers compute is left out.  History: `measured` (a
reading has returned; the code's `is_reading_ready` is set before the driver may throw),
`pending` and `dropped` (what the slot stands for and what was overwritten), `asked`.

### Reader

`servo` is the place of the servo thread in a step, as far as it touches `step_data`:
the fields of the regulators, the count of steps, which is raised without the lock, the
announcement with `step_counter`, then joints and frame.
Each field is stamped with the step it was computed in, values are left out.  `reader` is
the place of the reader thread; it clears `new_data` without the lock, which is an action
of its own.  `edp_state` and `pulses` are the UI's side.  History: `started` (the last step
announced when the measurement started), `kept`, `written`, `owed`.

### HardwareBusy and UiProcesses

Each system call of `detect_hardware_busy` and `close_hardware_busy_file` is an action.
`pstate` is the place of a process in them and in `main`, `signalled` holds those with a
`SIGTERM` not handled yet, `file` and `port` are the pid file and the attach point of each
robot.  A process that has ended is a zombie, for which `/proc` still answers, until its
parent waits for it; a pid that has been read from an empty file is uninitialised, so that
both answers of the look at `/proc` are possible.  The file operations of
`detect_hardware_busy` may fail and leave what is there (`DetectFails`).  In
`close_hardware_busy_file` the look whether the file is there and the reading of it are one
action, since only the process itself writes its pid.  `HardwareSpec` allows any kills, ends
and signals, and a start of an EDP whenever no other EDP of the robot still looks at the
file.

`UiProcesses` extends it with the UI: `thread` is the place of a robot's own thread in
`edp_create_int` and `synchronise_int` (`connected` is between the release of
`process_creation_mtx` and `state.edp.state = 1`), `com_fun` what is queued for it, `gui` the
place of the window's thread inside an unloading, `refresh` the queued
`manage_interface_signal`, `menu` what was enabled when the menus were last drawn (the
operator can only choose that), `mp_*` the MP and the thread that loads it.  `waitpid` is
called with -1 and takes any child that has ended.  "Unload all" may be chosen under a loaded
MP, because `manage_interface` of an irp6 manipulator enables it again
(`ui_r_irp6ot_m.cc:151`).  The handler of `ECP_main_error` around the dialogue with a new EDP
(`ui_robot.cc:104`) is not modelled: only the constructor of the robot object throws that, and
it has returned by then.  Two assumptions are stated in the module: the retries of
`connect_to_edp` last longer than an EDP takes to start (`StartIsOver`), and the operator does
not unload a robot whose creation still runs (`thread # "state"`).  `Patient` adds that no
robot gets a command while its thread is busy.  `UiProcesses` is shown to implement
`HardwareSpec`.

### UiDialogs

`comm` is the place in the loop of the thread; the message, the reply and
`communication_state` are shared without a lock, `slots` are queued signals, `window` the
handler that runs, `files` the file dialogs that are open one inside the other (they run
an event loop of their own).  What a reply holds is abstracted to its origin (`ui_rep`):
given in a dialog opened for this message, in another one, or before the message came.
`MESSAGE` has no answer to give: the window replies at once.  The kinds of question with a
dialog that closes when it answers are one set (`Questions`); the teaching dialog stays
open after a move.  `Cover` is a hide event of a dialog that stays: the dialogs are tabs of
the main window, which may be minimised or show another tab (`wgt_base::my_open` raises
the one it opens).  History: `current` (the dialogs opened for this message), `left_open`
(a dialog has answered and stayed open).

## The runs

| run | instance and bounds | shows |
|---|---|---|
| `servo_group` | 2 axes, macro steps of 1..2 steps, `value_in_step_no` 0..3, 2 waiting steps, lag up to 3 | faults, replies, phases, drift, zeroing; liveness of a command; implementation of `ServoCall` |
| `trans_thread` | moves of 0..3 steps, `value_in_step_no` 0..4 | pairing of orders and releases, errors, order buffer; liveness of every order but a synchronisation and the macro steps that never answer |
| `edp_master` | one client, which may die | the result is the client's own; synchronisation is told truly; every call is answered, unless a synchronisation never ends |
| `edp_reply` | one client | violation: some messages are replied to twice |
| `mp_ecp` | two robots, 4 presses of a button, 2 generators between two stops | until a sensor has failed: the next start finds every ECP waiting, whichever way a run ended; no acknowledgement waited for is lost |
| `mp_stop` | one robot, sensors may throw, 4 presses, 2 generators | no ECP is forgotten in a pause; an acknowledgement waited for is on its way; a last STOP ends the task (liveness) |
| `mp_stale_ack` | one robot, 4 presses, 2 generators | violation: the acknowledgement of another command is taken for that of STOP |
| `force_sensor` | two tools, a driver that may throw everywhere | who is released by what, which orders are lost; every other one ends (liveness) |
| `reader` | a buffer of 2 samples, 5 steps, 2 pulses under way | what a file of measurements may contain |
| `ui_processes` | two robots and 3 process ids (both symmetric), the MP, one process that ends unbidden, an operator who waits for a robot's thread | one EDP per robot, its own; unloading ends; permission of the MP; implementation of `HardwareSpec` |
| `ui_load_twice` | two robots, 2 process ids, an impatient operator | violation: a robot shown loaded over an EDP that was refused |
| `ui_dialogs` | two processes that ask, two kinds of question beside teaching, messages and files, 3 queued signals and file dialogs | every question is shown and answered (liveness), with its own answer unless a dialog stayed open |

Why the bounds are enough.  A macro step interacts with the client only through the comparison
of its counter with `value_in_step_no`; two steps give a first, a last and a step in between
before and after the answer, and `value_in_step_no` ranges from zero to one past the longest
move.  Two axes give a first and a last one; three steps of a task-space move allow a release
in the middle.  `MaxLag` bounds moves queued behind one failure, more of which only add up.  A
client of the EDP has at most one message on its way; that no client is forgotten or deceived
is proved for any number of them.  Four presses give a start, a pause or trigger, a stop and a
new start, or a start and a stop twice; two generators order a state and then await, end or
coordinate it.  The robots of a task only meet in MP's loops over all of them, so that two
show one robot done and the other not.  `AcknowledgeComing` and `StopEndsTask` are checked
with one robot: with two fresh acknowledgements the erasing inside the traversal
(`mp_task.cc:374`) has no defined outcome, and in one of those the model allows MP waits for
ever; what remains true with any number of robots is `AcknowledgeNotLost`, checked with two
and proved.  A buffer of two samples overflows in five steps, which also hold two
measurements.  In `mp_ecp` no sensor fails: both its properties except the states after a
failure, and those before the first failure are the states of the instance without.  A robot's
pid file is only shared by EDPs of that robot: three processes are one that has the hardware,
one refused and one of the other robot; `file` may hold anything in the proofs about
`HardwareSpec`.  All robots keep their unload item under a loaded MP, as the conveyor does,
which only adds choices to those of the others.  One process that ends unbidden is enough for
`waitpid` to take the wrong child.  Two askers give a question that waits while the other is
answered.

Deadlock is checked except in `trans_thread`, where a move that never releases the master
stops both threads, in the runs of `MpEcp`, where the user has no presses left and MP
waits for one, in `force_sensor`, where the process may exit at the start, and in
`reader`, where the servo thread stops at the bound.

Fairness.  The servo thread is a periodic loop that waits for nobody: weak fairness of its
passes, not of a synchronisation, whose loops may look for a switch for ever.  The
transformation thread and the waiting master run when their synchroniser is set: weak fairness
of the master, and of everything the thread does but a synchronisation (`BoundedWork`), which
waits for the servo thread's.  The EDP takes a message when there is one, and a client in the
middle of a call goes on.  Nothing makes a new command, order or call arrive, and which of two
waiting messages is taken first is left open.  MP and an ECP with a command go on (weak
fairness); MP does not pass over a pulse for ever in favour of replies, since it receives much
faster than a generator step takes (strong fairness of receiving a pulse).  Nobody presses a
button, ends a motion or fails because it must.  The force sensor thread goes on (weak
fairness), and a driver that is called again and again does not throw for ever (strong
fairness of a configuration and of a reading); a master that has been released goes on.  In
the UI the thread and the event loop go on and the operator does something with a dialog that
is open; nothing makes a process ask.

## What is proved

The theorems hold for every value of the constants, under the assumptions the modules
name (naturals, not zero where the code divides or loops; values that stand for nothing
are not members of the sets beside them).  Almost none of the properties is inductive
alone; each proof module holds the strengthening it needs.  The type invariants are
proved for every module, so the runs do not repeat them.

* `ServoGroup`: type correctness, the five other invariants,
  `ReplyStableWhileRead`, and the implementation of `ServoCall`.  The inductive invariant
  is a conjunction of named parts, each with a lemma of its own: the handshake (a command
  is in exactly one of the buffers, the command, the reply or none, and the number of
  replies owed agrees with the place of both threads), the progress of a move (`done`
  agrees with `step`, `r` and `n`), the pending error (no command is executed while one is
  pending), the drift (`lag` is the number of steps waiting and running, unless an error
  is on its way or has been seen), and the zeroed axes (those before `axis` while a
  synchronisation runs, all when it has succeeded).  The refinement maps the phase of the
  call, `reply_status # OK` and the error of the reply to the variables of `ServoCall`.
* `TransThread`: type correctness, the two invariants and the two action properties the run
  checks, and that only a step of a task-space move that fails after the early release
  releases the master twice (`TwiceOnlyByLateFailure`).  The invariant says who owns the turn:
  as long as no order was released twice, exactly one of the master and the thread is between
  an order and its release, except behind an early release; and an error that has not been
  thrown belongs to a release on its way.
* `EdpMaster`: type correctness, `CallerReplied` and `SynchronisedTruly` for any clients,
  `ResultIsOwn` for one.  `CallerInv` says that the caller is set only between a receive
  and its reply; `SyncInv` follows a synchronisation that has been made from the servo
  call to the reply the QUERY will take; the invariant of `ResultIsOwn` follows an
  instruction from the client through the EDP to the reply, a client killed in between
  included.  `SynchronisedTruly` does not follow from `is_synchronised`, which a failed
  reading leaves set: it is what the handlers of the exceptions do that keeps it.
* `MpEcp`, for any robots: type correctness; `StartFindsEcpWaiting` as long as no sensor
  has failed; `PauseIsEnded`, the exceptions of sensors included; `AcknowledgeNotLost`; and,
  for a single robot, `AcknowledgeComing`.  For the first, `QueueInv` says of each robot's
  queue that a START_TASK in it is the first command of a waiting ECP or follows a STOP
  (`Ordered`), and that while MP is in `wait_for_start` or `terminate_all` whatever is queued
  leads to the wait (`Stops`).  It is an invariant until the first exception of a sensor,
  after which the property does not hold, see below.  For the second, `PauseInv` says where
  MP may be while a robot is in `wait_for_resume` (`Stuck`) and that otherwise no robot gets
  there (`Calm`).  For the acknowledgements, `AskInv` says of each robot MP waits for that
  what it has been asked is its last command (`Asked`), or that the ECP has answered as the
  last thing it did and the answer is the last in the channel (`AnswerSent`) or lies fresh in
  the buffer (`AnswerKept`), which only another robot's message can bring about.
* `ForceSensor`: type correctness, the three invariants the run checks, that the master goes
  on only after a measurement (`FirstReadingMade`), and that only the order given after the
  synchronisation ever overwrites another (`SafeAfterPostSynchro`).  The
  invariant relates the slot to what it stands for and to the places of both threads.
* `Reader`: type correctness and the four invariants.  The invariant orders the stamps of
  `step_data`, of what is in the buffer and of what has been written, and says that an
  announcement not taken yet is newer than all of them; for `TriggerMarksOne`, that a start
  and the pulses after it arrive in the order in which the panel lets them be sent.
* `HardwareBusy`: type correctness, `OneEdp` and `ClaimKept` for any robots and pids and
  any initial files: at most one EDP of a robot looks at the file, the file names the
  holder, a pid that has been read is that of the holder if there is one, and who is about
  to replace the file replaces nobody's.
* `UiProcesses`, for any robots and pids and an impatient operator, except where it is said:
  type correctness, the implementation of `HardwareSpec`, hence `OneEdp` and `ClaimKept` of
  the EDPs the UI starts, and the other three invariants of `ui_processes`.
  * `HardwareSpec` asks that no EDP is started while another of the robot looks at the file.
    `LooksInv` says that whoever looks is the process the robot object names, and that the
    robot is being connected or loaded; `CreateInv`, that the object names a process only
    then, and that only a robot that is not loaded is created.  A thread leaves `connect`
    when the attach point is served, or when the retries run out with its EDP no longer
    starting (`StartIsOver`): the theorem rests on that assumption.
  * `PermissionFollowsEdps` is inductive beside `UiInv`, the conjunction of these:
    whatever spoils it leaves a refresh, a busy thread or an unloading under way.
  * `SlayReturns`: `waitpid(-1)` may take another robot's child, so that it does not follow
    from the signal just sent.  `Matched` maps the robots whose EDP has been taken by
    another wait, and the wait under way, one to one into the processes no robot object names
    any more (`Orphans`), each of which has ended or been told to.
  * `ConnectedToOwn` needs `Patient`.  `HeldInv` says whose each child is (a loaded robot's, a
    thread's that connects, or the unloading's), that a robot has one at most, and that
    its file and its attach point are there only while that one has them.  It holds until a
    child ends unbidden, as the property does.
  * `OneMp`: no second MP is started while the first is there, although `MPup_int` looks at
    its pid only; the window forgets that pid only when the process is gone.
* `UiDialogs`: type correctness, `QuestionShown` and `AnswerIsOwn`.  `OneQuestion` says
  that, as long as no dialog has answered and stayed open, at most one of a queued signal, an
  open dialog, a running handler and an answer exists, and which of them at which place of
  the thread.

Only model-checked: liveness (`CommandAnswered`, `OrderAnswered`, `ClientReplied`,
`StopEndsTask`, `OrdersEnd`, `StartEnds`, `QuestionAnswered`), since fairness is out of the
prover's reach.  Every invariant, every action property and both refinements the runs check
are theorems, with two limits: `ResultIsOwn` is proved for one client and
`AcknowledgeComing` for one robot, because neither holds with more.

## What the violations show

The three violation runs state what a comment or an assertion of the repository says;
`PROJECT.json` quotes the line of each.  They are disagreements met while modelling, kept
so that a change of the code can be checked against them.

Others were met, and are excepted by a property or left without one:

* The code of a refused command is or-ed from two places and reads as that of a third
  (`servo_gr.cc:351`).
* `com_buf.h:745` documents `value_in_step_no = motion_steps + 1`; a task-space move with
  it never answers (`edp_e_manip.cc:479`).  `OrderAnswered` excepts it.
* A synchronisation looks for its switches without a time limit (`servo_gr.cc:737`):
  `CommandAnswered`, `OrderAnswered` and `ClientReplied` except one that is under way.
* After the early release of a macro step, a failure of one of its later steps releases the
  master again: the next order is taken for done before it has begun, and the error may be
  overwritten.  `ReleaseBelongsToOrder`, `ErrorThrownFirst` and `OrderNotTorn` except it
  (`twice`).
* With two clients the EDP forgets the result of an instruction when the message of the
  other client comes before the QUERY.  `ResultIsOwn` is claimed for one client.
* A START that arrives while MP waits for the acknowledgements of a STOP is lost if
  another pulse overwrites it.  A pulse left fresh by `start_all` hides confirmations from
  `set_next_ecps_state` until the next pulse (`mp_g_set_next_ecps_state.cc:76`).
* The exception of a sensor in a generator of MP is only displayed (`mp_m.cc:292`): MP
  waits for a start with the ECPs running, ignores a STOP, or finds the value START still
  in its buffer and starts ECPs that refuse it; `AcknowledgeComing`, `StopEndsTask` and
  `StartFindsEcpWaiting` except such runs (`sensor_failed`).
* The constructor of a robot object gives up when the attach point is late and leaves the
  EDP running (`ecp_robot.cc:97`); `StartIsOver` assumes that this does not happen.
* A dialog that stays open takes the next question for its own, whoever asked it
  (`wgt_teaching.cpp:40`); `AnswerIsOwn` excepts it (`left_open`).
* A tool order that the servo thread's configuration overwrites is lost and reported as
  done; `ToolHonoured` excepts it (`dropped`), `SafeAfterPostSynchro` says that it happens
  at most around the synchronisation.
* `show_message` is documented to need the operator's confirmation
  (`ecp_mp_task.cc:170`), the window answers it at once (`interface.cc:455`).
* An unloading deletes the robot object that the creating thread may still be using
  (`ui_robot.cc:312`); the operator of `UiProcesses` waits for it.  The conveyor's unload
  item stays enabled under a loaded MP (`ui_r_conveyor.cc:135`), and the MP is loaded
  without another look at `mp.state` (`interface.cc:859`).

## Not modelled

Regulators, kinematics and trajectory generators are real arithmetic.  Drivers and the
parameters of individual robots appear as nondeterministic faults and switch readings.
Configuration, remote start of processes, message logging, visualisation and the Qt forms
are input and output.  In the UI the reload of the configuration, the motion dialogues of
each robot and the values an operator types in are left out.  messip appears as the rule
that a sender is blocked until it is replied to, once.  A client killed while it is
blocked, at the EDP or at the UI, is not modelled: what the other side then gets from the
closed socket depends on the operating system.  In the final stop of a synchronisation the
faults the drives find are not looked at by the code and the model lets it find none.  The
virtual sensor processes (`base/vsp`) are not part of the build (their CMakeLists is
empty) and do not compile at this commit, so that there is no behaviour to be faithful to.
Applications, subtasks and the tasks that replace `main_task_algorithm` are users of this
core; the greater part of the repository's lines are theirs, the robots' and the
generators', and hold arithmetic and scripts of motions rather than protocols.

## What is left

1. A composition of `EdpMaster` over the abstract transformation thread and of
   `TransThread` over `ServoCall`, to carry an error from the servo thread to the client.
2. An abstract specification of a task (started, stopped and started again) that `MpEcp`
   implements.
3. The transmitters and the periods of the sensors, if their order should matter to a
   property.
