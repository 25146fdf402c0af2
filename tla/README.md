# A verification of the DAMIC cryogenic slow control

The program cools a detector chamber with a cryocooler, warms it with a
heater, and helps the cooler with a power supply. It runs as four processes
that share nothing but a MySQL database. These modules model the processes,
check them with TLC on small instances, and prove the main safety properties
for every value of the constants with TLAPS. Paths below are relative to the
repository (`src/`).

## The system

| Part | Source | State it keeps | Operations |
|---|---|---|---|
| PID controller | `PID_v1.cpp` | mode, tunings, limits, integral term, last input and time; the output lives with its owner | `SetMode`, `SetTunings`, `SetOutputLimits`, `Compute` |
| State machine process | `StartSM.cpp`, `CryoControlSM.cpp`, `CCMySQLInteraction.cpp` | current and required state, two PID controllers, the outputs of the last sweep, two moving averages | one sweep a second: `UpdateVars`, `StateDecision`, `StateSwitch` and a state function, `PostRunSanityCheck` |
| Power supply server | `SRSServer.cpp`, `SRSPowerSupply.cpp` | readings of the supply, the switch as last read, a mutex | `PerformSweep` every 15 s in a timer thread, `VoltageRamp` and `PerformSweep` by RPC in another |
| Cryocooler drone | `CCDroneStart.cpp`, `Cryocooler.cpp` | status of the last poll, counter of refreshes, limits of the power, on or off, mode | one loop: four polls, `UpdateMysql`, `AdjustCryoPower`, `SetCryoMode`, `PowerOnOff`; or a reset of the link |
| Heater drone | `LSHDroneStart.cpp`, `LakeShoreHeater.cpp` | power, mode and temperature as read, row as read, fuse | one loop: three polls, `UpdateMysql`, fuse, power, mode |
| Serial line | `SerialDeviceT.cpp` | port, terminal attributes | `WriteString`, `ReadLine`, `RReadLine` |
| Database | external; statements in the files above | the row of `ControlParameters`, the tables of readings | select, update, insert |
| Legacy controller | `TemperatureControl.cpp` | | not built by `CMakeLists.txt` |
| Utilities, `rpclib` | `UtilityFunctions.cpp`, `rpclib/` | | output only; vendored |

How they interact. An operator sets `TargetTemp` in the row of
`ControlParameters`. The state machine process reads it with the last row of
each drone's table, and writes the heater's power, the cooler's power and two
switches into the same row, in four statements, one sweep after it computed
them. The drones read the row, obey it, and insert what they measured. No
process knows whether another one lives; the state machine infers it from the
age of a drone's last row (60 s).

What is hard in it, and what makes each part correct:

* **PID**: its owner switches it between manual and automatic and changes its
  limits in any order; the clock may be set back; its output is never
  initialised. Correct: the integral term stays within the limits in force,
  there is no windup, the clock cannot freeze it.
* **State machine**: seven rules that override each other in the order of the
  text, seven entry guards that set two controllers, outputs published one
  sweep late and one column at a time, a process that may end at any
  statement and start again over the row it left. Correct: controllers and
  switches match the state; the row never asks for a drive that is not safe;
  the direction of the drive follows set point and temperature; a cut-off and
  a Fault reach the row.
* **Power supply server**: two threads, one line, eight commands per ramp.
  Correct: an answer belongs to its question, a ramp to its call, the mutex
  comes free, a switch-off ramps down.
* **Cryocooler drone**: a count of refreshes in a local variable is the only
  thing that spaces the switching of the cooler; an exchange fails at any
  point and leaves what it had set so far. Correct: switches are spaced, the
  power lies within what the cooler reported, the switch and the mode are
  obeyed in time, a stall is recovered from.
* **Heater drone**: a poll that fails keeps the old value; a blown fuse must
  turn the heater off. Correct: the heater follows the row, and a blown fuse
  wins over it.
* **Serial line**: a late answer, or none. Correct: a row of readings holds the
  answers to its own questions, a read ends.
* **Together**: a drone that is stuck inserts no rows; the state machine goes
  to Fault and writes a safe row, which a stuck drone never reads. Correct: the
  device of the other drone is taken off.

## The modules

| Module | What it is |
|---|---|
| `PIDOps` | What the state machine relies on of a PID object: mode, limits, output; NaN as a value |
| `PIDContract` | Those operators as a state machine, the abstract PID |
| `PID` | The detailed PID with its arithmetic; implements `PIDContract` (`KeepsContract`) |
| `ControlRow` | What the state machine process promises about the row |
| `CryoControlSM` | The state machine process; implements `ControlRow` (`RowFollowsDecisions`) |
| `SRSServer` | The power supply server with its two threads and the supply |
| `CCDrone` | The cryocooler's drone with the cooler |
| `CCLine` | The same loop line by line, with answers that come late |
| `LSHDrone` | The heater's drone with the heater |
| `SlowControl` | The processes together: `ControlRow`, the row, the ages of the last rows, both drones |
| `MC...` | Values of the constants for TLC |
| `PIDOpsTheorems` | Lemmas about `PIDOps`, used by the next two |
| `...Proofs` | Theorems and proofs, one module per component |

An operator whose comment says *variant* is a plausible wrong form of the
definition after it. No specification uses it; it shows that the property
named with it in `PROJECT.json` would notice.

### How they correspond to the code

**PID.** Doubles are integers: the properties depend on order and sign. NaN is
a value of its own, because `TOutput` and `ROutput` (`CryoControlSM.hpp:66`) are
never initialised, every comparison with NaN is false, and so no clamp changes
it. The clock is an unsigned counter that wraps (`time_t` into an unsigned
long) and may be set to any value.

**CryoControlSM.** One action per statement that touches the database
(`SelectControl`, `SelectCC`, `SelectLSH`, and the four updates), because the
process may end between any two and the drones read the row between them; one
action `Compute` for the rest of a sweep, which no other process can observe.
`STFnTable` is a table of records, one per state function: what its entry
guard sets, and which controller its body computes. `StateDecision` lists the
rules from the last to the first, since the code lets a later one override an
earlier one. The process starts with `CurrentFSMState` in Idle and no entry
guard run. `FSMMode` is set to automatic by the constructor and by nothing
else, so the manual branch is left out, as is the monitoring table `SMState`.

**SRSServer.** Each thread has a program counter. The line is a queue of
answers, each named by its question; the supply answers at once, or the answer
is lost or garbled. A garbled answer makes `GetParameterFromSRS` end without a
return: its value is junk, or the process dies. The constructor asks for a read
timeout (VMIN 0, VTIME 10) but then calls `cfmakeraw`, which sets VMIN 1 and
VTIME 0: a read waits for ever. `SRSPowerState` is read and written outside
the mutex; the build may keep the first value it read in `PerformSweep` (`React`
then has nothing to do) or read it again. The timer thread and the RPC thread
are both in `Threads`; any number of each is allowed by the proofs.

**CCDrone.** One action per exchange. A first line is awaited for 5 s (silent,
status -1), a later one without a limit (`hangs`); an answer that does not
parse is status -2, or an exception where the code has no `try`. `Status` is
not initialised. The count of refreshes is kept modulo 30. `Cryocooler.cpp`
does not compile as it stands at this commit (`CCTC_Firstline` at line 135 is
not declared, `SetCryoMode` returns values from a `void` function); the model takes
what those lines evidently mean.

**LSHDrone.** One action per poll, one for the row, one for the test of the
fuse, and one per command to the heater (`TurnONOFF` sends two). A poll that
does not parse keeps the old value; one that gets no answer waits for ever; a
command may go unheard, since nothing is acknowledged. The heater answers
`HTR?` with the power it puts out, 0 when it is off. `WatchdogFuse` is what the
drone reports and never goes back to 1; the code tests `_cWatchdogFuse`, which is
`fuse` here.

**CCLine.** `CCDrone` treats an exchange as one step; here every line is a step,
and the answers are a queue of which a part has arrived (`here`). A question puts
its answer on the line at once, and the line arrives when it likes. A line is
named by the question it answers, so that a value taken from another question's
answer shows. `FirstLine` and `TimesOut` are `RReadLine`; `ReadLine` waits without a
limit; `Throw` is the loop around `ReadLineThrowR`, which returns at the carriage
return and so leaves the rest of that line for the `ReadLine` that follows
(`ExtraLine`). Recreating the object flushes what has arrived, not what is on its
way. When an exchange is due and what the row asks for are left open, except that
the exchanges due every fifth and every thirtieth pass never meet
(`numRefreshes++ % 5 == 0` tests the count before it is advanced,
`numRefreshes % 30 == 0` after).

**SlowControl.** The state machine process is `ControlRow`, which `CryoControlSM`
implements: the order of the four updates, and that the decision is for everything
off while a drone is `silent`, are part of what is promised there. `SlowControl`
adds what ties it to the drones: a sweep reads the times of the last rows before
it publishes the last decision, and reads the clock after that; `Silence` says what
the decision makes of the two ages. A row becomes
old by an action of its own (`GrowOld`, and `SeenGrowsOld` for the row the sweep has
read, which may be older than the table's). A drone is what its own module shows:
it reads its column (`Pass`), and its device comes to what it last read (`Obey`), in
that order or, when a blocked read ends late, a long time after. It is live, stuck
(it blocks, or resets the link for ever) or dead. A decision takes no account of
temperatures: it is any setting `ControlRow` allows.

## What is checked

| Run | Question | Bounds |
|---|---|---|
| `MCPID` | Does the PID keep its sum within its limits, leave a limit at once, survive a clock set back, and keep its contract? | limits 0..2 and -2..2 and an inverted pair, a clock of 3 values, every kind of initial output |
| `SMSafety` | Do controllers match the state, and is the row safe, through every sequence of states, crashes and restarts? | one temperature per band, `HeatMax` 2, `BoostMax` 1, NaN and out-of-range initial outputs |
| `SMDecision` | Does the direction follow set point and temperature, does a warm-up end at 300 K, and does a Fault reach the row? | every threshold of `StateDecision` with its neighbours, ages 60 and 61 |
| `SMIdleWhenHot` | *Is a hot chamber with a lower set point left idle, as a comment says?* No. | as `SMDecision` |
| `SRSMutex` | Do answers match questions and ramps their calls, and does the mutex come free? | two threads, one ramp and the ramp to 0 V, lost and garbled answers |
| `SRSSwitchOff` | *Does a switch-off ramp the supply down?* No. | no faults |
| `SRSReadsEnd` | *Does every read end?* No. | lost answers |
| `CCDrone` | Are switches spaced, is the power within one report, and are switch and mode obeyed in time? | the real counts 5 and 30, two reports that do not overlap, a power below both and one between them, every fault |
| `CCDroneStall` | *Is a stall recovered from?* No. | silent answers |
| `LSHDrone` | Is the heater switched on at the row's power only, does it come to obey the row, does a blown fuse turn it off? | powers below, at the edge of and above 0..100, ranges off, low and one that does not exist, every fault |
| `CCLine` | Does a row of readings answer its own questions, are the limits of the power ones the cooler reported, and is another line on its way wherever the drone waits without a limit? | one line thrown on a stop, one death of the process between two rows, answers of any delay |
| `SlowControl` | Does the row go off in full, and the other device with it, when a drone is silent? | one power of the heater, a first row with everything on, any number of deaths, blocks and restarts of every process |

Why the bounds are enough. The PID's properties compare values with limits and
with each other: three values on each side of a limit show every order. The
state machine's outputs only depend on signs and on which band a temperature
is in; `SMDecision` has every boundary of a band, `SMSafety` one
member of each band with every kind of output. Two threads and one ramp are
what the program has at a time; the proofs cover more. In `CCDrone` the counts are
the real ones. In `CCLine` the number of lines thrown changes only how long the
queue is (0, 2 and 3 give the same result); the bound on deaths is not a formality:
with two deaths between two rows `RowAnswersItself` no longer holds. Answers that
outlive two flushes can then line up with the polls of the third process, and a
row takes a value from an answer to an earlier question. One answer that never
comes, while another comes late, would shift the lines in the same way: `CCLine`
assumes that the cooler answers every question at some time. The other properties of
`CCLine` need no bound on deaths, as the proofs show. In `SlowControl` the
properties tell off from on, so one power is enough; nothing is bounded.

Fairness. The sweep of the state machine, the loop of each drone and the PID's
`Compute` are weakly fair: each is an endless loop with a sleep. Each thread
of the server is weakly fair by itself. In `CCDrone` and `LSHDrone` the line is strongly fair
to each exchange that matters: what is tried in every pass works again and again. That is an
assumption about the line, not about the code; a drone that only retries
cannot do better, and what is checked is that it does retry. In `SlowControl` a live
drone passes and obeys (what `SwitchObeyed` and `HeaterObeysRow` show of each), the
sweep goes on while its process lives, and time passes, so that the rows of a drone
that is not live become old. No fairness makes a stuck drone resume. Nothing restarts a process that
ended, so there is no fairness on `Start`, and liveness properties end in "or
the process is dead".

### What the runs found

1. `CryoControlSM.cpp:169`: above 300 K with a set point below 220 K the comment
   at line 163 says to idle; the next rules override it and the state is
   CoolDownHot (`SMIdleWhenHot`).
2. `SRSPowerSupply.cpp:256`: on a switch-off `PerformSweep` calls `VoltageRamp`,
   which does nothing when the switch is off. The supply keeps its ramp, and
   nothing in the program ever sends `SOUT 0` (`SRSSwitchOff`).
3. `SerialDeviceT.cpp:62`: `cfmakeraw` undoes the read timeout set just before.
   One lost answer blocks the reading thread for ever, with the mutex held
   (`SRSReadsEnd`).
4. `CCDroneStart.cpp:81`: after one failed poll the loop stays in the branch that
   resets the link, because nothing sets `Status` back to 0 (`CCDroneStall`).

## What is proved

Each theorem holds for every value of the constants that satisfies the named
assumption of the module (`NaNAssumption`, `PIDAssumption`, `SMAssumption`,
`SRSAssumption`, `CCDroneAssumption`, `LSHAssumption`, `CCLineAssumption`,
`SlowControlAssumption`): types of the readings and of the first row, limits that are
numbers, reports whose minimum is at most their maximum. Nothing else is assumed,
except by `RowCorrect`, which says so in its statement: `MaxDeaths <= 1`.

* **PID** (`PIDProofs`). The inductive invariant is `TypeOK /\ SumWithinLimits`.
  `SumWithinLimits` is inductive only because it ties the sum to NaN exactly
  when the output is. `NoWindup` and `ContractKept` follow from it: an output
  that leaves a limit at once needs the sum to have been on that limit, not
  beyond. `ContractKept` maps each step to a step of `PIDContract` or a stutter.
* **State machine** (`CryoControlSMProofs`). `IInv` conjoins
  `ControllerMatchesState` with: the outputs a sweep leaves fit the state it
  leaves (`OutputsFit`: heater and cooler never both driven, nothing driven
  while an average is above 320 K); the switches read at the start of a sweep
  are those of the row until the sweep writes them (`PacketFresh`), so that
  leaving out an UPDATE is sound; every column a sweep has passed holds what
  was decided (`RowTracks`). The last two are needed because the safety of the
  row is claimed only once the fourth statement has run. From `IInv` follow
  `TypeCorrect`, `ControllersCorrect`, `RowSafe`, `CutOffCorrect`, and the step
  simulation of `ControlRow` (`RowImplemented`). That a silent drone makes the whole
  setting "off", from every state (`SilenceDecidesOff`), uses the invariant in the
  state after the decision: no entry guard runs if the state was Fault already.
  `DirectionCorrect` is a step
  property over all integers, by cases on the rules. `AverageCovered` justifies an
  abstraction: the runs keep one bit of each moving average, above 320 K or not,
  and the theorem shows that the arithmetic on exact fractions lets that bit change
  only as the model does.
* **Power supply server** (`SRSServerProofs`). `IInv` says that a thread
  between lock and unlock holds the mutex, that the line holds at most the
  answer to the question the holder asked, and that the registers it has passed
  hold its own ramp. `ReadingsCorrect` and `RampsCorrect` follow for any number
  of threads.
* **Cryocooler drone** (`CCDroneProofs`). `IInv` says that limits in use come
  from one report unless the poll that mixed them has sent the loop back, and
  that the count of refreshes is never ahead of the time since the last switch.
  `SwitchesSpaced` and `PowerCorrect` follow, restarts included.
* **Heater drone** (`LSHDroneProofs`). `IInv` says that a range other than off
  is on its way only if the fuse is whole, and that the heater then has the
  power of the row or did not hear it. `SwitchedOnCorrect` follows.
* **Cooler's line** (`CCLineProofs`). The types alone say nothing of how many lines
  are left; `Owed` counts them: at least what the exchange still reads, and for a
  stop, a `COMPLETE.` beyond the lines read before it and before the last one. A
  line taken brings all of this one nearer (`TakeOne`, `OneNearer`), an exchange
  given up owes nothing. `NeverInVain` follows for any number of lines thrown and
  any number of deaths, however shifted the answers are.

  What a value is taken from needs more. `Lined` says that the lines follow each
  other as answers do, whatever is missing in front (`Chained`), that the answer to
  the question asked comes last (`OwnLast`), and that the numbers `GetE` has read
  so far are linked to the next line (`EChain`). Only the answer to `E` has three
  numbers in a row (`ThreeNumbers`), so a `GetE` that succeeds has read one such
  answer: `LimitsCorrect`, for any number of deaths. This is what lets `CCDrone` take both
  limits from one report.

  `RowCorrect` is about all the polls, and there a shift by one answer goes unseen
  by the drone. The invariant `Sync` adds where lines of old questions can be: how
  many lines are left over at each step of a pass (`Late`, `FewLate`), how far back an old
  answer to `E` can be after a death (`EWithin`), that a stop leaves none
  (`StopPlaced`). With one death at most, the constructor and the first polls read what
  was left of the old answer to `E`; so `GetE`, which fails on an echo, succeeds only
  when nothing is left over, and then the polls before it read their own answers. With two deaths
  this is false, and so is the property.
* **Together** (`SlowControlProofs`). `Knows` says that a sweep that has read the
  last rows knows of every one that is too old, so that the first decision after
  one became too old is for off; `Silenced` that from then on every column already
  written is off. `SilenceReaches` follows. A restart keeps it, because it starts
  over with off.

Only model-checked: the liveness properties (`NeverFrozen`, `FaultReachesRow`,
`LockReleased`, `SwitchObeyed`, `ModeRestored`, `HeaterObeysRow`,
`FuseTurnsHeaterOff`, `SilentCoolerStopsHeater`, `SilentHeaterStopsCooler`) and the
fairness of the refinements, which the prover cannot do. Every other property of the
runs that pass is the conclusion of a theorem.

## What is not modelled

* The chamber: readings are free. So the time a ramp takes, overshoot, and a
  temperature that jumps over the 2 K window of `MaintainWarm` are not seen.
* The arithmetic of the moving averages in the runs: one bit each. That an
  average needs some 50 to 70 samples to get above 320 K after a start is not seen.
* Voltages, temperatures and log lines of the drones; formats of commands; how
  bytes are assembled into lines.
* In `SlowControl`: the power supply server, which obeys no column that a silent
  drone would endanger (it acts on its switch only by a ramp that is refused, see
  finding 2), and the temperatures.
* `TemperatureControl.cpp` (not built), `UtilityFunctions.cpp` (output only), the
  database server.
* `rpclib/`, a vendored RPC library with its copy of MessagePack: some 96,000 of
  the repository's 99,000 lines of C++. The program uses of it a server that calls
  three functions of the supply from a thread of its own; the two that change state
  are what `SRSServer` models. A
  model of the library would say nothing about the slow control.

## What could come next

Every process of the program and the ways they act on each other are modelled.
What remains is refinement of what is there:

1. `CCDrone` as an abstraction of `CCLine`: the exchange as one step, with the
   shifted answers as a fault of its own.
2. The heater's and the supply's lines by `ReadLine` alone: no answer is late
   there, but a read that is interrupted by a death leaves one behind.
