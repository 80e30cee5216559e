# TLA+ models of uav_neo_ros2_driver

Specifications, model-checking configurations and machine-checked proofs for the
ROS 2 driver of the UAV Neo. Paths below are relative to the repository (`src/`).

## The system

| component | state | operations | talks to |
|---|---|---|---|
| **velocity mux** `uav_neo_ros2_driver/mux_node.py` | last Joy frame and stamp, connection and warning flags, last student command, last gamepad command and stamp | `_joy_cb`, `_auto_cb`, `_gamepad_cb`, timer `_publish` | `/joy`, `/mux/cmd_vel`, `/gamepad/cmd_vel` in; `/mavros/setpoint_velocity/cmd_vel` out |
| **gamepad node** `gamepad.py` | a warning flag | `_joy_cb`, `_dead_zone` | `/joy` in, `/gamepad/cmd_vel` out |
| **controller mapping** `controller_mapping.py` | none | `load_mapping` | read by both nodes at start |
| **watchdog** `scripts/watchdog.py` | `_running`, `_child_procs`, `_last_restart`, `_topic_fail_streak` | poll loop, `_restart_node`, `_cleanup_children`, signal handler, shared-memory sweep | pgrep, `ros2 topic list`, lsusb, pkill, `ros2 launch`; systemd restarts it |
| **dashboard** `scripts/dashboard.py` | `_latest_status` under a lock, one monitor thread and measuring threads | `_monitor_loop`, `get_status`, HTTP handler | ROS command line, watchdog log |
| **EdgeTPU node** `edgetpu_node.py` | counters, moving average, `_tpu_ok`, time of the last image | `_map_outputs`, `_image_cb`, `_publish_diagnostics` | camera in, detections and diagnostics out |
| **image relays** `scripts/image_relay.py` | none | relay, `rotate_180` | camera topics |
| **bring-up** `launch/*.py`, `scripts/launch_teleop.sh` | processes, the log directory, `/dev/shm` | start, delayed Arducam, sweep | every node |
| **networking** `scripts/setup_networking.sh`, `reset_networking.sh` | connections, netplan file, dispatcher, iptables | set up, reset | NetworkManager |
| **drone tool, provisioning** `scripts/drone-tool.sh`, `setup_*.sh` | none of their own | start, stop, install | systemd, apt |

What is hard here: commands, frames and a timer interleave in the mux while the
nodes that feed it may die; three message queues lie between the pilot's hand and
the setpoint; the watchdog looks at processes and topics that change between its
steps, and commands it relies on fail or time out; the watchdog itself is
restarted without memory; the networking scripts cut the connection they are run
over and may end anywhere; the dashboard's measuring threads outlive the round that
started them; two sweeps unlink shared memory next to processes that are just making
it; diagnostics speak for images they do not see; a mapping file is read by two nodes
at different times. `PROJECT.json` lists each of these hazards at its line,
with the properties aimed at it.

## Modules

| module | models |
|---|---|
| `VelocityMux` | `mux_node.py`: one action per callback, one per path through `_publish` |
| `DeadManSwitch` | the abstract promise of the mux: the vehicle follows what is gripped, or stands |
| `MCVelocityMux` | small frames and commands for TLC |
| `VelocityMuxProofs` | theorems about both |
| `GamepadNode` | `gamepad.py`: dead zone, stick assignment, rejection of frames, as operators |
| `ManualFlight`, `MCManualFlight` | joy_node, gamepad node, mux and pilot composed through their queues |
| `ManualFlightProofs` | theorems about the path and about the dead zone in it |
| `Watchdog`, `MCWatchdog` | `watchdog.py` next to processes, devices and systemd |
| `WatchdogProofs` | theorems about it |
| `Networking`, `MCNetworking` | `setup_networking.sh` and `reset_networking.sh` next to NetworkManager |
| `Dashboard`, `MCDashboard` | `dashboard.py`: the monitor, its measuring threads, the lock, HTTP clients |
| `DashboardProofs` | theorems about it |
| `NetworkingProofs` | theorems about the scripts |
| `VisionPath`, `MCVisionPath` | `image_relay.py`, its topic and `edgetpu_node.py` composed: rotation, callbacks, detections, diagnostics |
| `VisionPathProofs` | theorems about it |
| `ShmSweep`, `MCShmSweep` | the shared-memory sweeps of `watchdog.py` and `launch_teleop.sh` next to participants |
| `ShmSweepProofs` | theorems about them |
| `ControllerMapping`, `MCControllerMapping` | `controller_mapping.py` and what mux and gamepad node make of any file |
| `ControllerMappingProofs` | theorems about it |

### How state and actions correspond to the code

*Mux.* rclpy's single-threaded executor runs a callback to its end, so a callback
is one action. A stamp `t` is kept as the age `now - t`, capped at `AgeCap`: the
code compares ages with `_JOY_TIMEOUT` only, so older ages are alike. `timerAge`
is the time since the timer fired; it may be late by up to `MaxGap - Period`.
Twists are functions from components to integers on a grid of `Unit` steps per
1.0; a product of a clamped value and a limit is exact there. `NaN` is a separate
value and `Clamp` says what Python's `min`/`max` make of it. `GripOf` is written
from the policy in `config/mux.yaml`, not from `_publish`, so that `DeadMan` and
the refinement compare two statements of the policy. The history variables `via`,
`autoAge` and `gripAge` are read by properties only.

*Manual path.* The queues `toMux`, `toGamepad` and `commands` are KEEP_LAST, each
message with its age; a message waits at most `MaxDelay`. joy_node repeats the
controller's state once per tick while a controller is present (a dead joy_node
and an unplugged controller look the same to its subscribers). The mux inside is
the module `VelocityMux`, instantiated, not a copy; it may crash (`MuxDies`), losing
its fields and its queues, and is relaunched at any later time (`MuxRestarts`), as
the watchdog does. `setpoint` is what the running mux last sent: what the autopilot
makes of the silence in between is its own affair.

*Watchdog.* `pc` cuts the loop where it sleeps or reads the outside world again:
`query`, `check`, `device`, `restart`, `pkill`, `pkill9`, `settle`, `launch`,
`sleep`, `cleanup`. `up[n]` is the set of running binaries of node `n`, told apart
by where they came from (teleop, the present child, a child whose launcher is
gone). `launcher[n]` is the `ros2 launch` process in `_child_procs`. A poll sees an
arbitrary set of topics. Crashes, slow or failing commands, clock jumps, unplugged
devices and watchdog crashes each spend one of `MaxFaults`.

*Networking.* `todo` holds the steps the running script has left, one per command or
block that changes the system; `Abort` drops it (`set -e`, Ctrl-C, a lost session),
`Reboot` also loses the rules and the queued events. Of the access point and the
netplan file it only matters whether they are absent, this build's or another's; of the
access point, which NetworkManager knows by an id, whether there are `both` under the one
name. Two failures of `nmcli` escape `set -e`: in the process substitution that lists
the old clients (`setup_networking.sh:70-75`), after which the script goes on with a
part of the list or none, and in the pipe that looks for the access point (88), after
which it adds another. Each is a second disjunct of its step (`ListPrior`,
`ConfigureProfile`), and `failed` records it. The
dispatcher file is `broken` between `tee` and `chmod`. NetworkManager queues `up` and
`down` of the access point in `events` and runs the dispatcher on them in order, in
two steps, so that the scripts may come in between; the two REJECT rules are always
added and removed together and counted as one. `connection up` on an active
connection takes it down and up again; an idle `wlan0` takes any connection with
autoconnect.

*Dashboard.* `pc` follows `_monitor_loop`: `list`, `spawn`, `join`, `compute`,
`update` (inside the lock), `sleep`. `threads` are the measuring threads with their
ages; `round` is the time since those of the present round were started, so a thread
belongs to the round iff it is as old. `joining` is a place in `RATE_TOPICS`; a topic
that was not listed has no thread to wait for there. `results` is `rate_results`: `measure` looks
the name up when it ends, so a thread that outlived its round writes into the
dictionary of the next. Of a snapshot only the listing its parts come from is kept.
The replacement of the snapshot takes two steps, although CPython may well do it in
one: what the lock promises does not rest on that.

*Vision path.* An image is its shape and a buffer in which every byte is called by
its position on the camera, so that a rotation can be judged byte by byte.
`toNode` is `/camera/forward` (best effort, KEEP_LAST). The node's executor has one
thread: `_image_cb` is cut once, where the inference has returned (`tensors`), so
that time passes and images arrive meanwhile, while `PublishDiagnostics` waits. What
raises outside of the two `try` blocks leaves `rclpy.spin` and ends the node (`Ends`):
`cv2.resize` of an image without pixels (`ResizeFails`), `int()` of a count that is NaN
or infinite and an index past a tensor (`Die`). Nothing starts the node again, for
launch does not respawn it and the watchdog's `NODES` lacks it. Of a
tensor only its length and which scores reach the threshold matter. A depth image
arrives when `image_topic` is set to a depth topic, and is not converted. `dark`,
`failing` and `verdictAge` are history. Worth knowing, and in the model: outputs are
told apart by shape alone, so that of a model which lists classes before scores the
classes are taken for the scores (`Scores`, `Classes`); padded rows whose length
happens to be a multiple of the width are rotated as if they were packed; and the
diagnostics say "Running" while every conversion fails.

*Shared-memory sweep.* A port has a data segment, which starts with 0 bytes and
grows, a lock file and a semaphore. A sweep is `Begin`, a `Look` at each listed port,
one `Unlink` per file and `EndPass`, of which the second ends it; the order of the
unlinks is that of the two programs, which differ. A participant makes its files in
any order, and one that finds a segment of 0 bytes is stuck. `raced` is history: a
sweep held the port together with a starting participant or with another sweep.

*Controller mapping.* A file is a function from groups to partial functions from
entries to what YAML makes of them: an integer, a float, null, or something that does
not compare with numbers (`text`). Or it is not there, or no mapping at its top level.
`Entry` is the merged mapping; `Raises` and `Pressed` are Python's indexing, negative
indices included, which a float comes through only when it is past the end. Each node
loads a file of its own at its start: `file`, the installed one, or one that its
parameter `mapping_config` names (`Own`). `Joy` gives a frame to both nodes and lets the
mux's timer take it. `Edit` changes the installed file under running nodes.
`RelaunchMux` is the watchdog's restart of the mux alone, without the `mux_config` that
teleop was given (`watchdog.py:286-287`), so the mux may be back with another mapping
than it flew by.

## Runs

| run | checks | bounds |
|---|---|---|
| `mux_safety` | `TypeOK`, `SpeedLimit`, `DeadMan`, `ManualNotStale`, `ConnectionHonest`, `StreamKept`, `ControlReturns`, refinement `ImplementsSwitch` | one linear and one angular component; an out-of-range command and one with NaN (neutral is the initial one); all bumper combinations and a wrong-mode frame; timeout 2, period 1, gap 2 |
| `mux_auto_staleness` | `AutoNotStale`, expected to fail | as `mux_safety` |
| `manual_flight` | `TypeOK`, `EndToEndDeadMan`, `EndToEndStick` | LB and one stick, queues of 2, delay 1, timeout 1, gap 1 |
| `watchdog_camera` | `NoDuplicates`, `Recovers`, `Stops` | one camera with a restart delay, three faults, clock jumps of 2 either way |
| `watchdog_pair` | `TypeOK`, `KillJustified`, `NoOrphans`, `ChildGetsTime` | a process-authoritative node and a camera, one fault, steady clock |
| `watchdog_cooldown` | `CooldownKept`, expected to fail | one camera, two faults |
| `networking` | `TypeOK`, `SetupComplete`, `Isolated`, `ResetComplete` | two old Wi-Fi connections, four queued events, three faults (failing command, lost link, new client, reboot); any number of runs and aborts |
| `dashboard` | `TypeOK`, `SnapshotConsistent`, `RatesRecent`, `RateNotLost` | two topics; a tick is 5 s: join 2, measurement 3, listing and sleep at most 1 |
| `dashboard_stale` | `StaleIsStale`, expected to fail | as `dashboard` |
| `vision` | `TypeOK`, `OkHonest`, `ErrorShown`, `Upright`, `DetectionsRight`, `EndsForCause` | queue of 1, delay 1, image timeout 1, period 1 with gaps up to 2; packed, padded, empty and depth images of at most 2x2; five model layouts, of three scores; counts of 2, 4 and NaN; no limit or 2 |
| `shm_sweep` | `TypeOK`, `HarmOnlyInRace`, `ResumableSweep`, `PoisonCleared` | one port, one sweep of each program, two killed sweeps; any number of participants one after the other |
| `mapping` | `TypeOK`, `PartialSurvived`, `ShapeGuard` | twenty-two files, two of which a node may have of its own, four frames; any number of edits and restarts |

Why the bounds are enough. The mux compares ages with one constant, so a timeout
of two ticks with timer gaps of one and two shows fresh, edge and expired stamps
at every phase of the timer; the theorems then hold for all values. In
`manual_flight` both bounds are sharp: with `GripBound` or `StickBound` one smaller
TLC finds a violation, so the slowest path is reached. In `watchdog_pair` the
threshold is the code's own 3, and one fault is enough for each way a node goes
down; `watchdog_camera` allows three so that a fault strikes the recovery from
another. `MCView` of `manual_flight` drops variables neither its properties nor any
guard of that composition reads (log flags and history of the mux).
`networking` has no bound on the number of runs: its state is finite. Three faults let
a script miss both what it lists and what it looks for and the next one be interrupted; the queue of four takes a re-activation
next to what an earlier step left, and a step that would overfill it waits. The
durations of `dashboard` are those of the code up to rounding (10 s, 15 s, 10 s for
each list command rounded down, 3 s of sleep rounded up), and two topics are enough for a
thread of one round to end in the next; the bound of `RatesRecent` is sharp.

In `vision` one queue place and one tick each way suffice for an image that is
dropped, one that is late, and one on either side of the timeout; the queue of the
code holds five, and the theorems hold for any depth. With three scores, a count below
and above their number and a limit of two, the loop ends on each of its three
conditions. Sweeps treat ports one by one, so one port is enough in `shm_sweep`; a
process of its own is killed at any of its files there.

What they show. The vehicle follows a released bumper for at most one queue delay,
the timeout and one timer gap, and a centred stick for one queue delay more, even
if the gamepad node dies in between or the mux is relaunched. A healthy process is restarted only after
three consecutive missing-topic polls and never if its process is authoritative; a
node runs twice only when teleop brought it up late or pkill timed out; a node that
goes down comes back as long as its device is there. The last needs a child to be
up before the cooldown is over, *less the time the restart itself took*, since the
stamp is taken before the kill: with `StartTime = 4` (cooldown 5, restart delay 1)
TLC finds a loop in which every child is killed while starting. In seconds: a
camera that needs more than 17 s (30 s less up to 13 s of waiting) to show up is
never given them.

However often set-up and reset are run, aborted and interrupted by a reboot, a
set-up that reaches its end has configured everything, and its access point is isolated
once the queued events are served, because the access point is always activated afresh.
It has left no client connection and no second access point *unless `nmcli` failed where
the script does not look*: the header of `setup_networking.sh` ("Removes any prior Wi-Fi
client connection", line 7; "All steps are idempotent", line 15) does not hold then, for
the script reports that there are none and ends with them, or adds a connection of a name
that exists, which every later set-up may keep until a reset deletes both. `SetupComplete`
ties each of the two to its own failure. A reset that ends leaves at most the very
connection whose look-up or deletion failed, although it says "Deleted" and "Done": no
other step is lost with it. A dispatcher script that is *already running* for an `up`
while the rules are flushed inserts them afterwards; `ResetComplete` excludes that one
order (`late`). On the dashboard no client sees a mixed snapshot, and no rate
is older than two measurements. A topic that is published throughout is displayed so
if the joins up to its own outlast a measurement: with 10 s and 15 s every listed
topic but the first.

Diagnostics that say "Running" are never older evidence of images than the longest
wait, the image timeout and the age of the report; a failed inference may hide that
images stopped, but not the other way round (`config/edgetpu.yaml:46-47` promises a WARN
then). Three things end the inference node for good: an image without pixels, a count
that is no number, and boxes or classes too few for an index that is to be published;
an index they lack does no harm below the threshold, past the count or past the limit. A sweep harms a
participant only if it met it while that was starting, and the watchdog, which
unlinks the segment last, can be killed anywhere without leaving a file that no
sweep looks for; the shell script, which unlinks it first, can (TLC says so of the
mutant that gives the watchdog its order).

The comment in `controller_mapping.py:33-35` that a bad or partial configuration "can
never crash the safety-relevant mux", and the docstring at 70-71, by which "only a
syntactically broken YAML propagates its parse error", are true of absent files, groups
and entries, of groups that are no mapping and of indices past the end. They are *not*
true of a file whose top level is no mapping (a list or a scalar parses, and `data.get`
raises), nor of an entry that is no index: null, negative beyond the first button, a
float that a frame reaches or a text passes `load_mapping` unchecked and raises at
`mux_node.py:194`, or in the constructor of the gamepad node. `PartialSurvived` draws
that line for each node by the entries it reads; TLC reaches each of these cases in
`mapping`, where they are what `Spoilt` names. `ShapeGuard` holds for every file by as
much of the expected report as the file does not state differently from the default, so
in full for the installed one, which repeats the default. Which mapping the mux flies by
is not settled by any property: after an edit or the loss of its `mux_config` it changes
with a relaunch, and then differs from the gamepad node's.

Three runs expect a violation and record a disagreement of code and documentation:
the student command has no staleness check (`mux_node.py:203`, README.md:846); two
launches of a node may be closer than the cooldown (`watchdog.py:293`,
README.md:962); a topic may be displayed as
stale because its join is shorter than its measurement (`dashboard.py:181`,
README.md:981).

Deadlock is checked everywhere but for the watchdog, which stops, so that its
configurations say `CHECK_DEADLOCK FALSE`.

## Fairness

`VelocityMux`: weak fairness of the timer and of the clock. The executor of
`rclpy.spin` serves a due timer and the monotonic clock runs; nothing is assumed of
the nodes that send. `Watchdog`: weak fairness of the loop (one thread, and every
command it runs has a timeout), of the clock, of `ServiceStart`
(`Restart=on-failure`) and of a launched node coming up or failing. No fairness is
put on faults, on teleop or on devices being plugged in again. `ShmSweep`: weak
fairness of the watchdog's sweep, which runs once a minute as long as the watchdog
does; systemd restarts it and it sweeps when it starts. Nothing is assumed of the
shell script or of participants.

## Proofs

`VelocityMuxProofs` proves, for all components, limits, grids, timeouts, periods,
inputs and frames that satisfy the three assumptions of the module:

* `TypeCorrect`: `Spec => []TypeOK`, one step per action.
* `SpeedLimited`: the setpoint is bounded because both commands it is copied from
  are; `ClampRange`, `ScaleBound` and `ScaledBounded` carry the arithmetic,
  NaN included.
* `SafetyInvariant`: the conjunction of `DeadMan`, `ManualNotStale`,
  `ConnectionHonest` and `Streaming` (the setpoint's age equals the timer's) is
  inductive on top of `TypeOK`. `StreamKept` alone is not inductive: that the
  setpoint's age is bounded follows from its equality with `timerAge`. `DeadMan`
  needs `gripAge` to age no faster than `timerAge` and a grip to change only to
  "idle" by expiry (`GripExpires`), and the guard on the bumpers to mean the grip of
  the policy (`BumpersShowGrip`). `DeadManHolds`, `ManualFreshness`,
  `ConnectionHonesty` and `StreamIsKept` follow.
* `MuxImplementsSwitch`: under `grip <- Grip`, `motion <- via` when moving,
  `lag <- timerAge`, a Joy frame is `Regrip` or a stutter, a command a stutter, a
  firing `Sample` and a tick `Tick`. `SwitchObeyed` is the promise of the abstract
  switch itself.

`ManualFlightProofs` proves, for every stick resolution and every dead zone below
full deflection, what `config/gamepad.yaml` says: silence inside the dead zone,
the full span outside it, symmetry, and no jump at its edge. Of the whole path it
proves, for any delays, depths, timeout, gap, controllers and limits:

* `ManualTypeCorrect`, which holds the bounds of the three queues.
* `BumperObeyed` and `StickObeyed`, the two end-to-end properties. They speak of the
  setpoint and of the pilot's hands and of nothing in between, so the invariant says
  what every stage in between is evidence of: a frame that waits for the mux
  (`FrameMessage`), one that waits for the gamepad node, a command on its way
  (`CommandMessage`), the frame and the command the mux holds (`FrameEvidence`,
  `CommandEvidence`), and the setpoint (`SetpointEvidence`). Each bounds how long ago
  the hands were in that position by the age of what shows it and the delays behind
  it; a crash leaves nothing that could be evidence (`Down`).
* `MuxInside`: the mux of the composition takes steps of `VelocityMux` only, but for
  `MuxForgets`, so the composition relies on the component as it was proved.

`WatchdogProofs` proves the safety of the watchdog for any nodes and visiting
order, threshold, durations and number of faults:

* `WatchdogTypeCorrect`: `Spec => []TypeOK`, one step per action of the loop and of
  the world.
* `KillsAreJustified`: `KillJustified` says nothing of a poll that has not ended in
  a restart yet, so it is strengthened with `StreakCounted`: the code's streak never
  runs ahead of the misses. The poll that stops deferring then was the
  `Threshold`-th. `OthersLeaveCounters` disposes of all other steps.
* `LaunchersInOrder`: `NoOrphans` only speaks of the end. `LauncherInv` adds that a
  child always has a running launcher, that the current node's launcher has gone
  while the loop kills and launches, and that none runs once it has stopped.
  `NothingOrphaned` follows.
* `NeverTwice`: `NoDuplicates` counts the instances of now; `AloneInv` also says of
  a node without an excuse that nothing of it is left while its launcher starts or
  the loop is about to launch it. It uses `LauncherInv` and the facts on cardinality of
  the library.
* `ChildrenGetTime`: `TimeInv` bounds the time a restart has taken by the sleeps it
  went through and the faults spent (a slow command is a fault), hence how far the
  stamp is ahead of the launch. It assumes that the wall clock is never set
  *forward*; set back, it only delays a restart.

`DashboardProofs` proves, for any topics and durations, the four invariants of its run:

* `SnapshotsConsistent`: the parts of the snapshot agree whenever the lock is free
  (`LockInv`), and the handler copies it only then.
* `RatesStayRecent`: `RatesRecent` speaks of the moment of publication only. `AgeInv`
  says that a thread lives for one measurement, that a rate in `rate_results` is at
  most that old plus the time the round has taken, and that a round waits no longer
  than one measurement, since a tick of its joins needs a thread of its own age that
  has yet to end.
* `DashboardTypeCorrect`: with the bounds of each step of the monitor.
* `NoRateLost`: `RateNotLost` speaks of the moment of publication as well. `RoundInv`
  tells the threads of a round from older ones by age, which takes the sleep between
  the rounds (`SleepAges`, `ThreadsOfRound`); the thread of a topic published all along
  ends at `HzTime` only, with a rate (`EndsWithRate`); so its join expires or the round
  is `HzTime` old, and the round is as old as `JoinTime` times the joins of such topics
  (`JoinsLast`, by cardinality); hence a join that `RateNotLost` speaks of cannot have
  expired (`JoinsWait`).

`NetworkingProofs` proves, for any client connections, queue length and number of
faults, all four invariants of the run. None of them is inductive: they speak of
scripts that have ended. `OnTrack` says that `todo` is always the end of one of the two
scripts; `SetupSoFar` and `ResetSoFar` what the steps behind the present one have
achieved, or which failure they met unseen; `Twice` that a second access point comes of
such a failure only; `Isolating` that the last thing the dispatcher does, or has done, is to put
the rules in place (`UpLast`), which a queued `down` cannot undo since `up` is queued
behind it; `DoneIdle` that nothing runs when a script has ended.

`ShmSweepProofs` proves, for any ports, sweeps and faults, `HarmNeedsRace` and
`SweepsResumable`. The invariant adds `MadeKept` (what a participant outside of a race
has made is there), `RaceSeen` (a port that a sweep shares with a participant or with
another sweep is marked) and `InOrder` (how far the watchdog is with a port of its own:
the file that shows the port to a pass goes last).

`ControllerMappingProofs` proves the three invariants of its run for any files,
entries, defaults and frames, and whatever each node loads. What is not an index must be
said by the file (`SpoiltEntry`), since the defaults are indices, and an index raises at
no length (`IndexWorks`). `Loaded` adds that a mux that is not up steers nothing and
that a node that is up has a file that loads.

`VisionPathProofs` proves `OkIsHonest` and `ErrorIsShown` for any delays, timeout and
period: an image that waits is as old as the relay's silence (`Evidence`), and so is the
last one up to its wait. `ImagesUpright` holds for images of any size: quotient and
remainder are unique (`Split`), positions stay in their row (`Within`), and
`RotatedUpright` combines them at each byte. `KeptRight` is about the loop over the
scores: the library's theorems on recursive functions take operators as parameters, but
that every set of numbers has a least one (`LeastNumber`) is enough to show by hand that
the function the loop is written as exists (`LoopExists`), and by induction on it
(`Induction`) that after each score it has kept the hits so far, in order, up to the
limit (`Keeps`). `ModelInv` adds that tensors under way have the size of the model's
scores. `DetectionsAreRight` follows, and `NodeEndsForCause`, which compares what the
loop reads with `Selected`, a set that knows nothing of the loop.

Only model-checked: liveness (`ControlReturns`, `Recovers`, `Stops`, `PoisonCleared`),
which the prover does not reach. All other properties of the passing runs are theorems;
`ChildGetsTime` is one for a clock that is never set forward, as in its run.

## Not modelled

Log texts, header stamps, the under-voltage alarm, renice, HTML and HTTP, launch
arguments, installers, `CHANGES_MADE` of the set-up script, which only words its last
message, scores that are no numbers (a NaN passes the test of the threshold, which is a
`<`), the averages and counters that the inference node
displays. `PROJECT.json` gives a reason per component.

## Plan

1. (done) `VelocityMux`, `DeadManSwitch`, `GamepadNode`, `ManualFlight`, `Watchdog`,
   `Networking`, `Dashboard`.
2. (done) `ShmSweep`, `VisionPath`, `ControllerMapping`; the theorems of these and of
   `Networking`.
3. (done) The crash and relaunch of the mux in `ManualFlight`.
4. (done) Proofs of `ManualFlight`, of `RateNotLost` and of the loop over the scores.
5. The theorems of `VelocityMuxProofs` instantiated in the manual path, by `MuxInside`
   and the crash: what the mux promises alone, said of each of its runs there.
