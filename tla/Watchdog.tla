------------------------------ MODULE Watchdog ------------------------------
(***************************************************************************)
(* The node watchdog (scripts/watchdog.py): one thread that polls the       *)
(* liveness of every node and kills and relaunches the ones it finds dead,  *)
(* next to the processes it supervises, the devices they need and the       *)
(* service manager that restarts it.                                        *)
(*                                                                          *)
(* Its loop is cut into steps where it waits or reads the outside world     *)
(* again, because processes come and go in between.  Everything that may    *)
(* go wrong outside (a node crashes, a command fails, times out or takes    *)
(* long, a clock jumps) is an action that spends one of MaxFaults.          *)
(***************************************************************************)
EXTENDS Integers, Sequences, FiniteSets

CONSTANTS
  Node,            \* the keys of NODES
  Order,           \* the order the loop visits them in
  ProcessOnly,     \* nodes with liveness 'process'
  Software,        \* nodes without a device (device_check is True)
  Threshold,       \* TOPIC_FAIL_THRESHOLD
  Cooldown,        \* RESTART_COOLDOWN, like all times below in clock ticks
  Poll,            \* POLL_INTERVAL
  TermWait,        \* the sleep between SIGTERM and SIGKILL
  KillWait,        \* the sleep after SIGKILL
  Delay,           \* restart_delay of every node
  ServiceDelay,    \* RestartSec and ExecStartPre of uav-watchdog.service
  StartTime,       \* a launched node is up after at most this long
  Jumps,           \* amounts by which the wall clock may be set
  MaxFaults        \* bound on the faults of the environment

ASSUME NodeAssumption ==
  /\ Order \in Seq(Node) \ {<<>>}
  /\ \A n \in Node : \E i \in DOMAIN Order : Order[i] = n
  /\ ProcessOnly \subseteq Node
  /\ Software \subseteq Node
  /\ Threshold \in Nat \ {0}
ASSUME DurationAssumption ==
  /\ {Cooldown, Poll, TermWait, KillWait, ServiceDelay, StartTime, MaxFaults} \subseteq Nat
  /\ Delay \in [Node -> Nat]
  /\ Jumps \subseteq Int

(* Where a running node binary came from: teleop.launch.py, the watchdog's
   present child, or a child whose launcher is gone or replaced. *)
Instance == {"stack", "child", "stray"}

VARIABLES
  up,          \* up[n]: the binaries of n that run
  slow,        \* nodes teleop.launch.py has yet to bring up
  device,      \* nodes whose device is connected
  launcher,    \* _child_procs[n]: "none", or the state of `ros2 launch`
  sinceLaunch, \* time since it was started
  pc,          \* where the watchdog's loop is
  at,          \* the node it is at, as an index of Order
  seen,        \* topics: the nodes whose topic was listed
  procAlive,   \* proc_alive of the present node
  streak,      \* _topic_fail_streak
  sinceRestart,\* now - _last_restart[n] on the wall clock
  elapsed,     \* time since `now` was read in _restart_node, on the same clock
  wait,        \* what is left of the present sleep
  running,     \* _running
  faults,      \* faults still to come
  missed,      \* history: consecutive polls with process up and topic missing
  excused      \* history: nodes with a reason to run twice

worldVars == <<up, slow, device, launcher, sinceLaunch>>
loopVars == <<at, seen, procAlive>>
memoryVars == <<streak, sinceRestart, elapsed>>
historyVars == <<missed, excused>>
vars == <<worldVars, pc, loopVars, memoryVars, wait, running, faults, historyVars>>

Steps == {"query", "check", "device", "restart", "pkill", "pkill9", "settle",
          "launch", "sleep", "cleanup", "stopped", "down"}
Launchers == {"none", "starting", "up", "exited"}
Longest == Cooldown + StartTime   \* ages beyond this are not told apart
Later(age) == IF age < Longest THEN age + 1 ELSE age
Current == Order[at]
LauncherRuns(n) == launcher[n] \in {"starting", "up"}

TypeOK ==
  /\ up \in [Node -> SUBSET Instance]
  /\ slow \subseteq Node
  /\ device \subseteq Node
  /\ launcher \in [Node -> Launchers]
  /\ sinceLaunch \in [Node -> 0 .. Longest]
  /\ pc \in Steps
  /\ at \in DOMAIN Order
  /\ seen \subseteq Node
  /\ procAlive \in BOOLEAN
  /\ streak \in [Node -> 0 .. Threshold - 1]
  /\ sinceRestart \in [Node -> Int]
  /\ \A n \in Node : sinceRestart[n] =< Longest
  /\ elapsed \in Int /\ elapsed =< Longest
  /\ wait \in Nat
  /\ running \in BOOLEAN
  /\ faults \in 0 .. MaxFaults
  /\ missed \in [Node -> 0 .. Threshold]
  /\ excused \subseteq Node

Init ==
  /\ slow \in SUBSET Node
  /\ up = [n \in Node |-> IF n \in slow THEN {} ELSE {"stack"}]
  /\ device = Node
  /\ launcher = [n \in Node |-> "none"]
  /\ sinceLaunch = [n \in Node |-> Longest]
  /\ pc = "query"
  /\ at = 1
  /\ seen = {}
  /\ procAlive = FALSE
  /\ streak = [n \in Node |-> 0]
  /\ sinceRestart = [n \in Node |-> Longest]
  /\ elapsed = 0
  /\ wait = 0
  /\ running = TRUE
  /\ faults = MaxFaults
  /\ missed = [n \in Node |-> 0]
  /\ excused = {}

Fault == faults > 0 /\ faults' = faults - 1

-----------------------------------------------------------------------------
(* The loop of main().  A step runs when the sleep before it is over. *)

Step(from) == pc = from /\ wait = 0
Goto(to) == pc' = to /\ wait' = 0
Pause(to, time) == pc' = to /\ wait' = time

NextNode ==
  IF at < Len(Order)
  THEN Goto("check") /\ at' = at + 1
  ELSE Pause("sleep", Poll) /\ at' = 1

(* `ros2 topic list` shows every topic anyone advertises or subscribes to, may
   show part of the graph, and shows nothing when it fails. *)
Query ==
  /\ Step("query")
  /\ seen' \in SUBSET Node
  /\ Goto("check")
  /\ at' = 1
  /\ UNCHANGED <<worldVars, procAlive, memoryVars, running, faults, historyVars>>

(* Mutant: `<=` for `<`. *)
DeferredOneTooOften(n, topicOnly) == topicOnly /\ streak[n] + 1 =< Threshold

(* A topic-only miss is not acted on before the Threshold-th in a row. *)
Deferred(n, topicOnly) == topicOnly /\ streak[n] + 1 < Threshold

(* Mutant: a healthy poll does not end the streak. *)
StreakKept(n, alive, deferred) ==
  IF deferred THEN streak[n] + 1 ELSE IF alive THEN streak[n] ELSE 0

StreakAfter(n, alive, deferred) == IF deferred THEN streak[n] + 1 ELSE 0

(* pgrep, reaping of the child, and the debounce.  A failing pgrep reads as a
   running process. *)
Check ==
  LET n == Current IN
  /\ Step("check")
  /\ \/ procAlive' = (up[n] # {}) /\ UNCHANGED faults
     \/ procAlive' = TRUE /\ up[n] = {} /\ Fault
  /\ launcher' = [launcher EXCEPT ![n] = IF @ = "exited" THEN "none" ELSE @]
  /\ LET alive == procAlive' /\ (n \in ProcessOnly \/ n \in seen)
         topicOnly == procAlive' /\ ~alive
         deferred == Deferred(n, topicOnly)
     IN /\ streak' = [streak EXCEPT ![n] = StreakAfter(n, alive, deferred)]
        /\ missed' = [missed EXCEPT ![n] =
             IF ~topicOnly THEN 0 ELSE IF @ < Threshold THEN @ + 1 ELSE @]
        /\ IF alive \/ deferred THEN NextNode ELSE Goto("device") /\ UNCHANGED at
  /\ UNCHANGED <<up, slow, device, sinceLaunch, seen, sinceRestart, elapsed,
                 running, excused>>

(* device_check; lsusb failing or timing out reads as no device. *)
DeviceCheck ==
  /\ Step("device")
  /\ \/ Current \in device \union Software /\ Goto("restart") /\ UNCHANGED <<at, faults>>
     \/ Current \notin device \union Software /\ NextNode /\ UNCHANGED faults
     \/ Current \in device \ Software /\ NextNode /\ Fault
  /\ UNCHANGED <<worldVars, seen, procAlive, memoryVars, running, historyVars>>

(* _restart_node up to the kill: the cooldown, then terminate the child. *)

(* Mutant: _last_restart is stamped before the cooldown is checked. *)
CoolingDownAgain ==
  /\ Step("restart")
  /\ sinceRestart[Current] < Cooldown
  /\ sinceRestart' = [sinceRestart EXCEPT ![Current] = 0]
  /\ NextNode
  /\ UNCHANGED <<worldVars, seen, procAlive, streak, elapsed, running, faults, historyVars>>

CoolingDown ==
  /\ Step("restart")
  /\ sinceRestart[Current] < Cooldown
  /\ NextNode
  /\ UNCHANGED <<worldVars, seen, procAlive, memoryVars, running, faults, historyVars>>

(* A launcher takes its node down with it, unless it has to be killed. *)
Terminated(n, killed) ==
  /\ launcher' = [launcher EXCEPT ![n] = "exited"]
  /\ up' = [up EXCEPT ![n] =
       IF "child" \notin @ THEN @
       ELSE (@ \ {"child"}) \union (IF killed THEN {"stray"} ELSE {})]

TerminateChild ==
  /\ Step("restart")
  /\ sinceRestart[Current] >= Cooldown
  /\ elapsed' = 0
  /\ \/ ~LauncherRuns(Current) /\ UNCHANGED <<up, launcher, faults>>
     \/ LauncherRuns(Current) /\ Terminated(Current, FALSE) /\ UNCHANGED faults
     \/ LauncherRuns(Current) /\ Terminated(Current, TRUE) /\ Fault
  /\ Goto("pkill")
  /\ UNCHANGED <<slow, device, sinceLaunch, loopVars, streak, sinceRestart,
                 running, historyVars>>

(* pkill: SIGTERM, of which some may survive, and then SIGKILL.  A pkill that
   times out ends the killing, and the launch goes ahead. *)

(* Mutant: only the watchdog's own child is stopped. *)
PKillSkipped ==
  /\ Step("pkill")
  /\ Goto("settle")
  /\ UNCHANGED <<worldVars, loopVars, memoryVars, running, faults, historyVars>>

PKill ==
  /\ Step("pkill")
  /\ IF up[Current] = {}
     THEN Goto("settle") /\ UNCHANGED up
     ELSE /\ Pause("pkill9", TermWait)
          /\ \E survivors \in SUBSET up[Current] :
               up' = [up EXCEPT ![Current] = survivors]
  /\ UNCHANGED <<slow, device, launcher, sinceLaunch, loopVars, memoryVars,
                 running, faults, historyVars>>

PKill9 ==
  /\ Step("pkill9")
  /\ up' = [up EXCEPT ![Current] = {}]
  /\ excused' = excused \ {Current}
  /\ Pause("settle", KillWait)
  /\ UNCHANGED <<slow, device, launcher, sinceLaunch, loopVars, memoryVars,
                 running, faults, missed>>

PKillTimesOut ==
  /\ Step("pkill") \/ Step("pkill9")
  /\ Fault
  /\ excused' = IF up[Current] = {} THEN excused ELSE excused \union {Current}
  /\ Goto("settle")
  /\ UNCHANGED <<worldVars, loopVars, memoryVars, running, missed>>

Settle ==
  /\ Step("settle")
  /\ Pause("launch", Delay[Current])
  /\ UNCHANGED <<worldVars, loopVars, memoryVars, running, faults, historyVars>>

(* The delay loop is the only part of a restart that looks at _running. *)
GiveUp ==
  /\ pc = "launch"
  /\ wait > 0
  /\ ~running
  /\ NextNode
  /\ UNCHANGED <<worldVars, seen, procAlive, memoryVars, running, faults, historyVars>>

(* Mutant: the restart is not remembered. *)
Unstamped(n) == sinceRestart

(* _last_restart[name] = now: the time of the decision, not of the launch. *)
Stamped(n) == [sinceRestart EXCEPT ![n] = elapsed]

Launch ==
  LET n == Current IN
  /\ Step("launch")
  /\ launcher' = [launcher EXCEPT ![n] = "starting"]
  /\ sinceLaunch' = [sinceLaunch EXCEPT ![n] = 0]
  /\ sinceRestart' = Stamped(n)
  /\ NextNode
  /\ UNCHANGED <<up, slow, device, seen, procAlive, streak, elapsed, running,
                 faults, historyVars>>

(* Mutant: the loop ends without _cleanup_children. *)
EndSleepUnclean ==
  /\ pc = "sleep"
  /\ wait = 0 \/ ~running
  /\ IF running THEN Goto("query") ELSE Goto("stopped")
  /\ UNCHANGED <<worldVars, loopVars, memoryVars, running, faults, historyVars>>

(* Mutant: `while True`. *)
EndSleepForever ==
  /\ pc = "sleep"
  /\ wait = 0 \/ ~running
  /\ Goto("query")
  /\ UNCHANGED <<worldVars, loopVars, memoryVars, running, faults, historyVars>>

EndSleep ==
  /\ pc = "sleep"
  /\ wait = 0 \/ ~running
  /\ IF running THEN Goto("query") ELSE Goto("cleanup")
  /\ UNCHANGED <<worldVars, loopVars, memoryVars, running, faults, historyVars>>

(* _cleanup_children; a child that ignores SIGTERM for 5 s is killed. *)
Cleanup ==
  /\ Step("cleanup")
  /\ \E killed \in SUBSET {n \in Node : LauncherRuns(n)} :
       /\ IF killed = {} THEN UNCHANGED faults ELSE Fault
       /\ up' = [n \in Node |->
            IF LauncherRuns(n) /\ "child" \in up[n]
            THEN (up[n] \ {"child"}) \union (IF n \in killed THEN {"stray"} ELSE {})
            ELSE up[n]]
  /\ launcher' = [n \in Node |-> IF LauncherRuns(n) THEN "exited" ELSE launcher[n]]
  /\ Goto("stopped")
  /\ UNCHANGED <<slow, device, sinceLaunch, loopVars, memoryVars, running, historyVars>>

Loop ==
  \/ Query \/ Check \/ DeviceCheck \/ CoolingDown \/ TerminateChild
  \/ PKill \/ PKill9 \/ PKillTimesOut \/ Settle \/ GiveUp \/ Launch
  \/ EndSleep \/ Cleanup

-----------------------------------------------------------------------------
(* The world. *)

Connected(n) == n \in device \union Software

(* A second passes.  Nothing in the loop takes time but its sleeps, except for
   a command that is slow.  A launched node is up within StartTime. *)
Tick ==
  /\ \A n \in Node :
       launcher[n] = "starting" /\ Connected(n) => sinceLaunch[n] < StartTime
  /\ IF wait > 0
     THEN wait' = wait - 1 /\ UNCHANGED faults
     ELSE UNCHANGED wait /\ (IF pc = "stopped" THEN UNCHANGED faults ELSE Fault)
  /\ sinceLaunch' = [n \in Node |-> Later(sinceLaunch[n])]
  /\ sinceRestart' = [n \in Node |-> Later(sinceRestart[n])]
  /\ elapsed' = Later(elapsed)
  /\ UNCHANGED <<up, slow, device, launcher, pc, loopVars, streak, running, historyVars>>

(* time.time() is the wall clock, which NTP or an operator may set. *)
WallJump ==
  /\ Fault
  /\ \E d \in Jumps :
       LET set(age) == IF age + d > Longest THEN Longest ELSE age + d
       IN /\ sinceRestart' = [n \in Node |-> set(sinceRestart[n])]
          /\ elapsed' = set(elapsed)
  /\ UNCHANGED <<worldVars, pc, loopVars, streak, wait, running, historyVars>>

NodeUp(n) ==
  /\ launcher[n] = "starting"
  /\ Connected(n)
  /\ launcher' = [launcher EXCEPT ![n] = "up"]
  /\ up' = [up EXCEPT ![n] = @ \union {"child"}]
  /\ UNCHANGED <<slow, device, sinceLaunch, pc, loopVars, memoryVars, wait,
                 running, faults, historyVars>>

StartFails(n) ==
  /\ launcher[n] = "starting"
  /\ ~Connected(n)
  /\ launcher' = [launcher EXCEPT ![n] = "exited"]
  /\ UNCHANGED <<up, slow, device, sinceLaunch, pc, loopVars, memoryVars, wait,
                 running, faults, historyVars>>

(* A node of teleop.launch.py that needed longer than the startup grace. *)
SlowUp(n) ==
  /\ n \in slow
  /\ slow' = slow \ {n}
  /\ up' = [up EXCEPT ![n] = @ \union {"stack"}]
  /\ excused' = IF up[n] # {} \/ LauncherRuns(n) \/ (Current = n /\ pc \in {"settle", "launch"})
                THEN excused \union {n} ELSE excused
  /\ UNCHANGED <<device, launcher, sinceLaunch, pc, loopVars, memoryVars, wait,
                 running, faults, missed>>

(* teleop.launch.py does not respawn; a launch file with one node ends with it. *)
NodeCrash(n) ==
  /\ Fault
  /\ \E i \in up[n] :
       /\ up' = [up EXCEPT ![n] = @ \ {i}]
       /\ launcher' = [launcher EXCEPT ![n] = IF i = "child" THEN "exited" ELSE @]
  /\ UNCHANGED <<slow, device, sinceLaunch, pc, loopVars, memoryVars, wait,
                 running, historyVars>>

LauncherCrash(n) ==
  /\ Fault
  /\ LauncherRuns(n)
  /\ Terminated(n, TRUE)
  /\ UNCHANGED <<slow, device, sinceLaunch, pc, loopVars, memoryVars, wait,
                 running, historyVars>>

Unplug(n) ==
  /\ Fault
  /\ n \in device \ Software
  /\ device' = device \ {n}
  /\ UNCHANGED <<up, slow, launcher, sinceLaunch, pc, loopVars, memoryVars, wait,
                 running, historyVars>>

Replug(n) ==
  /\ n \notin device
  /\ device' = device \union {n}
  /\ UNCHANGED <<up, slow, launcher, sinceLaunch, pc, loopVars, memoryVars, wait,
                 running, faults, historyVars>>

(* SIGTERM to the watchdog alone, or (systemctl stop, or teleop stopping, which
   BindsTo follows) to its control group: the launchers obey it at once, while
   the loop only looks at _running when it gets to sleep. *)
Signal ==
  /\ running
  /\ pc # "down"
  /\ running' = FALSE
  /\ \/ UNCHANGED <<up, launcher>>
     \/ /\ up' = [n \in Node |-> up[n] \intersect {"stack"}]
        /\ launcher' = [n \in Node |-> IF LauncherRuns(n) THEN "exited" ELSE launcher[n]]
  /\ UNCHANGED <<slow, device, sinceLaunch, pc, loopVars, memoryVars, wait,
                 faults, historyVars>>

(* An exception nothing catches.  The service manager kills the control group
   and starts a new watchdog, which remembers nothing. *)
WatchdogCrash ==
  /\ Fault
  /\ running
  /\ pc # "down"
  /\ Pause("down", ServiceDelay)
  /\ up' = [n \in Node |-> up[n] \intersect {"stack"}]
  /\ launcher' = [n \in Node |-> "none"]
  /\ streak' = [n \in Node |-> 0]
  /\ missed' = [n \in Node |-> 0]
  /\ sinceRestart' = [n \in Node |-> Longest]
  /\ UNCHANGED <<slow, device, sinceLaunch, loopVars, elapsed, running, excused>>

ServiceStart ==
  /\ Step("down")
  /\ Goto("query")
  /\ UNCHANGED <<worldVars, loopVars, memoryVars, running, faults, historyVars>>

World ==
  \/ Tick \/ WallJump \/ Signal \/ WatchdogCrash \/ ServiceStart
  \/ \E n \in Node : \/ NodeUp(n) \/ StartFails(n) \/ SlowUp(n) \/ NodeCrash(n)
                      \/ LauncherCrash(n) \/ Unplug(n) \/ Replug(n)

Next == Loop \/ World

Spec == Init /\ [][Next]_vars

(* The watchdog's thread and the clock keep going, launches end one way or the
   other, and the service manager does its job. *)
Fairness ==
  /\ WF_vars(Loop)
  /\ WF_vars(Tick)
  /\ WF_vars(ServiceStart)
  /\ \A n \in Node : WF_vars(NodeUp(n) \/ StartFails(n))
FairSpec == Spec /\ Fairness

-----------------------------------------------------------------------------
(* Safety. *)

Restarting == {"device", "restart", "pkill", "pkill9", "settle", "launch"}

(* A node whose process pgrep found running is only restarted when its topic
   was missing in Threshold polls in a row, and never when its process is
   authoritative. *)
KillJustified ==
  pc \in Restarting /\ procAlive =>
    Current \notin ProcessOnly /\ missed[Current] = Threshold

(* A node does not run twice (two muxes would both steer), unless the stack
   brought it up late or pkill timed out on it. *)
NoDuplicates == \A n \in Node : Cardinality(up[n]) > 1 => n \in excused

(* A launcher the watchdog lost sight of is not running: a clean stop leaves
   no node it launched behind, save one whose launcher it had to kill. *)
NoOrphans == pc = "stopped" => \A n \in Node : "child" \notin up[n] /\ ~LauncherRuns(n)

(* A child gets the cooldown, less what its own restart took, to come up before
   the watchdog may terminate it.  Only as long as nobody sets the clock. *)
ChildGetsTime ==
  [][pc = "restart" /\ pc' = "pkill" /\ LauncherRuns(Current) =>
       sinceLaunch[Current] + TermWait + KillWait + Delay[Current] + MaxFaults >= Cooldown]_vars

(* README.md:962 and watchdog.py:43: two restarts of a node are at least the
   cooldown apart.  The code stamps a restart with the time it was decided. *)
CooldownKept ==
  [][\A n \in Node : launcher'[n] = "starting" /\ launcher[n] # "starting" =>
       sinceLaunch[n] >= Cooldown]_vars

(* Liveness. *)

(* A node that is down comes back, unless its device is missing or the watchdog
   was told to stop. *)
Recovers ==
  \A n \in Node : up[n] = {} ~> up[n] # {} \/ ~Connected(n) \/ ~running

(* SIGTERM is obeyed from wherever the loop is. *)
Stops == ~running ~> pc = "stopped"
=============================================================================
