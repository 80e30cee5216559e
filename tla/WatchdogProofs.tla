--------------------------- MODULE WatchdogProofs ---------------------------
(***************************************************************************)
(* The safety of the watchdog, for any nodes, visiting order, durations and *)
(* number of faults: its types, that kills are justified, that launchers    *)
(* stay in order and leave no orphan, that nothing runs twice, and that a   *)
(* child gets its time to start.                                            *)
(***************************************************************************)
EXTENDS Watchdog, FiniteSetTheorems, TLAPS

-----------------------------------------------------------------------------
(* Types. *)

(* The constants are numbers, as NodeAssumption and DurationAssumption say. *)
LEMMA Durations ==
  /\ Threshold \in Nat /\ Threshold > 0
  /\ Poll \in Nat /\ TermWait \in Nat /\ KillWait \in Nat /\ ServiceDelay \in Nat
  /\ Cooldown \in Nat /\ StartTime \in Nat /\ MaxFaults \in Nat
  /\ Longest \in Nat
  /\ \A n \in Node : Delay[n] \in Nat
BY NodeAssumption, DurationAssumption DEF Longest

(* The visiting order is a non-empty sequence of nodes. *)
LEMMA Index ==
  /\ 1 \in DOMAIN Order
  /\ \A i \in DOMAIN Order : i < Len(Order) => i + 1 \in DOMAIN Order
  /\ \A i \in DOMAIN Order : Order[i] \in Node
BY NodeAssumption

(* The loop is always at some node. *)
LEMMA CurrentNode == TypeOK => Current \in Node
BY Index DEF TypeOK, Current

(* Going on to the next node stays within the order. *)
LEMMA NextNodeType ==
  ASSUME TypeOK, NextNode
  PROVE  pc' \in Steps /\ at' \in DOMAIN Order /\ wait' \in Nat
<1>1. at \in DOMAIN Order
  BY DEF TypeOK
<1>2. at' \in DOMAIN Order
  BY <1>1, Index DEF NextNode, Goto, Pause
<1> QED
  BY <1>2, Durations DEF NextNode, Goto, Pause, Steps

(* Every step of the loop keeps the types. *)
LEMMA LoopType ==
  ASSUME TypeOK, Loop
  PROVE  TypeOK'
<1>n. Current \in Node
  BY CurrentNode
<1> USE DEF TypeOK, Step, Goto, Pause, worldVars, loopVars, memoryVars, historyVars, Steps
<1>1. CASE Query
  BY <1>1, Index DEF Query
<1>2. CASE Check
  <2> DEFINE alive == procAlive' /\ (Current \in ProcessOnly \/ Current \in seen)
             topicOnly == procAlive' /\ ~alive
             deferred == Deferred(Current, topicOnly)
  <2>1. StreakAfter(Current, alive, deferred) \in 0 .. Threshold - 1
    BY <1>n, Durations DEF StreakAfter, Deferred
  <2>2. streak' \in [Node -> 0 .. Threshold - 1]
    BY <1>2, <2>1 DEF Check
  <2>3. missed' \in [Node -> 0 .. Threshold]
    <3>1. \/ missed' = [missed EXCEPT ![Current] = 0]
          \/ missed' = [missed EXCEPT ![Current] = IF @ < Threshold THEN @ + 1 ELSE @]
      BY <1>2 DEF Check
    <3> QED
      BY <3>1, Durations
  <2>4. launcher' \in [Node -> Launchers]
    BY <1>2 DEF Check, Launchers
  <2>5. pc' \in Steps /\ at' \in DOMAIN Order /\ wait' \in Nat
    BY <1>2, NextNodeType DEF Check
  <2>6. procAlive' \in BOOLEAN /\ faults' \in 0 .. MaxFaults
    <3>1. faults' = faults \/ Fault
      BY <1>2 DEF Check
    <3>2. procAlive' \in BOOLEAN
      BY <1>2 DEF Check
    <3> QED
      BY <3>1, <3>2, Durations DEF Fault
  <2> QED
    BY <1>2, <2>2, <2>3, <2>4, <2>5, <2>6 DEF Check
<1>3. CASE DeviceCheck
  <2>1. pc' \in Steps /\ at' \in DOMAIN Order /\ wait' \in Nat
    BY <1>3, NextNodeType DEF DeviceCheck
  <2> QED
    BY <1>3, <2>1, Durations DEF DeviceCheck, Fault
<1>4. CASE CoolingDown
  <2>1. pc' \in Steps /\ at' \in DOMAIN Order /\ wait' \in Nat
    BY <1>4, NextNodeType DEF CoolingDown
  <2> QED
    BY <1>4, <2>1 DEF CoolingDown
<1>5. CASE TerminateChild
  <2>1. up' \in [Node -> SUBSET Instance] /\ launcher' \in [Node -> Launchers]
    <3>1. CASE up' = up /\ launcher' = launcher
      BY <3>1
    <3>2. ASSUME NEW killed \in BOOLEAN, Terminated(Current, killed)
          PROVE  up' \in [Node -> SUBSET Instance] /\ launcher' \in [Node -> Launchers]
      BY <3>2 DEF Terminated, Instance, Launchers
    <3> QED
      BY <1>5, <3>1, <3>2 DEF TerminateChild
  <2>2. faults' \in 0 .. MaxFaults
    <3>1. faults' = faults \/ Fault
      BY <1>5 DEF TerminateChild
    <3> QED
      BY <3>1, Durations DEF Fault
  <2>3. elapsed' \in Int /\ elapsed' =< Longest /\ pc' \in Steps /\ wait' \in Nat
    BY <1>5, Durations DEF TerminateChild
  <2> QED
    BY <1>5, <2>1, <2>2, <2>3 DEF TerminateChild
<1>6. CASE PKill
  <2>1. up' \in [Node -> SUBSET Instance]
    BY <1>6 DEF PKill
  <2> QED
    BY <1>6, <2>1, Durations DEF PKill
<1>7. CASE PKill9
  BY <1>7, Durations DEF PKill9
<1>8. CASE PKillTimesOut
  BY <1>8, <1>n, Durations DEF PKillTimesOut, Fault
<1>9. CASE Settle
  BY <1>9, <1>n, Durations DEF Settle
<1>10. CASE GiveUp
  <2>1. pc' \in Steps /\ at' \in DOMAIN Order /\ wait' \in Nat
    BY <1>10, NextNodeType DEF GiveUp
  <2> QED
    BY <1>10, <2>1 DEF GiveUp
<1>11. CASE Launch
  <2>1. pc' \in Steps /\ at' \in DOMAIN Order /\ wait' \in Nat
    BY <1>11, NextNodeType DEF Launch
  <2>2. sinceRestart' \in [Node -> Int] /\ \A n \in Node : sinceRestart'[n] =< Longest
    BY <1>11 DEF Launch, Stamped
  <2>3. launcher' \in [Node -> Launchers]
    BY <1>11 DEF Launch, Launchers
  <2>4. sinceLaunch' \in [Node -> 0 .. Longest]
    <3>1. 0 \in 0 .. Longest
      BY Durations
    <3>2. sinceLaunch' = [sinceLaunch EXCEPT ![Current] = 0]
      BY <1>11 DEF Launch
    <3> QED
      BY <3>1, <3>2
  <2> QED
    BY <1>11, <2>1, <2>2, <2>3, <2>4 DEF Launch
<1>12. CASE EndSleep
  BY <1>12 DEF EndSleep
<1>13. CASE Cleanup
  <2>1. up' \in [Node -> SUBSET Instance]
    BY <1>13 DEF Cleanup, Instance
  <2>2. launcher' \in [Node -> Launchers]
    BY <1>13 DEF Cleanup, Launchers
  <2> QED
    BY <1>13, <2>1, <2>2, Durations DEF Cleanup, Fault
<1> QED
  BY <1>1, <1>2, <1>3, <1>4, <1>5, <1>6, <1>7, <1>8, <1>9, <1>10, <1>11, <1>12, <1>13
     DEF Loop

(* A tick, and setting the clock, keep the ages in range. *)
LEMMA AgesType ==
  /\ \A age \in 0 .. Longest : Later(age) \in 0 .. Longest
  /\ \A age \in Int : age =< Longest => Later(age) \in Int /\ Later(age) =< Longest
BY Durations DEF Later

(* Every step of the world keeps the types. *)
LEMMA WorldType ==
  ASSUME TypeOK, World
  PROVE  TypeOK'
<1> USE DEF TypeOK, Step, Goto, Pause, worldVars, loopVars, memoryVars, historyVars, Steps
<1>f. Fault => faults' \in 0 .. MaxFaults
  BY Durations DEF Fault
<1>1. CASE Tick
  <2>1. wait' \in Nat /\ faults' \in 0 .. MaxFaults
    BY <1>1, <1>f DEF Tick
  <2>2. sinceLaunch' \in [Node -> 0 .. Longest]
    BY <1>1, AgesType DEF Tick
  <2>3. sinceRestart' \in [Node -> Int] /\ \A n \in Node : sinceRestart'[n] =< Longest
    BY <1>1, AgesType DEF Tick
  <2>4. elapsed' \in Int /\ elapsed' =< Longest
    BY <1>1, AgesType DEF Tick
  <2> QED
    BY <1>1, <2>1, <2>2, <2>3, <2>4 DEF Tick
<1>2. CASE WallJump
  <2> DEFINE set(age, d) == IF age + d > Longest THEN Longest ELSE age + d
  <2>1. PICK d \in Jumps : /\ sinceRestart' = [n \in Node |-> set(sinceRestart[n], d)]
                           /\ elapsed' = set(elapsed, d)
    BY <1>2 DEF WallJump
  <2>2. \A age \in Int : set(age, d) \in Int /\ set(age, d) =< Longest
    BY <2>1, Durations, DurationAssumption
  <2> HIDE DEF set
  <2>3. sinceRestart' \in [Node -> Int] /\ \A n \in Node : sinceRestart'[n] =< Longest
    BY <2>1, <2>2
  <2>4. elapsed' \in Int /\ elapsed' =< Longest
    BY <2>1, <2>2
  <2> QED
    BY <1>2, <1>f, <2>3, <2>4 DEF WallJump
<1>3. CASE Signal
  <2>1. up' \in [Node -> SUBSET Instance] /\ launcher' \in [Node -> Launchers]
    BY <1>3 DEF Signal, Launchers
  <2> QED
    BY <1>3, <2>1 DEF Signal
<1>4. CASE WatchdogCrash
  <2>1. up' \in [Node -> SUBSET Instance] /\ launcher' \in [Node -> Launchers]
    BY <1>4 DEF WatchdogCrash, Launchers
  <2>2. sinceRestart' \in [Node -> Int] /\ \A n \in Node : sinceRestart'[n] =< Longest
    BY <1>4, Durations DEF WatchdogCrash
  <2>3. streak' \in [Node -> 0 .. Threshold - 1] /\ missed' \in [Node -> 0 .. Threshold]
    BY <1>4, Durations DEF WatchdogCrash
  <2> QED
    BY <1>4, <1>f, <2>1, <2>2, <2>3, Durations DEF WatchdogCrash
<1>5. CASE ServiceStart
  BY <1>5 DEF ServiceStart
<1>6. ASSUME NEW n \in Node, NodeUp(n) PROVE TypeOK'
  BY <1>6 DEF NodeUp, Instance, Launchers
<1>7. ASSUME NEW n \in Node, StartFails(n) PROVE TypeOK'
  BY <1>7 DEF StartFails, Launchers
<1>8. ASSUME NEW n \in Node, SlowUp(n) PROVE TypeOK'
  BY <1>8 DEF SlowUp, Instance
<1>9. ASSUME NEW n \in Node, NodeCrash(n) PROVE TypeOK'
  <2>1. PICK i \in up[n] :
          /\ up' = [up EXCEPT ![n] = @ \ {i}]
          /\ launcher' = [launcher EXCEPT ![n] = IF i = "child" THEN "exited" ELSE @]
    BY <1>9 DEF NodeCrash
  <2>2. up' \in [Node -> SUBSET Instance] /\ launcher' \in [Node -> Launchers]
    BY <2>1 DEF Launchers
  <2> QED
    BY <1>9, <1>f, <2>2 DEF NodeCrash
<1>10. ASSUME NEW n \in Node, LauncherCrash(n) PROVE TypeOK'
  <2>1. up' \in [Node -> SUBSET Instance] /\ launcher' \in [Node -> Launchers]
    BY <1>10 DEF LauncherCrash, Terminated, Instance, Launchers
  <2> QED
    BY <1>10, <1>f, <2>1 DEF LauncherCrash
<1>11. ASSUME NEW n \in Node, Unplug(n) PROVE TypeOK'
  BY <1>11, <1>f DEF Unplug
<1>12. ASSUME NEW n \in Node, Replug(n) PROVE TypeOK'
  BY <1>12 DEF Replug
<1> QED
  BY <1>1, <1>2, <1>3, <1>4, <1>5, <1>6, <1>7, <1>8, <1>9, <1>10, <1>11, <1>12 DEF World

(* The watchdog's state has its type in every reachable state. *)
THEOREM WatchdogTypeCorrect == Spec => []TypeOK
<1>1. Init => TypeOK
  <2> SUFFICES ASSUME Init PROVE TypeOK
    OBVIOUS
  <2>1. up \in [Node -> SUBSET Instance] /\ launcher \in [Node -> Launchers]
    BY DEF Init, Instance, Launchers
  <2>2. /\ 0 \in 0 .. Threshold - 1 /\ 0 \in 0 .. Threshold
        /\ 0 \in Int /\ 0 =< Longest /\ Longest \in 0 .. Longest
        /\ MaxFaults \in 0 .. MaxFaults
    BY Durations
  <2>3. sinceLaunch \in [Node -> 0 .. Longest]
    BY <2>2 DEF Init
  <2>4. sinceRestart \in [Node -> Int] /\ \A n \in Node : sinceRestart[n] =< Longest
    BY <2>2, Durations DEF Init
  <2>5. streak \in [Node -> 0 .. Threshold - 1] /\ missed \in [Node -> 0 .. Threshold]
    BY <2>2 DEF Init
  <2> QED
    BY <2>1, <2>2, <2>3, <2>4, <2>5, Index DEF Init, TypeOK, Steps
<1>2. TypeOK /\ UNCHANGED vars => TypeOK'
  BY DEF TypeOK, vars, worldVars, loopVars, memoryVars, historyVars
<1>3. TypeOK /\ [Next]_vars => TypeOK'
  BY <1>2, LoopType, WorldType DEF Next
<1> QED
  BY <1>1, <1>3, PTL DEF Spec

-----------------------------------------------------------------------------
(* Debouncing: the code's streak never runs ahead of the misses. *)
StreakCounted == \A n \in Node : streak[n] =< missed[n]

KillInv == StreakCounted /\ KillJustified

(* A poll that ends in a restart of a running node was the Threshold-th miss. *)
LEMMA CheckKeepsKillInv ==
  ASSUME TypeOK, KillInv, Check
  PROVE  KillInv'
<1> DEFINE n == Current
           alive == procAlive' /\ (n \in ProcessOnly \/ n \in seen)
           topicOnly == procAlive' /\ ~alive
           deferred == Deferred(n, topicOnly)
<1>1. n \in Node /\ streak[n] \in Nat /\ missed[n] \in Nat /\ missed[n] =< Threshold
      /\ streak[n] =< missed[n] /\ streak[n] < Threshold
  BY CurrentNode, Durations DEF TypeOK, KillInv, StreakCounted
<1>2. /\ streak' = [streak EXCEPT ![n] = StreakAfter(n, alive, deferred)]
      /\ missed' = [missed EXCEPT ![n] =
           IF ~topicOnly THEN 0 ELSE IF @ < Threshold THEN @ + 1 ELSE @]
      /\ IF alive \/ deferred THEN NextNode ELSE Goto("device") /\ UNCHANGED at
  BY DEF Check
<1>3. streak'[n] = StreakAfter(n, alive, deferred)
      /\ missed'[n] = IF ~topicOnly THEN 0 ELSE IF missed[n] < Threshold THEN missed[n] + 1 ELSE missed[n]
  BY <1>1, <1>2 DEF TypeOK
<1>4. streak'[n] =< missed'[n]
  BY <1>1, <1>3, Durations DEF StreakAfter, Deferred
<1>5. StreakCounted'
  BY <1>1, <1>2, <1>4 DEF StreakCounted, KillInv, TypeOK
<1>6. CASE alive \/ deferred
  BY <1>2, <1>5, <1>6 DEF KillInv, KillJustified, Restarting, NextNode, Goto, Pause
<1>7. CASE ~alive /\ ~deferred
  <2>1. UNCHANGED at /\ Current' = n
    BY <1>2, <1>7 DEF Current
  <2>2. procAlive' => n \notin ProcessOnly /\ missed'[n] = Threshold
    BY <1>1, <1>3, <1>7, Durations DEF Deferred
  <2> QED
    BY <1>5, <2>1, <2>2 DEF KillInv, KillJustified
<1> QED
  BY <1>6, <1>7

(* No other step touches the counters, and none comes to a restart from
   elsewhere. *)
Undisturbed ==
  /\ UNCHANGED <<streak, missed>>
  /\ pc' \in Restarting => pc \in Restarting /\ UNCHANGED <<at, procAlive>>

(* Nobody but Check, and a crash of the watchdog, touches the counters. *)
LEMMA OthersLeaveCounters ==
  ASSUME Next, ~Check, ~WatchdogCrash
  PROVE  Undisturbed
<1> USE DEF Undisturbed, Restarting, NextNode, Step, Goto, Pause, worldVars, loopVars,
            memoryVars, historyVars
<1>1. CASE Query \/ EndSleep \/ Cleanup \/ GiveUp \/ Launch \/ CoolingDown
  BY <1>1 DEF Query, EndSleep, Cleanup, GiveUp, Launch, CoolingDown
<1>2. CASE DeviceCheck
  BY <1>2 DEF DeviceCheck
<1>3. CASE TerminateChild \/ PKill \/ PKill9 \/ PKillTimesOut \/ Settle
  BY <1>3 DEF TerminateChild, PKill, PKill9, PKillTimesOut, Settle
<1>4. CASE Tick \/ WallJump \/ Signal \/ ServiceStart
  BY <1>4 DEF Tick, WallJump, Signal, ServiceStart
<1>5. ASSUME NEW n \in Node,
             \/ NodeUp(n) \/ StartFails(n) \/ SlowUp(n) \/ NodeCrash(n)
             \/ LauncherCrash(n) \/ Unplug(n) \/ Replug(n)
      PROVE  Undisturbed
  BY <1>5 DEF NodeUp, StartFails, SlowUp, NodeCrash, LauncherCrash, Unplug, Replug
<1> QED
  BY <1>1, <1>2, <1>3, <1>4, <1>5 DEF Next, Loop, World

(* A running node is restarted only after Threshold misses in a row. *)
THEOREM KillsAreJustified == Spec => []KillJustified
<1>1. Init => KillInv
  BY DEF Init, KillInv, KillJustified, StreakCounted, Restarting
<1>2. KillInv /\ UNCHANGED vars => KillInv'
  BY DEF KillInv, KillJustified, StreakCounted, Current, vars, worldVars, loopVars,
         memoryVars, historyVars
<1>3. KillInv /\ Undisturbed => KillInv'
  BY DEF Undisturbed, KillInv, KillJustified, StreakCounted, Current
<1>4. TypeOK /\ KillInv /\ WatchdogCrash => KillInv'
  BY DEF WatchdogCrash, KillInv, KillJustified, StreakCounted, Restarting, Pause
<1>5. TypeOK /\ KillInv /\ [Next]_vars => KillInv'
  BY <1>2, <1>3, <1>4, CheckKeepsKillInv, OthersLeaveCounters
<1>6. KillInv => KillJustified
  BY DEF KillInv
<1> QED
  BY <1>1, <1>5, <1>6, WatchdogTypeCorrect, PTL DEF Spec

-----------------------------------------------------------------------------
(* Launchers.  A child implies its launcher; the loop never kills or launches
   over a running launcher; and none is left when it has stopped. *)
ChildHasLauncher == \A n \in Node : "child" \in up[n] => launcher[n] = "up"
KillsAfterTerminate ==
  pc \in {"pkill", "pkill9", "settle", "launch"} => ~LauncherRuns(Current)
StoppedQuiet == pc = "stopped" => \A n \in Node : ~LauncherRuns(n)

LauncherInv == ChildHasLauncher /\ KillsAfterTerminate /\ StoppedQuiet

(* After a launcher was terminated it does not run and has no child. *)
LEMMA TerminatedStops ==
  ASSUME TypeOK, ChildHasLauncher, NEW n \in Node, NEW killed \in BOOLEAN,
         Terminated(n, killed)
  PROVE  /\ launcher'[n] = "exited"
         /\ \A m \in Node : m # n => launcher'[m] = launcher[m] /\ up'[m] = up[m]
         /\ "child" \notin up'[n]
BY DEF TypeOK, Terminated

(* The loop keeps the launchers in order. *)
LEMMA LoopLaunchers ==
  ASSUME TypeOK, LauncherInv, Loop
  PROVE  LauncherInv'
<1>c. Current \in Node
  BY CurrentNode
<1> USE DEF LauncherInv, ChildHasLauncher, KillsAfterTerminate, StoppedQuiet, LauncherRuns,
            NextNode, Step, Goto, Pause, worldVars, loopVars, memoryVars, historyVars
<1>1. CASE Query \/ DeviceCheck \/ CoolingDown \/ GiveUp \/ EndSleep
  BY <1>1 DEF Query, DeviceCheck, CoolingDown, GiveUp, EndSleep, Current
<1>2. CASE Check
  <2>1. /\ up' = up
        /\ launcher' = [launcher EXCEPT ![Current] = IF @ = "exited" THEN "none" ELSE @]
        /\ pc' \in {"check", "sleep", "device"}
    BY <1>2 DEF Check
  <2> QED
    BY <1>c, <2>1 DEF TypeOK
<1>3. CASE TerminateChild
  <2>1. pc' = "pkill" /\ Current' = Current
    BY <1>3 DEF TerminateChild, Current
  <2>2. CASE ~LauncherRuns(Current) /\ UNCHANGED <<up, launcher>>
    BY <2>1, <2>2
  <2>3. ASSUME NEW killed \in BOOLEAN, Terminated(Current, killed)
        PROVE  LauncherInv'
    BY <1>c, <2>1, <2>3, TerminatedStops
  <2> QED
    BY <1>3, <2>2, <2>3 DEF TerminateChild
<1>4. CASE PKill \/ PKill9 \/ PKillTimesOut \/ Settle
  <2>1. /\ launcher' = launcher /\ Current' = Current
        /\ pc \in {"pkill", "pkill9", "settle"} /\ pc' \in {"pkill9", "settle", "launch"}
    BY <1>4 DEF PKill, PKill9, PKillTimesOut, Settle, Current
  <2>2. \A n \in Node : up'[n] \subseteq up[n]
    BY <1>4 DEF PKill, PKill9, PKillTimesOut, Settle, TypeOK
  <2> QED
    BY <2>1, <2>2
<1>5. CASE Launch
  <2>1. /\ launcher' = [launcher EXCEPT ![Current] = "starting"] /\ up' = up
        /\ pc' \in {"check", "sleep"} /\ pc = "launch"
    BY <1>5 DEF Launch
  <2> QED
    BY <1>c, <2>1 DEF TypeOK
<1>6. CASE Cleanup
  <2>1. /\ launcher' = [n \in Node |-> IF LauncherRuns(n) THEN "exited" ELSE launcher[n]]
        /\ pc' = "stopped"
    BY <1>6 DEF Cleanup
  <2>2. \A n \in Node : "child" \notin up'[n]
    BY <1>6 DEF Cleanup
  <2> QED
    BY <2>1, <2>2
<1> QED
  BY <1>1, <1>2, <1>3, <1>4, <1>5, <1>6 DEF Loop

(* The world keeps them in order too. *)
LEMMA WorldLaunchers ==
  ASSUME TypeOK, LauncherInv, World
  PROVE  LauncherInv'
<1>c. Order[at] \in Node
  BY CurrentNode DEF Current
<1> USE DEF LauncherInv, ChildHasLauncher, KillsAfterTerminate, StoppedQuiet, LauncherRuns,
            Step, Goto, Pause, worldVars, loopVars, memoryVars, historyVars, Current
<1>1. CASE Tick \/ WallJump
  BY <1>1 DEF Tick, WallJump
<1>2. CASE ServiceStart
  BY <1>2 DEF ServiceStart
<1>3. CASE Signal
  <2>1. CASE UNCHANGED <<up, launcher>>
    BY <1>3, <2>1 DEF Signal
  <2>2. CASE /\ up' = [n \in Node |-> up[n] \intersect {"stack"}]
             /\ launcher' = [n \in Node |-> IF LauncherRuns(n) THEN "exited" ELSE launcher[n]]
    BY <1>3, <1>c, <2>2 DEF Signal
  <2> QED
    BY <1>3, <2>1, <2>2 DEF Signal
<1>4. CASE WatchdogCrash
  BY <1>4 DEF WatchdogCrash
<1>5. ASSUME NEW n \in Node, NodeUp(n) PROVE LauncherInv'
  BY <1>5 DEF NodeUp, TypeOK
<1>6. ASSUME NEW n \in Node, StartFails(n) PROVE LauncherInv'
  BY <1>6 DEF StartFails, TypeOK
<1>7. ASSUME NEW n \in Node, SlowUp(n) PROVE LauncherInv'
  BY <1>7 DEF SlowUp, TypeOK
<1>8. ASSUME NEW n \in Node, NodeCrash(n) PROVE LauncherInv'
  BY <1>8 DEF NodeCrash, TypeOK
<1>9. ASSUME NEW n \in Node, LauncherCrash(n) PROVE LauncherInv'
  <2>1. Terminated(n, TRUE) /\ UNCHANGED <<pc, at>>
    BY <1>9 DEF LauncherCrash
  <2> QED
    BY <1>c, <2>1, TerminatedStops
<1>10. ASSUME NEW n \in Node, Unplug(n) \/ Replug(n) PROVE LauncherInv'
  BY <1>10 DEF Unplug, Replug
<1> QED
  BY <1>1, <1>2, <1>3, <1>4, <1>5, <1>6, <1>7, <1>8, <1>9, <1>10 DEF World

(* The launchers are in order in every reachable state. *)
THEOREM LaunchersInOrder == Spec => []LauncherInv
<1>1. Init => LauncherInv
  BY DEF Init, LauncherInv, ChildHasLauncher, KillsAfterTerminate, StoppedQuiet
<1>2. LauncherInv /\ UNCHANGED vars => LauncherInv'
  BY DEF LauncherInv, ChildHasLauncher, KillsAfterTerminate, StoppedQuiet, LauncherRuns,
         Current, vars, worldVars, loopVars
<1>3. TypeOK /\ LauncherInv /\ [Next]_vars => LauncherInv'
  BY <1>2, LoopLaunchers, WorldLaunchers DEF Next
<1> QED
  BY <1>1, <1>3, WatchdogTypeCorrect, PTL DEF Spec

(* A clean stop leaves nothing behind that the watchdog launched. *)
THEOREM NothingOrphaned == Spec => []NoOrphans
<1>1. LauncherInv => NoOrphans
  BY DEF LauncherInv, ChildHasLauncher, StoppedQuiet, NoOrphans, LauncherRuns
<1> QED
  BY <1>1, LaunchersInOrder, PTL

-----------------------------------------------------------------------------
(* Instances.  What keeps a node without an excuse from running twice: nothing
   of it is up when it is being launched or its launcher has yet to start it. *)
Alone(n) ==
  /\ \A i, j \in up[n] : i = j
  /\ launcher[n] = "starting" => up[n] = {}
  /\ pc \in {"settle", "launch"} /\ Current = n => up[n] = {}

AloneInv == \A n \in Node \ excused : Alone(n)

(* Fewer instances, and no new launch, leave a node alone. *)
LEMMA FewerAlone ==
  ASSUME NEW n \in Node, Alone(n), up'[n] \subseteq up[n],
         launcher'[n] = "starting" => launcher[n] = "starting",
         pc' \in {"settle", "launch"} /\ Current' = n =>
           up'[n] = {} \/ (pc \in {"settle", "launch"} /\ Current = n)
  PROVE  Alone(n)'
BY DEF Alone

(* The loop launches a node only where nothing of it is left, or excuses it. *)
LEMMA LoopAlone ==
  ASSUME TypeOK, LauncherInv, AloneInv, Loop
  PROVE  AloneInv'
<1>c. Current \in Node
  BY CurrentNode
<1> SUFFICES ASSUME NEW n \in Node, n \notin excused' PROVE Alone(n)'
  BY DEF AloneInv
<1> USE DEF NextNode, Step, Goto, Pause, worldVars, loopVars, memoryVars, historyVars
<1>1. CASE Query \/ DeviceCheck \/ CoolingDown \/ GiveUp \/ EndSleep
  <2>1. UNCHANGED <<up, launcher, excused>> /\ pc' \notin {"settle", "launch"}
    BY <1>1 DEF Query, DeviceCheck, CoolingDown, GiveUp, EndSleep
  <2> QED
    BY <2>1, FewerAlone DEF AloneInv
<1>2. CASE Check
  <2>1. /\ UNCHANGED <<up, excused>> /\ pc' \notin {"settle", "launch"}
        /\ launcher' = [launcher EXCEPT ![Current] = IF @ = "exited" THEN "none" ELSE @]
    BY <1>2 DEF Check
  <2> QED
    BY <1>c, <2>1, FewerAlone DEF AloneInv, TypeOK
<1>3. CASE TerminateChild
  <2>1. pc' = "pkill" /\ UNCHANGED excused
    BY <1>3 DEF TerminateChild
  <2>2. CASE UNCHANGED <<up, launcher>>
    BY <2>1, <2>2, FewerAlone DEF AloneInv
  <2>3. ASSUME NEW killed \in BOOLEAN, Terminated(Current, killed)
        PROVE  Alone(n)'
    <3>1. CASE n # Current
      BY <1>c, <2>1, <2>3, <3>1, TerminatedStops, FewerAlone DEF AloneInv, LauncherInv
    <3>2. CASE n = Current
      <4>1. up'[n] = IF "child" \notin up[n] THEN up[n]
                     ELSE (up[n] \ {"child"}) \union (IF killed THEN {"stray"} ELSE {})
        BY <2>3, <3>2 DEF Terminated, TypeOK
      <4>2. \A i, j \in up'[n] : i = j
        BY <2>1, <4>1 DEF AloneInv, Alone
      <4> QED
        BY <1>c, <2>1, <2>3, <3>2, <4>2, TerminatedStops DEF Alone, LauncherInv
    <3> QED
      BY <3>1, <3>2
  <2> QED
    BY <1>3, <2>2, <2>3 DEF TerminateChild
<1>4. CASE PKill
  <2>1. /\ UNCHANGED <<launcher, excused, at>>
        /\ pc' = "settle" => up[Current] = {} /\ up' = up
        /\ pc' # "launch"
    BY <1>4 DEF PKill
  <2>2. up'[n] \subseteq up[n]
    BY <1>4 DEF PKill, TypeOK
  <2>3. Current' = Current
    BY <2>1 DEF Current
  <2> QED
    BY <2>1, <2>2, <2>3, FewerAlone DEF AloneInv
<1>5. CASE PKill9
  <2>1. /\ UNCHANGED <<launcher, at>> /\ pc = "pkill9" /\ pc' = "settle"
        /\ up' = [up EXCEPT ![Current] = {}]
        /\ excused' = excused \ {Current}
    BY <1>5 DEF PKill9
  <2>2. Current' = Current
    BY <2>1 DEF Current
  <2>3. CASE n = Current
    BY <2>1, <2>3 DEF Alone, TypeOK
  <2>4. CASE n # Current
    BY <2>1, <2>2, <2>4, FewerAlone DEF AloneInv, TypeOK
  <2> QED
    BY <2>3, <2>4
<1>6. CASE PKillTimesOut
  <2>1. /\ UNCHANGED <<up, launcher, at>> /\ pc' = "settle"
        /\ excused' = IF up[Current] = {} THEN excused ELSE excused \union {Current}
    BY <1>6 DEF PKillTimesOut
  <2>2. Current' = Current
    BY <2>1 DEF Current
  <2> QED
    BY <2>1, <2>2, FewerAlone DEF AloneInv
<1>7. CASE Settle
  <2>1. UNCHANGED <<up, launcher, at, excused>> /\ pc = "settle" /\ pc' = "launch"
    BY <1>7 DEF Settle
  <2>2. Current' = Current
    BY <2>1 DEF Current
  <2> QED
    BY <2>1, <2>2, FewerAlone DEF AloneInv
<1>8. CASE Launch
  <2>1. /\ UNCHANGED <<up, excused>> /\ pc = "launch" /\ pc' \notin {"settle", "launch"}
        /\ launcher' = [launcher EXCEPT ![Current] = "starting"]
    BY <1>8 DEF Launch
  <2>2. CASE n = Current
    BY <2>1, <2>2 DEF AloneInv, Alone
  <2>3. CASE n # Current
    BY <2>1, <2>3, FewerAlone DEF AloneInv, TypeOK
  <2> QED
    BY <2>2, <2>3
<1>9. CASE Cleanup
  <2>1. /\ UNCHANGED excused /\ pc' = "stopped"
        /\ launcher' = [m \in Node |-> IF LauncherRuns(m) THEN "exited" ELSE launcher[m]]
    BY <1>9 DEF Cleanup
  <2>2. PICK killed \in SUBSET {m \in Node : LauncherRuns(m)} :
          up' = [m \in Node |->
            IF LauncherRuns(m) /\ "child" \in up[m]
            THEN (up[m] \ {"child"}) \union (IF m \in killed THEN {"stray"} ELSE {})
            ELSE up[m]]
    BY <1>9 DEF Cleanup
  <2>3. \A i, j \in up'[n] : i = j
    BY <2>1, <2>2 DEF AloneInv, Alone
  <2>4. launcher'[n] # "starting"
    BY <2>1 DEF LauncherRuns
  <2> QED
    BY <2>1, <2>3, <2>4 DEF Alone
<1> QED
  BY <1>1, <1>2, <1>3, <1>4, <1>5, <1>6, <1>7, <1>8, <1>9 DEF Loop

(* The world excuses a node when it brings it up late. *)
LEMMA WorldAlone ==
  ASSUME TypeOK, LauncherInv, AloneInv, World
  PROVE  AloneInv'
<1> SUFFICES ASSUME NEW n \in Node, n \notin excused' PROVE Alone(n)'
  BY DEF AloneInv
<1> USE DEF Step, Goto, Pause, worldVars, loopVars, memoryVars, historyVars, Current
<1>1. CASE Tick \/ WallJump
  <2>1. UNCHANGED <<up, launcher, excused, pc, at>>
    BY <1>1 DEF Tick, WallJump
  <2> QED
    BY <2>1, FewerAlone DEF AloneInv
<1>2. CASE ServiceStart
  <2>1. UNCHANGED <<up, launcher, excused>> /\ pc' = "query"
    BY <1>2 DEF ServiceStart
  <2> QED
    BY <2>1, FewerAlone DEF AloneInv
<1>3. CASE Signal
  <2>1. up'[n] \subseteq up[n] /\ (launcher'[n] = "starting" => launcher[n] = "starting")
    BY <1>3 DEF Signal
  <2>2. UNCHANGED <<excused, pc, at>>
    BY <1>3 DEF Signal
  <2> QED
    BY <2>1, <2>2, FewerAlone DEF AloneInv
<1>4. CASE WatchdogCrash
  <2>1. up'[n] \subseteq up[n] /\ launcher'[n] = "none" /\ pc' = "down" /\ UNCHANGED excused
    BY <1>4 DEF WatchdogCrash
  <2> QED
    BY <2>1, FewerAlone DEF AloneInv
<1>5. ASSUME NEW m \in Node, NodeUp(m) PROVE Alone(n)'
  <2>1. /\ launcher[m] = "starting" /\ launcher' = [launcher EXCEPT ![m] = "up"]
        /\ up' = [up EXCEPT ![m] = @ \union {"child"}]
        /\ UNCHANGED <<excused, pc, at>>
    BY <1>5 DEF NodeUp
  <2>2. CASE n = m
    BY <2>1, <2>2 DEF AloneInv, Alone, LauncherInv, KillsAfterTerminate, LauncherRuns, TypeOK
  <2>3. CASE n # m
    BY <2>1, <2>3, FewerAlone DEF AloneInv, TypeOK
  <2> QED
    BY <2>2, <2>3
<1>6. ASSUME NEW m \in Node, StartFails(m) PROVE Alone(n)'
  <2>1. UNCHANGED <<up, excused, pc, at>> /\ launcher' = [launcher EXCEPT ![m] = "exited"]
    BY <1>6 DEF StartFails
  <2> QED
    BY <2>1, FewerAlone DEF AloneInv, TypeOK
<1>7. ASSUME NEW m \in Node, SlowUp(m) PROVE Alone(n)'
  <2>1. /\ UNCHANGED <<launcher, pc, at>>
        /\ up' = [up EXCEPT ![m] = @ \union {"stack"}]
        /\ excused' = IF up[m] # {} \/ LauncherRuns(m) \/ (Current = m /\ pc \in {"settle", "launch"})
                      THEN excused \union {m} ELSE excused
    BY <1>7 DEF SlowUp
  <2>2. n \notin excused /\ Alone(n)
    BY <2>1 DEF AloneInv
  <2>3. CASE n = m
    <3>1. up[n] = {} /\ launcher[n] # "starting" /\ ~(Current = n /\ pc \in {"settle", "launch"})
      BY <2>1, <2>3 DEF LauncherRuns
    <3>2. up'[n] = {"stack"}
      BY <2>1, <2>3, <3>1 DEF TypeOK
    <3> QED
      BY <2>1, <3>1, <3>2 DEF Alone
  <2>4. CASE n # m
    BY <2>1, <2>2, <2>4, FewerAlone DEF TypeOK
  <2> QED
    BY <2>3, <2>4
<1>8. ASSUME NEW m \in Node, NodeCrash(m) PROVE Alone(n)'
  <2>1. UNCHANGED <<excused, pc, at>> /\ up'[n] \subseteq up[n]
        /\ (launcher'[n] = "starting" => launcher[n] = "starting")
    BY <1>8 DEF NodeCrash, TypeOK
  <2> QED
    BY <2>1, FewerAlone DEF AloneInv
<1>9. ASSUME NEW m \in Node, LauncherCrash(m) PROVE Alone(n)'
  <2>1. Terminated(m, TRUE) /\ UNCHANGED <<excused, pc, at>>
    BY <1>9 DEF LauncherCrash
  <2>2. CASE n # m
    BY <2>1, <2>2, TerminatedStops, FewerAlone DEF AloneInv, LauncherInv
  <2>3. CASE n = m
    <3>1. up'[n] = IF "child" \notin up[n] THEN up[n] ELSE (up[n] \ {"child"}) \union {"stray"}
      BY <2>1, <2>3 DEF Terminated, TypeOK
    <3>2. (\A i, j \in up'[n] : i = j) /\ (up[n] = {} => up'[n] = {})
      BY <2>1, <3>1 DEF AloneInv, Alone
    <3> QED
      BY <2>1, <2>3, <3>2, TerminatedStops DEF AloneInv, Alone, LauncherInv
  <2> QED
    BY <2>2, <2>3
<1>10. ASSUME NEW m \in Node, Unplug(m) \/ Replug(m) PROVE Alone(n)'
  <2>1. UNCHANGED <<up, launcher, excused, pc, at>>
    BY <1>10 DEF Unplug, Replug
  <2> QED
    BY <2>1, FewerAlone DEF AloneInv
<1> QED
  BY <1>1, <1>2, <1>3, <1>4, <1>5, <1>6, <1>7, <1>8, <1>9, <1>10 DEF World

(* A node runs twice only with an excuse: two muxes never both steer unless the
   stack was slow or pkill timed out. *)
THEOREM NeverTwice == Spec => []NoDuplicates
<1>1. Init => AloneInv
  BY DEF Init, AloneInv, Alone
<1>2. AloneInv /\ UNCHANGED vars => AloneInv'
  BY DEF AloneInv, Alone, Current, vars, worldVars, loopVars, historyVars
<1>3. TypeOK /\ LauncherInv /\ AloneInv /\ [Next]_vars => AloneInv'
  BY <1>2, LoopAlone, WorldAlone DEF Next
<1>4. TypeOK /\ AloneInv => NoDuplicates
  <2> SUFFICES ASSUME TypeOK, AloneInv, NEW n \in Node, n \notin excused
               PROVE  ~(Cardinality(up[n]) > 1)
    BY DEF NoDuplicates
  <2>1. up[n] = {} \/ \E i \in up[n] : up[n] = {i}
    BY DEF AloneInv, Alone
  <2> QED
    BY <2>1, FS_EmptySet, FS_Singleton
<1> QED
  BY <1>1, <1>3, <1>4, WatchdogTypeCorrect, LaunchersInOrder, PTL DEF Spec

-----------------------------------------------------------------------------
(* Time.  While a restart is under way, `elapsed` is at most the sleeps it has
   been through and the faults that struck since the beginning; so the stamp is
   ahead of the launch by no more than a restart and the faults. *)
Spent == MaxFaults - faults
SleptAt(n) ==
  CASE pc = "pkill" -> 0
    [] pc = "pkill9" -> TermWait
    [] pc = "settle" -> TermWait + KillWait
    [] pc = "launch" -> TermWait + KillWait + Delay[n]
RestartTime(n) == TermWait + KillWait + Delay[n]

RestartInTime ==
  pc \in {"pkill", "pkill9", "settle", "launch"} =>
    elapsed + wait =< SleptAt(Current) + Spent
StampNearLaunch ==
  \A n \in Node : LauncherRuns(n) =>
    sinceRestart[n] =< sinceLaunch[n] + RestartTime(n) + MaxFaults

TimeInv == RestartInTime /\ StampNearLaunch

(* With a clock that is never set forward, no step widens the gap. *)
LEMMA LoopInTime ==
  ASSUME TypeOK, TimeInv, Loop
  PROVE  TimeInv'
<1>c. /\ Current \in Node /\ Delay[Current] \in Nat
      /\ TermWait \in Nat /\ KillWait \in Nat /\ MaxFaults \in Nat
      /\ faults \in 0 .. MaxFaults /\ elapsed \in Int /\ wait \in Nat
  BY CurrentNode, Durations DEF TypeOK
<1> USE DEF TimeInv, Step, Goto, Pause, Spent, worldVars, loopVars, memoryVars, historyVars
<1> DEFINE Kills == {"pkill", "pkill9", "settle", "launch"}
<1>f. ASSUME Fault PROVE Spent' = Spent + 1 /\ Spent' \in Nat
  BY <1>c, <1>f DEF Fault
<1>1. CASE Query \/ DeviceCheck \/ CoolingDown \/ GiveUp \/ EndSleep
  <2>1. UNCHANGED <<launcher, sinceRestart, sinceLaunch>> /\ pc' \notin Kills
    BY <1>1 DEF Query, DeviceCheck, CoolingDown, GiveUp, EndSleep, NextNode
  <2> QED
    BY <2>1 DEF RestartInTime, StampNearLaunch, LauncherRuns
<1>2. CASE Check
  <2>1. /\ UNCHANGED <<sinceRestart, sinceLaunch>> /\ pc' \notin Kills
        /\ launcher' = [launcher EXCEPT ![Current] = IF @ = "exited" THEN "none" ELSE @]
    BY <1>2 DEF Check, NextNode
  <2>2. \A n \in Node : LauncherRuns(n)' => LauncherRuns(n)
    BY <2>1 DEF LauncherRuns, TypeOK
  <2> QED
    BY <2>1, <2>2 DEF RestartInTime, StampNearLaunch
<1>3. CASE TerminateChild
  <2>1. /\ UNCHANGED <<sinceRestart, sinceLaunch>>
        /\ pc' = "pkill" /\ elapsed' = 0 /\ wait' = 0
    BY <1>3 DEF TerminateChild
  <2>2. Spent' \in Nat
    <3>1. faults' = faults \/ Fault
      BY <1>3 DEF TerminateChild
    <3> QED
      BY <1>c, <1>f, <3>1
  <2>3. \A n \in Node : LauncherRuns(n)' => LauncherRuns(n)
    <3>1. launcher' = launcher \/ launcher' = [launcher EXCEPT ![Current] = "exited"]
      BY <1>3 DEF TerminateChild, Terminated
    <3> QED
      BY <3>1 DEF LauncherRuns, TypeOK
  <2>4. RestartInTime'
    <3> HIDE DEF Spent
    <3> QED
      BY <2>1, <2>2 DEF RestartInTime, SleptAt
  <2> QED
    BY <2>1, <2>3, <2>4 DEF StampNearLaunch, RestartTime
<1>4. CASE PKill \/ PKill9 \/ PKillTimesOut \/ Settle
  <2>1. /\ UNCHANGED <<launcher, sinceRestart, sinceLaunch, elapsed, at>>
        /\ wait = 0
        /\ \/ pc = "pkill" /\ pc' = "settle" /\ wait' = 0
           \/ pc = "pkill" /\ pc' = "pkill9" /\ wait' = TermWait
           \/ pc = "pkill9" /\ pc' = "settle" /\ wait' \in {0, KillWait}
           \/ pc = "settle" /\ pc' = "launch" /\ wait' = Delay[Current]
    BY <1>4 DEF PKill, PKill9, PKillTimesOut, Settle
  <2>2. Spent' >= Spent /\ Spent \in Nat /\ Spent' \in Nat
    BY <1>4, <1>c, <1>f DEF PKill, PKill9, PKillTimesOut, Settle
  <2>3. Current' = Current
    BY <2>1 DEF Current
  <2>4. StampNearLaunch'
    BY <2>1 DEF StampNearLaunch, LauncherRuns
  <2>5. elapsed =< SleptAt(Current) + Spent
    BY <1>c, <2>1 DEF RestartInTime
  <2>6. RestartInTime'
    <3> HIDE DEF Spent
    <3> QED
    BY <1>c, <2>1, <2>2, <2>3, <2>5 DEF RestartInTime, SleptAt
  <2> QED
    BY <2>4, <2>6
<1>5. CASE Launch
  <2>1. /\ launcher' = [launcher EXCEPT ![Current] = "starting"]
        /\ sinceLaunch' = [sinceLaunch EXCEPT ![Current] = 0]
        /\ sinceRestart' = [sinceRestart EXCEPT ![Current] = elapsed]
        /\ pc = "launch" /\ wait = 0 /\ pc' \notin Kills
    BY <1>5 DEF Launch, Stamped, NextNode
  <2>2. elapsed =< RestartTime(Current) + MaxFaults
    BY <1>c, <2>1 DEF RestartInTime, SleptAt, RestartTime
  <2>3. sinceRestart'[Current] = elapsed /\ sinceLaunch'[Current] = 0
    BY <1>c, <2>1 DEF TypeOK
  <2>4. \A n \in Node \ {Current} :
          /\ sinceRestart'[n] = sinceRestart[n] /\ sinceLaunch'[n] = sinceLaunch[n]
          /\ launcher'[n] = launcher[n]
    BY <2>1 DEF TypeOK
  <2>5. StampNearLaunch'
    <3> SUFFICES ASSUME NEW n \in Node, LauncherRuns(n)'
                 PROVE  sinceRestart'[n] =< sinceLaunch'[n] + RestartTime(n) + MaxFaults
      BY DEF StampNearLaunch, RestartTime
    <3>1. CASE n = Current
      <4>1. RestartTime(n) \in Nat
        BY <1>c, <3>1 DEF RestartTime
      <4> QED
        BY <1>c, <2>2, <2>3, <3>1, <4>1
    <3>2. CASE n # Current
      BY <2>4, <3>2 DEF StampNearLaunch, LauncherRuns
    <3> QED
      BY <3>1, <3>2
  <2> QED
    BY <2>1, <2>5 DEF RestartInTime
<1>6. CASE Cleanup
  <2>1. /\ UNCHANGED <<sinceRestart, sinceLaunch>> /\ pc' = "stopped"
        /\ launcher' = [n \in Node |-> IF LauncherRuns(n) THEN "exited" ELSE launcher[n]]
    BY <1>6 DEF Cleanup
  <2> QED
    BY <2>1 DEF RestartInTime, StampNearLaunch, LauncherRuns
<1> QED
  BY <1>1, <1>2, <1>3, <1>4, <1>5, <1>6 DEF Loop

(* With such a clock, neither does a step of the world. *)
LEMMA WorldInTime ==
  ASSUME TypeOK, TimeInv, World, \A d \in Jumps : d =< 0
  PROVE  TimeInv'
<1>c. /\ Current \in Node /\ Delay[Current] \in Nat
      /\ TermWait \in Nat /\ KillWait \in Nat /\ MaxFaults \in Nat
      /\ faults \in 0 .. MaxFaults /\ elapsed \in Int /\ wait \in Nat
      /\ Longest \in Nat
  BY CurrentNode, Durations DEF TypeOK
<1>d. \A n \in Node : RestartTime(n) \in Nat
  BY Durations DEF RestartTime
<1>s. pc \in {"pkill", "pkill9", "settle", "launch"} => SleptAt(Current) \in Nat
  BY <1>c DEF SleptAt
<1> USE DEF TimeInv, Step, Goto, Pause, worldVars, loopVars, memoryVars, historyVars
<1>f. ASSUME Fault PROVE Spent' = Spent + 1
  BY <1>c, <1>f DEF Fault, Spent
<1>p. Spent \in Nat
  BY <1>c DEF Spent
<1>1. CASE Tick
  <2>1. /\ UNCHANGED <<launcher, pc, at>>
        /\ sinceLaunch' = [n \in Node |-> Later(sinceLaunch[n])]
        /\ sinceRestart' = [n \in Node |-> Later(sinceRestart[n])]
        /\ elapsed' = Later(elapsed)
    BY <1>1 DEF Tick
  <2>2. elapsed' \in Int /\ elapsed' =< elapsed + 1
    <3>1. elapsed =< Longest
      BY DEF TypeOK
    <3> QED
      BY <1>c, <2>1, <3>1 DEF Later
  <2>3. \/ wait > 0 /\ wait' = wait - 1 /\ faults' = faults
        \/ wait' = wait /\ Fault
        \/ pc = "stopped"
    BY <1>1 DEF Tick
  <2>4. RestartInTime'
    <3>1. Current' = Current /\ SleptAt(Current)' = SleptAt(Current)
      BY <2>1 DEF Current, SleptAt
    <3>2. CASE wait > 0 /\ wait' = wait - 1 /\ faults' = faults
      <4>1. Spent' = Spent
        BY <3>2 DEF Spent
      <4> QED
        BY <1>c, <1>p, <1>s, <2>1, <2>2, <3>1, <3>2, <4>1 DEF RestartInTime
    <3>3. CASE wait' = wait /\ Fault
      <4>1. Spent' = Spent + 1
        BY <1>f, <3>3
      <4> QED
        BY <1>c, <1>p, <1>s, <2>1, <2>2, <3>1, <3>3, <4>1 DEF RestartInTime
    <3>4. CASE pc = "stopped"
      BY <2>1, <3>4 DEF RestartInTime
    <3> QED
      BY <2>3, <3>2, <3>3, <3>4
  <2>5. StampNearLaunch'
    <3> SUFFICES ASSUME NEW n \in Node, LauncherRuns(n)
                 PROVE  Later(sinceRestart[n]) =< Later(sinceLaunch[n]) + RestartTime(n) + MaxFaults
      BY <2>1 DEF StampNearLaunch, RestartTime, LauncherRuns
    <3>1. sinceRestart[n] \in Int /\ sinceRestart[n] =< Longest /\ sinceLaunch[n] \in 0 .. Longest
      BY DEF TypeOK
    <3>2. sinceRestart[n] =< sinceLaunch[n] + RestartTime(n) + MaxFaults
      BY DEF StampNearLaunch
    <3> QED
      BY <1>c, <1>d, <3>1, <3>2 DEF Later
  <2> QED
    BY <2>4, <2>5
<1>2. CASE WallJump
  <2> DEFINE set(age, d) == IF age + d > Longest THEN Longest ELSE age + d
  <2>1. PICK d \in Jumps : /\ sinceRestart' = [n \in Node |-> set(sinceRestart[n], d)]
                           /\ elapsed' = set(elapsed, d)
    BY <1>2 DEF WallJump
  <2>2. d \in Int /\ d =< 0
    BY DurationAssumption
  <2>3. \A age \in Int : age =< Longest => set(age, d) \in Int /\ set(age, d) =< age
    BY <1>c, <2>2
  <2>4. UNCHANGED <<launcher, sinceLaunch, pc, at, wait>> /\ Fault
    BY <1>2 DEF WallJump
  <2> HIDE DEF set
  <2>5. RestartInTime'
    <3>1. Current' = Current /\ SleptAt(Current)' = SleptAt(Current)
      BY <2>4 DEF Current, SleptAt
    <3>2. elapsed' \in Int /\ elapsed' =< elapsed
      BY <2>1, <2>3 DEF TypeOK
    <3> QED
      BY <1>c, <1>p, <1>s, <1>f, <2>4, <3>1, <3>2 DEF RestartInTime
  <2>6. StampNearLaunch'
    <3> SUFFICES ASSUME NEW n \in Node, LauncherRuns(n)
                 PROVE  sinceRestart'[n] =< sinceLaunch[n] + RestartTime(n) + MaxFaults
      BY <2>4 DEF StampNearLaunch, RestartTime, LauncherRuns
    <3>1. sinceRestart'[n] \in Int /\ sinceRestart'[n] =< sinceRestart[n]
      BY <2>1, <2>3 DEF TypeOK
    <3>2. sinceRestart[n] =< sinceLaunch[n] + RestartTime(n) + MaxFaults
          /\ sinceRestart[n] \in Int /\ sinceLaunch[n] \in Nat
      BY DEF StampNearLaunch, TypeOK
    <3> QED
      BY <1>c, <1>d, <3>1, <3>2
  <2> QED
    BY <2>5, <2>6
<1>3. CASE WatchdogCrash
  BY <1>3 DEF WatchdogCrash, RestartInTime, StampNearLaunch, LauncherRuns
<1>4. CASE ServiceStart
  BY <1>4 DEF ServiceStart, RestartInTime, StampNearLaunch, LauncherRuns
<1>5. CASE \/ Signal
           \/ \E n \in Node : \/ NodeUp(n) \/ StartFails(n) \/ SlowUp(n) \/ NodeCrash(n)
                              \/ LauncherCrash(n) \/ Unplug(n) \/ Replug(n)
  <2>1. UNCHANGED <<sinceRestart, sinceLaunch, elapsed, wait, pc, at>> /\ (faults' = faults \/ Fault)
    BY <1>5 DEF Signal, NodeUp, StartFails, SlowUp, NodeCrash, LauncherCrash, Unplug, Replug
  <2>2. \A n \in Node : LauncherRuns(n)' => LauncherRuns(n)
    <3>1. CASE Signal
      BY <3>1 DEF Signal, LauncherRuns
    <3>2. ASSUME NEW m \in Node, NodeUp(m) \/ StartFails(m)
          PROVE  \A n \in Node : LauncherRuns(n)' => LauncherRuns(n)
      BY <3>2 DEF NodeUp, StartFails, LauncherRuns, TypeOK
    <3>3. ASSUME NEW m \in Node, NodeCrash(m) \/ LauncherCrash(m)
          PROVE  \A n \in Node : LauncherRuns(n)' => LauncherRuns(n)
      BY <3>3 DEF NodeCrash, LauncherCrash, Terminated, LauncherRuns, TypeOK
    <3>4. ASSUME NEW m \in Node, SlowUp(m) \/ Unplug(m) \/ Replug(m)
          PROVE  \A n \in Node : LauncherRuns(n)' => LauncherRuns(n)
      BY <3>4 DEF SlowUp, Unplug, Replug, LauncherRuns
    <3> QED
      BY <1>5, <3>1, <3>2, <3>3, <3>4
  <2>3. Spent' \in Int /\ Spent' >= Spent
    BY <1>c, <1>p, <1>f, <2>1 DEF Spent
  <2>4. Current' = Current /\ SleptAt(Current)' = SleptAt(Current)
    BY <2>1 DEF Current, SleptAt
  <2>5. RestartInTime'
    BY <1>c, <1>p, <1>s, <2>1, <2>3, <2>4 DEF RestartInTime
  <2>6. StampNearLaunch'
    BY <2>1, <2>2 DEF StampNearLaunch, RestartTime
  <2> QED
    BY <2>5, <2>6
<1> QED
  BY <1>1, <1>2, <1>3, <1>4, <1>5 DEF World

(* With a clock that nobody sets forward, a child has the cooldown less the
   duration of its own restart to come up. *)
THEOREM ChildrenGetTime ==
  ASSUME \A d \in Jumps : d =< 0
  PROVE  Spec => ChildGetsTime
<1>1. Init => TimeInv
  BY DEF Init, TimeInv, RestartInTime, StampNearLaunch, LauncherRuns
<1>2. TimeInv /\ UNCHANGED vars => TimeInv'
  BY DEF TimeInv, RestartInTime, StampNearLaunch, RestartTime, LauncherRuns, SleptAt, Spent,
         Current, vars, worldVars, loopVars, memoryVars
<1>3. TypeOK /\ TimeInv /\ [Next]_vars => TimeInv'
  BY <1>2, LoopInTime, WorldInTime DEF Next
<1> DEFINE InTime == pc = "restart" /\ pc' = "pkill" /\ LauncherRuns(Current) =>
             sinceLaunch[Current] + TermWait + KillWait + Delay[Current] + MaxFaults >= Cooldown
<1>4. TypeOK /\ TimeInv /\ [Next]_vars => [InTime]_vars
  <2> SUFFICES ASSUME TypeOK, TimeInv, Next, pc = "restart", pc' = "pkill", LauncherRuns(Current)
               PROVE  sinceLaunch[Current] + TermWait + KillWait + Delay[Current] + MaxFaults >= Cooldown
    OBVIOUS
  <2>1. Loop
    BY DEF Next, World, Tick, WallJump, Signal, WatchdogCrash, ServiceStart, NodeUp, StartFails,
           SlowUp, NodeCrash, LauncherCrash, Unplug, Replug, Step, Goto, Pause
  <2>2. TerminateChild
    BY <2>1 DEF Loop, Query, Check, DeviceCheck, CoolingDown, PKill, PKill9, PKillTimesOut,
                Settle, GiveUp, Launch, EndSleep, Cleanup, NextNode, Step, Goto, Pause
  <2>3. sinceRestart[Current] >= Cooldown
    BY <2>2 DEF TerminateChild
  <2>4. Current \in Node
    BY CurrentNode
  <2>5. sinceRestart[Current] =< sinceLaunch[Current] + RestartTime(Current) + MaxFaults
    BY <2>4 DEF TimeInv, StampNearLaunch
  <2>6. /\ sinceRestart[Current] \in Int /\ sinceLaunch[Current] \in Nat
        /\ Delay[Current] \in Nat /\ TermWait \in Nat /\ KillWait \in Nat
        /\ MaxFaults \in Nat /\ Cooldown \in Nat
    BY <2>4, Durations DEF TypeOK
  <2> QED
    BY <2>3, <2>5, <2>6 DEF RestartTime
<1> QED
  BY <1>1, <1>3, <1>4, WatchdogTypeCorrect, PTL DEF Spec, ChildGetsTime
=============================================================================
