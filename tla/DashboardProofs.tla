--------------------------- MODULE DashboardProofs ---------------------------
(***************************************************************************)
(* Theorems about the dashboard, for any topics and durations: no client    *)
(* sees half a snapshot, no rate on display is older than two measurements, *)
(* and which rates of topics published all along are on display.            *)
(***************************************************************************)
EXTENDS Dashboard, FiniteSetTheorems, TLAPS

-----------------------------------------------------------------------------
(* The lock.  Between two updates the parts of the snapshot agree. *)
LockInv ==
  /\ locked <=> pc = "update"
  /\ ~locked => status.nodes = status.rates
  /\ status \in Status
  /\ topics \subseteq Topic
  /\ locked => status.nodes = topics
  /\ locked \in BOOLEAN

(* Only Update and Release write the snapshot, with the lock held in between. *)
LEMMA LockStep ==
  ASSUME LockInv, ~torn, [Next]_vars
  PROVE  LockInv' /\ ~torn'
<1> USE DEF LockInv, Goto
<1>1. CASE List \/ Spawn \/ RoundFails \/ Join \/ Compute \/ EndSleep \/ Stop
  BY <1>1 DEF List, Spawn, RoundFails, Join, Compute, EndSleep, Stop, EndRound,
              statusVars, historyVars, measureVars
<1>2. CASE Update
  <2>1. /\ pc' = "update" /\ locked' = TRUE /\ topics' = topics /\ torn' = torn
        /\ status' = [status EXCEPT !.nodes = topics]
    BY <1>2 DEF Update, historyVars
  <2>2. status' \in Status /\ status'.nodes = topics
    BY <2>1 DEF Status
  <2> QED
    BY <2>1, <2>2
<1>3. CASE Release
  <2>1. /\ pc = "update" /\ pc' = "sleep" /\ locked' = FALSE /\ topics' = {} /\ torn' = torn
        /\ status' = [status EXCEPT !.rates = topics]
    BY <1>3 DEF Release, EndRound
  <2>2. status' \in Status /\ status'.rates = topics /\ status'.nodes = status.nodes
    BY <2>1 DEF Status
  <2> QED
    BY <2>1, <2>2
<1>4. CASE GetStatus
  BY <1>4 DEF GetStatus, monitorVars, statusVars
<1>5. CASE Shutdown \/ Tick
  BY <1>5 DEF Shutdown, Tick, monitorVars, statusVars, historyVars
<1>6. CASE \E th \in threads : Measured(th) \/ CommandFails(th)
  BY <1>6 DEF Measured, CommandFails, Write, monitorVars, statusVars, historyVars
<1>7. CASE \E t \in Topic : TopicAppears(t) \/ TopicDies(t)
  BY <1>7 DEF TopicAppears, TopicDies, monitorVars, statusVars, historyVars
<1>8. CASE UNCHANGED vars
  BY <1>8 DEF vars, monitorVars, statusVars, historyVars
<1> QED
  BY <1>1, <1>2, <1>3, <1>4, <1>5, <1>6, <1>7, <1>8 DEF Next, Monitor, World

LEMMA LockInit == Init => LockInv /\ ~torn
<1>1. [nodes |-> {}, rates |-> {}] \in Status
  BY DEF Status
<1>2. ASSUME Init
      PROVE  /\ status = [nodes |-> {}, rates |-> {}] /\ locked = FALSE /\ torn = FALSE
             /\ pc = "list" /\ topics = {}
  BY <1>2 DEF Init
<1> QED
  BY <1>1, <1>2 DEF LockInv

(* get_status: a client sees the nodes and the rates of one round. *)
THEOREM SnapshotsConsistent == Spec => []SnapshotConsistent
<1>1. (LockInv /\ ~torn) /\ [Next]_vars => (LockInv /\ ~torn)'
  BY LockStep
<1>2. LockInv /\ ~torn => SnapshotConsistent
  BY DEF SnapshotConsistent
<1> QED
  BY LockInit, <1>1, <1>2, PTL DEF Spec

-----------------------------------------------------------------------------
(* Ages.  A thread lives for HzTime; while the monitor joins, the oldest rate in
   rate_results is as old as that and the round together; and the round waits
   only for threads of its own age, hence for no longer than HzTime. *)
ThreadAges == threads \subseteq Thread
RoundAge ==
  /\ round \in 0 .. HzTime
  /\ pc \notin {"join", "compute", "update"} => round = 0
ResultAges ==
  /\ results \in [Topic -> Rate]
  /\ pc = "join" =>
       \A t \in Topic : results[t].hz = "ok" => results[t].age =< HzTime + round
AgeInv == ThreadAges /\ RoundAge /\ ResultAges /\ topics \subseteq Topic /\ RatesRecent

(* What a rate may be. *)
LEMMA RateFields ==
  /\ Missing \in Rate /\ Stale \in Rate
  /\ Missing.hz # "ok" /\ Stale.hz # "ok"
  /\ \A age \in Age : Ok(age) \in Rate /\ Ok(age).hz = "ok" /\ Ok(age).age = age
  /\ \A rate \in Rate : rate.hz = "ok" => rate.age \in Age /\ rate = Ok(rate.age)
<1>1. Missing \in Rate /\ Stale \in Rate /\ Missing.hz # "ok" /\ Stale.hz # "ok"
  BY DEF Rate, Missing, Stale
<1>2. \A age \in Age : Ok(age) \in Rate /\ Ok(age).hz = "ok" /\ Ok(age).age = age
  BY DEF Rate, Ok
<1>3. ASSUME NEW rate \in Rate, rate.hz = "ok"
      PROVE  rate.age \in Age /\ rate = Ok(rate.age)
  <2>1. PICK age \in Age : rate = Ok(age)
    BY <1>1, <1>3 DEF Rate
  <2> QED
    BY <1>2, <2>1
<1> QED
  BY <1>1, <1>2, <1>3

(* A tick makes a rate one tick older at most. *)
LEMMA AgedRate ==
  ASSUME NEW rate \in Rate
  PROVE  /\ Aged(rate) \in Rate
         /\ Aged(rate).hz = "ok" => rate.hz = "ok" /\ Aged(rate).age =< rate.age + 1
<1>1. HzTime \in Nat
  BY DashboardAssumption
<1>2. CASE rate.hz = "ok"
  <2>1. rate.age \in Age /\ Later(rate.age) \in Age /\ Later(rate.age) =< rate.age + 1
    BY <1>1, <1>2, RateFields DEF Age, Oldest, Later
  <2>2. Aged(rate) = Ok(Later(rate.age))
    BY <1>2 DEF Aged
  <2> QED
    BY <1>2, <2>1, <2>2, RateFields
<1>3. CASE rate.hz # "ok"
  BY <1>3 DEF Aged
<1> QED
  BY <1>2, <1>3

(* A measuring thread that ends while the monitor joins writes a rate as old as
   itself, HzTime at most. *)
LEMMA WriteAges ==
  ASSUME AgeInv, NEW th \in threads, Measured(th) \/ CommandFails(th)
  PROVE  AgeInv'
<1>1. HzTime \in Nat /\ th.topic \in Topic /\ round \in Nat
  BY DashboardAssumption DEF AgeInv, ThreadAges, Thread, RoundAge
<1>2. /\ UNCHANGED <<pc, topics, round, rates>>
      /\ threads' = threads \ {th}
  BY DEF Measured, CommandFails, Write, monitorVars
<1>3. PICK rate \in Rate : /\ results' = [results EXCEPT ![th.topic] = rate]
                           /\ rate.hz = "ok" => rate.age = HzTime
  <2>1. CASE Measured(th)
    <3>1. HzTime \in Age /\ th.age = HzTime
      BY <1>1, <2>1 DEF Age, Oldest, Measured
    <3>2. \/ results' = [results EXCEPT ![th.topic] = Ok(HzTime)]
          \/ results' = [results EXCEPT ![th.topic] = Stale]
      BY <2>1, <3>1 DEF Measured, Write
    <3> QED
      BY <3>1, <3>2, RateFields
  <2>2. CASE CommandFails(th)
    BY <2>2, RateFields DEF CommandFails, Write
  <2> QED
    BY <2>1, <2>2
<1>4. results' \in [Topic -> Rate]
  BY <1>3 DEF AgeInv, ResultAges
<1>5. ASSUME NEW t \in Topic, pc' = "join", results'[t].hz = "ok"
      PROVE  results'[t].age =< HzTime + round'
  <2>1. CASE t = th.topic
    BY <1>1, <1>2, <1>3, <1>5, <2>1 DEF AgeInv, ResultAges
  <2>2. CASE t # th.topic
    BY <1>2, <1>3, <1>5, <2>2 DEF AgeInv, ResultAges
  <2> QED
    BY <2>1, <2>2
<1> QED
  BY <1>2, <1>4, <1>5 DEF AgeInv, ThreadAges, RoundAge, ResultAges, RatesRecent

(* A tick of the round is one of its threads; that thread has yet to end. *)
LEMMA TickAges ==
  ASSUME AgeInv, Tick
  PROVE  AgeInv'
<1>1. HzTime \in Nat
  BY DashboardAssumption
<1>2. /\ UNCHANGED <<pc, topics, rates>>
      /\ \A th \in threads : th.age < HzTime
      /\ threads' = {[th EXCEPT !.age = @ + 1] : th \in threads}
      /\ results' = [t \in Topic |-> Aged(results[t])]
      /\ round' = IF pc = "join" THEN round + 1 ELSE round
      /\ pc = "join" => ~AllJoined /\ ~Joined(RateTopics[joining])
      /\ pc # "compute"
  BY DEF Tick
<1>3. ThreadAges'
  <2>1. ASSUME NEW th \in threads
        PROVE  [th EXCEPT !.age = @ + 1] \in Thread
    BY <1>1, <1>2 DEF AgeInv, ThreadAges, Thread
  <2> QED
    BY <1>2, <2>1 DEF ThreadAges
<1>4. RoundAge'
  <2>1. CASE pc = "join"
    <3>1. PICK th \in threads : th.age = round
      BY <1>2, <2>1 DEF Joined, Ended
    <3>2. round \in Nat /\ round < HzTime
      BY <1>1, <1>2, <3>1 DEF AgeInv, RoundAge
    <3> QED
      BY <1>1, <1>2, <2>1, <3>2 DEF RoundAge
  <2>2. CASE pc # "join"
    BY <1>2, <2>2 DEF AgeInv, RoundAge
  <2> QED
    BY <2>1, <2>2
<1>5. ResultAges'
  <2>1. results' \in [Topic -> Rate]
    BY <1>2, AgedRate DEF AgeInv, ResultAges
  <2>2. ASSUME NEW t \in Topic, pc = "join", results'[t].hz = "ok"
        PROVE  results'[t].age =< HzTime + round'
    <3>1. results[t] \in Rate /\ results'[t] = Aged(results[t])
      BY <1>2 DEF AgeInv, ResultAges
    <3>2. results[t].hz = "ok" /\ results'[t].age =< results[t].age + 1
      BY <2>2, <3>1, AgedRate
    <3>3. results[t].age =< HzTime + round /\ round \in Nat
      BY <2>2, <3>2, <1>1 DEF AgeInv, ResultAges, RoundAge
    <3>4. results[t].age \in Nat /\ results'[t].age \in Nat
      BY <1>1, <2>2, <3>1, <3>2, <2>1, RateFields DEF Age, Oldest
    <3> QED
      BY <1>1, <1>2, <2>2, <3>2, <3>3, <3>4
  <2> QED
    BY <1>2, <2>1, <2>2 DEF ResultAges
<1> QED
  BY <1>2, <1>3, <1>4, <1>5 DEF AgeInv, RatesRecent

(* The steps of the monitor: only Spawn makes threads, and with them a new
   dictionary; only Compute looks at what is in it. *)
LEMMA MonitorAges ==
  ASSUME AgeInv, Monitor
  PROVE  AgeInv'
<1>1. HzTime \in Nat
  BY DashboardAssumption
<1>s. \A ts \in SUBSET Topic : Started(ts) \subseteq Thread
  <2>1. ASSUME NEW t \in Topic, NEW fit \in BOOLEAN
        PROVE  [topic |-> t, age |-> 0, fit |-> fit] \in Thread
    BY <1>1 DEF Thread
  <2>2. ASSUME NEW ts \in SUBSET Topic, NEW th \in Started(ts)
        PROVE  th \in Thread
    <3>1. PICK t \in ts : th = [topic |-> t, age |-> 0, fit |-> t \in alive]
      BY <2>2, Zenon DEF Started
    <3>2. (t \in alive) \in BOOLEAN
      OBVIOUS
    <3>3. [topic |-> t, age |-> 0, fit |-> t \in alive] \in Thread
      BY <2>1, <3>2, Zenon
    <3> QED
      BY <3>1, <3>3, Zenon
  <2> QED
    BY <2>2
<1>e. Empty \in [Topic -> Rate] /\ NewResults = Empty
      /\ \A t \in Topic : Empty[t].hz # "ok"
  BY RateFields DEF Empty, NewResults
<1> USE DEF AgeInv, ThreadAges, RoundAge, ResultAges, RatesRecent, Goto, measureVars
<1>2. CASE List \/ Update \/ EndSleep \/ Join
  BY <1>2 DEF List, Update, EndSleep, Join
<1>3. CASE Spawn
  BY <1>1, <1>3, <1>s, <1>e DEF Spawn
<1>4. CASE RoundFails
  BY <1>1, <1>4, <1>s, <1>e DEF RoundFails, EndRound
<1>5. CASE Compute
  <2>1. /\ UNCHANGED <<topics, round, threads, results>>
        /\ pc = "join" /\ pc' = "compute" /\ rates' = results
    BY <1>5 DEF Compute
  <2>2. ASSUME NEW t \in Topic, results[t].hz = "ok"
        PROVE  results[t].age =< 2 * HzTime
    <3>1. results[t].age =< HzTime + round /\ results[t].age \in Age
      BY <2>1, <2>2, RateFields
    <3> QED
      BY <1>1, <3>1 DEF Age, Oldest
  <2> QED
    BY <2>1, <2>2
<1>6. CASE Release
  BY <1>1, <1>6, <1>e DEF Release, EndRound
<1>7. CASE Stop
  BY <1>7 DEF Stop
<1> QED
  BY <1>2, <1>3, <1>4, <1>5, <1>6, <1>7 DEF Monitor

(* Every step, in the order of Next. *)
LEMMA AgeStep ==
  ASSUME AgeInv, [Next]_vars
  PROVE  AgeInv'
<1>1. CASE GetStatus \/ Shutdown \/ UNCHANGED vars
  BY <1>1 DEF GetStatus, Shutdown, vars, monitorVars, measureVars, AgeInv,
                    ThreadAges, RoundAge, ResultAges, RatesRecent
<1>2. ASSUME NEW t \in Topic, TopicAppears(t) \/ TopicDies(t)
      PROVE  AgeInv'
  <2>1. UNCHANGED <<pc, topics, round, rates, results>>
    BY <1>2 DEF TopicAppears, TopicDies, monitorVars, measureVars
  <2>2. ASSUME NEW th \in Thread PROVE [th EXCEPT !.fit = FALSE] \in Thread
    BY DEF Thread
  <2>3. threads' \subseteq Thread
    <3>1. CASE TopicAppears(t)
      BY <3>1 DEF TopicAppears, measureVars, AgeInv, ThreadAges
    <3>2. CASE TopicDies(t)
      BY <2>2, <3>2 DEF TopicDies, AgeInv, ThreadAges
    <3> QED
      BY <1>2, <3>1, <3>2
  <2> QED
    BY <2>1, <2>3 DEF AgeInv, ThreadAges, RoundAge, ResultAges, RatesRecent
<1> QED
  BY <1>1, <1>2, MonitorAges, TickAges, WriteAges DEF Next, World

LEMMA AgeInit == Init => AgeInv
<1>1. HzTime \in Nat /\ Empty \in [Topic -> Rate]
  BY DashboardAssumption, RateFields DEF Empty
<1> QED
  BY <1>1 DEF Init, AgeInv, ThreadAges, RoundAge, ResultAges, RatesRecent

(* No rate on display is older than two measurements. *)
THEOREM RatesStayRecent == Spec => []RatesRecent
<1>1. AgeInv /\ [Next]_vars => AgeInv'
  BY AgeStep
<1>2. AgeInv => RatesRecent
  BY DEF AgeInv
<1> QED
  BY AgeInit, <1>1, <1>2, PTL DEF Spec

-----------------------------------------------------------------------------
(* Types.  What LockInv and AgeInv do not say of them. *)
MonitorTypes ==
  /\ pc \in DOMAIN Longest
  /\ joining \in 1 .. Len(RateTopics) + 1
  /\ spent \in 0 .. Longest[pc]
  /\ rates \in [Topic -> Rate]
WorldTypes ==
  /\ alive \subseteq Topic /\ steady \subseteq alive \intersect topics
  /\ running \in BOOLEAN /\ torn \in BOOLEAN
TypeInv == LockInv /\ AgeInv /\ MonitorTypes /\ WorldTypes

LEMMA Durations ==
  /\ HzTime \in Nat \ {0} /\ JoinTime \in Nat \ {0} /\ ListTime \in Nat /\ SleepTime \in Nat \ {0}
  /\ Len(RateTopics) \in Nat
  /\ \A i \in 1 .. Len(RateTopics) : RateTopics[i] \in Topic
  BY DashboardAssumption

(* What each step leaves of the type invariant. *)
LEMMA TypesStep ==
  ASSUME TypeInv, LockInv', AgeInv', [Next]_vars
  PROVE  TypeInv'
<1> USE Durations DEF TypeInv, MonitorTypes, WorldTypes, Longest, Goto
<1>e. Empty \in [Topic -> Rate]
  BY RateFields DEF Empty
<1>1. CASE List
  BY <1>1 DEF List
<1>2. CASE Spawn
  BY <1>2 DEF Spawn, historyVars
<1>3. CASE RoundFails \/ Release
  BY <1>3, <1>e DEF RoundFails, Release, EndRound
<1>4. CASE Join
  BY <1>4 DEF Join, AllJoined, historyVars
<1>5. CASE Compute
  BY <1>5 DEF Compute, AgeInv, ResultAges, historyVars
<1>6. CASE Update \/ EndSleep \/ Stop
  BY <1>6 DEF Update, EndSleep, Stop, historyVars
<1>7. CASE Tick
  <2>1. /\ UNCHANGED <<alive, pc, topics, joining, rates, running, steady, torn>>
        /\ spent' = spent + 1
        /\ pc \in {"list", "spawn", "join", "sleep"} /\ spent < Longest[pc]
    BY <1>7 DEF Tick, Joined, historyVars
  <2> QED
    BY <2>1
<1>8. CASE \E th \in threads : Measured(th) \/ CommandFails(th)
  BY <1>8 DEF Measured, CommandFails, monitorVars, historyVars
<1>9. CASE \E t \in Topic : TopicAppears(t) \/ TopicDies(t)
  BY <1>9 DEF TopicAppears, TopicDies, monitorVars, historyVars
<1>10. CASE GetStatus \/ Shutdown
  BY <1>10 DEF GetStatus, Shutdown, monitorVars, historyVars
<1>11. CASE UNCHANGED vars
  BY <1>11 DEF vars, monitorVars, historyVars
<1> QED
  BY <1>1, <1>2, <1>3, <1>4, <1>5, <1>6, <1>7, <1>8, <1>9, <1>10, <1>11
     DEF Next, Monitor, World

-----------------------------------------------------------------------------
(* A topic published all along.  The threads of a round are told from earlier ones
   by their age, since a sleep comes between the rounds. *)
SleepAges ==
  /\ pc = "list" /\ running => \A th \in threads : th.age >= 1
  /\ pc = "spawn" => \A th \in threads : th.age >= 1
  /\ pc = "sleep" => \A th \in threads : th.age >= spent
ThreadsOfRound ==
  pc = "join" =>
    \A th \in threads : th.age >= round /\ (th.age = round /\ th.topic \in steady => th.fit)

(* Of such a topic the thread ends at HzTime only, with a rate. *)
EndsWithRate ==
  pc = "join" => \A t \in steady : Ended(t) => round = HzTime /\ results[t].hz = "ok"

(* Until then each of its joins lasts JoinTime, and the joins follow each other. *)
Before(i) == {j \in 1 .. i : RateTopics[j] \in steady}
JoinsLast ==
  pc = "join" =>
    \/ round = HzTime /\ spent = 0
    \/ round >= Cardinality(Before(joining - 1)) * JoinTime + spent

(* Hence the join of a topic that RateNotLost speaks of cannot expire. *)
Outlasts(i) == i \in Before(i) /\ Cardinality(Before(i)) * JoinTime > HzTime
JoinsWait ==
  pc = "join" => \A i \in 1 .. joining - 1 : Outlasts(i) => Ended(RateTopics[i])

RoundInv ==
  SleepAges /\ ThreadsOfRound /\ EndsWithRate /\ JoinsLast /\ JoinsWait /\ RateNotLost

LEMMA BeforeFinite ==
  ASSUME NEW i \in Nat
  PROVE  IsFiniteSet(Before(i)) /\ Cardinality(Before(i)) \in Nat
<1>1. Before(i) \subseteq 1 .. i
  BY DEF Before
<1>2. IsFiniteSet(1 .. i)
  BY FS_Interval
<1>3. IsFiniteSet(Before(i))
  BY <1>1, <1>2, FS_Subset, Zenon
<1> QED
  BY <1>3, FS_CardinalityType

LEMMA Products ==
  ASSUME NEW m \in Nat, NEW n \in Nat, NEW k \in Nat
  PROVE  /\ m * k \in Nat /\ (m + 1) * k = m * k + k
         /\ m =< n => m * k =< n * k
  OBVIOUS

(* A topic that dies or fails makes the others' joins no longer. *)
LEMMA BeforeShrinks ==
  ASSUME NEW i \in Nat, steady' \subseteq steady, JoinTime \in Nat
  PROVE  /\ Before(i)' \subseteq Before(i)
         /\ Cardinality(Before(i)') * JoinTime \in Nat
         /\ Cardinality(Before(i)) * JoinTime \in Nat
         /\ Cardinality(Before(i)') * JoinTime =< Cardinality(Before(i)) * JoinTime
<1>1. Before(i)' \subseteq Before(i)
  BY DEF Before
<1>2. IsFiniteSet(Before(i)) /\ Cardinality(Before(i)) \in Nat
  BY BeforeFinite
<1>3. /\ IsFiniteSet(Before(i)')
      /\ Cardinality(Before(i)') =< Cardinality(Before(i))
  BY <1>1, <1>2, FS_Subset, Zenon
<1>4. Cardinality(Before(i)') \in Nat
  BY <1>3, FS_CardinalityType, Zenon
<1> QED
  BY <1>1, <1>2, <1>3, <1>4, Products

LEMMA OutlastsShrinks ==
  ASSUME NEW i \in Nat, steady' \subseteq steady, Outlasts(i)'
  PROVE  Outlasts(i)
<1>1. HzTime \in Nat /\ JoinTime \in Nat
  BY Durations
<1>2. i \in Before(i)
  BY BeforeShrinks, <1>1 DEF Outlasts
<1>3. Cardinality(Before(i)') * JoinTime > HzTime
  BY DEF Outlasts
<1> QED
  BY <1>1, <1>2, <1>3, BeforeShrinks DEF Outlasts

LEMMA NotLostOutlasts ==
  RateNotLost <=>
    (pc = "compute" => \A i \in 1 .. Len(RateTopics) :
                         Outlasts(i) => rates[RateTopics[i]].hz = "ok")
<1>1. DOMAIN RateTopics = 1 .. Len(RateTopics)
  BY DashboardAssumption
<1> QED
  BY <1>1 DEF RateNotLost, Outlasts, Before

(* While the monitor stays where it is, what concerns the topics published all
   along holds of the ones that still are. *)
LEMMA RoundShrinks ==
  ASSUME TypeInv, RoundInv, steady' \subseteq steady,
         UNCHANGED <<pc, joining, spent, round, rates>>,
         \A t \in steady' : Ended(t) => Ended(t)'
  PROVE  JoinsLast' /\ JoinsWait' /\ RateNotLost'
<1> USE Durations
<1>1. joining \in Nat \ {0} /\ joining =< Len(RateTopics) + 1 /\ spent \in Nat /\ round \in Nat
  BY DEF TypeInv, MonitorTypes, AgeInv, RoundAge, Longest
<1>2. JoinsLast'
  <2>1. joining - 1 \in Nat
    BY <1>1
  <2>2. /\ Cardinality(Before(joining - 1)') * JoinTime \in Nat
        /\ Cardinality(Before(joining - 1)) * JoinTime \in Nat
        /\ Cardinality(Before(joining - 1)') * JoinTime =< Cardinality(Before(joining - 1)) * JoinTime
    <3>1. ASSUME NEW i \in Nat, joining - 1 = i
          PROVE  /\ Cardinality(Before(i)') * JoinTime \in Nat
                 /\ Cardinality(Before(i)) * JoinTime \in Nat
                 /\ Cardinality(Before(i)') * JoinTime =< Cardinality(Before(i)) * JoinTime
      BY BeforeShrinks
    <3> QED
      BY <2>1, <3>1 DEF Before
  <2> QED
    BY <1>1, <2>2 DEF RoundInv, JoinsLast
<1>3. JoinsWait'
  <2>1. ASSUME pc = "join", NEW i \in 1 .. joining - 1, Outlasts(i)'
        PROVE  Ended(RateTopics[i])'
    <3>1. i \in Nat /\ Outlasts(i)
      BY <1>1, <2>1, OutlastsShrinks
    <3>2. Ended(RateTopics[i]) /\ RateTopics[i] \in steady'
      BY <2>1, <3>1 DEF RoundInv, JoinsWait, Outlasts, Before
    <3> QED
      BY <3>2
  <2> QED
    BY <2>1 DEF JoinsWait
<1>4. RateNotLost'
  <2>1. ASSUME pc = "compute", NEW i \in 1 .. Len(RateTopics), Outlasts(i)'
        PROVE  rates[RateTopics[i]].hz = "ok"
    <3>1. i \in Nat /\ Outlasts(i)
      BY <2>1, OutlastsShrinks
    <3> QED
      BY <2>1, <3>1, NotLostOutlasts DEF RoundInv
  <2> QED
    BY <2>1, DashboardAssumption DEF RateNotLost, Outlasts, Before
<1> QED
  BY <1>2, <1>3, <1>4

LEMMA TickThreads ==
  ASSUME TypeInv, Tick
  PROVE  /\ \A th \in threads' : \E u \in threads :
              th.topic = u.topic /\ th.fit = u.fit /\ th.age = u.age + 1
         /\ \A u \in threads : \E th \in threads' :
              th.topic = u.topic /\ th.fit = u.fit /\ th.age = u.age + 1
<1>1. threads' = {[th EXCEPT !.age = @ + 1] : th \in threads}
  BY DEF Tick
<1>2. ASSUME NEW u \in threads
      PROVE  LET th == [u EXCEPT !.age = @ + 1]
             IN th.topic = u.topic /\ th.fit = u.fit /\ th.age = u.age + 1
  BY DEF TypeInv, AgeInv, ThreadAges, Thread
<1> QED
  BY <1>1, <1>2

(* A tick of the round: a thread of the round is running, so it is younger than
   HzTime. *)
LEMMA RoundTick ==
  ASSUME TypeInv, RoundInv, Tick
  PROVE  RoundInv'
<1> USE Durations
<1>1. /\ UNCHANGED <<pc, topics, joining, rates, running, steady>>
      /\ spent' = spent + 1
      /\ pc = "join" => round' = round + 1
      /\ results' = [t \in Topic |-> Aged(results[t])]
      /\ pc \in {"list", "spawn", "join", "sleep"}
  BY DEF Tick, historyVars
<1>2. /\ spent \in Nat /\ round \in Nat /\ round =< HzTime /\ joining \in Nat \ {0}
      /\ joining =< Len(RateTopics) + 1
      /\ \A th \in threads : th.age \in Nat
  BY DEF TypeInv, MonitorTypes, Longest, AgeInv, RoundAge, ThreadAges, Thread
<1>3. SleepAges'
  BY <1>1, <1>2, TickThreads DEF RoundInv, SleepAges
<1>4. ThreadsOfRound'
  <2>1. ASSUME pc = "join", NEW th \in threads'
        PROVE  th.age >= round' /\ (th.age = round' /\ th.topic \in steady => th.fit)
    <3>1. PICK u \in threads : th.topic = u.topic /\ th.fit = u.fit /\ th.age = u.age + 1
      BY TickThreads
    <3> QED
      BY <1>1, <1>2, <2>1, <3>1 DEF RoundInv, ThreadsOfRound
  <2> QED
    BY <1>1, <2>1 DEF ThreadsOfRound
<1>5. ASSUME pc = "join"
      PROVE  round < HzTime /\ \A t : Ended(t)' <=> Ended(t)
  <2>1. round < HzTime
    <3>1. PICK u \in threads : u.age = round
      BY <1>5 DEF Tick, Joined, Ended
    <3> QED
      BY <1>2, <3>1 DEF Tick
  <2>2. \A t : Ended(t)' <=> Ended(t)
    BY <1>1, <1>2, <1>5, TickThreads DEF Ended
  <2> QED
    BY <2>1, <2>2
<1>6. EndsWithRate'
  BY <1>1, <1>2, <1>5 DEF RoundInv, EndsWithRate
<1>7. JoinsLast'
  <2>1. ASSUME pc = "join"
        PROVE  round' >= Cardinality(Before(joining - 1)) * JoinTime + spent'
    <3>1. joining - 1 \in Nat
      BY <1>2
    <3>2. Cardinality(Before(joining - 1)) * JoinTime \in Nat
      BY <3>1, BeforeFinite, Products
    <3> QED
      BY <1>1, <1>2, <1>5, <2>1, <3>2 DEF RoundInv, JoinsLast
  <2>2. Before(joining - 1)' = Before(joining - 1)
    BY <1>1 DEF Before
  <2> QED
    BY <1>1, <2>1, <2>2 DEF JoinsLast
<1>8. JoinsWait'
  BY <1>1, <1>5 DEF RoundInv, JoinsWait, Outlasts, Before
<1>9. RateNotLost'
  BY <1>1 DEF RateNotLost
<1> QED
  BY <1>3, <1>4, <1>6, <1>7, <1>8, <1>9 DEF RoundInv

(* A thread that ends.  If its topic was published all along it is as old as the
   round, or an older one ends next to it. *)
LEMMA RoundWrite ==
  ASSUME TypeInv, RoundInv, NEW th \in threads, Measured(th) \/ CommandFails(th)
  PROVE  RoundInv'
<1> USE Durations
<1>1. /\ UNCHANGED <<pc, joining, spent, round, rates, running>>
      /\ threads' = threads \ {th} /\ steady' \subseteq steady
      /\ th.topic \in Topic
      /\ th \in Thread
  BY DEF Measured, CommandFails, Write, monitorVars, historyVars,
         TypeInv, AgeInv, ThreadAges, Thread
<1>2. SleepAges'
  BY <1>1 DEF RoundInv, SleepAges
<1>3. ThreadsOfRound'
  BY <1>1 DEF RoundInv, ThreadsOfRound
<1>4. EndsWithRate'
  <2>1. ASSUME pc = "join", NEW t \in steady', Ended(t)'
        PROVE  round = HzTime /\ results'[t].hz = "ok"
    <3>1. /\ round \in Nat /\ round =< HzTime
          /\ t \in steady /\ t \in Topic /\ results \in [Topic -> Rate]
      BY <1>1 DEF TypeInv, AgeInv, RoundAge, ResultAges, WorldTypes
    <3>2. CASE th.topic = t
      <4>1. Measured(th) /\ th.age = HzTime
        <5>1. ~CommandFails(th)
          BY <2>1, <3>2 DEF CommandFails
        <5> QED
          BY <5>1 DEF Measured
      <4>2. CASE th.age = round
        <5>1. th.fit
          BY <2>1, <3>1, <3>2, <4>2 DEF RoundInv, ThreadsOfRound
        <5>2. results' = [results EXCEPT ![t] = Ok(HzTime)]
          BY <3>2, <4>1, <5>1 DEF Measured, Write
        <5>3. results'[t] = Ok(HzTime)
          BY <1>1, <3>1, <3>2, <5>2
        <5> QED
          BY <4>1, <4>2, <5>3 DEF Ok
      <4>3. CASE th.age # round
        <5>1. Ended(t)
          BY <1>1, <2>1, <4>3 DEF Ended
        <5>2. round = HzTime
          BY <2>1, <3>1, <5>1 DEF RoundInv, EndsWithRate
        <5> QED
          BY <4>1, <4>3, <5>2
      <4> QED
        BY <4>2, <4>3
    <3>3. CASE th.topic # t
      <4>1. Ended(t)
        BY <1>1, <2>1, <3>3 DEF Ended
      <4>2. results'[t] = results[t]
        <5>1. PICK rate : results' = [results EXCEPT ![th.topic] = rate]
          BY DEF Measured, CommandFails, Write
        <5> QED
          BY <3>1, <3>3, <5>1
      <4> QED
        BY <2>1, <3>1, <4>1, <4>2 DEF RoundInv, EndsWithRate
    <3> QED
      BY <3>2, <3>3
  <2> QED
    BY <1>1, <2>1 DEF EndsWithRate
<1>5. \A t : Ended(t) => Ended(t)'
  BY <1>1 DEF Ended
<1>6. JoinsLast' /\ JoinsWait' /\ RateNotLost'
  BY <1>1, <1>5, RoundShrinks
<1> QED
  BY <1>2, <1>3, <1>4, <1>6 DEF RoundInv

(* A topic that dies is not one published all along. *)
LEMMA RoundTopics ==
  ASSUME TypeInv, RoundInv, NEW t \in Topic, TopicAppears(t) \/ TopicDies(t)
  PROVE  RoundInv'
<1>1. /\ UNCHANGED <<pc, joining, spent, round, rates, running, results>>
      /\ steady' \subseteq steady
  BY DEF TopicAppears, TopicDies, monitorVars, historyVars, measureVars
<1>2. /\ \A th \in threads' : \E u \in threads :
            /\ th.topic = u.topic /\ th.age = u.age
            /\ th.topic \in steady' => th = u
      /\ \A u \in threads : \E th \in threads' : th.topic = u.topic /\ th.age = u.age
  <2>1. CASE TopicAppears(t)
    BY <2>1 DEF TopicAppears, measureVars
  <2>2. CASE TopicDies(t)
    <3>1. /\ threads' = {IF u.topic = t THEN [u EXCEPT !.fit = FALSE] ELSE u : u \in threads}
          /\ t \notin steady'
      BY <2>2 DEF TopicDies
    <3>2. ASSUME NEW u \in threads
          PROVE  LET th == IF u.topic = t THEN [u EXCEPT !.fit = FALSE] ELSE u
                 IN th.topic = u.topic /\ th.age = u.age /\ (u.topic # t => th = u)
      BY DEF TypeInv, AgeInv, ThreadAges, Thread
    <3> QED
      BY <3>1, <3>2
  <2> QED
    BY <2>1, <2>2
<1>3. \A tt : Ended(tt)' <=> Ended(tt)
  BY <1>1, <1>2 DEF Ended
<1>4. SleepAges'
  BY <1>1, <1>2 DEF RoundInv, SleepAges
<1>5. ThreadsOfRound'
  <2>1. ASSUME pc = "join", NEW th \in threads'
        PROVE  th.age >= round /\ (th.age = round /\ th.topic \in steady' => th.fit)
    <3>1. PICK u \in threads : /\ th.topic = u.topic /\ th.age = u.age
                               /\ th.topic \in steady' => th = u
      BY <1>2
    <3> QED
      BY <1>1, <2>1, <3>1 DEF RoundInv, ThreadsOfRound
  <2> QED
    BY <1>1, <2>1 DEF ThreadsOfRound
<1>6. EndsWithRate'
  BY <1>1, <1>3 DEF RoundInv, EndsWithRate
<1>7. JoinsLast' /\ JoinsWait' /\ RateNotLost'
  BY <1>1, <1>3, RoundShrinks
<1> QED
  BY <1>4, <1>5, <1>6, <1>7 DEF RoundInv

(* The threads of a round start together, and their topics are the listed ones. *)
LEMMA RoundSpawn ==
  ASSUME TypeInv, RoundInv, Spawn
  PROVE  RoundInv'
<1> USE Durations
<1>1. /\ pc = "spawn" /\ pc' = "join" /\ joining' = 1 /\ spent' = 0
      /\ round' = 0 /\ steady' = steady /\ steady \subseteq alive /\ steady \subseteq topics
      /\ threads' = threads \union Started(topics)
  BY DEF Spawn, Goto, historyVars, TypeInv, WorldTypes, AgeInv, RoundAge
<1>2. /\ \A th \in Started(topics) : /\ th.age = 0 /\ th.topic \in topics
                                     /\ th.fit <=> th.topic \in alive
      /\ \A t \in topics : \E th \in Started(topics) : th.topic = t /\ th.age = 0
  <2>1. ASSUME NEW th \in Started(topics)
        PROVE  th.age = 0 /\ th.topic \in topics /\ (th.fit <=> th.topic \in alive)
    <3>1. PICK t \in topics : th = [topic |-> t, age |-> 0, fit |-> t \in alive]
      BY <2>1, Zenon DEF Started
    <3> QED
      BY <3>1
  <2>2. ASSUME NEW t \in topics
        PROVE  \E th \in Started(topics) : th.topic = t /\ th.age = 0
    <3>1. [topic |-> t, age |-> 0, fit |-> t \in alive] \in Started(topics)
      BY DEF Started
    <3> QED
      BY <3>1
  <2> QED
    BY <2>1, <2>2
<1>3. \A th \in threads : th.age \in Nat /\ th.age >= 1
  BY <1>1 DEF TypeInv, AgeInv, ThreadAges, Thread, RoundInv, SleepAges
<1>4. ThreadsOfRound'
  BY <1>1, <1>2, <1>3 DEF ThreadsOfRound
<1>5. EndsWithRate'
  BY <1>1, <1>2 DEF EndsWithRate, Ended
<1>6. JoinsLast'
  <2>1. Before(joining - 1)' = {}
    BY <1>1 DEF Before
  <2>2. Cardinality(Before(joining - 1)') = 0
    BY <2>1, FS_EmptySet
  <2> QED
    BY <1>1, <2>2 DEF JoinsLast
<1>7. JoinsWait'
  BY <1>1 DEF JoinsWait
<1>8. SleepAges' /\ RateNotLost'
  BY <1>1 DEF SleepAges, RateNotLost
<1> QED
  BY <1>4, <1>5, <1>6, <1>7, <1>8 DEF RoundInv

(* A join of a topic published all along adds JoinTime to the round, or comes at
   HzTime.  It has not expired if that is more than HzTime. *)
LEMMA RoundJoin ==
  ASSUME TypeInv, RoundInv, Join
  PROVE  RoundInv'
<1> USE Durations
<1>1. /\ pc = "join" /\ pc' = "join" /\ joining' = joining + 1 /\ spent' = 0
      /\ UNCHANGED <<topics, round, rates, threads, results, running, steady>>
      /\ joining =< Len(RateTopics)
      /\ Joined(RateTopics[joining])
      /\ joining \in Nat \ {0}
  BY DEF Join, AllJoined, Goto, measureVars, historyVars, TypeInv, MonitorTypes
<1>2. spent \in Nat /\ round \in Nat /\ round =< HzTime
  BY <1>1 DEF TypeInv, MonitorTypes, Longest, AgeInv, RoundAge
<1>3. SleepAges' /\ ThreadsOfRound' /\ EndsWithRate' /\ RateNotLost'
  BY <1>1 DEF RoundInv, SleepAges, ThreadsOfRound, EndsWithRate, RateNotLost, Ended
<1>4. \A i : Before(i)' = Before(i)
  BY <1>1 DEF Before
<1> DEFINE n == Cardinality(Before(joining - 1))
           m == Cardinality(Before(joining))
<1>5. /\ n \in Nat /\ m \in Nat
      /\ m = IF RateTopics[joining] \in steady THEN n + 1 ELSE n
  <2>1. Before(joining) = IF RateTopics[joining] \in steady
                          THEN Before(joining - 1) \union {joining} ELSE Before(joining - 1)
    BY <1>1 DEF Before
  <2>2. joining \notin Before(joining - 1)
    BY <1>1 DEF Before
  <2>3. joining - 1 \in Nat /\ joining \in Nat
    BY <1>1
  <2>4. IsFiniteSet(Before(joining - 1)) /\ n \in Nat /\ m \in Nat
    BY <2>3, BeforeFinite
  <2>5. Cardinality(Before(joining - 1) \union {joining}) = n + 1
    BY <2>2, <2>4, FS_AddElement
  <2> QED
    BY <2>1, <2>4, <2>5
<1>6. n * JoinTime \in Nat /\ m * JoinTime \in Nat
      /\ m * JoinTime = IF RateTopics[joining] \in steady
                        THEN n * JoinTime + JoinTime ELSE n * JoinTime
  BY <1>5, Products
<1>7. JoinsLast'
  <2>1. round = HzTime \/ round >= m * JoinTime
    <3>1. CASE RateTopics[joining] \in steady /\ Ended(RateTopics[joining])
      BY <1>1, <3>1 DEF RoundInv, EndsWithRate
    <3>2. CASE RateTopics[joining] \in steady /\ ~Ended(RateTopics[joining])
      <4>1. spent >= JoinTime
        BY <1>1, <3>2 DEF Joined
      <4>2. round = HzTime \/ round >= n * JoinTime + spent
        BY <1>1 DEF RoundInv, JoinsLast
      <4> QED
        BY <1>2, <1>6, <3>2, <4>1, <4>2
    <3>3. CASE RateTopics[joining] \notin steady
      BY <1>1, <1>2, <1>6, <3>3 DEF RoundInv, JoinsLast
    <3> QED
      BY <3>1, <3>2, <3>3
  <2>2. Before(joining - 1)' = Before(joining)
    BY <1>1 DEF Before
  <2> QED
    BY <1>1, <1>2, <1>6, <2>1, <2>2 DEF JoinsLast
<1>8. JoinsWait'
  <2>1. ASSUME NEW i \in 1 .. joining, Outlasts(i)
        PROVE  Ended(RateTopics[i])
    <3>1. CASE i < joining
      BY <1>1, <2>1, <3>1 DEF RoundInv, JoinsWait
    <3>2. CASE i = joining
      <4>1. RateTopics[joining] \in steady /\ m * JoinTime > HzTime
        BY <2>1, <3>2 DEF Outlasts, Before
      <4>2. \/ round = HzTime /\ spent = 0
            \/ round >= n * JoinTime + spent
        BY <1>1 DEF RoundInv, JoinsLast
      <4>3. ~(spent >= JoinTime)
        BY <1>2, <1>6, <4>1, <4>2
      <4> QED
        BY <1>1, <3>2, <4>3 DEF Joined
    <3> QED
      BY <1>1, <3>1, <3>2
  <2>2. \A i : Outlasts(i)' <=> Outlasts(i)
    BY <1>4 DEF Outlasts
  <2>3. \A t : Ended(t)' <=> Ended(t)
    BY <1>1 DEF Ended
  <2> QED
    BY <1>1, <2>1, <2>2, <2>3 DEF JoinsWait
<1> QED
  BY <1>3, <1>7, <1>8 DEF RoundInv

(* When all are joined, what RateNotLost speaks of has ended, with a rate. *)
LEMMA RoundCompute ==
  ASSUME TypeInv, RoundInv, Compute
  PROVE  RoundInv'
<1>1. /\ pc = "join" /\ pc' = "compute" /\ rates' = results /\ steady' = steady
      /\ joining = Len(RateTopics) + 1
  BY Durations DEF Compute, AllJoined, Goto, historyVars, TypeInv, MonitorTypes
<1>2. ASSUME NEW i \in 1 .. Len(RateTopics), Outlasts(i)
      PROVE  results[RateTopics[i]].hz = "ok"
  <2>1. Ended(RateTopics[i]) /\ RateTopics[i] \in steady
    BY <1>1, <1>2, Durations DEF RoundInv, JoinsWait, Outlasts, Before
  <2> QED
    BY <1>1, <2>1 DEF RoundInv, EndsWithRate
<1>3. RateNotLost'
  BY <1>1, <1>2, DashboardAssumption DEF RateNotLost, Outlasts, Before
<1> QED
  BY <1>1, <1>3 DEF RoundInv, SleepAges, ThreadsOfRound, EndsWithRate, JoinsLast, JoinsWait

LEMMA RoundMonitor ==
  ASSUME TypeInv, TypeInv', RoundInv, Monitor
  PROVE  RoundInv'
<1> USE DEF Goto
<1>1. SUFFICES ASSUME List \/ RoundFails \/ Update \/ Release \/ EndSleep \/ Stop
               PROVE  SleepAges' /\ pc' \notin {"join", "compute"}
  <2>1. ASSUME SleepAges', pc' \notin {"join", "compute"}
        PROVE  RoundInv'
    BY <2>1 DEF RoundInv, ThreadsOfRound, EndsWithRate, JoinsLast, JoinsWait, RateNotLost
  <2> QED
    BY <1>1, <2>1, RoundSpawn, RoundJoin, RoundCompute DEF Monitor
<1>2. \A th \in threads' : th.age \in Nat
  BY Durations DEF TypeInv, AgeInv, ThreadAges, Thread
<1>3. CASE List
  BY <1>3 DEF List, measureVars, RoundInv, SleepAges
<1>4. CASE RoundFails \/ Release
  BY <1>2, <1>4 DEF RoundFails, Release, EndRound, SleepAges
<1>5. CASE Update \/ Stop
  BY <1>5 DEF Update, Stop, SleepAges
<1>6. CASE EndSleep
  <2>1. /\ pc = "sleep" /\ pc' = "list" /\ UNCHANGED <<threads, running>>
        /\ running => spent >= 1
    <3>1. spent \in Int
      BY DEF TypeInv, MonitorTypes
    <3> QED
      BY <1>6, <3>1, Durations DEF EndSleep, measureVars
  <2>2. ASSUME running, NEW th \in threads
        PROVE  th.age >= 1
    <3>1. th.age \in Nat /\ spent \in Int /\ th.age >= spent
      BY <1>2, <2>1 DEF RoundInv, SleepAges, TypeInv, MonitorTypes
    <3> QED
      BY <2>1, <2>2, <3>1
  <2> QED
    BY <2>1, <2>2 DEF SleepAges
<1> QED
  BY <1>1, <1>3, <1>4, <1>5, <1>6

LEMMA RoundStep ==
  ASSUME TypeInv, TypeInv', RoundInv, [Next]_vars
  PROVE  RoundInv'
<1>1. CASE GetStatus \/ Shutdown \/ UNCHANGED vars
  <2>1. /\ UNCHANGED <<pc, joining, spent, round, rates, threads, results, steady>>
        /\ running' => running
    BY <1>1 DEF GetStatus, Shutdown, vars, monitorVars, measureVars, historyVars, TypeInv, WorldTypes
  <2>2. \A t : Ended(t) => Ended(t)'
    BY <2>1 DEF Ended
  <2>3. SleepAges' /\ ThreadsOfRound' /\ EndsWithRate'
    BY <2>1 DEF RoundInv, SleepAges, ThreadsOfRound, EndsWithRate, Ended
  <2>4. JoinsLast' /\ JoinsWait' /\ RateNotLost'
    BY <2>1, <2>2, RoundShrinks
  <2> QED
    BY <2>3, <2>4 DEF RoundInv
<1> QED
  BY <1>1, RoundMonitor, RoundTick, RoundWrite, RoundTopics DEF Next, World

-----------------------------------------------------------------------------
DashboardInv == TypeInv /\ ~torn /\ RoundInv

LEMMA DashboardStep == DashboardInv /\ [Next]_vars => DashboardInv'
<1> SUFFICES ASSUME DashboardInv, [Next]_vars
             PROVE  DashboardInv'
  OBVIOUS
<1>1. LockInv' /\ ~torn'
  BY LockStep DEF DashboardInv, TypeInv
<1>2. AgeInv'
  BY AgeStep DEF DashboardInv, TypeInv
<1>3. TypeInv'
  BY <1>1, <1>2, TypesStep DEF DashboardInv
<1>4. RoundInv'
  BY <1>3, RoundStep DEF DashboardInv
<1> QED
  BY <1>1, <1>3, <1>4 DEF DashboardInv

LEMMA DashboardInit == Init => DashboardInv
<1> SUFFICES ASSUME Init
             PROVE  DashboardInv
  OBVIOUS
<1>1. LockInv /\ ~torn
  BY LockInit
<1>2. AgeInv
  BY AgeInit
<1>3. MonitorTypes /\ WorldTypes
  <2>1. Empty \in [Topic -> Rate]
    BY RateFields DEF Empty
  <2>2. /\ pc = "list" /\ topics = {} /\ joining = Len(RateTopics) + 1 /\ spent = 0
        /\ rates = Empty /\ alive \subseteq Topic /\ running = TRUE /\ steady = {} /\ torn = FALSE
    BY DEF Init
  <2>3. MonitorTypes
    BY <2>1, <2>2, Durations DEF MonitorTypes, Longest
  <2>4. WorldTypes
    BY <2>2 DEF WorldTypes
  <2> QED
    BY <2>3, <2>4
<1>4. RoundInv
  BY DEF Init, RoundInv, SleepAges, ThreadsOfRound, EndsWithRate, JoinsLast, JoinsWait, RateNotLost
<1> QED
  BY <1>1, <1>2, <1>3, <1>4 DEF DashboardInv, TypeInv

(* The types of the dashboard: no step of the monitor takes longer than its
   timeout. *)
THEOREM DashboardTypeCorrect == Spec => []TypeOK
<1>1. DashboardInv => TypeOK
  BY DEF DashboardInv, TypeInv, LockInv, AgeInv, ThreadAges, RoundAge, ResultAges,
         MonitorTypes, WorldTypes, TypeOK
<1> QED
  BY DashboardInit, DashboardStep, <1>1, PTL DEF Spec

(* _monitor_loop: the joins of a round wait one after the other, so a topic whose
   join and those before it outlast a measurement is shown with its rate. *)
THEOREM NoRateLost == Spec => []RateNotLost
<1>1. DashboardInv => RateNotLost
  BY DEF DashboardInv, RoundInv
<1> QED
  BY DashboardInit, DashboardStep, <1>1, PTL DEF Spec
=============================================================================
