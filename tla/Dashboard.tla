------------------------------ MODULE Dashboard ------------------------------
(***************************************************************************)
(* The status dashboard (scripts/dashboard.py): a monitor thread that lists *)
(* the topics, measures the rates of those it finds in threads of their own *)
(* and publishes a snapshot under a lock, and the HTTP handler that copies  *)
(* the snapshot.                                                            *)
(*                                                                          *)
(* A measuring thread that outlives its join goes on, and writes into the   *)
(* rate_results of whatever round it ends in.                               *)
(***************************************************************************)
EXTENDS Integers, Sequences, FiniteSets

CONSTANTS
  Topic,       \* the topics of RATE_TOPICS
  RateTopics,  \* RATE_TOPICS
  JoinTime,    \* t.join(timeout=10), in clock ticks as all times below
  HzTime,      \* `ros2 topic hz` runs until it is killed after 15 s
  ListTime,    \* each of the two list commands takes up to 10 s
  SleepTime    \* the sleep between two rounds

ASSUME DashboardAssumption ==
  /\ RateTopics \in Seq(Topic)
  /\ \A t \in Topic : \E i \in DOMAIN RateTopics : RateTopics[i] = t
  /\ JoinTime \in Nat \ {0} /\ HzTime \in Nat \ {0}
  /\ ListTime \in Nat /\ SleepTime \in Nat \ {0}

VARIABLES
  alive,       \* topics that are published at a healthy rate
  pc,          \* where the monitor thread is
  topics,      \* the topics it listed
  joining,     \* which of RATE_TOPICS has the thread it joins
  spent,       \* time on the present command, join or sleep
  round,       \* time since the threads of this round were started
  threads,     \* measuring threads: topic, age, and was it healthy throughout
  results,     \* rate_results
  rates,       \* what the round is going to publish
  status,      \* _latest_status
  locked,      \* _status_lock
  running,     \* _monitor_running
  steady,      \* history: topics alive, and measured without failure, since the listing
  torn         \* history: an HTTP client got the parts of different rounds

monitorVars == <<pc, topics, joining, spent, round, rates>>
measureVars == <<threads, results>>
statusVars == <<status, locked>>
historyVars == <<steady, torn>>
vars == <<alive, monitorVars, measureVars, statusVars, running, historyVars>>

Oldest == 2 * HzTime + 1        \* ages from here on are not told apart
Age == 0 .. Oldest
Later(age) == IF age < Oldest THEN age + 1 ELSE age

(* No entry in the dictionary, a rate below 0.5 Hz or None, or a healthy rate,
   with the time since its measurement began. *)
Missing == [hz |-> "missing", age |-> 0]
Stale == [hz |-> "stale", age |-> 0]
Ok(age) == [hz |-> "ok", age |-> age]
Rate == {Missing, Stale} \union {Ok(age) : age \in Age}

(* Of the snapshot, from which listing its parts were made. *)
Status == [nodes : SUBSET Topic, rates : SUBSET Topic]
Thread == [topic : Topic, age : 0 .. HzTime, fit : BOOLEAN]

(* How long each step of the monitor lasts at most. *)
Longest == [list |-> ListTime, spawn |-> ListTime, join |-> JoinTime,
            compute |-> 0, update |-> 0, sleep |-> SleepTime, stopped |-> 0]

TypeOK ==
  /\ alive \subseteq Topic
  /\ pc \in DOMAIN Longest
  /\ topics \subseteq Topic
  /\ joining \in 1 .. Len(RateTopics) + 1
  /\ spent \in 0 .. Longest[pc] /\ round \in 0 .. HzTime
  /\ threads \subseteq Thread
  /\ results \in [Topic -> Rate] /\ rates \in [Topic -> Rate]
  /\ status \in Status
  /\ locked \in BOOLEAN
  /\ running \in BOOLEAN
  /\ steady \subseteq Topic
  /\ torn \in BOOLEAN

Empty == [t \in Topic |-> Missing]

Init ==
  /\ alive \in SUBSET Topic
  /\ pc = "list" /\ topics = {} /\ joining = Len(RateTopics) + 1 /\ spent = 0 /\ round = 0
  /\ threads = {} /\ results = Empty /\ rates = Empty
  /\ status = [nodes |-> {}, rates |-> {}] /\ locked = FALSE
  /\ running = TRUE
  /\ steady = {} /\ torn = FALSE

Goto(to) == pc' = to /\ spent' = 0

-----------------------------------------------------------------------------
(* _monitor_loop. *)

(* Mutant: rate_results outlives the round. *)
ResultsKept == results

NewResults == Empty

(* `ros2 topic list` may miss a topic, may list one that nobody publishes, and
   is empty if it fails. *)
List ==
  /\ pc = "list" /\ running
  /\ topics' \in SUBSET Topic
  /\ steady' = topics' \intersect alive
  /\ Goto("spawn")
  /\ UNCHANGED <<alive, joining, round, rates, measureVars, statusVars, running, torn>>

Started(ts) == {[topic |-> t, age |-> 0, fit |-> t \in alive] : t \in ts}

(* After `ros2 node list`: a thread for each listed topic, to be joined in the
   order of RATE_TOPICS. *)
Spawn ==
  /\ pc = "spawn"
  /\ results' = NewResults
  /\ joining' = 1
  /\ threads' = threads \union Started(topics)
  /\ Goto("join")
  /\ UNCHANGED <<alive, topics, round, rates, statusVars, running, historyVars>>

(* What belongs to the round alone is cleared at its end; the next sets it anew. *)
EndRound == topics' = {} /\ rates' = Empty /\ round' = 0 /\ steady' = {} /\ Goto("sleep")

(* An exception: a thread that cannot be started, or a watchdog log that cannot
   be decoded. *)
RoundFails ==
  /\ \/ pc = "compute" /\ UNCHANGED <<results, threads>>
     \/ /\ pc = "spawn" /\ results' = NewResults
        /\ \E ts \in SUBSET topics : threads' = threads \union Started(ts)
  /\ EndRound
  /\ UNCHANGED <<alive, joining, statusVars, running, torn>>

(* The threads of this round are the ones that are as old as it. *)
Ended(t) == \A th \in threads : th.topic = t => th.age # round

(* Mutant: join without a timeout. *)
JoinedUntimed(t) == Ended(t)

(* Mutant: the joins share one timeout. *)
JoinedTogether(t) == Ended(t) \/ round >= JoinTime

Joined(t) == Ended(t) \/ spent >= JoinTime

AllJoined == joining > Len(RateTopics)

(* There is no thread to wait for if the topic was not listed. *)
Join ==
  /\ pc = "join" /\ ~AllJoined
  /\ Joined(RateTopics[joining])
  /\ joining' = joining + 1
  /\ Goto("join")
  /\ UNCHANGED <<alive, topics, round, rates, measureVars, statusVars, running, historyVars>>

(* A topic that is not in rate_results is stale, as one that was too slow. *)
Compute ==
  /\ pc = "join" /\ AllJoined
  /\ rates' = results
  /\ Goto("compute")
  /\ UNCHANGED <<alive, topics, joining, round, measureVars, statusVars, running, historyVars>>

(* `with _status_lock`: update replaces one key after the other. *)
Update ==
  /\ pc = "compute" /\ ~locked
  /\ locked' = TRUE
  /\ status' = [status EXCEPT !.nodes = topics]
  /\ Goto("update")
  /\ UNCHANGED <<alive, topics, joining, round, rates, measureVars, running, historyVars>>

Release ==
  /\ pc = "update"
  /\ locked' = FALSE
  /\ status' = [status EXCEPT !.rates = topics]
  /\ EndRound
  /\ UNCHANGED <<alive, joining, measureVars, running, torn>>

EndSleep ==
  /\ pc = "sleep"
  /\ spent >= SleepTime \/ ~running
  /\ Goto("list")
  /\ UNCHANGED <<alive, topics, joining, round, rates, measureVars, statusVars, running, historyVars>>

(* The measuring threads are daemons, and end with the process. *)
Stop ==
  /\ pc = "list" /\ ~running
  /\ Goto("stopped")
  /\ threads' = {}
  /\ UNCHANGED <<alive, topics, joining, round, rates, results, statusVars, running, historyVars>>

Monitor ==
  \/ List \/ Spawn \/ RoundFails \/ Join \/ Compute \/ Update \/ Release
  \/ EndSleep \/ Stop

-----------------------------------------------------------------------------
(* measure, in a thread of its own. *)

(* Evaluated from the right: rate_results is the dictionary of the moment. *)
Write(th, rate) ==
  /\ results' = [results EXCEPT ![th.topic] = rate]
  /\ threads' = threads \ {th}

(* `ros2 topic hz` does not end by itself; what it printed until it is killed
   has a rate if the topic was published all the time. *)
Measured(th) ==
  /\ th.age = HzTime
  /\ \/ Write(th, Ok(th.age))
     \/ ~th.fit /\ Write(th, Stale)
  /\ UNCHANGED <<alive, monitorVars, statusVars, running, historyVars>>

CommandFails(th) ==
  /\ Write(th, Stale)
  /\ steady' = steady \ {th.topic}
  /\ UNCHANGED <<alive, monitorVars, statusVars, running, torn>>

-----------------------------------------------------------------------------
(* The HTTP handler, the signal handler, the topics and time. *)

(* Mutant: the snapshot is copied without the lock. *)
GetUnlocked ==
  /\ torn' = (torn \/ status.nodes # status.rates)
  /\ UNCHANGED <<alive, monitorVars, measureVars, statusVars, running, steady>>

GetStatus ==
  /\ ~locked
  /\ torn' = (torn \/ status.nodes # status.rates)
  /\ UNCHANGED <<alive, monitorVars, measureVars, statusVars, running, steady>>

Shutdown ==
  /\ running' = FALSE
  /\ UNCHANGED <<alive, monitorVars, measureVars, statusVars, historyVars>>

TopicAppears(t) ==
  /\ alive' = alive \union {t}
  /\ UNCHANGED <<monitorVars, measureVars, statusVars, running, historyVars>>

TopicDies(t) ==
  /\ alive' = alive \ {t}
  /\ threads' = {IF th.topic = t THEN [th EXCEPT !.fit = FALSE] ELSE th : th \in threads}
  /\ steady' = steady \ {t}
  /\ UNCHANGED <<monitorVars, results, statusVars, running, torn>>

Aged(rate) == IF rate.hz = "ok" THEN Ok(Later(rate.age)) ELSE rate

(* Nothing takes time but the commands, the joins and the sleep. *)
Tick ==
  /\ \A th \in threads : th.age < HzTime
  /\ \/ pc = "list" /\ running /\ spent < ListTime
     \/ pc = "spawn" /\ spent < ListTime
     \/ pc = "join" /\ ~AllJoined /\ ~Joined(RateTopics[joining])
     \/ pc = "sleep" /\ running /\ spent < SleepTime
  /\ spent' = spent + 1
  /\ round' = IF pc = "join" THEN round + 1 ELSE round
  /\ threads' = {[th EXCEPT !.age = @ + 1] : th \in threads}
  /\ results' = [t \in Topic |-> Aged(results[t])]
  /\ UNCHANGED <<alive, pc, topics, joining, rates, statusVars, running, historyVars>>

World ==
  \/ GetStatus \/ Shutdown \/ Tick
  \/ \E th \in threads : Measured(th) \/ CommandFails(th)
  \/ \E t \in Topic : TopicAppears(t) \/ TopicDies(t)

Next == Monitor \/ World

Spec == Init /\ [][Next]_vars

-----------------------------------------------------------------------------
(* Safety. *)

(* get_status: an HTTP client never sees the nodes of one round with the rates
   of another. *)
SnapshotConsistent == ~torn

(* A rate on display comes from this round or from a thread of the round before
   that outlived its join, never from longer ago. *)
RatesRecent ==
  pc = "compute" => \A t \in Topic : rates[t].hz = "ok" => rates[t].age =< 2 * HzTime

(* A topic that was published all along is on display as such if its own join
   and those before it together outlast a measurement.  With the durations in
   the code that is every topic but the first; the join of that one expires. *)
RateNotLost ==
  pc = "compute" =>
    \A i \in DOMAIN RateTopics :
      LET before == {j \in 1 .. i : RateTopics[j] \in steady} IN
      i \in before /\ Cardinality(before) * JoinTime > HzTime =>
        rates[RateTopics[i]].hz = "ok"

(* README.md:981: stale detection.  What is shown as stale was not published at a
   healthy rate. *)
StaleIsStale == pc = "compute" => \A t \in steady : rates[t].hz = "ok"
=============================================================================
