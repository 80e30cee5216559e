------------------------------ MODULE ShmSweep ------------------------------
(***************************************************************************)
(* The sweep of FastRTPS shared memory in /dev/shm: _clean_fastrtps_orphans *)
(* of scripts/watchdog.py, run at its start and every minute, and the same  *)
(* in scripts/launch_teleop.sh, next to ROS processes that make, use and    *)
(* leave the files of their ports.                                          *)
(*                                                                          *)
(* A port has a data segment, the lock file _el and the semaphore _mutex.   *)
(* The sweep looks at a port and then unlinks its files one by one, so that *)
(* anything may happen in between.                                          *)
(***************************************************************************)
EXTENDS Integers, Sequences, FiniteSets

CONSTANTS
  Port,        \* ports that participants hash to
  Watchdog,    \* sweeps by watchdog.py
  Shell,       \* sweeps by launch_teleop.sh
  None,
  MaxFaults    \* bound on killed sweeps

Sweeper == Watchdog \union Shell
File == {"data", "el", "mutex"}
Part == File \union {"size"}    \* what a participant makes; the segment starts with 0 bytes

ASSUME SweepAssumption ==
  /\ Watchdog \intersect Shell = {}
  /\ None \notin Port
  /\ MaxFaults \in Nat

VARIABLES
  files,       \* the files of each port
  grown,       \* is the segment larger than 0 bytes
  owner,       \* the participant of the port: none, alive, or stuck at a segment of 0 bytes
  made,        \* what it has made or found so far; it is up once that is everything
  pass,        \* idle, the pass over the segments ("data") or over the locks ("el")
  listed,      \* ports of the pass not looked at yet
  at,          \* the port whose files are being unlinked
  todo,        \* those still to unlink
  faults,      \* faults still to come
  raced        \* history: while a sweep held the port another did, or a participant started

portVars == <<files, grown, owner, made>>
sweepVars == <<pass, listed, at, todo>>
vars == <<portVars, sweepVars, faults, raced>>

Up(p) == owner[p] = "alive" /\ made[p] = Part
Held(p) == \E s \in Sweeper : at[s] = p
Poisoned(p) == "data" \in files[p] /\ ~grown[p]

TypeOK ==
  /\ files \in [Port -> SUBSET File]
  /\ grown \in [Port -> BOOLEAN]
  /\ owner \in [Port -> {"none", "alive", "stuck"}]
  /\ made \in [Port -> SUBSET Part]
  /\ pass \in [Sweeper -> {"idle", "data", "el"}]
  /\ listed \in [Sweeper -> SUBSET Port]
  /\ at \in [Sweeper -> Port \union {None}]
  /\ todo \in [Sweeper -> Seq(File)]
  /\ faults \in 0 .. MaxFaults
  /\ raced \in [Port -> BOOLEAN]
  /\ \A p \in Port : grown[p] => "data" \in files[p]
  /\ \A s \in Sweeper : at[s] \notin listed[s] /\ (at[s] = None <=> todo[s] = <<>>)

(* Of the files anything may be there from before. *)
Init ==
  /\ files \in [Port -> SUBSET File]
  /\ grown \in [Port -> BOOLEAN]
  /\ \A p \in Port : grown[p] => "data" \in files[p]
  /\ owner = [p \in Port |-> "none"] /\ made = [p \in Port |-> {}]
  /\ pass = [s \in Sweeper |-> "idle"] /\ listed = [s \in Sweeper |-> {}]
  /\ at = [s \in Sweeper |-> None] /\ todo = [s \in Sweeper |-> <<>>]
  /\ faults = MaxFaults
  /\ raced = [p \in Port |-> FALSE]

-----------------------------------------------------------------------------
(* Participants: any process that creates a node, `ros2 topic list` included. *)

(* One that finds a segment of 0 bytes waits for it to grow, forever if the
   process that made it was killed. *)
Open(p) ==
  /\ owner[p] = "none"
  /\ owner' = [owner EXCEPT ![p] = IF Poisoned(p) THEN "stuck" ELSE "alive"]
  /\ made' = [made EXCEPT ![p] = IF grown[p] THEN {"data", "size"} ELSE {}]
  /\ raced' = [raced EXCEPT ![p] = Held(p)]
  /\ UNCHANGED <<files, grown, sweepVars, faults>>

(* In any order, but that the segment grows after it was created. *)
Make(p, part) ==
  /\ owner[p] = "alive"
  /\ part \in Part \ made[p]
  /\ part = "size" => "data" \in made[p]
  /\ made' = [made EXCEPT ![p] = @ \union {part}]
  /\ files' = [files EXCEPT ![p] = IF part = "size" THEN @ ELSE @ \union {part}]
  /\ grown' = [grown EXCEPT ![p] = IF part = "size" THEN "data" \in files[p] ELSE @]
  /\ UNCHANGED <<owner, sweepVars, faults, raced>>

(* It is killed, as a `ros2 topic list` is that takes too long. *)
Kill(p) ==
  /\ owner[p] # "none"
  /\ owner' = [owner EXCEPT ![p] = "none"]
  /\ made' = [made EXCEPT ![p] = {}]
  /\ UNCHANGED <<files, grown, sweepVars, faults, raced>>

(* It ends and takes its files along. *)
Close(p) ==
  /\ Up(p)
  /\ owner' = [owner EXCEPT ![p] = "none"]
  /\ made' = [made EXCEPT ![p] = {}]
  /\ files' = [files EXCEPT ![p] = {}]
  /\ grown' = [grown EXCEPT ![p] = FALSE]
  /\ UNCHANGED <<sweepVars, faults, raced>>

Participant ==
  \E p \in Port :
    Open(p) \/ (\E part \in Part : Make(p, part)) \/ Kill(p) \/ Close(p)

-----------------------------------------------------------------------------
(* The sweep. *)

(* Mutant: the first pass goes by the lock files. *)
WithLock == {p \in Port : {"data", "el"} \subseteq files[p]}

(* What `fastrtps_port*`, without _el, and `fastrtps_port*_el` match. *)
Segments == {p \in Port : "data" \in files[p]}
Locks == {p \in Port : "el" \in files[p]}

Begin(s) ==
  /\ pass[s] = "idle"
  /\ pass' = [pass EXCEPT ![s] = "data"]
  /\ listed' = [listed EXCEPT ![s] = Segments]
  /\ UNCHANGED <<portVars, at, todo, faults, raced>>

(* Mutant: the second pass does not ask whether the segment exists. *)
OrphanByName(s, p) == pass[s] = "el" \/ ~grown[p]

(* `[ ! -s ]` also holds of a segment that has just gone, stat() fails. *)
Orphan(s, p) ==
  IF pass[s] = "el" THEN "data" \notin files[p]
  ELSE ~grown[p] /\ (s \in Watchdog => "data" \in files[p])

(* Mutant: the watchdog unlinks in the order of the shell script. *)
SegmentFirst(s) ==
  IF pass[s] = "el" THEN <<"el", "mutex">> ELSE <<"data", "el", "mutex">>

Order(s) ==
  CASE s \in Watchdog /\ pass[s] = "data" -> <<"el", "mutex", "data">>
    [] s \in Watchdog /\ pass[s] = "el" -> <<"mutex", "el">>
    [] s \notin Watchdog /\ pass[s] = "data" -> <<"data", "el", "mutex">>
    [] OTHER -> <<"el", "mutex">>

(* Mutant: the files are listed again after each. *)
LookAfresh(s, p) ==
  /\ at[s] = None /\ p \in listed[s]
  /\ IF Orphan(s, p)
     THEN /\ at' = [at EXCEPT ![s] = p]
          /\ todo' = [todo EXCEPT ![s] = Order(s)]
          /\ raced' = [raced EXCEPT ![p] = @ \/ (owner[p] = "alive" /\ ~Up(p)) \/ Held(p)]
     ELSE UNCHANGED <<at, todo, raced>>
  /\ UNCHANGED <<portVars, pass, listed, faults>>

Look(s, p) ==
  /\ at[s] = None /\ p \in listed[s]
  /\ listed' = [listed EXCEPT ![s] = @ \ {p}]
  /\ IF Orphan(s, p)
     THEN /\ at' = [at EXCEPT ![s] = p]
          /\ todo' = [todo EXCEPT ![s] = Order(s)]
          /\ raced' = [raced EXCEPT ![p] = @ \/ (owner[p] = "alive" /\ ~Up(p)) \/ Held(p)]
     ELSE UNCHANGED <<at, todo, raced>>
  /\ UNCHANGED <<portVars, pass, faults>>

Unlink(s) ==
  /\ at[s] # None
  /\ LET p == at[s]  f == Head(todo[s])
     IN /\ files' = [files EXCEPT ![p] = @ \ {f}]
        /\ grown' = [grown EXCEPT ![p] = @ /\ f # "data"]
  /\ todo' = [todo EXCEPT ![s] = Tail(@)]
  /\ at' = [at EXCEPT ![s] = IF Len(todo[s]) = 1 THEN None ELSE @]
  /\ UNCHANGED <<owner, made, pass, listed, faults, raced>>

EndPass(s) ==
  /\ pass[s] # "idle" /\ at[s] = None /\ listed[s] = {}
  /\ pass' = [pass EXCEPT ![s] = IF @ = "data" THEN "el" ELSE "idle"]
  /\ listed' = [listed EXCEPT ![s] = IF pass[s] = "data" THEN Locks ELSE {}]
  /\ UNCHANGED <<portVars, at, todo, faults, raced>>

Sweep(s) == Begin(s) \/ (\E p \in Port : Look(s, p)) \/ Unlink(s) \/ EndPass(s)

(* The sweeping process is killed; the next starts over. *)
Crash(s) ==
  /\ pass[s] # "idle"
  /\ faults > 0 /\ faults' = faults - 1
  /\ pass' = [pass EXCEPT ![s] = "idle"]
  /\ listed' = [listed EXCEPT ![s] = {}]
  /\ at' = [at EXCEPT ![s] = None]
  /\ todo' = [todo EXCEPT ![s] = <<>>]
  /\ UNCHANGED <<portVars, raced>>

Next == Participant \/ \E s \in Sweeper : Sweep(s) \/ Crash(s)

Spec == Init /\ [][Next]_vars

(* The watchdog keeps polling, and systemd restarts it when it dies. *)
Fairness == \A s \in Watchdog : WF_vars(Sweep(s))
FairSpec == Spec /\ Fairness

-----------------------------------------------------------------------------
(* A sweep only ever takes files from a running participant that it caught while
   that was still being made (watchdog.py:170-173): one that was up before the
   sweep looked at its port keeps them all, whatever ran on the port before. *)
HarmOnlyInRace ==
  \A p \in Port : Up(p) /\ ~raced[p] => files[p] = File /\ grown[p]

(* A watchdog killed in the middle of a sweep leaves nothing that the next will
   not find: it never leaves the semaphore alone, which no pass looks for, unless
   another sweep or a starting participant was at the same port. *)
ResumableSweep ==
  [][\A s \in Watchdog, p \in Port :
       /\ at[s] = p /\ Unlink(s)
       /\ files[p] # files'[p] /\ files'[p] = {"mutex"}
       => raced[p]]_vars

(* A segment of 0 bytes that nobody is growing goes away, though sweeps are killed
   and participants come and go: no port stays poisoned (watchdog.py:159-161). *)
PoisonCleared ==
  \A p \in Port : Poisoned(p) /\ owner[p] # "alive" ~> ~Poisoned(p)
=============================================================================
