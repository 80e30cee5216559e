--------------------------- MODULE ShmSweepProofs ---------------------------
(***************************************************************************)
(* The safety of the shared-memory sweeps, for any number of ports, sweeps  *)
(* and faults: its types, whom a sweep can harm, and that a watchdog killed *)
(* between two unlinks leaves nothing the next sweep overlooks.             *)
(***************************************************************************)
EXTENDS ShmSweep, SequenceTheorems, TLAPS

-----------------------------------------------------------------------------
(* Sequences of files. *)

(* What unlinking one file leaves of the list. *)
LEMMA Rest ==
  ASSUME NEW q \in Seq(File), q # <<>>
  PROVE  /\ Head(q) \in File /\ Tail(q) \in Seq(File)
         /\ Len(q) = 1 <=> Tail(q) = <<>>
<1>1. Head(q) \in File /\ Tail(q) \in Seq(File) /\ Len(Tail(q)) = Len(q) - 1
  BY HeadTailProperties
<1>2. Len(q) \in Nat
  OBVIOUS
<1>3. Tail(q) = <<>> <=> Len(Tail(q)) = 0
  BY <1>1, EmptySeq
<1> QED
  BY <1>1, <1>2, <1>3

(* The lists the watchdog works through, from either end. *)
LEMMA Lists ==
  /\ Head(<<"el", "mutex", "data">>) = "el"
  /\ Tail(<<"el", "mutex", "data">>) = <<"mutex", "data">>
  /\ Head(<<"mutex", "data">>) = "mutex" /\ Tail(<<"mutex", "data">>) = <<"data">>
  /\ Head(<<"data">>) = "data" /\ Tail(<<"data">>) = <<>>
  /\ Head(<<"mutex", "el">>) = "mutex" /\ Tail(<<"mutex", "el">>) = <<"el">>
  /\ Head(<<"el">>) = "el" /\ Tail(<<"el">>) = <<>>
OBVIOUS

LEMMA OrderType == \A s \in Sweeper : Order(s) \in Seq(File) /\ Order(s) # <<>>
BY DEF Order, File

-----------------------------------------------------------------------------
(* The invariant. *)

(* A sweep has ports, and holds one, only during a pass. *)
HeldInPass == \A s \in Sweeper : at[s] # None \/ listed[s] # {} => pass[s] # "idle"

(* What a participant outside of any race has made is still there. *)
MadeKept ==
  \A p \in Port : owner[p] = "alive" /\ ~raced[p] =>
    /\ \A f \in File : f \in made[p] => f \in files[p]
    /\ "size" \in made[p] => grown[p]

(* A port that is held together with a participant, or by two sweeps, is raced. *)
RaceSeen ==
  /\ \A s \in Sweeper, p \in Port : at[s] = p /\ owner[p] = "alive" => raced[p]
  /\ \A s, t \in Sweeper, p \in Port : s # t /\ at[s] = p /\ at[t] = p => raced[p]

(* How far the watchdog is with a port that it has to itself: the segment, or the
   lock, that shows the port to a pass goes last. *)
Progress(q, fs) ==
  \/ q = <<"el", "mutex", "data">> /\ "data" \in fs
  \/ q = <<"mutex", "data">> /\ "data" \in fs
  \/ q = <<"data">> /\ "mutex" \notin fs
  \/ q = <<"mutex", "el">>
  \/ q = <<"el">> /\ "mutex" \notin fs
InOrder ==
  \A s \in Watchdog, p \in Port : at[s] = p /\ ~raced[p] => Progress(todo[s], files[p])

IInv == TypeOK /\ HeldInPass /\ MadeKept /\ RaceSeen /\ InOrder

LEMMA InitInv == Init => IInv
<1> SUFFICES ASSUME Init
             PROVE  IInv
  OBVIOUS
<1>1. /\ owner \in [Port -> {"none", "alive", "stuck"}]
      /\ made \in [Port -> SUBSET Part] /\ raced \in [Port -> BOOLEAN]
  BY DEF Init
<1>2. /\ pass \in [Sweeper -> {"idle", "data", "el"}]
      /\ listed \in [Sweeper -> SUBSET Port]
      /\ at \in [Sweeper -> Port \union {None}] /\ todo \in [Sweeper -> Seq(File)]
  BY DEF Init
<1>3. \A s \in Sweeper : at[s] = None /\ todo[s] = <<>> /\ listed[s] = {}
  BY DEF Init
<1>4. TypeOK
  BY <1>1, <1>2, <1>3, SweepAssumption DEF Init, TypeOK
<1>5. \A p \in Port : owner[p] # "alive"
  BY DEF Init
<1>6. HeldInPass /\ MadeKept /\ RaceSeen /\ InOrder
  BY <1>3, <1>5, SweepAssumption
     DEF HeldInPass, MadeKept, RaceSeen, InOrder, Sweeper
<1> QED
  BY <1>4, <1>6 DEF IInv

LEMMA Ports == None \notin Port
BY SweepAssumption

-----------------------------------------------------------------------------
(* Participants. *)

LEMMA OpenInv ==
  ASSUME IInv, NEW p \in Port, Open(p)
  PROVE  IInv'
<1> USE DEF IInv, sweepVars
<1>1. TypeOK'
  BY DEF Open, TypeOK, Part, Held
<1>2. HeldInPass'
  BY DEF Open, HeldInPass
<1>3. MadeKept'
  <2> SUFFICES ASSUME NEW q \in Port, owner'[q] = "alive", ~raced'[q]
               PROVE  /\ \A f \in File : f \in made'[q] => f \in files'[q]
                      /\ "size" \in made'[q] => grown'[q]
    BY DEF MadeKept
  <2>1. CASE q = p
    <3>1. made'[q] = IF grown[q] THEN {"data", "size"} ELSE {}
      BY <2>1 DEF Open, TypeOK
    <3>2. files' = files /\ grown' = grown /\ (grown[q] => "data" \in files[q])
      BY DEF Open, TypeOK
    <3> QED
      BY <3>1, <3>2 DEF File
  <2>2. CASE q # p
    BY <2>2 DEF Open, TypeOK, MadeKept
  <2> QED
    BY <2>1, <2>2
<1>4. raced'[p] = Held(p) /\ \A q \in Port : q # p => raced'[q] = raced[q] /\ owner'[q] = owner[q]
  BY DEF Open, TypeOK
<1>5. RaceSeen'
  <2>1. \A s \in Sweeper, q \in Port : at'[s] = q /\ owner'[q] = "alive" => raced'[q]
    <3> SUFFICES ASSUME NEW s \in Sweeper, NEW q \in Port, at'[s] = q, owner'[q] = "alive"
                 PROVE  raced'[q]
      OBVIOUS
    <3>1. at[s] = q
      BY DEF Open
    <3>2. CASE q = p
      BY <1>4, <3>1, <3>2 DEF Held
    <3>3. CASE q # p
      BY <1>4, <3>1, <3>3 DEF RaceSeen
    <3> QED
      BY <3>2, <3>3
  <2>2. \A s, t \in Sweeper, q \in Port : s # t /\ at'[s] = q /\ at'[t] = q => raced'[q]
    BY <1>4 DEF Open, RaceSeen, Held
  <2> QED
    BY <2>1, <2>2 DEF RaceSeen
<1>6. InOrder'
  <2> SUFFICES ASSUME NEW s \in Watchdog, NEW q \in Port, at'[s] = q, ~raced'[q]
               PROVE  Progress(todo'[s], files'[q])
    BY DEF InOrder
  <2>1. s \in Sweeper /\ at[s] = q /\ todo' = todo /\ files' = files
    BY DEF Open, Sweeper
  <2>2. q # p
    BY <1>4, <2>1 DEF Held
  <2> QED
    BY <1>4, <2>1, <2>2 DEF InOrder
<1> QED
  BY <1>1, <1>2, <1>3, <1>5, <1>6

LEMMA MakeInv ==
  ASSUME IInv, NEW p \in Port, NEW part \in Part, Make(p, part)
  PROVE  IInv'
<1> USE DEF IInv, sweepVars
<1>1. TypeOK'
  <2>1. files' \in [Port -> SUBSET File]
    BY DEF Make, TypeOK, Part, File
  <2>2. made' \in [Port -> SUBSET Part]
    BY DEF Make, TypeOK
  <2>3. grown' \in [Port -> BOOLEAN]
    <3>1. CASE part = "size"
      BY <3>1 DEF Make, TypeOK
    <3>2. CASE part # "size"
      BY <3>2 DEF Make, TypeOK
    <3> QED
      BY <3>1, <3>2
  <2>4. \A q \in Port : grown'[q] => "data" \in files'[q]
    BY DEF Make, TypeOK
  <2> QED
    BY <2>1, <2>2, <2>3, <2>4 DEF Make, TypeOK
<1>2. HeldInPass' /\ RaceSeen'
  BY DEF Make, HeldInPass, RaceSeen
<1>3. MadeKept'
  <2> SUFFICES ASSUME NEW q \in Port, owner'[q] = "alive", ~raced'[q]
               PROVE  /\ \A f \in File : f \in made'[q] => f \in files'[q]
                      /\ "size" \in made'[q] => grown'[q]
    BY DEF MadeKept
  <2>1. CASE q = p
    BY <2>1 DEF Make, TypeOK, MadeKept, Part, File
  <2>2. CASE q # p
    BY <2>2 DEF Make, TypeOK, MadeKept
  <2> QED
    BY <2>1, <2>2
<1>4. InOrder'
  <2> SUFFICES ASSUME NEW s \in Watchdog, NEW q \in Port, at'[s] = q, ~raced'[q]
               PROVE  Progress(todo'[s], files'[q])
    BY DEF InOrder
  <2>1. q # p
    BY DEF Make, RaceSeen, Sweeper
  <2> QED
    BY <2>1 DEF Make, InOrder, TypeOK
<1> QED
  BY <1>1, <1>2, <1>3, <1>4

LEMMA KillInv ==
  ASSUME IInv, NEW p \in Port, Kill(p)
  PROVE  IInv'
<1> USE DEF IInv, sweepVars
<1>1. TypeOK'
  BY DEF Kill, TypeOK, Part
<1>2. HeldInPass' /\ MadeKept' /\ RaceSeen'
  BY DEF Kill, HeldInPass, MadeKept, RaceSeen, TypeOK
<1>3. InOrder'
  BY DEF Kill, InOrder
<1> QED
  BY <1>1, <1>2, <1>3

LEMMA CloseInv ==
  ASSUME IInv, NEW p \in Port, Close(p)
  PROVE  IInv'
<1> USE DEF IInv, sweepVars
<1>1. TypeOK'
  BY DEF Close, TypeOK, Part, File
<1>2. HeldInPass' /\ MadeKept' /\ RaceSeen'
  BY DEF Close, HeldInPass, MadeKept, RaceSeen, TypeOK
<1>3. InOrder'
  <2> SUFFICES ASSUME NEW s \in Watchdog, NEW q \in Port, at'[s] = q, ~raced'[q]
               PROVE  Progress(todo'[s], files'[q])
    BY DEF InOrder
  <2>1. q # p
    BY DEF Close, Up, RaceSeen, Sweeper
  <2> QED
    BY <2>1 DEF Close, InOrder, TypeOK
<1> QED
  BY <1>1, <1>2, <1>3

-----------------------------------------------------------------------------
(* Sweeps. *)

LEMMA BeginInv ==
  ASSUME IInv, NEW s \in Sweeper, Begin(s)
  PROVE  IInv'
<1> USE DEF IInv, portVars
<1>1. TypeOK'
  <2>1. at[s] = None
    BY DEF Begin, HeldInPass
  <2> QED
    BY <2>1, Ports DEF Begin, TypeOK, Segments
<1>2. HeldInPass' /\ MadeKept' /\ RaceSeen' /\ InOrder'
  BY DEF Begin, HeldInPass, MadeKept, RaceSeen, InOrder, TypeOK
<1> QED
  BY <1>1, <1>2

(* A participant that is up and not raced has no orphan. *)
LEMMA UpNoOrphan ==
  ASSUME IInv, NEW s \in Sweeper, NEW p \in Port, Up(p), ~raced[p]
  PROVE  ~Orphan(s, p)
BY DEF IInv, MadeKept, Up, Orphan, Part, File

LEMMA LookInv ==
  ASSUME IInv, NEW s \in Sweeper, NEW p \in Port, Look(s, p)
  PROVE  IInv'
<1> USE DEF IInv, portVars
<1>1. CASE Orphan(s, p)
  <2>1. /\ at' = [at EXCEPT ![s] = p] /\ todo' = [todo EXCEPT ![s] = Order(s)]
        /\ raced' = [raced EXCEPT ![p] = @ \/ (owner[p] = "alive" /\ ~Up(p)) \/ Held(p)]
        /\ listed' = [listed EXCEPT ![s] = @ \ {p}]
        /\ UNCHANGED <<files, grown, owner, made, pass, faults>>
    BY <1>1 DEF Look
  <2>2. at[s] = None /\ p \in listed[s]
    BY DEF Look
  <2>3. TypeOK'
    BY <2>1, <2>2, OrderType, Ports DEF TypeOK
  <2>4. pass[s] # "idle"
    BY <2>2 DEF HeldInPass
  <2>5. raced'[p] = (raced[p] \/ (owner[p] = "alive" /\ ~Up(p)) \/ Held(p))
        /\ \A q \in Port : q # p => raced'[q] = raced[q]
    <3>1. raced \in [Port -> BOOLEAN]
      BY DEF TypeOK
    <3> QED
      BY <2>1, <3>1, Zenon
  <2>6. MadeKept'
    BY <2>1, <2>5 DEF MadeKept
  <2>7. owner[p] = "alive" => raced'[p]
    BY <1>1, <2>5, UpNoOrphan
  <2>8. \A t \in Sweeper : t # s => at'[t] = at[t] /\ todo'[t] = todo[t]
    BY <2>1 DEF TypeOK
  <2>9. at'[s] = p /\ todo'[s] = Order(s)
    BY <2>1 DEF TypeOK
  <2>10. RaceSeen'
    <3>1. \A t \in Sweeper, q \in Port : at'[t] = q /\ owner'[q] = "alive" => raced'[q]
      BY <2>1, <2>5, <2>7, <2>8, <2>9 DEF RaceSeen
    <3>2. \A t, u \in Sweeper, q \in Port : t # u /\ at'[t] = q /\ at'[u] = q => raced'[q]
      <4> SUFFICES ASSUME NEW t \in Sweeper, NEW u \in Sweeper, NEW q \in Port,
                          t # u, at'[t] = q, at'[u] = q
                   PROVE  raced'[q]
        OBVIOUS
      <4>1. CASE t # s /\ u # s
        <5>1. at[t] = q /\ at[u] = q
          BY <2>8, <4>1
        <5>2. raced[q]
          BY <5>1 DEF RaceSeen
        <5> QED
          BY <2>5, <5>2
      <4>2. CASE t = s \/ u = s
        BY <2>5, <2>8, <2>9, <4>2 DEF Held
      <4> QED
        BY <4>1, <4>2
    <3> QED
      BY <3>1, <3>2 DEF RaceSeen
  <2>11. InOrder'
    <3> SUFFICES ASSUME NEW t \in Watchdog, NEW q \in Port, at'[t] = q, ~raced'[q]
                 PROVE  Progress(todo'[t], files'[q])
      BY DEF InOrder
    <3>1. CASE t = s
      <4>1. q = p
        BY <2>9, <3>1
      <4>2. CASE pass[s] = "el"
        BY <2>9, <3>1, <4>1, <4>2 DEF Order, Progress
      <4>3. CASE pass[s] # "el"
        <5>1. pass[s] = "data"
          BY <2>4, <4>3 DEF TypeOK
        <5>2. "data" \in files'[q]
          BY <1>1, <2>1, <3>1, <4>1, <4>3 DEF Orphan
        <5> QED
          BY <2>9, <3>1, <5>1, <5>2 DEF Order, Progress
      <4> QED
        BY <4>2, <4>3
    <3>2. CASE t # s
      BY <2>1, <2>5, <2>8, <3>2 DEF InOrder, Sweeper
    <3> QED
      BY <3>1, <3>2
  <2>12. HeldInPass'
    BY <2>1, <2>4, <2>8 DEF HeldInPass
  <2> QED
    BY <2>3, <2>6, <2>10, <2>11, <2>12
<1>2. CASE ~Orphan(s, p)
  <2>1. /\ listed' = [listed EXCEPT ![s] = @ \ {p}]
        /\ UNCHANGED <<files, grown, owner, made, pass, at, todo, faults, raced>>
    BY <1>2 DEF Look
  <2> QED
    BY <2>1 DEF TypeOK, HeldInPass, MadeKept, RaceSeen, InOrder
<1> QED
  BY <1>1, <1>2

(* Unlinking takes one file of one port. *)
LEMMA UnlinkFacts ==
  ASSUME IInv, NEW s \in Sweeper, Unlink(s)
  PROVE  /\ at[s] \in Port /\ todo[s] \in Seq(File) /\ todo[s] # <<>>
         /\ files'[at[s]] = files[at[s]] \ {Head(todo[s])}
         /\ \A q \in Port : q # at[s] => files'[q] = files[q] /\ grown'[q] = grown[q]
         /\ todo'[s] = Tail(todo[s])
         /\ at'[s] = IF Tail(todo[s]) = <<>> THEN None ELSE at[s]
         /\ \A t \in Sweeper : t # s => at'[t] = at[t] /\ todo'[t] = todo[t]
         /\ UNCHANGED <<owner, made, pass, listed, faults, raced>>
<1>1. at[s] \in Port /\ todo[s] \in Seq(File) /\ todo[s] # <<>>
  BY DEF Unlink, IInv, TypeOK
<1>2. Len(todo[s]) = 1 <=> Tail(todo[s]) = <<>>
  BY <1>1, Rest
<1> QED
  BY <1>1, <1>2 DEF Unlink, IInv, TypeOK

LEMMA UnlinkInv ==
  ASSUME IInv, NEW s \in Sweeper, Unlink(s)
  PROVE  IInv'
<1> USE DEF IInv
<1> DEFINE p == at[s]
<1>1. /\ p \in Port /\ todo[s] \in Seq(File) /\ todo[s] # <<>>
      /\ files'[p] = files[p] \ {Head(todo[s])}
      /\ \A q \in Port : q # p => files'[q] = files[q] /\ grown'[q] = grown[q]
      /\ todo'[s] = Tail(todo[s])
      /\ at'[s] = IF Tail(todo[s]) = <<>> THEN None ELSE p
      /\ \A t \in Sweeper : t # s => at'[t] = at[t] /\ todo'[t] = todo[t]
      /\ UNCHANGED <<owner, made, pass, listed, faults, raced>>
  BY UnlinkFacts
<1> HIDE DEF p
<1>2. TypeOK'
  <2>1. /\ files' \in [Port -> SUBSET File] /\ grown' \in [Port -> BOOLEAN]
        /\ \A q \in Port : grown'[q] => "data" \in files'[q]
    BY DEF Unlink, TypeOK
  <2>2. todo' \in [Sweeper -> Seq(File)]
    BY <1>1, Rest DEF Unlink, TypeOK
  <2>3. at' \in [Sweeper -> Port \union {None}]
    BY DEF Unlink, TypeOK
  <2>4. \A t \in Sweeper : at'[t] \notin listed'[t] /\ (at'[t] = None <=> todo'[t] = <<>>)
    <3> SUFFICES ASSUME NEW t \in Sweeper
                 PROVE  at'[t] \notin listed'[t] /\ (at'[t] = None <=> todo'[t] = <<>>)
      OBVIOUS
    <3>1. CASE t = s
      <4>1. p # None /\ p \notin listed[s]
        BY DEF Unlink, TypeOK, p
      <4>2. None \notin listed[s]
        BY Ports DEF TypeOK
      <4> QED
        BY <1>1, <3>1, <4>1, <4>2
    <3>2. CASE t # s
      BY <1>1, <3>2 DEF TypeOK
    <3> QED
      BY <3>1, <3>2
  <2> QED
    BY <1>1, <2>1, <2>2, <2>3, <2>4 DEF TypeOK
<1>3. HeldInPass'
  BY <1>1 DEF HeldInPass, p
<1>4. at[s] = p /\ (owner[p] = "alive" => raced[p])
      /\ \A t \in Sweeper : t # s /\ at[t] = p => raced[p]
  BY <1>1 DEF p, RaceSeen
<1>5. MadeKept'
  BY <1>1, <1>4 DEF MadeKept
<1>6. \A t \in Sweeper : at'[t] \in Port => at'[t] = at[t]
  BY <1>1, <1>4, Ports
<1>7. RaceSeen'
  BY <1>1, <1>6 DEF RaceSeen
<1>8. InOrder'
  <2> SUFFICES ASSUME NEW t \in Watchdog, NEW q \in Port, at'[t] = q, ~raced'[q]
               PROVE  Progress(todo'[t], files'[q])
    BY DEF InOrder
  <2>1. t \in Sweeper /\ at[t] = q /\ ~raced[q] /\ Progress(todo[t], files[q])
    BY <1>1, <1>6 DEF Sweeper, InOrder
  <2>2. CASE t = s
    <3>1. q = p /\ todo'[t] # <<>>
      BY <1>1, <1>4, <2>1, <2>2, Ports
    <3> QED
      BY <1>1, <2>1, <2>2, <3>1, Lists DEF Progress
  <2>3. CASE t # s
    <3>1. q # p
      BY <1>4, <2>1, <2>3
    <3> QED
      BY <1>1, <2>1, <2>3, <3>1
  <2> QED
    BY <2>2, <2>3
<1> QED
  BY <1>2, <1>3, <1>5, <1>7, <1>8

LEMMA EndPassInv ==
  ASSUME IInv, NEW s \in Sweeper, EndPass(s)
  PROVE  IInv'
<1> USE DEF IInv, portVars
<1>1. TypeOK'
  BY Ports DEF EndPass, TypeOK, Locks
<1>2. HeldInPass' /\ MadeKept' /\ RaceSeen' /\ InOrder'
  BY DEF EndPass, HeldInPass, MadeKept, RaceSeen, InOrder, TypeOK
<1> QED
  BY <1>1, <1>2

LEMMA CrashInv ==
  ASSUME IInv, NEW s \in Sweeper, Crash(s)
  PROVE  IInv'
<1> USE DEF IInv, portVars
<1>1. TypeOK'
  BY SweepAssumption DEF Crash, TypeOK
<1>2. HeldInPass' /\ MadeKept'
  BY DEF Crash, HeldInPass, MadeKept, TypeOK
<1>3. \A t \in Sweeper : at'[t] \in Port => t # s /\ at'[t] = at[t] /\ todo'[t] = todo[t]
  BY Ports DEF Crash, TypeOK
<1>4. RaceSeen'
  BY <1>3 DEF Crash, RaceSeen
<1>5. InOrder'
  BY <1>3 DEF Crash, InOrder, Sweeper
<1> QED
  BY <1>1, <1>2, <1>4, <1>5

LEMMA NextInv == IInv /\ [Next]_vars => IInv'
<1> SUFFICES ASSUME IInv, [Next]_vars
             PROVE  IInv'
  OBVIOUS
<1>1. ASSUME NEW p \in Port,
             Open(p) \/ (\E part \in Part : Make(p, part)) \/ Kill(p) \/ Close(p)
      PROVE  IInv'
  BY <1>1, OpenInv, MakeInv, KillInv, CloseInv
<1>2. ASSUME NEW s \in Sweeper, Sweep(s) \/ Crash(s)
      PROVE  IInv'
  BY <1>2, BeginInv, LookInv, UnlinkInv, EndPassInv, CrashInv DEF Sweep
<1>3. CASE UNCHANGED vars
  BY <1>3 DEF vars, portVars, sweepVars, IInv, TypeOK, HeldInPass, MadeKept, RaceSeen, InOrder
<1> QED
  BY <1>1, <1>2, <1>3 DEF Next, Participant

-----------------------------------------------------------------------------
(* The invariant holds in every reachable state. *)
THEOREM SweepInvariant == Spec => []IInv
BY InitInv, NextInv, PTL DEF Spec

(* Types: above all, no sweep holds a port it still has to look at. *)
THEOREM SweepTypeCorrect == Spec => []TypeOK
<1>1. IInv => TypeOK
  BY DEF IInv
<1> QED
  BY <1>1, SweepInvariant, PTL

(* A participant that was up before any sweep looked at its port keeps its files,
   for any ports, sweeps and faults. *)
THEOREM HarmNeedsRace == Spec => []HarmOnlyInRace
<1>1. IInv => HarmOnlyInRace
  BY DEF IInv, TypeOK, MadeKept, HarmOnlyInRace, Up, Part, File
<1> QED
  BY <1>1, SweepInvariant, PTL

(* A watchdog that is killed after any unlink leaves no semaphore alone on a port
   that it had to itself. *)
THEOREM SweepsResumable == Spec => ResumableSweep
<1>1. ASSUME IInv, NEW s \in Watchdog, NEW p \in Port, at[s] = p, Unlink(s),
             files'[p] = {"mutex"}, ~raced[p]
      PROVE  FALSE
  <2>1. files'[p] = files[p] \ {Head(todo[s])}
    BY <1>1, UnlinkFacts DEF Sweeper
  <2>2. Progress(todo[s], files[p])
    BY <1>1 DEF IInv, InOrder
  <2> QED
    BY <1>1, <2>1, <2>2, Lists DEF Progress
<1>2. IInv /\ [Next]_vars =>
        [\A s \in Watchdog, p \in Port :
           /\ at[s] = p /\ Unlink(s)
           /\ files[p] # files'[p] /\ files'[p] = {"mutex"}
           => raced[p]]_vars
  BY <1>1
<1> QED
  BY <1>2, SweepInvariant, PTL DEF Spec, ResumableSweep
=============================================================================
