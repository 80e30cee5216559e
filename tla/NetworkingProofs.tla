-------------------------- MODULE NetworkingProofs --------------------------
(***************************************************************************)
(* The networking scripts, for any client connections, queue lengths and    *)
(* faults: what a set-up or a reset that ends has achieved, whatever was    *)
(* aborted, rebooted or queued before.                                      *)
(***************************************************************************)
EXTENDS Networking, SequenceTheorems, TLAPS

-----------------------------------------------------------------------------
(* The steps of the scripts. *)

(* What is left behind each step. *)
After(s) ==
  CASE s = "dispatcher" ->
         <<"enable", "list", "delete", "profile", "activate", "netplan", "apply">>
    [] s = "enable" -> <<"list", "delete", "profile", "activate", "netplan", "apply">>
    [] s = "list" -> <<"delete", "profile", "activate", "netplan", "apply">>
    [] s = "delete" -> <<"profile", "activate", "netplan", "apply">>
    [] s = "profile" -> <<"activate", "netplan", "apply">>
    [] s = "activate" -> <<"netplan", "apply">>
    [] s = "netplan" -> <<"apply">>
    [] s = "dropAp" -> <<"dropEth", "dropFile", "dropDispatcher", "flush", "applyReset">>
    [] s = "dropEth" -> <<"dropFile", "dropDispatcher", "flush", "applyReset">>
    [] s = "dropFile" -> <<"dropDispatcher", "flush", "applyReset">>
    [] s = "dropDispatcher" -> <<"flush", "applyReset">>
    [] s = "flush" -> <<"applyReset">>
    [] OTHER -> <<>>

Names == {SetupSteps[i] : i \in DOMAIN SetupSteps} \union
         {ResetSteps[i] : i \in DOMAIN ResetSteps}

(* The running script is at step s. *)
At(s) == todo # <<>> /\ Head(todo) = s

(* The list is always the end of one of the two scripts. *)
OnTrack == todo # <<>> => Tail(todo) = After(Head(todo))

LEMMA StepNames ==
  /\ SetupSteps \in Seq(Names) /\ ResetSteps \in Seq(Names)
  /\ SetupSteps # <<>> /\ Head(SetupSteps) = "dispatcher"
  /\ ResetSteps # <<>> /\ Head(ResetSteps) = "dropAp"
  /\ Tail(SetupSteps) = After("dispatcher") /\ Tail(ResetSteps) = After("dropAp")
<1>1. SetupSteps \in Seq(Names)
  BY DEF SetupSteps, Names
<1>2. ResetSteps \in Seq(Names)
  BY DEF ResetSteps, Names
<1> QED
  BY <1>1, <1>2 DEF SetupSteps, ResetSteps, After

LEMMA Followers ==
  /\ After("dispatcher") # <<>> /\ Head(After("dispatcher")) = "enable"
  /\ Tail(After("dispatcher")) = After("enable")
  /\ After("enable") # <<>> /\ Head(After("enable")) = "list"
  /\ Tail(After("enable")) = After("list")
  /\ After("list") # <<>> /\ Head(After("list")) = "delete"
  /\ Tail(After("list")) = After("delete")
  /\ After("delete") # <<>> /\ Head(After("delete")) = "profile"
  /\ Tail(After("delete")) = After("profile")
  /\ After("profile") # <<>> /\ Head(After("profile")) = "activate"
  /\ Tail(After("profile")) = After("activate")
  /\ After("activate") # <<>> /\ Head(After("activate")) = "netplan"
  /\ Tail(After("activate")) = After("netplan")
  /\ After("netplan") # <<>> /\ Head(After("netplan")) = "apply"
  /\ Tail(After("netplan")) = After("apply")
  /\ After("apply") = <<>>
  /\ After("dropAp") # <<>> /\ Head(After("dropAp")) = "dropEth"
  /\ Tail(After("dropAp")) = After("dropEth")
  /\ After("dropEth") # <<>> /\ Head(After("dropEth")) = "dropFile"
  /\ Tail(After("dropEth")) = After("dropFile")
  /\ After("dropFile") # <<>> /\ Head(After("dropFile")) = "dropDispatcher"
  /\ Tail(After("dropFile")) = After("dropDispatcher")
  /\ After("dropDispatcher") # <<>> /\ Head(After("dropDispatcher")) = "flush"
  /\ Tail(After("dropDispatcher")) = After("flush")
  /\ After("flush") # <<>> /\ Head(After("flush")) = "applyReset"
  /\ Tail(After("flush")) = After("applyReset")
  /\ After("applyReset") = <<>>
BY DEF After

-----------------------------------------------------------------------------
(* The invariant. *)

Reached(steps) == todo # <<>> /\ Head(todo) \in steps

(* What a set-up under way has achieved already. *)
SetupSoFar ==
  /\ Reached({"list", "delete", "profile", "activate", "netplan", "apply"}) =>
       dispatcher = "installed"
  /\ Reached({"delete"}) => prior = wifi \/ "list" \in failed
  /\ Reached({"profile", "activate", "netplan", "apply"}) => wifi = {} \/ "list" \in failed
  /\ Reached({"activate", "netplan", "apply"}) => ap \in {"this", "both"}
  /\ Reached({"apply"}) => ethFile = "this"

(* What a reset under way has achieved already; without the dispatcher's file, what
   is still queued cannot undo the flush. *)
ResetSoFar ==
  /\ Reached({"dropEth", "dropFile", "dropDispatcher", "flush", "applyReset"}) =>
       "dropAp" \in failed \/ ap = "none"
  /\ Reached({"dropFile", "dropDispatcher", "flush", "applyReset"}) =>
       "dropEth" \in failed \/ ~ethCon
  /\ Reached({"dropDispatcher", "flush", "applyReset"}) \/ done = "reset" =>
       ethFile = "none"
  /\ Reached({"flush", "applyReset"}) \/ done = "reset" => dispatcher = "none"
  /\ Reached({"applyReset"}) \/ done = "reset" => late \/ (rules = 0 /\ script # "up")

(* The last thing the dispatcher does, or has done, is to put the rules in place. *)
UpLast ==
  IF events # <<>> THEN events[Len(events)] = "up"
  ELSE IF script # "none" THEN script = "up" ELSE rules = 1

Isolating == Reached({"netplan", "apply"}) \/ done = "setup" => wlan # "ap" \/ UpLast

(* A second uav-neo-ap has come of an unseen failure, and of nothing else. *)
Twice == ap = "both" => "profile" \in failed

DoneIdle == done # "none" => todo = <<>>

Parts == OnTrack /\ DoneIdle /\ Twice /\ SetupSoFar /\ ResetSoFar /\ Isolating
IInv == TypeOK /\ Parts /\ SetupComplete /\ ResetComplete

LEMMA InitInv == Init => IInv
<1> SUFFICES ASSUME Init
             PROVE  IInv
  OBVIOUS
<1>1. TypeOK
  <2>1. <<>> \in Seq({"up", "down"}) /\ <<>> \in Seq(Names) /\ Len(<<>>) = 0
    OBVIOUS
  <2>2. events = <<>> /\ todo = <<>> /\ Len(events) =< MaxEvents
    BY <2>1, NetworkAssumption DEF Init
  <2>3. ethCon \in BOOLEAN /\ ap \in {"none", "other", "this", "both"}
        /\ ethFile \in {"none", "other", "this"}
        /\ dispatcher \in {"none", "broken", "installed"}
    BY DEF Init
  <2>4. events \in Seq({"up", "down"}) /\ todo \in Seq(Names)
    BY <2>1, <2>2
  <2>5. /\ wifi \subseteq Client /\ wlan = "idle" /\ script = "none" /\ rules = 0
        /\ prior = {} /\ faults = MaxFaults /\ done = "none"
        /\ failed = {} /\ late = FALSE
    BY DEF Init
  <2>6. 0 \in 0 .. 1 /\ MaxFaults \in 0 .. MaxFaults
    BY NetworkAssumption
  <2> QED
    BY <2>2, <2>3, <2>4, <2>5, <2>6 DEF TypeOK, Names
<1>2. Parts /\ SetupComplete /\ ResetComplete
  BY DEF Init, Parts, OnTrack, DoneIdle, Twice, SetupSoFar, ResetSoFar, Isolating, Reached,
         SetupComplete, ResetComplete
<1> QED
  BY <1>1, <1>2 DEF IInv

-----------------------------------------------------------------------------
(* Events and lists. *)

(* wlan0 goes over with its events in order, the last of them up for the access
   point. *)
LEMMA SwitchFacts ==
  ASSUME TypeOK, NEW to, Switch(to)
  PROVE  /\ wlan' = to
         /\ events' \in Seq({"up", "down"}) /\ Len(events') =< MaxEvents
         /\ to = "ap" => events' # <<>> /\ events'[Len(events')] = "up"
<1> DEFINE before == IF wlan = "ap" THEN <<"down">> ELSE <<>>
           after == IF to = "ap" THEN <<"up">> ELSE <<>>
           new == before \o after
<1>1. /\ wlan' = to /\ events' = events \o new /\ Len(events) + Len(new) =< MaxEvents
      /\ events \in Seq({"up", "down"})
  BY DEF Switch, Emit, TypeOK
<1>2. new \in Seq({"up", "down"}) /\ (to = "ap" => Len(new) > 0 /\ new[Len(new)] = "up")
  <2>1. before \in Seq({"up", "down"}) /\ after \in Seq({"up", "down"})
    <3>1. <<"up">> \in Seq({"up", "down"}) /\ <<"down">> \in Seq({"up", "down"})
          /\ <<>> \in Seq({"up", "down"})
      OBVIOUS
    <3> QED
      BY <3>1
  <2>2. to = "ap" => Len(after) = 1 /\ after[1] = "up"
    OBVIOUS
  <2> HIDE DEF before, after
  <2> QED
    BY <2>1, <2>2
<1> HIDE DEF new
<1>3. events' \in Seq({"up", "down"}) /\ Len(events') = Len(events) + Len(new)
  BY <1>1, <1>2
<1>4. Len(new) > 0 => events'[Len(events')] = new[Len(new)]
  BY <1>1, <1>2, <1>3
<1> QED
  BY <1>1, <1>2, <1>3, <1>4

(* A step that is done leaves the rest of its script. *)
LEMMA DoneFacts ==
  ASSUME TypeOK, OnTrack, NEW s, Step(s), Done
  PROVE  /\ todo # <<>> /\ Head(todo) = s
         /\ todo' = After(s) /\ todo' \in Seq(Names)
BY HeadTailProperties DEF TypeOK, OnTrack, Step, Done, Names

-----------------------------------------------------------------------------
(* Types. *)

LEMMA ScriptType ==
  ASSUME TypeOK, OnTrack, Script
  PROVE  TypeOK'
<1> USE DEF config, linkVars, ruleVars, historyVars
<1>f. ASSUME Fault
      PROVE  faults' \in 0 .. MaxFaults
  BY <1>f, NetworkAssumption DEF Fault, TypeOK
<1>1. CASE Start
  <2>1. todo' \in Seq(Names)
    BY <1>1, StepNames DEF Start, StartScript
  <2> QED
    BY <1>1, <2>1 DEF Start, StartScript, TypeOK, Names
<1>2. CASE WriteDispatcher
  BY <1>2, DoneFacts DEF WriteDispatcher, TypeOK, Names
<1>3. CASE EnableDispatcher
  BY <1>3, DoneFacts DEF EnableDispatcher, TypeOK, Names
<1>4. CASE ListPrior
  <2>1. todo' \in Seq(Names)
    BY <1>4, DoneFacts DEF ListPrior
  <2>2. faults' \in 0 .. MaxFaults
    BY <1>4, <1>f DEF ListPrior, Fails, TypeOK
  <2>3. prior' \subseteq Client /\ failed' \subseteq {"list", "profile", "dropAp", "dropEth"}
    BY <1>4 DEF ListPrior, Fails, TypeOK
  <2> QED
    BY <1>4, <2>1, <2>2, <2>3 DEF ListPrior, TypeOK, Names
<1>5. CASE DeletePrior
  <2>1. todo' \in Seq(Names)
    BY <1>5, DoneFacts DEF DeletePrior, TypeOK, Names
  <2> QED
    BY <1>5, <2>1 DEF DeletePrior, TypeOK, Names
<1>6. CASE ConfigureProfile
  <2>1. todo' \in Seq(Names)
    BY <1>6, DoneFacts DEF ConfigureProfile
  <2>2. faults' \in 0 .. MaxFaults
    BY <1>6, <1>f DEF ConfigureProfile, Fails, TypeOK
  <2> QED
    BY <1>6, <2>1, <2>2 DEF ConfigureProfile, Fails, TypeOK, Names
<1>7. CASE Activate
  <2>1. todo' \in Seq(Names)
    BY <1>7, DoneFacts DEF Activate
  <2>2. wlan' \in {"ap", "idle"} /\ events' \in Seq({"up", "down"}) /\ Len(events') =< MaxEvents
    BY <1>7, SwitchFacts DEF Activate
  <2>3. faults' \in 0 .. MaxFaults
    BY <1>7, <1>f DEF Activate, TypeOK
  <2> QED
    BY <1>7, <2>1, <2>2, <2>3 DEF Activate, TypeOK, Names
<1>8. CASE WriteNetplan
  BY <1>8, DoneFacts DEF WriteNetplan, TypeOK, Names
<1>9. CASE Apply
  <2>1. todo' \in Seq(Names)
    BY <1>9, DoneFacts DEF Apply
  <2>2. wlan' = wlan /\ events' \in Seq({"up", "down"}) /\ Len(events') =< MaxEvents
    BY <1>9, SwitchFacts DEF Apply, TypeOK
  <2> QED
    BY <1>9, <2>1, <2>2 DEF Apply, TypeOK, Names
<1>10. CASE DropAp
  <2>1. todo' \in Seq(Names)
    BY <1>10, DoneFacts DEF DropAp
  <2>2. wlan' \in Client \union {"ap", "idle"} /\ events' \in Seq({"up", "down"})
        /\ Len(events') =< MaxEvents
    BY <1>10, SwitchFacts DEF DropAp, TypeOK
  <2>3. faults' \in 0 .. MaxFaults
    BY <1>10, <1>f DEF DropAp, Fails, TypeOK
  <2> QED
    BY <1>10, <2>1, <2>2, <2>3 DEF DropAp, Fails, TypeOK, Names
<1>11. CASE DropEth
  <2>1. todo' \in Seq(Names)
    BY <1>11, DoneFacts DEF DropEth
  <2>2. faults' \in 0 .. MaxFaults
    BY <1>11, <1>f DEF DropEth, Fails, TypeOK
  <2>3. ethCon' \in BOOLEAN
    BY <1>11 DEF DropEth, TypeOK
  <2>4. failed' \subseteq {"list", "profile", "dropAp", "dropEth"}
    BY <1>11 DEF DropEth, Fails, TypeOK
  <2> QED
    BY <1>11, <2>1, <2>2, <2>3, <2>4 DEF DropEth, TypeOK, Names
<1>12. CASE DropFile
  BY <1>12, DoneFacts DEF DropFile, TypeOK, Names
<1>13. CASE DropDispatcher
  BY <1>13, DoneFacts DEF DropDispatcher, TypeOK, Names
<1>14. CASE Flush
  BY <1>14, DoneFacts DEF Flush, TypeOK, Names
<1>15. CASE ApplyReset
  <2>1. todo' \in Seq(Names)
    BY <1>15, DoneFacts DEF ApplyReset
  <2>2. wlan' = wlan /\ events' \in Seq({"up", "down"}) /\ Len(events') =< MaxEvents
    BY <1>15, SwitchFacts DEF ApplyReset, TypeOK
  <2> QED
    BY <1>15, <2>1, <2>2 DEF ApplyReset, TypeOK, Names
<1>16. CASE Abort
  BY <1>16 DEF Abort, TypeOK
<1> QED
  BY <1>1, <1>2, <1>3, <1>4, <1>5, <1>6, <1>7, <1>8, <1>9, <1>10, <1>11, <1>12, <1>13,
     <1>14, <1>15, <1>16 DEF Script

LEMMA WorldType ==
  ASSUME TypeOK, World
  PROVE  TypeOK'
<1> USE DEF config, linkVars, ruleVars, historyVars
<1>f. ASSUME Fault
      PROVE  faults' \in 0 .. MaxFaults
  BY <1>f, NetworkAssumption DEF Fault, TypeOK
<1>1. CASE Autoconnect
  BY <1>1, SwitchFacts DEF Autoconnect, TypeOK
<1>2. CASE LinkLost
  BY <1>2, <1>f, SwitchFacts DEF LinkLost, TypeOK
<1>3. CASE DispatcherStart
  <2>1. /\ Head(events) \in {"up", "down"} /\ Tail(events) \in Seq({"up", "down"})
        /\ Len(Tail(events)) =< MaxEvents
    <3>1. events \in Seq({"up", "down"}) /\ events # <<>> /\ Len(events) =< MaxEvents
      BY <1>3 DEF DispatcherStart, TypeOK
    <3>2. Len(Tail(events)) = Len(events) - 1 /\ Len(events) \in Nat
      BY <3>1, HeadTailProperties
    <3> QED
      BY <3>1, <3>2, HeadTailProperties, NetworkAssumption
  <2> QED
    BY <1>3, <2>1 DEF DispatcherStart, TypeOK
<1>4. CASE DispatcherEnd
  BY <1>4 DEF DispatcherEnd, RulesAfter, TypeOK
<1>5. CASE Reboot
  <2>1. <<>> \in Seq({"up", "down"}) /\ Len(<<>>) =< MaxEvents
    BY NetworkAssumption
  <2> QED
    BY <1>5, <1>f, <2>1 DEF Reboot, TypeOK
<1>6. ASSUME NEW c \in Client, Join(c)
      PROVE  TypeOK'
  BY <1>6, <1>f, SwitchFacts DEF Join, TypeOK
<1> QED
  BY <1>1, <1>2, <1>3, <1>4, <1>5, <1>6 DEF World

-----------------------------------------------------------------------------
(* What the steps achieve. *)

(* A step of a script that is done, with the step that follows. *)
LEMMA StepDone ==
  ASSUME TypeOK, Parts, NEW s, NEW next, Step(s), Done,
         After(s) # <<>>, Head(After(s)) = next, Tail(After(s)) = After(next)
  PROVE  /\ todo # <<>> /\ Head(todo) = s /\ done = "none"
         /\ todo' # <<>> /\ Head(todo') = next
         /\ OnTrack'
<1>1. todo # <<>> /\ Head(todo) = s /\ todo' = After(s)
  BY DoneFacts DEF Parts
<1>2. done = "none"
  BY <1>1 DEF Parts, DoneIdle
<1> QED
  BY <1>1, <1>2 DEF OnTrack

LEMMA SetupParts ==
  ASSUME IInv,
         \/ WriteDispatcher \/ EnableDispatcher \/ ListPrior \/ DeletePrior
         \/ ConfigureProfile \/ Activate \/ WriteNetplan
  PROVE  Parts' /\ SetupComplete' /\ ResetComplete'
<1> USE DEF IInv, config, linkVars, ruleVars, historyVars
<1> USE DEF DoneIdle, Twice, SetupSoFar, ResetSoFar, Isolating, Reached, SetupComplete, ResetComplete
<1>1. CASE WriteDispatcher
  <2>1. /\ todo # <<>> /\ Head(todo) = "dispatcher" /\ done = "none"
        /\ todo' # <<>> /\ Head(todo') = "enable" /\ OnTrack'
    BY <1>1, StepDone, Followers DEF WriteDispatcher
  <2> QED
    BY <1>1, <2>1 DEF WriteDispatcher, Parts
<1>2. CASE EnableDispatcher
  <2>1. /\ todo # <<>> /\ Head(todo) = "enable" /\ done = "none"
        /\ todo' # <<>> /\ Head(todo') = "list" /\ OnTrack'
    BY <1>2, StepDone, Followers DEF EnableDispatcher
  <2> QED
    BY <1>2, <2>1 DEF EnableDispatcher, Parts
<1>3. CASE ListPrior
  <2>1. /\ todo # <<>> /\ Head(todo) = "list" /\ done = "none"
        /\ todo' # <<>> /\ Head(todo') = "delete" /\ OnTrack'
    BY <1>3, StepDone, Followers DEF ListPrior
  <2> QED
    BY <1>3, <2>1 DEF ListPrior, Fails, Parts
<1>4. CASE DeletePrior
  <2>1. CASE prior = {} /\ Done /\ UNCHANGED <<wifi, wlan, prior>>
    <3>1. /\ todo # <<>> /\ Head(todo) = "delete" /\ done = "none"
          /\ todo' # <<>> /\ Head(todo') = "profile" /\ OnTrack'
      BY <1>4, <2>1, StepDone, Followers DEF DeletePrior
    <3> QED
      BY <1>4, <2>1, <3>1 DEF DeletePrior, Parts
  <2>2. ASSUME NEW c \in prior, wifi' = wifi \ {c}, prior' = prior \ {c}, UNCHANGED todo
        PROVE  Parts' /\ SetupComplete' /\ ResetComplete'
    <3>1. todo # <<>> /\ Head(todo) = "delete" /\ done = "none" /\ done' = "none"
      BY <1>4 DEF DeletePrior, Step, Parts
    <3>2. prior' = wifi' \/ "list" \in failed
      BY <2>2, <3>1 DEF Parts
    <3> QED
      BY <1>4, <2>2, <3>1, <3>2 DEF DeletePrior, Parts, OnTrack
  <2> QED
    BY <1>4, <2>1, <2>2 DEF DeletePrior
<1>5. CASE ConfigureProfile
  <2>1. /\ todo # <<>> /\ Head(todo) = "profile" /\ done = "none"
        /\ todo' # <<>> /\ Head(todo') = "activate" /\ OnTrack'
    BY <1>5, StepDone, Followers DEF ConfigureProfile
  <2> QED
    BY <1>5, <2>1 DEF ConfigureProfile, Fails, Parts
<1>6. CASE Activate
  <2>1. /\ todo # <<>> /\ Head(todo) = "activate" /\ done = "none"
        /\ todo' # <<>> /\ Head(todo') = "netplan" /\ OnTrack'
    BY <1>6, StepDone, Followers DEF Activate
  <2>2. wlan' # "ap" \/ (events' # <<>> /\ events'[Len(events')] = "up")
    BY <1>6, SwitchFacts DEF Activate
  <2>3. Isolating'
    BY <2>2 DEF UpLast
  <2> QED
    BY <1>6, <2>1, <2>3 DEF Activate, Parts
<1>7. CASE WriteNetplan
  <2>1. /\ todo # <<>> /\ Head(todo) = "netplan" /\ done = "none"
        /\ todo' # <<>> /\ Head(todo') = "apply" /\ OnTrack'
    BY <1>7, StepDone, Followers DEF WriteNetplan
  <2>2. UpLast' <=> UpLast
    BY <1>7 DEF WriteNetplan, UpLast
  <2> QED
    BY <1>7, <2>1, <2>2 DEF WriteNetplan, Parts
<1> QED
  BY <1>1, <1>2, <1>3, <1>4, <1>5, <1>6, <1>7

LEMMA ResetParts ==
  ASSUME IInv, DropAp \/ DropEth \/ DropFile \/ DropDispatcher \/ Flush
  PROVE  Parts' /\ SetupComplete' /\ ResetComplete'
<1> USE DEF IInv, config, linkVars, ruleVars, historyVars
<1> USE DEF DoneIdle, Twice, SetupSoFar, ResetSoFar, Isolating, Reached, SetupComplete, ResetComplete
<1>1. CASE DropAp
  <2>1. /\ todo # <<>> /\ Head(todo) = "dropAp" /\ done = "none"
        /\ todo' # <<>> /\ Head(todo') = "dropEth" /\ OnTrack'
    BY <1>1, StepDone, Followers DEF DropAp
  <2>2. "dropAp" \in failed' \/ ap' = "none"
    BY <1>1 DEF DropAp, Fails
  <2>3. Twice'
    BY <1>1 DEF DropAp, Fails, Parts
  <2> QED
    BY <1>1, <2>1, <2>2, <2>3 DEF DropAp, Parts
<1>2. CASE DropEth
  <2>1. /\ todo # <<>> /\ Head(todo) = "dropEth" /\ done = "none"
        /\ todo' # <<>> /\ Head(todo') = "dropFile" /\ OnTrack'
    BY <1>2, StepDone, Followers DEF DropEth
  <2>2. /\ "dropEth" \in failed' \/ ~ethCon'
        /\ "dropAp" \in failed' \/ ap' = "none"
        /\ Twice'
    BY <1>2, <2>1 DEF DropEth, Fails, Parts
  <2> QED
    BY <1>2, <2>1, <2>2 DEF DropEth, Parts
<1>3. CASE DropFile
  <2>1. /\ todo # <<>> /\ Head(todo) = "dropFile" /\ done = "none"
        /\ todo' # <<>> /\ Head(todo') = "dropDispatcher" /\ OnTrack'
    BY <1>3, StepDone, Followers DEF DropFile
  <2> QED
    BY <1>3, <2>1 DEF DropFile, Parts
<1>4. CASE DropDispatcher
  <2>1. /\ todo # <<>> /\ Head(todo) = "dropDispatcher" /\ done = "none"
        /\ todo' # <<>> /\ Head(todo') = "flush" /\ OnTrack'
    BY <1>4, StepDone, Followers DEF DropDispatcher
  <2> QED
    BY <1>4, <2>1 DEF DropDispatcher, Parts
<1>5. CASE Flush
  <2>1. /\ todo # <<>> /\ Head(todo) = "flush" /\ done = "none"
        /\ todo' # <<>> /\ Head(todo') = "applyReset" /\ OnTrack'
    BY <1>5, StepDone, Followers DEF Flush
  <2> QED
    BY <1>5, <2>1 DEF Flush, Parts
<1> QED
  BY <1>1, <1>2, <1>3, <1>4, <1>5

(* The two last steps, the start of a script and its end before time. *)
LEMMA EndsParts ==
  ASSUME IInv, Start \/ Apply \/ ApplyReset \/ Abort
  PROVE  Parts' /\ SetupComplete' /\ ResetComplete'
<1> USE DEF IInv, config, linkVars, ruleVars, historyVars
<1> USE DEF DoneIdle, Twice, SetupSoFar, ResetSoFar, Isolating, Reached, SetupComplete, ResetComplete
<1>1. CASE Start
  <2>1. todo' # <<>> /\ Head(todo') \in {"dispatcher", "dropAp"} /\ OnTrack' /\ done' = "none"
    BY <1>1, StepNames DEF Start, StartScript, OnTrack
  <2>2. Twice'
    BY <1>1 DEF Start, StartScript, Parts
  <2> QED
    BY <2>1, <2>2 DEF Parts
<1>2. CASE Apply
  <2>1. todo # <<>> /\ Head(todo) = "apply" /\ todo' = <<>> /\ done' = "setup"
    BY <1>2, DoneFacts, Followers DEF Apply, Parts
  <2>2. UNCHANGED linkVars \/ (wlan' = wlan
          /\ (wlan = "ap" => events' # <<>> /\ events'[Len(events')] = "up"))
    BY <1>2, SwitchFacts DEF Apply
  <2>3. Isolating'
    BY <1>2, <2>1, <2>2 DEF Apply, Parts, UpLast
  <2> QED
    BY <1>2, <2>1, <2>3 DEF Apply, Parts, OnTrack
<1>3. CASE ApplyReset
  <2>1. todo # <<>> /\ Head(todo) = "applyReset" /\ todo' = <<>> /\ done' = "reset"
    BY <1>3, DoneFacts, Followers DEF ApplyReset, Parts
  <2> QED
    BY <1>3, <2>1 DEF ApplyReset, Parts, OnTrack
<1>4. CASE Abort
  <2>1. todo # <<>> /\ todo' = <<>> /\ done = "none" /\ done' = done
    BY <1>4 DEF Abort, Parts
  <2>2. Twice'
    BY <1>4 DEF Abort, Parts
  <2> QED
    BY <2>1, <2>2 DEF Parts, OnTrack
<1> QED
  BY <1>1, <1>2, <1>3, <1>4

-----------------------------------------------------------------------------
(* What NetworkManager, the dispatcher and people do to it. *)

(* Bringing wlan0 over to something else cannot undo what the scripts achieved. *)
LEMMA LinkParts ==
  ASSUME IInv, NEW to, Switch(to), UNCHANGED <<config, ruleVars, todo, prior, historyVars>>
  PROVE  Parts' /\ SetupComplete' /\ ResetComplete'
<1> USE DEF IInv, config, ruleVars, historyVars
<1>1. wlan' # "ap" \/ (events' # <<>> /\ events'[Len(events')] = "up")
  BY SwitchFacts
<1>2. Isolating'
  BY <1>1 DEF Isolating, UpLast
<1> QED
  BY <1>2 DEF Parts, OnTrack, DoneIdle, Twice, SetupSoFar, ResetSoFar, Reached,
              SetupComplete, ResetComplete

(* The dispatcher takes an event off the queue and stands for it until it ends. *)
LEMMA DispatcherParts ==
  ASSUME IInv, DispatcherStart \/ DispatcherEnd
  PROVE  Parts' /\ SetupComplete' /\ ResetComplete'
<1> USE DEF IInv, config, linkVars, historyVars
<1>1. CASE DispatcherStart
  <2>1. /\ events \in Seq({"up", "down"}) /\ events # <<>> /\ script = "none"
        /\ events' = Tail(events)
        /\ script' = IF dispatcher = "installed" THEN Head(events) ELSE "none"
        /\ UNCHANGED <<wifi, ap, ethFile, ethCon, dispatcher, wlan, rules, todo, prior,
                       done, failed, late>>
    BY <1>1 DEF DispatcherStart, TypeOK
  <2>2. dispatcher = "installed" /\ UpLast => UpLast'
    <3> SUFFICES ASSUME dispatcher = "installed", UpLast
                 PROVE  UpLast'
      OBVIOUS
    <3>1. events[Len(events)] = "up" /\ Len(events) \in Nat \ {0}
      BY <2>1, EmptySeq DEF UpLast
    <3>2. CASE Len(events) = 1
      <4>1. events' = <<>> /\ script' = "up"
        BY <2>1, <3>1, <3>2
      <4> QED
        BY <4>1 DEF UpLast
    <3>3. CASE Len(events) # 1
      <4>1. /\ events' # <<>> /\ Len(events') = Len(events) - 1
            /\ events'[Len(events')] = events[Len(events)]
        <5>1. Len(events') = Len(events) - 1 /\ Len(events') # 0
          BY <2>1, <3>1, <3>3, HeadTailProperties
        <5>2. \A i \in 1 .. Len(events') : events'[i] = events[i + 1]
          BY <2>1, HeadTailProperties
        <5>3. events'[Len(events) - 1] = events[Len(events) - 1 + 1]
          BY <3>1, <5>1, <5>2
        <5> QED
          BY <3>1, <5>1, <5>3
      <4> QED
        BY <3>1, <4>1 DEF UpLast
    <3> QED
      BY <3>2, <3>3
  <2>3. Isolating'
    <3>1. Reached({"netplan", "apply"}) \/ done = "setup" => dispatcher = "installed"
      BY DEF Parts, SetupSoFar, Reached, SetupComplete
    <3> QED
      BY <2>1, <2>2, <3>1 DEF Parts, Isolating, Reached
  <2>4. ResetSoFar'
    BY <2>1 DEF Parts, ResetSoFar, Reached
  <2> QED
    BY <2>1, <2>3, <2>4 DEF Parts, OnTrack, DoneIdle, Twice, SetupSoFar, Reached,
                            SetupComplete, ResetComplete
<1>2. CASE DispatcherEnd
  <2>1. /\ script \in {"up", "down"} /\ script' = "none" /\ rules \in 0 .. 1
        /\ rules' = RulesAfter(script, rules)
        /\ UNCHANGED <<wifi, ap, ethFile, ethCon, dispatcher, wlan, events, todo, prior,
                       done, failed, late>>
    BY <1>2 DEF DispatcherEnd, TypeOK
  <2>2. (script = "up" => rules' = 1) /\ (script = "down" => rules' = 0)
    BY <2>1 DEF RulesAfter
  <2>3. UpLast => UpLast'
    BY <2>1, <2>2 DEF UpLast
  <2>4. Isolating'
    BY <2>1, <2>3 DEF Parts, Isolating, Reached
  <2>5. ResetSoFar' /\ ResetComplete'
    BY <2>1, <2>2 DEF Parts, ResetSoFar, Reached, ResetComplete
  <2> QED
    BY <2>1, <2>4, <2>5 DEF Parts, OnTrack, DoneIdle, Twice, SetupSoFar, Reached, SetupComplete
<1> QED
  BY <1>1, <1>2

LEMMA WorldParts ==
  ASSUME IInv, World
  PROVE  Parts' /\ SetupComplete' /\ ResetComplete'
<1>1. CASE Autoconnect \/ LinkLost
  BY <1>1, LinkParts DEF Autoconnect, LinkLost
<1>2. CASE DispatcherStart \/ DispatcherEnd
  BY <1>2, DispatcherParts
<1>3. CASE Reboot
  <2>1. /\ wlan' = "idle" /\ script' = "none" /\ rules' = 0 /\ todo' = <<>>
        /\ UNCHANGED <<wifi, ap, ethFile, ethCon, dispatcher, done, failed, late>>
    BY <1>3 DEF Reboot, config, historyVars
  <2> QED
    BY <2>1 DEF IInv, Parts, OnTrack, DoneIdle, Twice, SetupSoFar, ResetSoFar, Isolating, Reached,
                SetupComplete, ResetComplete
<1>4. ASSUME NEW c \in Client, Join(c)
      PROVE  Parts' /\ SetupComplete' /\ ResetComplete'
  <2>1. todo' = <<>> /\ done' = "none"
    BY <1>4 DEF Join
  <2>2. Twice'
    BY <1>4 DEF Join, IInv, Parts, Twice
  <2> QED
    BY <2>1, <2>2 DEF Parts, OnTrack, DoneIdle, Twice, SetupSoFar, ResetSoFar, Isolating, Reached,
                SetupComplete, ResetComplete
<1> QED
  BY <1>1, <1>2, <1>3, <1>4 DEF World

LEMMA NextInv == IInv /\ [Next]_vars => IInv'
<1> SUFFICES ASSUME IInv, [Next]_vars
             PROVE  IInv'
  OBVIOUS
<1>1. CASE Script
  <2>1. TypeOK'
    BY <1>1, ScriptType DEF IInv, Parts
  <2>2. Parts' /\ SetupComplete' /\ ResetComplete'
    BY <1>1, SetupParts, ResetParts, EndsParts DEF Script
  <2> QED
    BY <2>1, <2>2 DEF IInv
<1>2. CASE World
  BY <1>2, WorldType, WorldParts DEF IInv
<1>3. CASE UNCHANGED vars
  BY <1>3 DEF vars, config, linkVars, ruleVars, historyVars, IInv, TypeOK, Parts, OnTrack,
              DoneIdle, Twice, SetupSoFar, ResetSoFar, Isolating, UpLast, Reached,
              SetupComplete, ResetComplete
<1> QED
  BY <1>1, <1>2, <1>3 DEF Next

-----------------------------------------------------------------------------
(* The invariant holds in every reachable state. *)
THEOREM NetworkInvariant == Spec => []IInv
BY InitInv, NextInv, PTL DEF Spec

(* Types: above all, rules never pile up. *)
THEOREM NetworkTypeCorrect == Spec => []TypeOK
<1>1. IInv => TypeOK
  BY DEF IInv
<1> QED
  BY <1>1, NetworkInvariant, PTL

(* A set-up that ends is complete, from whatever state it was started, up to client
   connections after its own listing failed unseen and a second access point after an
   unseen failure to find the first. *)
THEOREM SetupsComplete == Spec => []SetupComplete
<1>1. IInv => SetupComplete
  BY DEF IInv
<1> QED
  BY <1>1, NetworkInvariant, PTL

(* After a set-up an access point that is up is isolated. *)
THEOREM AccessPointIsolated == Spec => []Isolated
<1>1. IInv => Isolated
  BY DEF IInv, Parts, Isolating, UpLast, Isolated
<1> QED
  BY <1>1, NetworkInvariant, PTL

(* A reset that ends leaves at most the connection it failed to delete, whatever is
   queued. *)
THEOREM ResetsComplete == Spec => []ResetComplete
<1>1. IInv => ResetComplete
  BY DEF IInv
<1> QED
  BY <1>1, NetworkInvariant, PTL
=============================================================================
