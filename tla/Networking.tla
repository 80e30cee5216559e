----------------------------- MODULE Networking -----------------------------
(***************************************************************************)
(* The networking scripts (scripts/setup_networking.sh and                  *)
(* reset_networking.sh) over the configuration that survives them, next to  *)
(* NetworkManager, which brings connections up and down and queues events   *)
(* for the dispatcher the scripts install and remove.                       *)
(*                                                                          *)
(* Either script may end between any two commands: `set -e`, Ctrl-C, or the *)
(* loss of the connection it was started over, which both of them cut.  It  *)
(* goes on where nothing looks at the outcome of a command: where nmcli is  *)
(* read by a process substitution or a pipe.                                *)
(***************************************************************************)
EXTENDS Integers, Sequences

CONSTANTS
  Client,      \* Wi-Fi client connections of earlier builds and users
  MaxEvents,   \* bound on the events waiting for the dispatcher
  MaxFaults    \* bound on failing commands, lost links, new clients, reboots

ASSUME NetworkAssumption ==
  /\ "ap" \notin Client /\ "idle" \notin Client
  /\ MaxEvents \in Nat /\ MaxFaults \in Nat

VARIABLES
  wifi,        \* client connections NetworkManager has
  ap,          \* the connection uav-neo-ap: none, of another build, this one's (one or
               \* several alike), or both under the one name
  ethFile,     \* 99-uav-eth0.yaml, likewise
  ethCon,      \* does the connection netplan-eth0 exist
  dispatcher,  \* 99-uav-ap-isolate; broken: half written or not executable
  wlan,        \* what is active on wlan0: a client, "ap" or "idle"
  events,      \* up and down of the access point, for the dispatcher
  script,      \* the dispatcher script under way
  rules,       \* REJECT rules of wlan0; -i and -o are always treated alike
  todo,        \* the steps the running script has left, <<>> without one
  prior,       \* prior_wifi, as far as not deleted yet
  faults,      \* faults still to come
  done,        \* history: the last script, if it ran to its end
  failed,      \* history: steps of the script that failed and did not end it; a failed
               \* "profile" stays, as what it adds does
  late         \* history: an `up` was in progress when the rules were flushed

config == <<wifi, ap, ethFile, ethCon, dispatcher>>
linkVars == <<wlan, events>>
ruleVars == <<script, rules>>
historyVars == <<done, failed, late>>
vars == <<config, linkVars, ruleVars, todo, prior, faults, historyVars>>

SetupSteps == <<"dispatcher", "enable", "list", "delete", "profile", "activate",
                "netplan", "apply">>

(* Mutant: the rules are flushed while the dispatcher is still there. *)
FlushFirst == <<"flush", "dropAp", "dropEth", "dropFile", "dropDispatcher", "applyReset">>

ResetSteps == <<"dropAp", "dropEth", "dropFile", "dropDispatcher", "flush", "applyReset">>

Step(s) == todo # <<>> /\ Head(todo) = s
Done == todo' = Tail(todo)
Fault == faults > 0 /\ faults' = faults - 1
Fails(s) == Fault /\ failed' = failed \union {s}

TypeOK ==
  /\ wifi \subseteq Client
  /\ ap \in {"none", "other", "this", "both"}
  /\ ethFile \in {"none", "other", "this"}
  /\ ethCon \in BOOLEAN
  /\ dispatcher \in {"none", "broken", "installed"}
  /\ wlan \in Client \union {"ap", "idle"}
  /\ events \in Seq({"up", "down"}) /\ Len(events) =< MaxEvents
  /\ script \in {"none", "up", "down"}
  /\ rules \in 0 .. 1
  /\ todo \in Seq({SetupSteps[i] : i \in DOMAIN SetupSteps} \union
                  {ResetSteps[i] : i \in DOMAIN ResetSteps})
  /\ prior \subseteq Client
  /\ faults \in 0 .. MaxFaults
  /\ done \in {"none", "setup", "reset"}
  /\ failed \subseteq {"list", "profile", "dropAp", "dropEth"} /\ late \in BOOLEAN

(* A stock system, or one that another build has set up, whose access point
   has other settings and whose netplan file may be the present one. *)
Init ==
  /\ wifi \in SUBSET Client
  /\ \/ ap = "none" /\ ethFile = "none" /\ ethCon = FALSE /\ dispatcher = "none"
     \/ /\ ap = "other" /\ ethFile \in {"other", "this"} /\ ethCon = TRUE
        /\ dispatcher = "installed"
  /\ wlan = "idle" /\ events = <<>>
  /\ script = "none" /\ rules = 0
  /\ todo = <<>> /\ prior = {}
  /\ faults = MaxFaults
  /\ done = "none" /\ failed = {} /\ late = FALSE

(* NetworkManager tells the dispatcher; other connections do not concern it. *)
Emit(es) == Len(events) + Len(es) =< MaxEvents /\ events' = events \o es

(* wlan0 goes over to `to`. *)
Switch(to) ==
  /\ wlan' = to
  /\ Emit((IF wlan = "ap" THEN <<"down">> ELSE <<>>) \o
          (IF to = "ap" THEN <<"up">> ELSE <<>>))

-----------------------------------------------------------------------------
(* setup_networking.sh. *)

StartScript(name, steps) ==
  /\ todo = <<>>
  /\ todo' = steps
  /\ prior' = {}
  /\ done' = "none" /\ failed' = failed \intersect {"profile"} /\ late' = FALSE
  /\ UNCHANGED <<config, linkVars, ruleVars, faults>>

Start == StartScript("setup", SetupSteps) \/ StartScript("reset", ResetSteps)

(* tee truncates the file and writes it; chmod makes it executable. *)
WriteDispatcher ==
  /\ Step("dispatcher")
  /\ dispatcher' = "broken"
  /\ Done
  /\ UNCHANGED <<wifi, ap, ethFile, ethCon, linkVars, ruleVars, prior, faults, historyVars>>

EnableDispatcher ==
  /\ Step("enable")
  /\ dispatcher' = "installed"
  /\ Done
  /\ UNCHANGED <<wifi, ap, ethFile, ethCon, linkVars, ruleVars, prior, faults, historyVars>>

(* mapfile reads what nmcli wrote before it failed, if anything, and the script
   goes on with it: `set -e` does not look into a process substitution. *)
ListPrior ==
  /\ Step("list")
  /\ \/ prior' = wifi /\ UNCHANGED <<faults, failed>>
     \/ prior' \in SUBSET wifi /\ Fails("list")
  /\ Done
  /\ UNCHANGED <<config, linkVars, ruleVars, done, late>>

DeletePrior ==
  /\ Step("delete")
  /\ \/ \E c \in prior :
          /\ wifi' = wifi \ {c}
          /\ prior' = prior \ {c}
          /\ wlan' = IF wlan = c THEN "idle" ELSE wlan
          /\ UNCHANGED todo
     \/ prior = {} /\ Done /\ UNCHANGED <<wifi, wlan, prior>>
  /\ UNCHANGED <<ap, ethFile, ethCon, dispatcher, events, ruleVars, faults, historyVars>>

(* Mutant: an access point that exists is left as it is. *)
AddProfile ==
  /\ Step("profile")
  /\ ap' = IF ap = "none" THEN "this" ELSE ap
  /\ Done
  /\ UNCHANGED <<wifi, ethFile, ethCon, dispatcher, linkVars, ruleVars, prior, faults, historyVars>>

(* `connection modify`, of the first of its name, or `connection add`, also where
   grep finds nothing because the nmcli before it failed. *)
ConfigureProfile ==
  /\ Step("profile")
  /\ \/ ap' \in (IF ap = "both" THEN {"this", "both"} ELSE {"this"})
        /\ UNCHANGED <<faults, failed>>
     \/ ap' = (IF ap \in {"other", "both"} THEN "both" ELSE "this") /\ Fails("profile")
  /\ Done
  /\ UNCHANGED <<wifi, ethFile, ethCon, dispatcher, linkVars, ruleVars, prior, done, late>>

(* Mutant: an access point that is up is not activated again. *)
ActivateOnce ==
  /\ Step("activate")
  /\ IF wlan = "ap" THEN UNCHANGED linkVars ELSE Switch("ap")
  /\ Done
  /\ UNCHANGED <<config, ruleVars, prior, faults, historyVars>>

(* `connection up` activates afresh what is up; if it fails (`|| true`) nothing
   is active. *)
Activate ==
  /\ Step("activate")
  /\ \/ Switch("ap") /\ UNCHANGED faults
     \/ Switch("idle") /\ Fault
  /\ Done
  /\ UNCHANGED <<config, ruleVars, prior, historyVars>>

WriteNetplan ==
  /\ Step("netplan")
  /\ ethFile' = "this"
  /\ Done
  /\ UNCHANGED <<wifi, ap, ethCon, dispatcher, linkVars, ruleVars, prior, faults, historyVars>>

(* netplan apply makes a connection of the file and may restart wlan0. *)
Apply ==
  /\ Step("apply")
  /\ ethCon' = TRUE
  /\ UNCHANGED linkVars \/ Switch(wlan)
  /\ Done
  /\ done' = "setup"
  /\ UNCHANGED <<wifi, ap, ethFile, dispatcher, ruleVars, prior, faults, failed, late>>

-----------------------------------------------------------------------------
(* reset_networking.sh, which goes on whatever fails. *)

(* `connection delete` takes every connection of the name; a failing nmcli before
   it reads as "Not present". *)
DropAp ==
  /\ Step("dropAp")
  /\ IF ap = "none"
     THEN UNCHANGED <<ap, linkVars, failed, faults>>
     ELSE \/ /\ ap' = "none"
             /\ IF wlan = "ap" THEN Switch("idle") ELSE UNCHANGED linkVars
             /\ UNCHANGED <<failed, faults>>
          \/ Fails("dropAp") /\ UNCHANGED <<ap, linkVars>>
  /\ Done
  /\ UNCHANGED <<wifi, ethFile, ethCon, dispatcher, ruleVars, prior, done, late>>

DropEth ==
  /\ Step("dropEth")
  /\ IF ethCon
     THEN \/ ethCon' = FALSE /\ UNCHANGED <<failed, faults>>
          \/ Fails("dropEth") /\ UNCHANGED ethCon
     ELSE UNCHANGED <<ethCon, failed, faults>>
  /\ Done
  /\ UNCHANGED <<wifi, ap, ethFile, dispatcher, linkVars, ruleVars, prior, done, late>>

DropFile ==
  /\ Step("dropFile")
  /\ ethFile' = "none"
  /\ Done
  /\ UNCHANGED <<wifi, ap, ethCon, dispatcher, linkVars, ruleVars, prior, faults, historyVars>>

DropDispatcher ==
  /\ Step("dropDispatcher")
  /\ dispatcher' = "none"
  /\ Done
  /\ UNCHANGED <<wifi, ap, ethFile, ethCon, linkVars, ruleVars, prior, faults, historyVars>>

(* -C and -D until no rule is left. *)
Flush ==
  /\ Step("flush")
  /\ rules' = 0
  /\ late' = (script = "up")
  /\ Done
  /\ UNCHANGED <<config, linkVars, script, prior, faults, done, failed>>

ApplyReset ==
  /\ Step("applyReset")
  /\ UNCHANGED linkVars \/ Switch(wlan)
  /\ Done
  /\ done' = "reset"
  /\ UNCHANGED <<config, ruleVars, prior, faults, failed, late>>

Abort ==
  /\ todo # <<>>
  /\ todo' = <<>>
  /\ UNCHANGED <<config, linkVars, ruleVars, prior, faults, historyVars>>

Script ==
  \/ Start \/ WriteDispatcher \/ EnableDispatcher \/ ListPrior \/ DeletePrior
  \/ ConfigureProfile \/ Activate \/ WriteNetplan \/ Apply
  \/ DropAp \/ DropEth \/ DropFile \/ DropDispatcher \/ Flush \/ ApplyReset \/ Abort

-----------------------------------------------------------------------------
(* NetworkManager, the dispatcher, and the people who use the vehicle. *)

(* An idle interface takes any connection with autoconnect. *)
Autoconnect ==
  /\ wlan = "idle"
  /\ \/ ap # "none" /\ Switch("ap")
     \/ \E c \in wifi : Switch(c)
  /\ UNCHANGED <<config, ruleVars, todo, prior, faults, historyVars>>

LinkLost ==
  /\ wlan # "idle"
  /\ Fault
  /\ Switch("idle")
  /\ UNCHANGED <<config, ruleVars, todo, prior, historyVars>>

(* Someone puts the vehicle on another Wi-Fi, though not during a script. *)
Join(c) ==
  /\ todo = <<>>
  /\ Fault
  /\ c \notin wifi
  /\ wifi' = wifi \union {c}
  /\ Switch(c)
  /\ done' = "none"
  /\ UNCHANGED <<ap, ethFile, ethCon, dispatcher, ruleVars, todo, prior, failed, late>>

(* Events are served in order, by the script as it is found. *)
DispatcherStart ==
  /\ events # <<>> /\ script = "none"
  /\ events' = Tail(events)
  /\ script' = IF dispatcher = "installed" THEN Head(events) ELSE "none"
  /\ UNCHANGED <<config, wlan, rules, todo, prior, faults, historyVars>>

(* Mutant: no -D before the -I. *)
InsertOnly(action, n) == IF action = "up" THEN n + 1 ELSE IF n > 0 THEN n - 1 ELSE 0

(* up: -D and then -I; down: -D. *)
RulesAfter(action, n) ==
  (IF n > 0 THEN n - 1 ELSE 0) + (IF action = "up" THEN 1 ELSE 0)

DispatcherEnd ==
  /\ script # "none"
  /\ rules' = RulesAfter(script, rules)
  /\ script' = "none"
  /\ UNCHANGED <<config, linkVars, todo, prior, faults, historyVars>>

(* Power is cut.  The files stay; the rules do not. *)
Reboot ==
  /\ Fault
  /\ wlan' = "idle" /\ events' = <<>>
  /\ script' = "none" /\ rules' = 0
  /\ todo' = <<>>
  /\ UNCHANGED <<config, prior, historyVars>>

World ==
  \/ Autoconnect \/ LinkLost \/ DispatcherStart \/ DispatcherEnd \/ Reboot
  \/ \E c \in Client : Join(c)

Next == Script \/ World

Spec == Init /\ [][Next]_vars

-----------------------------------------------------------------------------
(* Safety. *)

(* setup_networking.sh:15: running it again is safe.  From whatever earlier runs of
   either script left behind, aborted, rebooted or with connections not deleted, a
   set-up that ends leaves the whole configuration.  What it may leave too is a client
   connection, but only when its own listing failed unseen, and a second uav-neo-ap,
   but only after a look for the first one that failed unseen. *)
SetupComplete ==
  done = "setup" =>
    /\ ap \in {"this", "both"} /\ ethFile = "this" /\ ethCon /\ dispatcher = "installed"
    /\ wifi # {} => "list" \in failed
    /\ ap = "both" => "profile" \in failed

(* After a set-up an access point that is up is isolated once the dispatcher
   is through, whatever happened to the events while its file was rewritten. *)
Isolated ==
  done = "setup" /\ wlan = "ap" /\ events = <<>> /\ script = "none" => rules = 1

(* reset_networking.sh goes on whatever fails, and says "Done".  A reset that ends has
   removed everything but the very connection whose look-up or deletion failed: the
   other steps are not lost with it, the rules are gone, and no event still under way
   puts one back, save a script already running during the flush. *)
ResetComplete ==
  done = "reset" =>
    /\ ap # "none" => "dropAp" \in failed
    /\ ethCon => "dropEth" \in failed
    /\ ethFile = "none" /\ dispatcher = "none"
    /\ rules = 0 \/ late
=============================================================================
