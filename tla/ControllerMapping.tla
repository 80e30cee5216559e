------------------------- MODULE ControllerMapping -------------------------
(***************************************************************************)
(* The controller mapping (controller_mapping.py) and what its two readers  *)
(* make of it: mux_node and gamepad_node load config/xbox_mapping.yaml, or  *)
(* the file their parameter mapping_config names, when they start, and      *)
(* index every Joy frame with it, as Python indexes.                        *)
(*                                                                          *)
(* The file is edited while the nodes run, and the watchdog starts the mux  *)
(* again on its own.  Time, twists and topics are those of VelocityMux and  *)
(* ManualFlight and left out here.                                          *)
(***************************************************************************)
EXTENDS Integers

CONSTANTS
  Buttons, Axes,    \* the entries of the groups `buttons` and `axes`
  LB, RB,           \* the two buttons the mux reads
  Sticks,           \* the axes the gamepad node reads
  Default,          \* DEFAULT_MAPPING
  Files,            \* what a mapping file may hold
  Own,              \* what one that mapping_config names may hold
  Missing, Broken,  \* there is no file; it is no YAML, or no mapping at its top level
  Absent,           \* a group that is not in the file, or no mapping there
  Frames            \* Joy frames: how many buttons and axes, and which are pressed

Entries == [report |-> {"buttons", "axes"}, buttons |-> Buttons, axes |-> Axes]
Group == {"report", "buttons", "axes"}
Frame == [buttons : Nat, axes : Nat, pressed : SUBSET Nat]

(* What YAML makes of an entry: an integer, a float (of the same value), null, or a
   text or list, which do not compare with numbers.  `n` is 0 in the last two. *)
Value == [kind : {"int", "float", "null", "text"}, n : Int]
Index == [kind : {"int"}, n : Nat]
Number(v) == v.kind \in {"int", "float"}

(* A group of the file has some of the entries. *)
Overlay(c) ==
  /\ DOMAIN c = Group
  /\ \A g \in Group : c[g] # Absent =>
       /\ DOMAIN c[g] \subseteq Entries[g]
       /\ \A e \in DOMAIN c[g] : c[g][e] \in Value

ASSUME MappingAssumption ==
  /\ LB \in Buttons /\ RB \in Buttons /\ LB # RB
  /\ Sticks \subseteq Axes
  /\ \A g \in Group : \A e \in Entries[g] : Default[g][e] \in Index
  /\ Missing # Broken
  /\ \A c \in Files \ {Missing, Broken} : Overlay(c)
  /\ Own \subseteq Files
  /\ Frames \subseteq Frame

VARIABLES
  file,     \* xbox_mapping.yaml
  mux,      \* is the mux up, down (killed or not started), or did an exception end it
  muxFile,  \* what its mapping file held when it started
  pad,      \* the gamepad node, likewise
  padFile,
  frame,    \* the last Joy frame
  mode,     \* what the mux took it for: idle, manual, auto
  sent      \* whether the gamepad node made a command of it

muxVars == <<mux, muxFile>>
padVars == <<pad, padFile>>
frameVars == <<frame, mode, sent>>
vars == <<file, muxVars, padVars, frameVars>>

-----------------------------------------------------------------------------
(* load_mapping. *)

NullValue == [kind |-> "null", n |-> 0]

(* Mutant: a group of the file takes the place of the default. *)
ReplacedEntry(c, g, e) ==
  IF c[g] = Absent THEN Default[g][e] ELSE IF e \in DOMAIN c[g] THEN c[g][e] ELSE NullValue

(* Each group of the file is laid over the default, entry by entry. *)
MergedEntry(c, g, e) ==
  IF c[g] # Absent /\ e \in DOMAIN c[g] THEN c[g][e] ELSE Default[g][e]

(* A broken file raises in the constructor of the node. *)
Loads(c) == c # Broken
Entry(c, g, e) == IF c = Missing THEN Default[g][e] ELSE MergedEntry(c, g, e)

-----------------------------------------------------------------------------
(* The readers. *)

(* `len(values) > index and values[index]`: a number past the end reads as not
   pressed, a negative one counts from the end, a float compares but does not
   index, and the rest does not even compare. *)
Raises(v, length) ==
  \/ ~Number(v)
  \/ v.kind = "float" /\ length > v.n
  \/ v.n < 0 /\ length + v.n < 0
Pressed(v, f) ==
  f.buttons > v.n /\ (IF v.n < 0 THEN f.buttons + v.n ELSE v.n) \in f.pressed

(* An expected number that is None switches the test off; a text is never met. *)
WrongShape(v, length) == v.kind # "null" /\ ~(Number(v) /\ v.n = length)

(* Mutant: the test of the shape stops at the buttons. *)
WrongButtons(f) == WrongShape(Entry(muxFile, "report", "buttons"), f.buttons)

(* MuxNode._publish, on a frame that is not stale. *)
WrongMode(f) ==
  \/ WrongShape(Entry(muxFile, "report", "buttons"), f.buttons)
  \/ WrongShape(Entry(muxFile, "report", "axes"), f.axes)

MuxRaises(f) ==
  ~WrongMode(f) /\ \E b \in {LB, RB} : Raises(Entry(muxFile, "buttons", b), f.buttons)

ModeOf(f) ==
  LET lb == Pressed(Entry(muxFile, "buttons", LB), f)
      rb == Pressed(Entry(muxFile, "buttons", RB), f)
  IN IF WrongMode(f) \/ lb = rb THEN "idle" ELSE IF lb THEN "manual" ELSE "auto"

(* Mutant: nothing in the constructor looks at the indices. *)
PadStartsAnyhow(c) == Loads(c)

(* GamepadNode: its constructor wants numbers for max(...) + 1, and _joy_cb rejects
   a frame that does not reach as far as the largest index. *)
PadStarts(c) == Loads(c) /\ \A a \in Sticks : Number(Entry(c, "axes", a))
Rejected(f) ==
  \/ \E a \in Sticks : f.axes =< Entry(padFile, "axes", a).n
  \/ WrongShape(Entry(padFile, "report", "axes"), f.axes)
PadRaises(f) == ~Rejected(f) /\ \E a \in Sticks : Raises(Entry(padFile, "axes", a), f.axes)

-----------------------------------------------------------------------------
Init ==
  /\ file \in Files
  /\ mux = "down" /\ muxFile = Missing
  /\ pad = "down" /\ padFile = Missing
  /\ frame = [buttons |-> 0, axes |-> 0, pressed |-> {}] /\ mode = "idle" /\ sent = FALSE

Edit ==
  /\ file' \in Files
  /\ UNCHANGED <<muxVars, padVars, frameVars>>

StartMux(c) == muxFile' = c /\ mux' = IF Loads(c) THEN "up" ELSE "dead"
StartPad(c) == padFile' = c /\ pad' = IF PadStarts(c) THEN "up" ELSE "dead"

(* teleop starts both, the mux with the mux_config teleop was given, the gamepad
   node with gamepad.yaml, either of which may name a mapping of its own. *)
Boot ==
  /\ \E c \in {file} \union Own : StartMux(c)
  /\ \E c \in {file} \union Own : StartPad(c)
  /\ mode' = "idle" /\ sent' = FALSE
  /\ UNCHANGED <<file, frame>>

(* The watchdog starts the mux, and only the mux, when its process is gone, and
   gives mux.launch.py no arguments.  A mux_config teleop was given is lost: the mux
   is back with what the installed mux.yaml names, xbox_mapping.yaml as it is now, or
   another, whatever it flew by before. *)
RelaunchMux ==
  /\ mux # "up"
  /\ \E c \in {file} \union Own : StartMux(c)
  /\ UNCHANGED <<file, padVars, frameVars>>

KillMux ==
  /\ mux = "up"
  /\ mux' = "down" /\ mode' = "idle"
  /\ UNCHANGED <<file, muxFile, padVars, frame, sent>>

(* A frame reaches both nodes, and the timer of the mux takes it. *)
Joy(f) ==
  /\ mux = "up" \/ pad = "up"
  /\ frame' = f
  /\ IF mux = "up" /\ MuxRaises(f)
     THEN mux' = "dead" /\ mode' = "idle"
     ELSE mux' = mux /\ mode' = IF mux = "up" THEN ModeOf(f) ELSE "idle"
  /\ pad' = IF pad = "up" /\ PadRaises(f) THEN "dead" ELSE pad
  /\ sent' = (pad = "up" /\ ~Rejected(f) /\ ~PadRaises(f))
  /\ UNCHANGED <<file, muxFile, padFile>>

Next ==
  \/ Edit \/ Boot \/ RelaunchMux \/ KillMux
  \/ \E f \in Frames : Joy(f)

Spec == Init /\ [][Next]_vars

-----------------------------------------------------------------------------
State == {"up", "down", "dead"}

TypeOK ==
  /\ file \in Files /\ muxFile \in Files \union {Missing} /\ padFile \in Files \union {Missing}
  /\ mux \in State /\ pad \in State
  /\ frame \in Frame
  /\ mode \in {"idle", "manual", "auto"} /\ sent \in BOOLEAN
  /\ pad = "up" => \A a \in Sticks : Number(Entry(padFile, "axes", a))

(* What a file says of an entry, if it says anything. *)
Says(c, g, e) == c \notin {Missing, Broken} /\ c[g] # Absent /\ e \in DOMAIN c[g]

(* It is no mapping at all, or an entry the node reads is in it and no index. *)
Spoilt(c, g, es) ==
  c = Broken \/ \E e \in es : Says(c, g, e) /\ c[g][e] \notin Index

(* controller_mapping.py:33-36 has it that a bad or partial configuration can never
   crash the mux.  So it is of a partial one, with no file, groups, entries or
   mappings in the groups, and of indices past every frame.  What does end a node is
   a file that does not parse to a mapping, or an entry that this very node reads
   and that is null, negative or no integer: a bad axis never ends the mux, a bad
   button never the gamepad node, and what neither reads does no harm. *)
PartialSurvived ==
  /\ mux = "dead" => Spoilt(muxFile, "buttons", {LB, RB})
  /\ pad = "dead" => Spoilt(padFile, "axes", Sticks)

(* The file expects another number of buttons or axes than the default. *)
Changes(c, e) == Says(c, "report", e) /\ c["report"][e] # Default["report"][e]

(* Whatever a file makes of buttons and axes, a controller in another mode moves
   nothing, by as much of the expected report as the file does not change: one
   that repeats the numbers, as the installed one, changes nothing
   (mux_node.py:179-182, gamepad.py:76-77). *)
ShapeGuard ==
  /\ mode # "idle" =>
       /\ frame.buttons = Default["report"]["buttons"].n \/ Changes(muxFile, "buttons")
       /\ frame.axes = Default["report"]["axes"].n \/ Changes(muxFile, "axes")
  /\ sent => frame.axes = Default["report"]["axes"].n \/ Changes(padFile, "axes")
=============================================================================
