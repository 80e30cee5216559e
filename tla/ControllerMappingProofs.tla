---------------------- MODULE ControllerMappingProofs ----------------------
(***************************************************************************)
(* What any mapping file can do to the mux and the gamepad node, for any    *)
(* files, entries, defaults and frames.                                     *)
(***************************************************************************)
EXTENDS ControllerMapping, TLAPS

-----------------------------------------------------------------------------
(* The overlay. *)

(* Of what the file does not say, a reader gets the default. *)
LEMMA Fallback ==
  ASSUME NEW c, NEW g, NEW e, Loads(c), ~Says(c, g, e)
  PROVE  Entry(c, g, e) = Default[g][e]
BY DEF Entry, MergedEntry, Says, Loads

(* What the file does say, a reader gets from it. *)
LEMMA Said ==
  ASSUME NEW c, NEW g, NEW e, Says(c, g, e)
  PROVE  Entry(c, g, e) = c[g][e]
BY DEF Entry, MergedEntry, Says

(* The entries the two nodes read. *)
LEMMA Read ==
  /\ \A b \in {LB, RB} : b \in Entries["buttons"]
  /\ \A a \in Sticks : a \in Entries["axes"]
  /\ "buttons" \in Entries["report"] /\ "axes" \in Entries["report"]
  /\ "report" \in Group /\ "buttons" \in Group /\ "axes" \in Group
BY MappingAssumption DEF Entries, Group

(* Only an entry that is in the file can be something other than an index. *)
LEMMA SpoiltEntry ==
  ASSUME NEW c, NEW g \in Group, NEW e \in Entries[g], NEW es, e \in es,
         Loads(c), Entry(c, g, e) \notin Index
  PROVE  Spoilt(c, g, es)
<1>1. Says(c, g, e)
  BY Fallback, MappingAssumption
<1> QED
  BY <1>1, Said DEF Spoilt

(* An index never raises, at whatever length, and is a number. *)
LEMMA IndexWorks ==
  ASSUME NEW v \in Index, NEW n \in Nat
  PROVE  Number(v) /\ ~Raises(v, n)
<1>1. v.kind = "int" /\ v.n \in Nat
  BY DEF Index
<1> QED
  BY <1>1 DEF Number, Raises

(* A mux that an index ends, and a gamepad node that does not start or that an
   index ends, have a file with a spoilt entry. *)
LEMMA MuxSpoilt ==
  ASSUME NEW f \in Frame, Loads(muxFile), MuxRaises(f)
  PROVE  Spoilt(muxFile, "buttons", {LB, RB})
<1>1. PICK b \in {LB, RB} : Raises(Entry(muxFile, "buttons", b), f.buttons)
  BY DEF MuxRaises
<1>2. f.buttons \in Nat
  BY DEF Frame
<1>3. Entry(muxFile, "buttons", b) \notin Index
  BY <1>1, <1>2, IndexWorks
<1> QED
  BY <1>3, Read, SpoiltEntry

LEMMA PadSpoilt ==
  ASSUME NEW f \in Frame, Loads(padFile), PadRaises(f)
  PROVE  Spoilt(padFile, "axes", Sticks)
<1>1. PICK a \in Sticks : Raises(Entry(padFile, "axes", a), f.axes)
  BY DEF PadRaises
<1>2. f.axes \in Nat
  BY DEF Frame
<1>3. Entry(padFile, "axes", a) \notin Index
  BY <1>1, <1>2, IndexWorks
<1> QED
  BY <1>3, Read, SpoiltEntry

LEMMA PadUnstarted ==
  ASSUME NEW c, ~PadStarts(c)
  PROVE  Spoilt(c, "axes", Sticks)
<1>1. CASE ~Loads(c)
  BY <1>1 DEF Loads, Spoilt
<1>2. CASE Loads(c)
  <2>1. PICK a \in Sticks : ~Number(Entry(c, "axes", a))
    BY <1>2 DEF PadStarts
  <2>2. Entry(c, "axes", a) \notin Index
    BY <2>1, IndexWorks
  <2> QED
    BY <1>2, <2>2, Read, SpoiltEntry
<1> QED
  BY <1>1, <1>2

LEMMA MuxUnloaded ==
  ASSUME NEW c, ~Loads(c)
  PROVE  Spoilt(c, "buttons", {LB, RB})
BY DEF Loads, Spoilt

-----------------------------------------------------------------------------
(* The invariant: a mux that is not up steers nothing, and a node that is up has
   loaded its file. *)
Loaded ==
  /\ mux # "up" => mode = "idle"
  /\ mux = "up" => Loads(muxFile)
  /\ pad = "up" => Loads(padFile)

IInv == TypeOK /\ PartialSurvived /\ ShapeGuard /\ Loaded

LEMMA InitInv == Init => IInv
<1> SUFFICES ASSUME Init
             PROVE  IInv
  OBVIOUS
<1>1. TypeOK
  <2>1. frame \in Frame
    BY DEF Init, Frame
  <2> QED
    BY <2>1 DEF Init, TypeOK, State
<1>2. PartialSurvived /\ ShapeGuard /\ Loaded
  BY DEF Init, PartialSurvived, ShapeGuard, Loaded
<1> QED
  BY <1>1, <1>2 DEF IInv

(* What StartMux and StartPad leave the nodes with. *)
LEMMA StartedMux ==
  ASSUME NEW c, StartMux(c)
  PROVE  /\ muxFile' = c /\ mux' \in {"up", "dead"}
         /\ mux' = "up" => Loads(c)
         /\ mux' = "dead" => Spoilt(c, "buttons", {LB, RB})
BY MuxUnloaded DEF StartMux

LEMMA StartedPad ==
  ASSUME NEW c, StartPad(c)
  PROVE  /\ padFile' = c /\ pad' \in {"up", "dead"}
         /\ pad' = "up" => Loads(c) /\ \A a \in Sticks : Number(Entry(c, "axes", a))
         /\ pad' = "dead" => Spoilt(c, "axes", Sticks)
BY PadUnstarted DEF StartPad, PadStarts

LEMMA BootInv ==
  ASSUME IInv, Boot
  PROVE  IInv'
<1> USE DEF IInv
<1>1. PICK m \in {file} \union Own : StartMux(m)
  BY DEF Boot
<1>2. PICK p \in {file} \union Own : StartPad(p)
  BY DEF Boot
<1>3. m \in Files /\ p \in Files
  BY MappingAssumption DEF TypeOK
<1>4. /\ muxFile' = m /\ mux' \in {"up", "dead"}
      /\ mux' = "up" => Loads(m)
      /\ mux' = "dead" => Spoilt(m, "buttons", {LB, RB})
  BY <1>1, StartedMux
<1>5. /\ padFile' = p /\ pad' \in {"up", "dead"}
      /\ pad' = "up" => Loads(p) /\ \A a \in Sticks : Number(Entry(p, "axes", a))
      /\ pad' = "dead" => Spoilt(p, "axes", Sticks)
  BY <1>2, StartedPad
<1>6. TypeOK'
  BY <1>3, <1>4, <1>5 DEF TypeOK, Boot, State
<1>7. PartialSurvived'
  BY <1>4, <1>5 DEF PartialSurvived
<1>8. ShapeGuard' /\ Loaded'
  BY <1>4, <1>5 DEF Boot, ShapeGuard, Loaded
<1> QED
  BY <1>6, <1>7, <1>8

LEMMA RelaunchInv ==
  ASSUME IInv, RelaunchMux
  PROVE  IInv'
<1> USE DEF IInv
<1>0. PICK c \in {file} \union Own : StartMux(c)
  BY DEF RelaunchMux
<1>1. /\ muxFile' = c /\ mux' \in {"up", "dead"}
      /\ mux' = "up" => Loads(c)
      /\ mux' = "dead" => Spoilt(c, "buttons", {LB, RB})
      /\ c \in Files
  BY <1>0, StartedMux, MappingAssumption DEF TypeOK
<1>2. TypeOK'
  BY <1>1 DEF TypeOK, RelaunchMux, padVars, frameVars, State
<1>3. PartialSurvived'
  BY <1>1 DEF PartialSurvived, RelaunchMux, padVars
<1>4. ShapeGuard' /\ Loaded'
  BY <1>1 DEF RelaunchMux, ShapeGuard, Loaded, padVars, frameVars
<1> QED
  BY <1>2, <1>3, <1>4

(* A frame that mux or gamepad node takes has the expected shape. *)
LEMMA ShapeTaken ==
  ASSUME NEW c, NEW e \in Entries["report"], NEW length,
         Loads(c), ~Changes(c, e), ~WrongShape(Entry(c, "report", e), length)
  PROVE  length = Default["report"][e].n
<1>1. Entry(c, "report", e) = Default["report"][e]
  BY Fallback, Said DEF Changes
<1>2. Default["report"][e].kind = "int"
  BY Read, MappingAssumption DEF Index
<1> QED
  BY <1>1, <1>2 DEF WrongShape

LEMMA JoyInv ==
  ASSUME IInv, NEW f \in Frames, Joy(f)
  PROVE  IInv'
<1> USE DEF IInv
<1>f. f \in Frame
  BY MappingAssumption
<1>u. /\ muxFile' = muxFile /\ padFile' = padFile /\ file' = file
      /\ frame' = f
  BY DEF Joy
<1>1. /\ mux' \in State /\ pad' \in State /\ mode' \in {"idle", "manual", "auto"}
      /\ sent' \in BOOLEAN
  <2>1. ModeOf(f) \in {"idle", "manual", "auto"}
    BY DEF ModeOf
  <2> QED
    BY <2>1 DEF Joy, TypeOK, State
<1>2. TypeOK'
  <2>1. pad' = "up" => pad = "up"
    BY DEF Joy
  <2> QED
    BY <1>f, <1>u, <1>1, <2>1 DEF TypeOK
<1>3. PartialSurvived'
  <2>1. mux' = "dead" => Spoilt(muxFile, "buttons", {LB, RB})
    BY <1>f, MuxSpoilt DEF Joy, PartialSurvived, Loaded
  <2>2. pad' = "dead" => Spoilt(padFile, "axes", Sticks)
    BY <1>f, PadSpoilt DEF Joy, PartialSurvived, Loaded
  <2> QED
    BY <1>u, <2>1, <2>2 DEF PartialSurvived
<1>4. ShapeGuard'
  <2>1. ASSUME mode' # "idle"
        PROVE  /\ f.buttons = Default["report"]["buttons"].n \/ Changes(muxFile, "buttons")
               /\ f.axes = Default["report"]["axes"].n \/ Changes(muxFile, "axes")
    <3>1. Loads(muxFile) /\ ~WrongMode(f)
      BY <2>1 DEF Joy, ModeOf, Loaded
    <3> QED
      BY <3>1, Read, ShapeTaken DEF WrongMode
  <2>2. ASSUME sent'
        PROVE  f.axes = Default["report"]["axes"].n \/ Changes(padFile, "axes")
    <3>1. Loads(padFile) /\ ~WrongShape(Entry(padFile, "report", "axes"), f.axes)
      BY <2>2 DEF Joy, Rejected, Loaded
    <3> QED
      BY <3>1, Read, ShapeTaken
  <2> QED
    BY <1>u, <2>1, <2>2 DEF ShapeGuard
<1>5. Loaded'
  BY <1>u DEF Joy, Loaded
<1> QED
  BY <1>2, <1>3, <1>4, <1>5

LEMMA NextInv == IInv /\ [Next]_vars => IInv'
<1> SUFFICES ASSUME IInv, [Next]_vars
             PROVE  IInv'
  OBVIOUS
<1> USE DEF muxVars, padVars, frameVars
<1>1. CASE Edit
  BY <1>1 DEF IInv, TypeOK, PartialSurvived, ShapeGuard, Loaded, Edit
<1>2. CASE Boot
  BY <1>2, BootInv
<1>3. CASE RelaunchMux
  BY <1>3, RelaunchInv
<1>4. CASE KillMux
  BY <1>4 DEF IInv, TypeOK, PartialSurvived, ShapeGuard, Loaded, KillMux, State
<1>5. CASE \E f \in Frames : Joy(f)
  BY <1>5, JoyInv
<1>6. CASE UNCHANGED vars
  BY <1>6 DEF vars, IInv, TypeOK, PartialSurvived, ShapeGuard, Loaded
<1> QED
  BY <1>1, <1>2, <1>3, <1>4, <1>5, <1>6 DEF Next

(* The invariant holds in every reachable state. *)
THEOREM MappingInvariant == Spec => []IInv
BY InitInv, NextInv, PTL DEF Spec

(* Types; above all, the sticks of a gamepad node that runs are numbers. *)
THEOREM MappingTypeCorrect == Spec => []TypeOK
<1>1. IInv => TypeOK
  BY DEF IInv
<1> QED
  BY <1>1, MappingInvariant, PTL

(* No partial file ends mux or gamepad node; what ends one is a file that is no
   mapping, or that gives an entry this node reads something that is no index,
   texts and floats included, whatever the entries, defaults and frames. *)
THEOREM PartialFilesSurvived == Spec => []PartialSurvived
<1>1. IInv => PartialSurvived
  BY DEF IInv
<1> QED
  BY <1>1, MappingInvariant, PTL

(* A controller in another mode moves nothing, however a file maps buttons and axes,
   in as much of the expected report as the file does not say otherwise. *)
THEOREM ShapesGuarded == Spec => []ShapeGuard
<1>1. IInv => ShapeGuard
  BY DEF IInv
<1> QED
  BY <1>1, MappingInvariant, PTL
=============================================================================
