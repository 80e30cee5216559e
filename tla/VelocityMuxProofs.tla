------------------------- MODULE VelocityMuxProofs -------------------------
(***************************************************************************)
(* Theorems about the velocity mux for every set of frames and commands,   *)
(* every limit and every timing.                                           *)
(***************************************************************************)
EXTENDS VelocityMux, TLAPS

(* Clamping makes an integer in -Unit .. Unit of any number, NaN included. *)
LEMMA ClampRange ==
  ASSUME NEW v \in Raw
  PROVE  Clamp(v) \in -Unit .. Unit
BY LimitAssumption, InputAssumption DEF Clamp, Raw

(* A limit is a natural number for every component. *)
LEMMA LimitType == Limit \in [Component -> Nat]
BY LimitAssumption DEF Limit

(* Scaling is monotone. *)
LEMMA ScaleBound ==
  ASSUME NEW u \in Nat, NEW v \in -u .. u, NEW l \in Nat
  PROVE  /\ v * l \in Int
         /\ v * l =< u * l
         /\ v * l >= -(u * l)
<1>1. (u - v) * l >= 0
  OBVIOUS
<1>2. (u + v) * l >= 0
  OBVIOUS
<1>3. /\ (u - v) * l = u * l - v * l
      /\ (u + v) * l = u * l + v * l
  OBVIOUS
<1> QED
  BY <1>1, <1>2, <1>3

Bounded(cmd) ==
  \A c \in Component : cmd[c] =< Unit * Limit[c] /\ cmd[c] >= -(Unit * Limit[c])

(* A stored command respects the limits of its components. *)
LEMMA ScaledBounded ==
  ASSUME NEW raw \in RawCommands
  PROVE  Scaled(raw) \in Command /\ Bounded(Scaled(raw))
<1> SUFFICES ASSUME NEW c \in Component
             PROVE  LET n == Clamp(raw[c]) * Limit[c] IN
                      n \in Int /\ n =< Unit * Limit[c] /\ n >= -(Unit * Limit[c])
  BY DEF Scaled, Command, Bounded
<1>1. Clamp(raw[c]) \in -Unit .. Unit
  BY ClampRange, InputAssumption
<1>2. Limit[c] \in Nat
  BY LimitType
<1> QED
  BY <1>1, <1>2, ScaleBound, LimitAssumption

(* The stop command is a command, within every limit. *)
LEMMA ZeroBounded == Zero \in Command /\ Bounded(Zero)
<1> SUFFICES ASSUME NEW c \in Component
             PROVE  0 =< Unit * Limit[c] /\ 0 >= -(Unit * Limit[c])
  BY DEF Zero, Command, Bounded
<1>1. Limit[c] \in Nat
  BY LimitType
<1> QED
  BY <1>1, ScaleBound, LimitAssumption

-----------------------------------------------------------------------------
(* Ages stay within 0 .. AgeCap. *)
LEMMA AgeType == {0, AgeCap} \subseteq Age /\ \A a \in Age : Older(a) \in Age
BY TimeAssumption DEF AgeCap, Age, Older

(* Every variable keeps its type. *)
THEOREM TypeCorrect == Spec => []TypeOK
<1> USE DEF TypeOK, Source
<1>1. Init => TypeOK
  <2> SUFFICES ASSUME Init PROVE TypeOK
    OBVIOUS
  <2>1. /\ autoCmd \in Command /\ gamepadCmd \in Command /\ setpoint \in Command
    BY ZeroBounded DEF Init
  <2>2. /\ joyAge \in Age /\ gamepadAge \in Age /\ autoAge \in Age
        /\ setpointAge \in Age /\ gripAge \in Age /\ timerAge \in 0 .. MaxGap
    BY AgeType, TimeAssumption DEF Init
  <2>3. /\ latestJoy \in Frame \union {None} /\ via \in Source
        /\ joyConnected \in BOOLEAN /\ warnedMode \in BOOLEAN
    BY DEF Init
  <2> QED
    BY <2>1, <2>2, <2>3
<1>2. TypeOK /\ [Next]_vars => TypeOK'
  <2> SUFFICES ASSUME TypeOK, [Next]_vars PROVE TypeOK'
    OBVIOUS
  <2> USE AgeType DEF inputVars, outputVars
  <2>1. ASSUME NEW joy \in Frames, JoyCb(joy) PROVE TypeOK'
    BY <2>1, InputAssumption DEF JoyCb
  <2>2. ASSUME NEW raw \in RawCommands, AutoCb(raw) PROVE TypeOK'
    BY <2>2, ScaledBounded DEF AutoCb
  <2>3. ASSUME NEW raw \in RawCommands, GamepadCb(raw) PROVE TypeOK'
    BY <2>3, ScaledBounded DEF GamepadCb
  <2>4. CASE PublishDisconnected
    <3>1. joyConnected' \in BOOLEAN
      BY <2>4 DEF PublishDisconnected
    <3> QED
      BY <2>4, <3>1, ZeroBounded, TimeAssumption DEF PublishDisconnected, Emit
  <2>5. CASE PublishWrongMode
    BY <2>5, ZeroBounded, TimeAssumption DEF PublishWrongMode, Emit
  <2>6. CASE PublishManual
    BY <2>6, TimeAssumption DEF PublishManual, Emit
  <2>7. CASE PublishManualStale
    BY <2>7, ZeroBounded, TimeAssumption DEF PublishManualStale, Emit
  <2>8. CASE PublishAuto
    BY <2>8, TimeAssumption DEF PublishAuto, Emit
  <2>9. CASE PublishIdle
    BY <2>9, ZeroBounded, TimeAssumption DEF PublishIdle, Emit
  <2>10. CASE Tick
    BY <2>10, TimeAssumption DEF Tick
  <2>11. CASE UNCHANGED vars
    BY <2>11 DEF vars
  <2> QED
    BY <2>1, <2>2, <2>3, <2>4, <2>5, <2>6, <2>7, <2>8, <2>9, <2>10, <2>11
       DEF Next, Publish
<1> QED
  BY <1>1, <1>2, PTL DEF Spec

-----------------------------------------------------------------------------
(* The setpoint is bounded because both commands it is copied from are. *)
BoundedInv == Bounded(autoCmd) /\ Bounded(gamepadCmd) /\ Bounded(setpoint)

(* No setpoint ever exceeds the configured limits. *)
THEOREM SpeedLimited == Spec => []SpeedLimit
<1>1. Init => BoundedInv
  BY ZeroBounded DEF Init, BoundedInv
<1>2. BoundedInv /\ [Next]_vars => BoundedInv'
  <2> SUFFICES ASSUME BoundedInv, [Next]_vars PROVE BoundedInv'
    OBVIOUS
  <2> USE DEF BoundedInv, inputVars, outputVars
  <2>1. ASSUME NEW joy \in Frames, JoyCb(joy) PROVE BoundedInv'
    BY <2>1 DEF JoyCb
  <2>2. ASSUME NEW raw \in RawCommands, AutoCb(raw) PROVE BoundedInv'
    BY <2>2, ScaledBounded DEF AutoCb
  <2>3. ASSUME NEW raw \in RawCommands, GamepadCb(raw) PROVE BoundedInv'
    BY <2>3, ScaledBounded DEF GamepadCb
  <2>4. CASE Publish
    BY <2>4, ZeroBounded
       DEF Publish, PublishDisconnected, PublishWrongMode, PublishManual,
           PublishManualStale, PublishAuto, PublishIdle, Emit
  <2>5. CASE Tick
    BY <2>5 DEF Tick
  <2>6. CASE UNCHANGED vars
    BY <2>6 DEF vars
  <2> QED
    BY <2>1, <2>2, <2>3, <2>4, <2>5, <2>6 DEF Next
<1>3. BoundedInv => SpeedLimit
  BY DEF BoundedInv, Bounded, SpeedLimit
<1> QED
  BY <1>1, <1>2, <1>3, PTL DEF Spec

-----------------------------------------------------------------------------
(* How the timer's reading of the bumpers relates to the pilot's grip. *)

(* A grip is one of the sources. *)
LEMMA GripType == \A joy, age : GripOf(joy, age) \in Source
BY DEF GripOf, Source

(* A path that copies a command is taken only while its source is gripped. *)
LEMMA BumpersShowGrip ==
  ASSUME TypeOK
  PROVE  /\ Bumpers(TRUE, FALSE) => Grip = "manual"
         /\ Bumpers(FALSE, TRUE) => Grip = "auto"
<1>1. ASSUME NEW joy \in Frame, ~WrongMode(joy)
      PROVE  ExpButtons \in {None, joy.buttons} /\ ExpAxes \in {None, joy.axes}
  BY <1>1 DEF WrongMode
<1>2. ~Disconnected => latestJoy \in Frame /\ latestJoy # None /\ joyAge =< JoyTimeout
  BY TimeAssumption DEF TypeOK, Disconnected, Age, AgeCap
<1>3. ASSUME latestJoy \in Frame PROVE latestJoy.buttons \in Nat
  BY <1>3 DEF Frame
<1> QED
  BY <1>1, <1>2, <1>3, InputAssumption DEF Bumpers, Held, Grip, GripOf, Grips

(* Time alone can only end a grip. *)
LEMMA GripExpires ==
  ASSUME NEW joy, NEW age \in Age
  PROVE  GripOf(joy, Older(age)) \in {GripOf(joy, age), "idle"}
<1>1. age =< Older(age) /\ age \in Nat /\ Older(age) \in Nat /\ JoyTimeout \in Nat
  BY TimeAssumption DEF Age, AgeCap, Older
<1>2. ASSUME NEW b, NEW o, Grips(joy, Older(age), b, o) PROVE Grips(joy, age, b, o)
  BY <1>1, <1>2 DEF Grips
<1>3. ~(Grips(joy, age, LB, RB) /\ Grips(joy, Older(age), RB, LB))
  BY DEF Grips
<1> QED
  BY <1>2, <1>3 DEF GripOf

-----------------------------------------------------------------------------
(* The safety invariants of the timer.  StreamKept is not inductive: that   *)
(* every path publishes is.                                                 *)
Streaming == setpointAge = timerAge
SafetyInv == DeadMan /\ ManualNotStale /\ ConnectionHonest /\ Streaming

(* Ages grow together, so a difference between two of them never grows. *)
LEMMA OlderBound ==
  ASSUME NEW a \in Age, NEW b \in Nat, a =< b
  PROVE  Older(a) =< b + 1
BY TimeAssumption DEF Age, AgeCap, Older

(* The invariant holds at start: nothing moves and no one grips. *)
LEMMA InitSafety == Init => SafetyInv
BY TimeAssumption
   DEF Init, SafetyInv, DeadMan, ManualNotStale, ConnectionHonest, Disconnected, Streaming

(* The three subscription callbacks keep it. *)
LEMMA CallbackSafety ==
  ASSUME TypeOK, SafetyInv,
         \/ \E joy \in Frames : JoyCb(joy)
         \/ \E raw \in RawCommands : AutoCb(raw) \/ GamepadCb(raw)
  PROVE  SafetyInv'
<1> USE DEF SafetyInv, outputVars, Streaming
<1>1. ASSUME NEW joy \in Frames, JoyCb(joy) PROVE SafetyInv'
  <2>1. DeadMan'
    BY <1>1, TimeAssumption DEF JoyCb, DeadMan, Grip, TypeOK
  <2>2. ManualNotStale'
    BY <1>1 DEF JoyCb, ManualNotStale
  <2>3. ConnectionHonest'
    BY <1>1, InputAssumption, TimeAssumption DEF JoyCb, ConnectionHonest, TypeOK
  <2> QED
    BY <2>1, <2>2, <2>3, <1>1 DEF JoyCb
<1>2. ASSUME NEW raw \in RawCommands, AutoCb(raw) PROVE SafetyInv'
  BY <1>2 DEF AutoCb, DeadMan, Grip, ManualNotStale, ConnectionHonest, Disconnected
<1>3. ASSUME NEW raw \in RawCommands, GamepadCb(raw) PROVE SafetyInv'
  <2>1. ManualNotStale'
    BY <1>3, TimeAssumption DEF GamepadCb, ManualNotStale, TypeOK
  <2> QED
    BY <1>3, <2>1 DEF GamepadCb, DeadMan, Grip, ConnectionHonest, Disconnected
<1> QED
  BY <1>1, <1>2, <1>3

(* Every path through _publish keeps it. *)
LEMMA PublishSafety ==
  ASSUME TypeOK, SafetyInv, Publish
  PROVE  SafetyInv'
<1> USE DEF SafetyInv, Emit, Streaming
<1>1. JoyTimeout \in Nat /\ joyAge \in Nat /\ gamepadAge \in Nat
  BY TimeAssumption DEF TypeOK, Age, AgeCap
<1>2. CASE PublishDisconnected
  BY <1>2 DEF PublishDisconnected, DeadMan, ManualNotStale, ConnectionHonest,
              Disconnected
<1>3. CASE ~Disconnected
  <2>1. PublishWrongMode \/ PublishManual \/ PublishManualStale \/ PublishAuto \/ PublishIdle
    BY <1>3 DEF Publish, PublishDisconnected
  <2>2. /\ UNCHANGED inputVars /\ timerAge' = 0 /\ setpointAge' = 0
        /\ \/ setpoint' = Zero /\ via' = "idle"
           \/ Bumpers(TRUE, FALSE) /\ ManualFresh /\ via' = "manual"
           \/ Bumpers(FALSE, TRUE) /\ via' = "auto"
    BY <2>1 DEF PublishWrongMode, PublishManual, PublishManualStale, PublishAuto,
                PublishIdle
  <2>3. DeadMan'
    BY <2>2, BumpersShowGrip DEF DeadMan, inputVars, Grip
  <2>4. ManualNotStale'
    BY <1>1, <2>2 DEF ManualNotStale, ManualFresh, inputVars
  <2>5. ConnectionHonest'
    BY <1>1, <1>3, <2>2 DEF ConnectionHonest, Disconnected, inputVars
  <2> QED
    BY <2>2, <2>3, <2>4, <2>5
<1> QED
  BY <1>2, <1>3 DEF Publish, PublishWrongMode, PublishManual, PublishManualStale,
                    PublishAuto, PublishIdle, Bumpers

(* The passing of time keeps it. *)
LEMMA TickSafety ==
  ASSUME TypeOK, SafetyInv, Tick
  PROVE  SafetyInv'
<1> USE DEF SafetyInv, Streaming
<1>1. timerAge \in Nat /\ timerAge < MaxGap /\ JoyTimeout \in Nat /\ MaxGap \in Nat
  BY TimeAssumption DEF TypeOK, Tick
<1>2. DeadMan'
  BY <1>1, OlderBound DEF Tick, DeadMan, TypeOK, Grip
<1>3. ManualNotStale'
  BY <1>1, OlderBound DEF Tick, ManualNotStale, TypeOK
<1>4. Disconnected => Disconnected'
  BY TimeAssumption DEF Disconnected, Tick, Older, TypeOK, Age, AgeCap
<1>5. ConnectionHonest'
  BY <1>1, <1>4, OlderBound DEF Tick, ConnectionHonest, TypeOK
<1>6. Streaming'
  BY <1>1 DEF Tick, Older, AgeCap
<1> QED
  BY <1>2, <1>3, <1>5, <1>6

(* The inductive invariant holds in every reachable state of the mux. *)
THEOREM SafetyInvariant == Spec => []SafetyInv
<1>1. TypeOK /\ SafetyInv /\ [Next]_vars => SafetyInv'
  <2>1. CASE UNCHANGED vars
    BY <2>1 DEF vars, inputVars, outputVars, SafetyInv, DeadMan, ManualNotStale,
                ConnectionHonest, Disconnected, Streaming, Grip
  <2> QED
    BY <2>1, CallbackSafety, PublishSafety, TickSafety DEF Next
<1> QED
  BY <1>1, InitSafety, TypeCorrect, PTL DEF Spec

(* The vehicle moves only on the source the pilot grips, up to one firing. *)
THEOREM DeadManHolds == Spec => []DeadMan
BY SafetyInvariant, PTL DEF SafetyInv

(* Every manual setpoint was fresh when it was published. *)
THEOREM ManualFreshness == Spec => []ManualNotStale
BY SafetyInvariant, PTL DEF SafetyInv

(* _joy_connected tells the truth up to one firing. *)
THEOREM ConnectionHonesty == Spec => []ConnectionHonest
BY SafetyInvariant, PTL DEF SafetyInv

(* The setpoint stream never pauses longer than the timer. *)
THEOREM StreamIsKept == Spec => []StreamKept
<1>1. TypeOK /\ Streaming => StreamKept
  BY TimeAssumption DEF TypeOK, Streaming, StreamKept
<1> QED
  BY <1>1, SafetyInvariant, TypeCorrect, PTL DEF SafetyInv

-----------------------------------------------------------------------------
(* The mux implements the abstract dead-man switch. *)

(* Every step of the mux is a step of the switch, or a stutter. *)
LEMMA MuxSwitchStep ==
  ASSUME TypeOK, [Next]_vars
  PROVE  [Switch!Next]_(Switch!vars)
<1> USE DEF Switch!vars, inputVars, outputVars
<1>1. ASSUME NEW joy \in Frames, JoyCb(joy) PROVE Switch!Regrip \/ UNCHANGED Switch!vars
  <2>1. Grip' = GripOf(joy, 0) /\ UNCHANGED <<setpoint, via, timerAge>>
    BY <1>1 DEF JoyCb, Grip
  <2>2. gripAge' = IF Grip' = Grip THEN gripAge ELSE 0
    BY <1>1, <2>1 DEF JoyCb
  <2> QED
    BY <2>1, <2>2, GripType DEF Switch!Regrip
<1>2. ASSUME NEW raw \in RawCommands, AutoCb(raw) \/ GamepadCb(raw)
      PROVE UNCHANGED Switch!vars
  BY <1>2 DEF AutoCb, GamepadCb, Grip
<1>3. CASE Publish
  <2>1. /\ timerAge >= Period /\ timerAge' = 0 /\ UNCHANGED <<latestJoy, joyAge, gripAge>>
        /\ \/ setpoint' = Zero
           \/ Bumpers(TRUE, FALSE) /\ via' = "manual"
           \/ Bumpers(FALSE, TRUE) /\ via' = "auto"
    BY <1>3 DEF Publish, PublishDisconnected, PublishWrongMode, PublishManual,
                PublishManualStale, PublishAuto, PublishIdle, Emit, Bumpers, Due
  <2>2. Grip' = Grip
    BY <2>1 DEF Grip
  <2> QED
    BY <2>1, <2>2, BumpersShowGrip DEF Switch!Next, Switch!Sample
<1>4. CASE Tick
  <2>1. Grip' = GripOf(latestJoy, Older(joyAge)) /\ UNCHANGED <<setpoint, via>>
    BY <1>4 DEF Tick, Grip
  <2>2. Grip' \in {Grip, "idle"}
    BY <2>1, GripExpires DEF Grip, TypeOK
  <2>3. gripAge' = IF Grip' = Grip THEN Older(gripAge) ELSE 0
    BY <1>4, <2>1 DEF Tick
  <2> QED
    BY <1>4, <2>1, <2>2, <2>3 DEF Tick, Older, Switch!Next, Switch!Tick
<1>5. CASE UNCHANGED vars
  BY <1>5 DEF vars, Grip
<1> QED
  BY <1>1, <1>2, <1>3, <1>4, <1>5 DEF Next, Switch!Next

(* Every behaviour of the mux is one of the dead-man switch. *)
THEOREM MuxImplementsSwitch == Spec => ImplementsSwitch
<1>1. Init => Switch!Init
  BY DEF Init, Switch!Init, Grip, GripOf, Grips
<1> QED
  BY <1>1, MuxSwitchStep, TypeCorrect, PTL DEF Spec, Switch!Spec, ImplementsSwitch

(* What the dead-man switch is for, shown of the abstract specification: the
   vehicle stands still, follows the grip, or the grip changed since the last
   sample. *)
THEOREM SwitchObeyed == Switch!Spec => []Switch!Obeyed
<1> DEFINE Inv == Switch!Obeyed /\ timerAge \in Nat /\ gripAge \in Nat
<1> USE DEF Switch!Obeyed, Switch!vars
<1>1. Switch!Init => Inv
  BY DEF Switch!Init
<1>2. Inv /\ [Switch!Next]_(Switch!vars) => Inv'
  <2> SUFFICES ASSUME Inv, [Switch!Next]_(Switch!vars) PROVE Inv'
    OBVIOUS
  <2>1. CASE Switch!Regrip
    BY <2>1 DEF Switch!Regrip
  <2>2. CASE Switch!Sample
    BY <2>2 DEF Switch!Sample
  <2>3. CASE Switch!Tick
    BY <2>3, TimeAssumption DEF Switch!Tick, AgeCap
  <2>4. CASE UNCHANGED Switch!vars
    BY <2>4
  <2> QED
    BY <2>1, <2>2, <2>3, <2>4 DEF Switch!Next
<1> QED
  BY <1>1, <1>2, PTL DEF Switch!Spec
=============================================================================
