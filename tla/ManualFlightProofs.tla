------------------------- MODULE ManualFlightProofs -------------------------
(***************************************************************************)
(* The manual path, for any queues, delays, timeouts, controllers and       *)
(* positions of the sticks: how long the vehicle may go on after the pilot  *)
(* lets go.  Before that, what config/gamepad.yaml says of the dead zone,   *)
(* for every resolution and every dead zone below full deflection.          *)
(***************************************************************************)
EXTENDS ManualFlight, TLAPS

(* Below the dead zone the output is zero, and nowhere else but at its edge. *)
THEOREM DeadZoneZero ==
  ASSUME NEW v \in Position
  PROVE  DeadZone(v) = 0 <=> v =< DeadBand /\ -v =< DeadBand
BY GamepadAssumption DEF DeadZone, Position

(* The output stays in [-1, 1] and still reaches both ends of it. *)
THEOREM DeadZoneSpan ==
  /\ \A v \in Position : DeadZone(v) \in -Full .. Full
  /\ DeadZone(One) = Full
  /\ DeadZone(-One) = -Full
BY GamepadAssumption DEF DeadZone, Position, Full

(* Left and right are treated alike. *)
THEOREM DeadZoneOdd ==
  ASSUME NEW v \in Position
  PROVE  DeadZone(-v) = -DeadZone(v)
BY GamepadAssumption DEF DeadZone, Position

(* A stick pushed further never slows the vehicle down, and one step of the
   stick is at most one step of the output: there is no jump at the edge. *)
THEOREM DeadZoneSmooth ==
  ASSUME NEW v \in Position, v + 1 \in Position
  PROVE  DeadZone(v + 1) - DeadZone(v) \in {0, 1}
BY GamepadAssumption DEF DeadZone, Position

(* A normalized command is in the range the mux accepts unclamped. *)
THEOREM NormalizedRange ==
  ASSUME NEW held \in [Stick -> Position],
         NEW c \in {"linear.x", "linear.y", "linear.z", "angular.z"}
  PROVE  Normalized(held)[c] \in -Full .. Full
<1>1. \A s \in Stick : held[s] \in Position /\ -held[s] \in Position
  BY GamepadAssumption DEF Position
<1>2. \A v \in Position : DeadZone(v) \in -Full .. Full
  BY DeadZoneSpan
<1> QED
  BY <1>1, <1>2 DEF Normalized, Stick

-----------------------------------------------------------------------------
(* Queues. *)

Queue(q, M) == q \in Seq(M) /\ Len(q) =< QueueDepth

(* KEEP_LAST keeps the depth, and forgets or admits nothing else. *)
LEMMA PutQueue ==
  ASSUME NEW M, NEW q, Queue(q, M), NEW m \in M
  PROVE  Queue(Put(q, m), M)
<1>1. q \in Seq(M) /\ Len(q) \in Nat /\ QueueDepth \in Nat /\ QueueDepth > 0
  BY ManualAssumption DEF Queue
<1>2. CASE Len(q) < QueueDepth
  <2>1. Put(q, m) = Append(q, m)
    BY <1>2 DEF Put
  <2> QED
    BY <1>1, <1>2, <2>1 DEF Queue
<1>3. CASE ~(Len(q) < QueueDepth)
  <2>1. q # <<>>
    BY <1>1, <1>3
  <2>2. Put(q, m) = Append(Tail(q), m) /\ Tail(q) \in Seq(M) /\ Len(Tail(q)) = Len(q) - 1
    BY <1>1, <1>3, <2>1 DEF Put
  <2> QED
    BY <1>1, <2>2 DEF Queue
<1> QED
  BY <1>2, <1>3

(* Taking the oldest message. *)
LEMMA TakeQueue ==
  ASSUME NEW M, NEW q, Queue(q, M), q # <<>>
  PROVE  Head(q) \in M /\ Queue(Tail(q), M)
<1>1. q \in Seq(M) /\ Tail(q) \in Seq(M) /\ Len(Tail(q)) = Len(q) - 1 /\ Len(q) \in Nat
  BY DEF Queue
<1> QED
  BY <1>1, ManualAssumption DEF Queue

(* Messages that say less are still messages. *)
LEMMA WidenQueue ==
  ASSUME NEW M, NEW N, M \subseteq N, NEW q, Queue(q, M)
  PROVE  Queue(q, N)
BY DEF Queue

(* A tick makes every message one tick older. *)
LEMMA AgedQueue ==
  ASSUME NEW M, NEW N, NEW q, Queue(q, M),
         \A i \in DOMAIN q : [q[i] EXCEPT !.age = @ + 1] \in N
  PROVE  Queue(Aged(q), N)
<1>1. DOMAIN q = 1 .. Len(q) /\ Len(q) \in Nat
  BY DEF Queue
<1>2. Aged(q) \in Seq(N) /\ Len(Aged(q)) = Len(q)
  BY <1>1 DEF Aged
<1> QED
  BY <1>2 DEF Queue

LEMMA EmptyQueue == \A M : Queue(<<>>, M)
<1>1. QueueDepth \in Nat
  BY ManualAssumption
<1> QED
  BY <1>1 DEF Queue
-----------------------------------------------------------------------------
(* What the nodes are given, and what the mux makes of it. *)

Twist == {Normalized(s) : s \in Sticks}

LEMMA Numbers ==
  /\ MaxDelay \in Nat /\ JoyTimeout \in Nat /\ MaxGap \in Nat /\ QueueDepth \in Nat
  /\ JoyTimeout > 0 /\ MaxGap > 0 /\ QueueDepth > 0
  /\ Mux!AgeCap = JoyTimeout + MaxGap + 1 /\ Mux!AgeCap \in Nat
  /\ Mux!Age = 0 .. Mux!AgeCap
  /\ GripBound = MaxDelay + JoyTimeout + MaxGap /\ GripBound \in Nat
  /\ StickBound = MaxDelay + JoyTimeout + MaxGap + MaxDelay /\ StickBound \in Nat
BY ManualAssumption DEF Mux!AgeCap, Mux!Age, GripBound, StickBound

(* The components of a twist, by either name. *)
LEMMA Components == Mux!Component = {"linear.x", "linear.y", "linear.z", "angular.z"}
BY DEF Mux!Component

(* The frames joy_node may send. *)
Shows == {[buttons |-> p.buttons, axes |-> p.axes, pressed |-> b] : p \in Pads, b \in Presses}

LEMMA FrameType == Shows \subseteq Mux!Frame
<1>1. ASSUME NEW p \in Pads, NEW b \in Presses
      PROVE  [buttons |-> p.buttons, axes |-> p.axes, pressed |-> b] \in Mux!Frame
  BY ManualAssumption DEF Mux!Frame
<1> QED
  BY <1>1 DEF Shows

(* Clamping and scaling make a command, and nothing of nothing. *)
LEMMA ScaledTwist ==
  ASSUME NEW raw \in Twist
  PROVE  /\ Mux!Scaled(raw) \in Mux!Command
         /\ raw = Mux!Zero => Mux!Scaled(raw) = Mux!Zero
<1>1. Full \in Nat /\ NaN \notin Int
  BY GamepadAssumption, ManualAssumption DEF Full
<1>2. ASSUME NEW v \in Int
      PROVE  Mux!Clamp(v) \in Int /\ (v = 0 => Mux!Clamp(v) = 0)
  BY <1>1 DEF Mux!Clamp
<1>3. ASSUME NEW c \in Mux!Component
      PROVE  Mux!Limit[c] \in Nat
  BY ManualAssumption DEF Mux!Limit
<1>4. ASSUME NEW c \in Mux!Component
      PROVE  raw[c] \in Int
  <2>1. PICK s \in Sticks : raw = Normalized(s)
    BY DEF Twist
  <2>2. s \in [Stick -> Position]
    BY ManualAssumption
  <2>3. Normalized(s)[c] \in -Full .. Full
    BY <2>2, Components, NormalizedRange
  <2> QED
    BY <1>1, <2>1, <2>3
<1>5. ASSUME NEW c \in Mux!Component
      PROVE  Mux!Clamp(raw[c]) * Mux!Limit[c] \in Int
  BY <1>2, <1>3, <1>4
<1>6. Mux!Scaled(raw) \in Mux!Command
  BY <1>5 DEF Mux!Scaled, Mux!Command
<1>7. ASSUME raw = Mux!Zero
      PROVE  Mux!Scaled(raw) = Mux!Zero
  <2>1. ASSUME NEW c \in Mux!Component
        PROVE  Mux!Clamp(raw[c]) * Mux!Limit[c] = 0
    <3>1. raw[c] = 0
      BY <1>7 DEF Mux!Zero
    <3>2. Mux!Clamp(raw[c]) = 0
      BY <1>2, <3>1
    <3> QED
      BY <1>3, <3>2
  <2> QED
    BY <2>1 DEF Mux!Scaled, Mux!Zero
<1> QED
  BY <1>6, <1>7

-----------------------------------------------------------------------------
(* The steps of the mux that this composition takes. *)

LEMMA ZeroCommand == Mux!Zero \in Mux!Command
BY DEF Mux!Zero, Mux!Command

LEMMA AgeType ==
  /\ 0 \in Mux!Age /\ Mux!AgeCap \in Mux!Age
  /\ \A a \in Mux!Age : Mux!Older(a) \in Mux!Age
  /\ 0 \in 0 .. MaxGap
  /\ \A a \in 0 .. MaxGap : a < MaxGap => a + 1 \in 0 .. MaxGap
BY Numbers DEF Mux!Older

(* The timer copies the gamepad's command only while LB alone is gripped. *)
LEMMA BumpersShowGrip ==
  ASSUME Mux!TypeOK, Mux!Bumpers(TRUE, FALSE)
  PROVE  Mux!Grips(latestJoy, joyAge, LB, RB)
<1>1. latestJoy # None /\ latestJoy \in Mux!Frame /\ joyAge =< JoyTimeout
  BY Numbers DEF Mux!TypeOK, Mux!Bumpers, Mux!Disconnected
<1>2. latestJoy.buttons \in Nat
  BY <1>1 DEF Mux!Frame
<1>3. ExpButtons \in {None, latestJoy.buttons} /\ ExpAxes \in {None, latestJoy.axes}
  BY DEF Mux!Bumpers, Mux!WrongMode
<1> QED
  BY <1>1, <1>2, <1>3, ManualAssumption DEF Mux!Bumpers, Mux!Held, Mux!Grips

LEMMA PublishStep ==
  ASSUME Mux!TypeOK, autoCmd = Mux!Zero, Mux!Publish
  PROVE  /\ Mux!TypeOK'
         /\ UNCHANGED <<latestJoy, joyAge, autoCmd, gamepadCmd, gamepadAge>>
         /\ timerAge' = 0
         /\ setpoint' # Mux!Zero =>
              /\ setpoint' = gamepadCmd /\ gamepadAge =< JoyTimeout
              /\ Mux!Grips(latestJoy, joyAge, LB, RB)
<1> USE DEF Mux!Emit, Mux!inputVars
<1>1. /\ UNCHANGED <<latestJoy, joyAge, autoCmd, gamepadCmd, gamepadAge, autoAge, gripAge>>
      /\ timerAge' = 0 /\ setpointAge' = 0
      /\ joyConnected' \in BOOLEAN /\ warnedMode' \in BOOLEAN
      /\ via' \in Mux!Source
      /\ \/ setpoint' = Mux!Zero
         \/ setpoint' = autoCmd
         \/ setpoint' = gamepadCmd /\ Mux!ManualFresh /\ Mux!Bumpers(TRUE, FALSE)
  <2>1. joyConnected \in BOOLEAN /\ warnedMode \in BOOLEAN
    BY DEF Mux!TypeOK
  <2>2. CASE Mux!PublishDisconnected
    BY <2>1, <2>2 DEF Mux!PublishDisconnected, Mux!Source
  <2>3. CASE Mux!PublishWrongMode \/ Mux!PublishManualStale \/ Mux!PublishIdle
    BY <2>1, <2>3 DEF Mux!PublishWrongMode, Mux!PublishManualStale, Mux!PublishIdle, Mux!Source
  <2>4. CASE Mux!PublishManual \/ Mux!PublishAuto
    BY <2>1, <2>4 DEF Mux!PublishManual, Mux!PublishAuto, Mux!Source
  <2> QED
    BY <2>2, <2>3, <2>4 DEF Mux!Publish
<1>2. Mux!TypeOK'
  BY <1>1, ZeroCommand, AgeType DEF Mux!TypeOK
<1> QED
  BY <1>1, <1>2, BumpersShowGrip DEF Mux!ManualFresh

LEMMA JoyStep ==
  ASSUME Mux!TypeOK, NEW joy \in Mux!Frame, Mux!JoyCb(joy)
  PROVE  /\ Mux!TypeOK'
         /\ latestJoy' = joy /\ joyAge' = 0
         /\ UNCHANGED <<autoCmd, gamepadCmd, gamepadAge, setpoint, timerAge>>
BY AgeType DEF Mux!TypeOK, Mux!JoyCb, Mux!outputVars

LEMMA GamepadStep ==
  ASSUME Mux!TypeOK, NEW raw \in Twist, Mux!GamepadCb(raw)
  PROVE  /\ Mux!TypeOK'
         /\ gamepadCmd' = Mux!Scaled(raw) /\ gamepadAge' = 0
         /\ UNCHANGED <<latestJoy, joyAge, autoCmd, setpoint, timerAge>>
BY AgeType, ScaledTwist DEF Mux!TypeOK, Mux!GamepadCb, Mux!outputVars

LEMMA TickStep ==
  ASSUME Mux!TypeOK, Mux!Tick
  PROVE  /\ Mux!TypeOK'
         /\ joyAge' = Mux!Older(joyAge) /\ gamepadAge' = Mux!Older(gamepadAge)
         /\ timerAge' = timerAge + 1
         /\ UNCHANGED <<latestJoy, autoCmd, gamepadCmd, setpoint>>
BY AgeType DEF Mux!TypeOK, Mux!Tick

(* A mux that starts knows nothing. *)
LEMMA ForgetStep ==
  ASSUME MuxForgets
  PROVE  /\ Mux!TypeOK'
         /\ latestJoy' = None /\ joyAge' = Mux!AgeCap /\ gamepadCmd' = Mux!Zero
         /\ autoCmd' = Mux!Zero /\ setpoint' = Mux!Zero
BY AgeType, ZeroCommand DEF MuxForgets, Mux!TypeOK, Mux!Source

-----------------------------------------------------------------------------
(* The invariant.  Whatever still says that the pilot grips, or deflects a
   stick, has been on its way since he did: a message as long as it is old, and
   what came of a message one wait longer. *)

Recent(age) == Engaged \/ endedFor =< age

FrameMessage ==
  {m \in [frame : Shows, age : 0 .. MaxDelay] :
     timed = "grip" /\ Mux!Grips(m.frame, 0, LB, RB) => Recent(m.age)}
StickMessage ==
  {m \in [axes : Nat, sticks : Sticks, age : 0 .. MaxDelay] :
     timed = "stick" /\ Normalized(m.sticks) # Mux!Zero => Recent(m.age)}
CommandMessage ==
  {m \in [twist : Twist, age : 0 .. MaxDelay] :
     timed = "stick" /\ m.twist # Mux!Zero => Recent(m.age + MaxDelay)}

Types ==
  /\ Mux!TypeOK
  /\ bumpers \in Presses /\ sticks \in Sticks /\ pad \in Pads \union {None}
  /\ gamepadUp \in BOOLEAN /\ muxUp \in BOOLEAN
  /\ timed \in {"grip", "stick"}
  /\ endedFor \in 0 .. StickBound + 1

Queues ==
  /\ Queue(toMux, FrameMessage)
  /\ Queue(toGamepad, StickMessage)
  /\ Queue(commands, CommandMessage)

(* A mux that does not run has forgotten all, and nothing waits for it. *)
Down ==
  ~muxUp => /\ toMux = <<>> /\ commands = <<>>
            /\ latestJoy = None /\ gamepadCmd = Mux!Zero /\ setpoint = Mux!Zero

FrameEvidence ==
  timed = "grip" /\ Mux!Grips(latestJoy, joyAge, LB, RB) => Recent(joyAge + MaxDelay)
CommandEvidence ==
  timed = "stick" /\ gamepadCmd # Mux!Zero /\ gamepadAge =< JoyTimeout =>
    Recent(gamepadAge + MaxDelay + MaxDelay)
SetpointEvidence ==
  /\ autoCmd = Mux!Zero
  /\ setpoint # Mux!Zero => Recent(Bound - MaxGap + timerAge)

IInv == Types /\ Queues /\ Down /\ FrameEvidence /\ CommandEvidence /\ SetpointEvidence

LEMMA InitInv == Init => IInv
<1> SUFFICES ASSUME Init
             PROVE  IInv
  OBVIOUS
<1>1. Mux!Init /\ toMux = <<>> /\ toGamepad = <<>> /\ commands = <<>>
      /\ bumpers = {} /\ sticks = Neutral /\ pad = None /\ gamepadUp = TRUE /\ muxUp = TRUE
      /\ timed \in {"grip", "stick"} /\ endedFor = Bound + 1
  BY DEF Init
<1>2. Mux!TypeOK
  BY <1>1, AgeType, ZeroCommand DEF Mux!Init, Mux!TypeOK, Mux!Source
<1>3. Types
  <2>1. endedFor \in 0 .. StickBound + 1
    BY <1>1, Numbers DEF Bound
  <2>2. bumpers \in Presses /\ sticks \in Sticks /\ pad \in Pads \union {None}
    BY <1>1, ManualAssumption
  <2> QED
    BY <1>1, <1>2, <2>1, <2>2 DEF Types
<1>4. Queues
  BY <1>1, EmptyQueue DEF Queues
<1>5. Down /\ FrameEvidence /\ CommandEvidence /\ SetpointEvidence
  BY <1>1 DEF Mux!Init, Down, FrameEvidence, CommandEvidence, SetpointEvidence, Mux!Grips
<1> QED
  BY <1>3, <1>4, <1>5 DEF IInv

-----------------------------------------------------------------------------
(* What changes the present does not undo what was so a while ago. *)

Stays == timed' = timed /\ \A age \in Nat : Recent(age) => Recent(age)'

(* What the pilot and the controller do counts from now on. *)
LEMMA RememberStays ==
  ASSUME Types, Remember
  PROVE  Stays /\ endedFor' \in 0 .. StickBound + 1
<1>1. endedFor \in 0 .. StickBound + 1 /\ timed' = timed
  BY DEF Types, Remember
<1>2. CASE Engaged
  BY <1>1, <1>2, Numbers DEF Remember, Stays, Recent
<1>3. CASE ~Engaged
  BY <1>1, <1>3 DEF Remember, Stays, Recent
<1> QED
  BY <1>2, <1>3

(* The nodes change nothing of it. *)
LEMMA NodesStay ==
  ASSUME UNCHANGED <<pilotVars, historyVars>>
  PROVE  Stays /\ UNCHANGED <<bumpers, sticks, pad, timed, endedFor>>
BY DEF pilotVars, historyVars, Stays, Recent, Engaged, GripsManual, Deflected, Shown

LEMMA MessagesStay ==
  ASSUME Stays
  PROVE  /\ FrameMessage \subseteq FrameMessage'
         /\ StickMessage \subseteq StickMessage'
         /\ CommandMessage \subseteq CommandMessage'
<1>1. \A age \in 0 .. MaxDelay : age \in Nat /\ age + MaxDelay \in Nat
  BY Numbers
<1> QED
  BY <1>1 DEF Stays, FrameMessage, StickMessage, CommandMessage

(* Hence queues that do not change still hold what they held. *)
LEMMA QueuesStay ==
  ASSUME Queues, Stays
  PROVE  /\ Queue(toMux, FrameMessage')
         /\ Queue(toGamepad, StickMessage')
         /\ Queue(commands, CommandMessage')
BY MessagesStay, WidenQueue DEF Queues

(* And what the mux knows of it stays true if it keeps it. *)
LEMMA FrameStays ==
  ASSUME Types, FrameEvidence, Stays, UNCHANGED <<latestJoy, joyAge>>
  PROVE  FrameEvidence'
<1>1. joyAge + MaxDelay \in Nat
  BY Numbers DEF Types, Mux!TypeOK
<1> QED
  BY <1>1 DEF Stays, FrameEvidence, Recent

LEMMA CommandStays ==
  ASSUME Types, CommandEvidence, Stays, UNCHANGED <<gamepadCmd, gamepadAge>>
  PROVE  CommandEvidence'
<1>1. gamepadAge + MaxDelay + MaxDelay \in Nat
  BY Numbers DEF Types, Mux!TypeOK
<1> QED
  BY <1>1 DEF Stays, CommandEvidence, Recent

LEMMA SetpointStays ==
  ASSUME Types, SetpointEvidence, Stays, UNCHANGED <<autoCmd, setpoint, timerAge>>
  PROVE  SetpointEvidence'
<1>1. Bound - MaxGap + timerAge \in Nat /\ Bound' = Bound
  BY Numbers DEF Types, Mux!TypeOK, Bound, Stays
<1> QED
  BY <1>1 DEF Stays, SetpointEvidence, Recent

-----------------------------------------------------------------------------
(* One lemma per actor. *)

(* The pilot acts, the controller comes and goes, the gamepad node dies. *)
LEMMA WorldInv ==
  ASSUME IInv, PilotActs \/ PadChanges \/ GamepadDies
  PROVE  IInv'
<1> USE DEF IInv
<1>1. Remember /\ UNCHANGED <<muxVars, queueVars, muxUp>>
      /\ bumpers' \in Presses /\ sticks' \in Sticks /\ pad' \in Pads \union {None}
      /\ gamepadUp' \in BOOLEAN
  BY ManualAssumption
     DEF PilotActs, PadChanges, GamepadDies, processVars, pilotVars, Types
<1>2. Stays /\ endedFor' \in 0 .. StickBound + 1
  BY <1>1, RememberStays
<1>3. Types'
  BY <1>1, <1>2 DEF Types, Stays, muxVars, Mux!TypeOK
<1>4. Queues' /\ Down'
  BY <1>1, <1>2, QueuesStay DEF Queues, Queue, queueVars, Down, muxVars
<1>5. FrameEvidence' /\ CommandEvidence' /\ SetpointEvidence'
  BY <1>1, <1>2, FrameStays, CommandStays, SetpointStays DEF muxVars
<1> QED
  BY <1>3, <1>4, <1>5

(* A command is as good as the frame it was made from, which has waited. *)
LEMMA GamepadJoyInv ==
  ASSUME IInv, GamepadJoyCb
  PROVE  IInv'
<1> USE DEF IInv
<1>1. /\ UNCHANGED <<muxVars, pilotVars, gamepadUp, muxUp, toMux, historyVars>>
      /\ toGamepad # <<>> /\ toGamepad' = Tail(toGamepad)
  BY DEF GamepadJoyCb, processVars
<1>2. Stays /\ UNCHANGED <<bumpers, sticks, pad, timed, endedFor>>
  BY <1>1, NodesStay
<1> DEFINE m == Head(toGamepad)
           command == [twist |-> Normalized(m.sticks), age |-> 0]
<1>3. m \in StickMessage /\ Queue(toGamepad', StickMessage')
  BY <1>1, <1>2, TakeQueue, QueuesStay DEF Queues
<1>4. command \in CommandMessage'
  <2>1. m.sticks \in Sticks /\ m.age \in 0 .. MaxDelay
        /\ (timed = "stick" /\ Normalized(m.sticks) # Mux!Zero => Recent(m.age))
    BY <1>3 DEF StickMessage
  <2>2. Recent(m.age) => Recent(0 + MaxDelay)'
    BY <1>2, <2>1, Numbers DEF Stays, Recent, Types
  <2>3. command \in [twist : Twist, age : 0 .. MaxDelay]
    BY <2>1, Numbers DEF Twist
  <2> QED
    BY <1>2, <2>1, <2>2, <2>3 DEF CommandMessage
<1>5. /\ commands' = commands \/ commands' = Put(commands, command)
      /\ ~muxUp => commands' = commands
  BY DEF GamepadJoyCb
<1>6. Queue(commands', CommandMessage')
  <2>1. Queue(commands, CommandMessage')
    BY <1>2, QueuesStay
  <2> HIDE DEF command
  <2> QED
    BY <1>4, <1>5, <2>1, PutQueue
<1>7. Queues' /\ Down'
  BY <1>1, <1>2, <1>3, <1>5, <1>6, QueuesStay DEF Queues, Queue, Down, muxVars
<1>8. Types'
  BY <1>1, <1>2 DEF Types, muxVars, Mux!TypeOK
<1>9. FrameEvidence' /\ CommandEvidence' /\ SetpointEvidence'
  BY <1>1, <1>2, FrameStays, CommandStays, SetpointStays DEF muxVars
<1> QED
  BY <1>7, <1>8, <1>9

(* The mux takes a frame that has waited no longer than a message may. *)
LEMMA MuxJoyInv ==
  ASSUME IInv, MuxJoyCb
  PROVE  IInv'
<1> USE DEF IInv
<1>1. /\ UNCHANGED <<pilotVars, gamepadUp, muxUp, toGamepad, commands, historyVars>>
      /\ toMux # <<>> /\ toMux' = Tail(toMux) /\ Mux!JoyCb(Head(toMux).frame)
  BY DEF MuxJoyCb, processVars
<1>2. Stays /\ UNCHANGED <<bumpers, sticks, pad, timed, endedFor>>
  BY <1>1, NodesStay
<1>3. Head(toMux) \in FrameMessage /\ Queue(toMux', FrameMessage')
  BY <1>1, <1>2, TakeQueue, QueuesStay DEF Queues
<1>4. PICK m \in FrameMessage : Mux!JoyCb(m.frame)
  BY <1>1, <1>3
<1>5. m.frame \in Mux!Frame /\ m.age \in 0 .. MaxDelay
      /\ (timed = "grip" /\ Mux!Grips(m.frame, 0, LB, RB) => Recent(m.age))
  BY FrameType DEF FrameMessage
<1>6. /\ Mux!TypeOK'
      /\ latestJoy' = m.frame /\ joyAge' = 0
      /\ UNCHANGED <<autoCmd, gamepadCmd, gamepadAge, setpoint, timerAge>>
  BY <1>4, <1>5, JoyStep DEF Types
<1>7. Recent(m.age) => Recent(0 + MaxDelay)'
  BY <1>2, <1>5, Numbers DEF Stays, Recent, Types
<1>8. FrameEvidence'
  BY <1>2, <1>5, <1>6, <1>7 DEF FrameEvidence, Recent
<1>9. CommandEvidence' /\ SetpointEvidence'
  BY <1>2, <1>6, CommandStays, SetpointStays
<1>10. Types' /\ Queues' /\ Down'
  BY <1>1, <1>2, <1>3, <1>6, QueuesStay DEF Types, Queues, Queue, Down
<1> QED
  BY <1>8, <1>9, <1>10

(* And a command, likewise; a command to stand still is kept as one. *)
LEMMA MuxGamepadInv ==
  ASSUME IInv, MuxGamepadCb
  PROVE  IInv'
<1> USE DEF IInv
<1>1. /\ UNCHANGED <<pilotVars, gamepadUp, muxUp, toMux, toGamepad, historyVars>>
      /\ commands # <<>> /\ commands' = Tail(commands) /\ Mux!GamepadCb(Head(commands).twist)
  BY DEF MuxGamepadCb, processVars
<1>2. Stays /\ UNCHANGED <<bumpers, sticks, pad, timed, endedFor>>
  BY <1>1, NodesStay
<1>3. Head(commands) \in CommandMessage /\ Queue(commands', CommandMessage')
  BY <1>1, <1>2, TakeQueue, QueuesStay DEF Queues
<1>4. PICK m \in CommandMessage : Mux!GamepadCb(m.twist)
  BY <1>1, <1>3
<1>5. m.twist \in Twist /\ m.age \in 0 .. MaxDelay
      /\ (timed = "stick" /\ m.twist # Mux!Zero => Recent(m.age + MaxDelay))
  BY DEF CommandMessage
<1>6. /\ Mux!TypeOK'
      /\ gamepadCmd' = Mux!Scaled(m.twist) /\ gamepadAge' = 0
      /\ UNCHANGED <<latestJoy, joyAge, autoCmd, setpoint, timerAge>>
  BY <1>4, <1>5, GamepadStep DEF Types
<1>7. gamepadCmd' # Mux!Zero => m.twist # Mux!Zero
  BY <1>5, <1>6, ScaledTwist
<1>8. Recent(m.age + MaxDelay) => Recent(0 + MaxDelay + MaxDelay)'
  BY <1>2, <1>5, Numbers DEF Stays, Recent, Types
<1>9. CommandEvidence'
  BY <1>2, <1>5, <1>6, <1>7, <1>8 DEF CommandEvidence, Recent
<1>10. FrameEvidence' /\ SetpointEvidence'
  BY <1>2, <1>6, FrameStays, SetpointStays
<1>11. Types' /\ Queues' /\ Down'
  BY <1>1, <1>2, <1>3, <1>6, QueuesStay DEF Types, Queues, Queue, Down
<1> QED
  BY <1>9, <1>10, <1>11

(* What is published moves the vehicle only on a frame that showed the grip and a
   command that was not neutral, neither older than the timeout. *)
LEMMA MuxPublishInv ==
  ASSUME IInv, MuxPublish
  PROVE  IInv'
<1> USE DEF IInv
<1>1. muxUp /\ Mux!Publish /\ UNCHANGED <<pilotVars, gamepadUp, muxUp, queueVars, historyVars>>
  BY DEF MuxPublish, processVars
<1>2. Stays /\ UNCHANGED <<bumpers, sticks, pad, timed, endedFor>>
  BY <1>1, NodesStay
<1>3. /\ Mux!TypeOK'
      /\ UNCHANGED <<latestJoy, joyAge, autoCmd, gamepadCmd, gamepadAge>>
      /\ timerAge' = 0
      /\ setpoint' # Mux!Zero =>
           /\ setpoint' = gamepadCmd /\ gamepadAge =< JoyTimeout
           /\ Mux!Grips(latestJoy, joyAge, LB, RB)
  BY <1>1, PublishStep DEF Types, SetpointEvidence
<1>4. ASSUME setpoint' # Mux!Zero
      PROVE  Recent(Bound - MaxGap)
  <2>1. joyAge \in Nat /\ gamepadAge \in Nat /\ joyAge =< JoyTimeout /\ endedFor \in Nat
    BY <1>3, <1>4, Numbers DEF Types, Mux!TypeOK, Mux!Grips
  <2>2. CASE timed = "grip"
    <3>1. Recent(joyAge + MaxDelay) /\ Bound - MaxGap = JoyTimeout + MaxDelay
      BY <1>3, <1>4, <2>2, Numbers DEF FrameEvidence, Bound
    <3> QED
      BY <2>1, <3>1, Numbers DEF Recent
  <2>3. CASE timed = "stick"
    <3>1. /\ Recent(gamepadAge + MaxDelay + MaxDelay) /\ gamepadAge =< JoyTimeout
          /\ Bound - MaxGap = JoyTimeout + MaxDelay + MaxDelay
      BY <1>3, <1>4, <2>3, Numbers DEF CommandEvidence, Bound
    <3> QED
      BY <2>1, <3>1, Numbers DEF Recent
  <2> QED
    BY <2>2, <2>3 DEF Types
<1>5. SetpointEvidence'
  <2>1. Bound - MaxGap \in Nat /\ Bound' = Bound
    BY <1>2, Numbers DEF Types, Bound
  <2>2. setpoint' # Mux!Zero => (Engaged' \/ endedFor' =< Bound - MaxGap)
    BY <1>2, <1>4, <2>1 DEF Stays, Recent
  <2>3. Bound' - MaxGap + timerAge' = Bound - MaxGap
    BY <1>3, <2>1, Numbers
  <2>4. autoCmd' = Mux!Zero
    BY <1>3 DEF SetpointEvidence
  <2> QED
    BY <2>2, <2>3, <2>4 DEF SetpointEvidence, Recent
<1>6. FrameEvidence' /\ CommandEvidence'
  BY <1>2, <1>3, FrameStays, CommandStays
<1>7. Types' /\ Queues' /\ Down'
  BY <1>1, <1>2, <1>3, QueuesStay DEF Types, Queues, Queue, queueVars, Down
<1> QED
  BY <1>5, <1>6, <1>7

(* A mux that dies takes what it knew with it; the next one starts without. *)
LEMMA MuxProcessInv ==
  ASSUME IInv, MuxDies \/ MuxRestarts
  PROVE  IInv'
<1> USE DEF IInv
<1>1. UNCHANGED <<pilotVars, historyVars, gamepadUp, toGamepad>> /\ muxUp' \in BOOLEAN
  BY DEF MuxDies, MuxRestarts, queueVars
<1>2. Stays /\ UNCHANGED <<bumpers, sticks, pad, timed, endedFor>>
  BY <1>1, NodesStay
<1>3. CASE MuxDies
  <2>1. /\ MuxForgets /\ toMux' = <<>> /\ commands' = <<>>
    BY <1>3 DEF MuxDies
  <2>2. /\ Mux!TypeOK' /\ latestJoy' = None /\ gamepadCmd' = Mux!Zero
        /\ autoCmd' = Mux!Zero /\ setpoint' = Mux!Zero
    BY <2>1, ForgetStep
  <2>3. Types'
    BY <1>1, <1>2, <2>2 DEF Types
  <2>4. Queues' /\ Down'
    BY <1>1, <1>2, <2>1, <2>2, EmptyQueue, QueuesStay DEF Queues, Queue, Down
  <2>5. FrameEvidence' /\ CommandEvidence' /\ SetpointEvidence'
    BY <2>2 DEF FrameEvidence, CommandEvidence, SetpointEvidence, Mux!Grips
  <2> QED
    BY <2>3, <2>4, <2>5
<1>4. CASE MuxRestarts
  <2>1. muxUp' = TRUE /\ UNCHANGED <<muxVars, queueVars>>
    BY <1>4 DEF MuxRestarts
  <2>2. Types'
    BY <1>1, <1>2, <2>1 DEF Types, muxVars, Mux!TypeOK
  <2>3. Queues' /\ Down'
    BY <1>2, <2>1, QueuesStay DEF Queues, Queue, queueVars, Down
  <2>4. FrameEvidence' /\ CommandEvidence' /\ SetpointEvidence'
    BY <1>2, <2>1, FrameStays, CommandStays, SetpointStays DEF muxVars
  <2> QED
    BY <2>2, <2>3, <2>4
<1> QED
  BY <1>3, <1>4

-----------------------------------------------------------------------------
(* The passing of time: what was so is so one tick longer ago, and who grips or
   deflects does it now. *)

Ages ==
  /\ timed' = timed
  /\ Engaged => Recent(0)'
  /\ \A age \in Nat : Recent(age) => Recent(age + 1)'

LEMMA TickAges ==
  ASSUME Types, Tick
  PROVE  Ages /\ endedFor' \in 0 .. StickBound + 1
<1>1. /\ UNCHANGED <<bumpers, sticks, pad, timed>>
      /\ endedFor' = IF Engaged THEN 0 ELSE Later(endedFor)
  BY DEF Tick, pilotVars
<1>2. endedFor \in Nat /\ endedFor \in 0 .. StickBound + 1
      /\ Bound \in Nat /\ Bound =< StickBound
  BY Numbers DEF Types, Bound
<1>3. Later(endedFor) \in 0 .. StickBound + 1 /\ Later(endedFor) =< endedFor + 1
  BY <1>2, Numbers DEF Later
<1>4. \A age \in Nat : Recent(age) => endedFor' =< age + 1
  BY <1>1, <1>2, <1>3 DEF Recent
<1>5. Engaged => endedFor' = 0
  BY <1>1
<1>6. endedFor' \in 0 .. StickBound + 1
  BY <1>1, <1>3, Numbers
<1> QED
  BY <1>1, <1>4, <1>5, <1>6 DEF Ages, Recent

LEMMA MessagesAge ==
  ASSUME Ages
  PROVE  /\ \A m \in FrameMessage :
              m.age < MaxDelay => [m EXCEPT !.age = @ + 1] \in FrameMessage'
         /\ \A m \in StickMessage :
              m.age < MaxDelay => [m EXCEPT !.age = @ + 1] \in StickMessage'
         /\ \A m \in CommandMessage :
              m.age < MaxDelay => [m EXCEPT !.age = @ + 1] \in CommandMessage'
<1> USE DEF Ages
<1>1. \A age \in 0 .. MaxDelay : /\ age \in Nat /\ age + MaxDelay \in Nat
                                 /\ (age + 1) + MaxDelay = (age + MaxDelay) + 1
                                 /\ age < MaxDelay => age + 1 \in 0 .. MaxDelay
  BY Numbers
<1>2. ASSUME NEW m \in FrameMessage, m.age < MaxDelay
      PROVE  [m EXCEPT !.age = @ + 1] \in FrameMessage'
  <2>1. m \in [frame : Shows, age : 0 .. MaxDelay]
        /\ (timed = "grip" /\ Mux!Grips(m.frame, 0, LB, RB) => Recent(m.age))
    BY DEF FrameMessage
  <2> DEFINE n == [m EXCEPT !.age = @ + 1]
  <2>2. n \in [frame : Shows, age : 0 .. MaxDelay] /\ n.age = m.age + 1 /\ n.frame = m.frame
    BY <1>1, <1>2, <2>1
  <2>3. Recent(m.age) => Recent(m.age + 1)'
    BY <1>1, <2>1
  <2> HIDE DEF n
  <2>4. n \in FrameMessage'
    BY <2>1, <2>2, <2>3 DEF FrameMessage, Recent
  <2> QED
    BY <2>4 DEF n
<1>3. ASSUME NEW m \in StickMessage, m.age < MaxDelay
      PROVE  [m EXCEPT !.age = @ + 1] \in StickMessage'
  <2>1. m \in [axes : Nat, sticks : Sticks, age : 0 .. MaxDelay]
        /\ (timed = "stick" /\ Normalized(m.sticks) # Mux!Zero => Recent(m.age))
    BY DEF StickMessage
  <2> DEFINE n == [m EXCEPT !.age = @ + 1]
  <2>2. n \in [axes : Nat, sticks : Sticks, age : 0 .. MaxDelay]
        /\ n.age = m.age + 1 /\ n.sticks = m.sticks
    BY <1>1, <1>3, <2>1
  <2>3. Recent(m.age) => Recent(m.age + 1)'
    BY <1>1, <2>1
  <2> HIDE DEF n
  <2>4. n \in StickMessage'
    BY <2>1, <2>2, <2>3 DEF StickMessage, Recent
  <2> QED
    BY <2>4 DEF n
<1>4. ASSUME NEW m \in CommandMessage, m.age < MaxDelay
      PROVE  [m EXCEPT !.age = @ + 1] \in CommandMessage'
  <2>1. m \in [twist : Twist, age : 0 .. MaxDelay]
        /\ (timed = "stick" /\ m.twist # Mux!Zero => Recent(m.age + MaxDelay))
    BY DEF CommandMessage
  <2> DEFINE n == [m EXCEPT !.age = @ + 1]
  <2>2. n \in [twist : Twist, age : 0 .. MaxDelay] /\ n.age = m.age + 1 /\ n.twist = m.twist
    BY <1>1, <1>4, <2>1
  <2>3. Recent(m.age + MaxDelay) => Recent((m.age + 1) + MaxDelay)'
    BY <1>1, <2>1
  <2> HIDE DEF n
  <2>4. n \in CommandMessage'
    BY <2>1, <2>2, <2>3 DEF CommandMessage, Recent
  <2> QED
    BY <2>4 DEF n
<1> QED
  BY <1>2, <1>3, <1>4

(* What joy_node repeats is what the pilot does now. *)
LEMMA RepeatedNow ==
  ASSUME Types, Ages, pad # None
  PROVE  ForMux \in FrameMessage' /\ ForGamepad \in StickMessage'
<1>1. pad \in Pads /\ bumpers \in Presses /\ sticks \in Sticks /\ pad.axes \in Nat
  BY ManualAssumption DEF Types
<1>2. Shown \in Shows /\ 0 \in 0 .. MaxDelay
  BY <1>1, Numbers DEF Shown, Shows
<1>3. timed = "grip" /\ Mux!Grips(Shown, 0, LB, RB) => Recent(0)'
  BY DEF Ages, Engaged, GripsManual
<1>4. timed = "stick" /\ Normalized(sticks) # Mux!Zero => Recent(0)'
  BY DEF Ages, Engaged, Deflected
<1>5. ForMux \in FrameMessage'
  <2>1. ForMux \in [frame : Shows, age : 0 .. MaxDelay]
        /\ ForMux.frame = Shown /\ ForMux.age = 0
    BY <1>2 DEF ForMux
  <2> QED
    BY <1>3, <2>1 DEF Ages, FrameMessage, Recent
<1>6. ForGamepad \in StickMessage'
  <2>1. ForGamepad \in [axes : Nat, sticks : Sticks, age : 0 .. MaxDelay]
        /\ ForGamepad.sticks = sticks /\ ForGamepad.age = 0
    BY <1>1, <1>2 DEF ForGamepad
  <2> QED
    BY <1>4, <2>1 DEF Ages, StickMessage, Recent
<1> QED
  BY <1>5, <1>6

(* Every queue is aged, and joy_node adds to its two; a dead node gets nothing. *)
LEMMA TickQueues ==
  ASSUME Types, Queues, Ages, Tick
  PROVE  Queues'
<1>2. Queue(Aged(toMux), FrameMessage') /\ Queue(Aged(commands), CommandMessage')
  <2>1. ASSUME NEW i \in DOMAIN toMux
        PROVE  [toMux[i] EXCEPT !.age = @ + 1] \in FrameMessage'
    <3>1. toMux[i] \in FrameMessage /\ toMux[i].age < MaxDelay
      BY <2>1 DEF Queues, Queue, Tick
    <3> QED
      BY <3>1, MessagesAge
  <2>2. ASSUME NEW i \in DOMAIN commands
        PROVE  [commands[i] EXCEPT !.age = @ + 1] \in CommandMessage'
    <3>1. commands[i] \in CommandMessage /\ commands[i].age < MaxDelay
      BY <2>2 DEF Queues, Queue, Tick
    <3> QED
      BY <3>1, MessagesAge
  <2> QED
    BY <2>1, <2>2, AgedQueue DEF Queues
<1>3. ASSUME gamepadUp
      PROVE  Queue(Aged(toGamepad), StickMessage')
  <2>1. ASSUME NEW i \in DOMAIN toGamepad
        PROVE  [toGamepad[i] EXCEPT !.age = @ + 1] \in StickMessage'
    <3>1. toGamepad[i] \in StickMessage /\ toGamepad[i].age < MaxDelay
      BY <1>3, <2>1 DEF Queues, Queue, Tick
    <3> QED
      BY <3>1, MessagesAge
  <2> QED
    BY <2>1, AgedQueue DEF Queues
<1>4. /\ toMux' = IF muxUp THEN Repeat(Aged(toMux), ForMux) ELSE <<>>
      /\ toGamepad' = IF gamepadUp THEN Repeat(Aged(toGamepad), ForGamepad) ELSE <<>>
      /\ commands' = Aged(commands)
  BY DEF Tick
<1>5. Queue(toMux', FrameMessage')
  <2>1. CASE ~muxUp
    BY <1>4, <2>1, EmptyQueue
  <2>2. CASE muxUp /\ pad = None
    BY <1>2, <1>4, <2>2 DEF Repeat
  <2>3. CASE muxUp /\ pad # None
    <3>1. toMux' = Put(Aged(toMux), ForMux)
      BY <1>4, <2>3 DEF Repeat
    <3> QED
      BY <1>2, <2>3, <3>1, RepeatedNow, PutQueue
  <2> QED
    BY <2>1, <2>2, <2>3
<1>6. Queue(toGamepad', StickMessage')
  <2>1. CASE ~gamepadUp
    BY <1>4, <2>1, EmptyQueue
  <2>2. CASE gamepadUp /\ pad = None
    BY <1>3, <1>4, <2>2 DEF Repeat
  <2>3. CASE gamepadUp /\ pad # None
    <3>1. toGamepad' = Put(Aged(toGamepad), ForGamepad)
      BY <1>4, <2>3 DEF Repeat
    <3> QED
      BY <1>3, <2>3, <3>1, RepeatedNow, PutQueue
  <2> QED
    BY <2>1, <2>2, <2>3
<1> QED
  BY <1>2, <1>4, <1>5, <1>6 DEF Queues, Queue

(* Below the cap an age grows by one, and at the cap nothing is fresh. *)
LEMMA FreshAge ==
  ASSUME NEW age \in Mux!Age, Mux!Older(age) =< JoyTimeout
  PROVE  Mux!Older(age) = age + 1 /\ age =< JoyTimeout /\ age \in Nat
BY Numbers DEF Mux!Older

LEMMA TickInv ==
  ASSUME IInv, Tick
  PROVE  IInv'
<1> USE DEF IInv
<1>1. Ages /\ endedFor' \in 0 .. StickBound + 1
  BY TickAges
<1>2. /\ UNCHANGED <<bumpers, sticks, pad, timed, gamepadUp, muxUp>>
      /\ IF muxUp THEN Mux!Tick ELSE UNCHANGED muxVars
  BY DEF Tick, pilotVars, processVars
<1>3. Queues'
  BY <1>1, TickQueues
<1>4. CASE muxUp
  <2>1. /\ Mux!TypeOK'
        /\ joyAge' = Mux!Older(joyAge) /\ gamepadAge' = Mux!Older(gamepadAge)
        /\ timerAge' = timerAge + 1
        /\ UNCHANGED <<latestJoy, autoCmd, gamepadCmd, setpoint>>
    BY <1>2, <1>4, TickStep DEF Types
  <2>2. joyAge \in Mux!Age /\ gamepadAge \in Mux!Age /\ timerAge \in Nat
    BY DEF Types, Mux!TypeOK
  <2>3. Types' /\ Down'
    BY <1>1, <1>2, <1>4, <2>1 DEF Types, Down
  <2>4. FrameEvidence'
    <3> SUFFICES ASSUME timed' = "grip", Mux!Grips(latestJoy', joyAge', LB, RB)
                 PROVE  Engaged' \/ endedFor' =< joyAge' + MaxDelay
      BY DEF FrameEvidence, Recent
    <3>1. joyAge' = joyAge + 1 /\ joyAge =< JoyTimeout /\ joyAge \in Nat
      BY <2>1, <2>2, FreshAge DEF Mux!Grips
    <3> DEFINE age == joyAge + MaxDelay
    <3>2. age \in Nat /\ joyAge' + MaxDelay = age + 1
      BY <3>1, Numbers
    <3>3. Recent(age)
      BY <1>2, <2>1, <3>1 DEF FrameEvidence, Mux!Grips
    <3>4. Engaged' \/ endedFor' =< age + 1
      <4> HIDE DEF age
      <4> QED
        BY <1>1, <3>2, <3>3 DEF Ages, Recent
    <3> QED
      BY <3>2, <3>4
  <2>5. CommandEvidence'
    <3> SUFFICES ASSUME timed' = "stick", gamepadCmd' # Mux!Zero, gamepadAge' =< JoyTimeout
                 PROVE  Engaged' \/ endedFor' =< gamepadAge' + MaxDelay + MaxDelay
      BY DEF CommandEvidence, Recent
    <3>1. gamepadAge' = gamepadAge + 1 /\ gamepadAge =< JoyTimeout /\ gamepadAge \in Nat
      BY <2>1, <2>2, FreshAge
    <3> DEFINE age == gamepadAge + MaxDelay + MaxDelay
    <3>2. age \in Nat /\ gamepadAge' + MaxDelay + MaxDelay = age + 1
      BY <3>1, Numbers
    <3>3. Recent(age)
      BY <1>2, <2>1, <3>1 DEF CommandEvidence
    <3>4. Engaged' \/ endedFor' =< age + 1
      <4> HIDE DEF age
      <4> QED
        BY <1>1, <3>2, <3>3 DEF Ages, Recent
    <3> QED
      BY <3>2, <3>4
  <2>6. SetpointEvidence'
    <3>1. autoCmd' = Mux!Zero
      BY <2>1 DEF SetpointEvidence
    <3>2. ASSUME setpoint' # Mux!Zero
          PROVE  Engaged' \/ endedFor' =< Bound' - MaxGap + timerAge'
      <4> DEFINE age == Bound - MaxGap + timerAge
      <4>1. age \in Nat /\ Bound' - MaxGap + timerAge' = age + 1
        <5>1. Bound' = Bound /\ Bound - MaxGap \in Nat
          BY <1>2, Numbers DEF Types, Bound
        <5>2. Bound \in Int /\ MaxGap \in Int
          BY Numbers DEF Types, Bound
        <5> QED
          BY <2>1, <2>2, <5>1, <5>2
      <4>2. Recent(age)
        BY <2>1, <3>2 DEF SetpointEvidence
      <4>3. Engaged' \/ endedFor' =< age + 1
        <5> HIDE DEF age
        <5> QED
          BY <1>1, <4>1, <4>2 DEF Ages, Recent
      <4> QED
        BY <4>1, <4>3
    <3> QED
      BY <3>1, <3>2 DEF SetpointEvidence, Recent
  <2> QED
    BY <1>3, <2>3, <2>4, <2>5, <2>6
<1>5. CASE ~muxUp
  <2>1. UNCHANGED muxVars /\ latestJoy = None /\ gamepadCmd = Mux!Zero /\ setpoint = Mux!Zero
        /\ toMux = <<>> /\ commands = <<>>
    BY <1>2, <1>5 DEF Down
  <2>2. toMux' = <<>> /\ commands' = <<>>
    BY <1>5, <2>1 DEF Tick, Aged
  <2>3. Types'
    BY <1>1, <1>2, <2>1 DEF Types, muxVars, Mux!TypeOK
  <2>4. Down' /\ FrameEvidence' /\ CommandEvidence' /\ SetpointEvidence'
    BY <2>1, <2>2 DEF Down, FrameEvidence, CommandEvidence, SetpointEvidence, Mux!Grips, muxVars
  <2> QED
    BY <1>3, <2>3, <2>4
<1> QED
  BY <1>4, <1>5

(* Nothing happens. *)
LEMMA StutterInv ==
  ASSUME IInv, UNCHANGED vars
  PROVE  IInv'
<1>1. UNCHANGED <<muxVars, pilotVars, historyVars, processVars, queueVars>>
  BY DEF vars
<1>2. Stays /\ UNCHANGED <<bumpers, sticks, pad, timed, endedFor>>
  BY <1>1, NodesStay
<1>3. Types' /\ Queues' /\ Down'
  BY <1>1, <1>2, QueuesStay
     DEF IInv, Types, muxVars, Mux!TypeOK, Queues, Queue, Down, processVars, queueVars
<1>4. FrameEvidence' /\ CommandEvidence' /\ SetpointEvidence'
  BY <1>1, <1>2, FrameStays, CommandStays, SetpointStays DEF IInv, muxVars
<1> QED
  BY <1>3, <1>4 DEF IInv

(* The evidence of the pilot's hands is sound in every reachable state. *)
THEOREM ManualInvariant == Spec => []IInv
<1>1. IInv /\ [Next]_vars => IInv'
  BY WorldInv, GamepadJoyInv, MuxJoyInv, MuxGamepadInv, MuxPublishInv, MuxProcessInv,
     TickInv, StutterInv DEF Next
<1> QED
  BY <1>1, InitInv, PTL DEF Spec

(* Every variable keeps its type; no queue exceeds its depth, however slow its
   reader, and no message overstays in it. *)
THEOREM ManualTypeCorrect == Spec => []TypeOK
<1>1. ASSUME NEW M, NEW q, Queue(q, M), \A m \in M : m.age \in 0 .. MaxDelay
      PROVE  Len(q) =< QueueDepth /\ \A i \in DOMAIN q : q[i].age \in 0 .. MaxDelay
  BY <1>1 DEF Queue
<1>2. \A m \in FrameMessage \union StickMessage \union CommandMessage : m.age \in 0 .. MaxDelay
  BY DEF FrameMessage, StickMessage, CommandMessage
<1>3. IInv => TypeOK
  BY <1>1, <1>2 DEF IInv, Types, Queues, Down, TypeOK
<1> QED
  BY <1>3, ManualInvariant, PTL

(* The setpoint follows the bumper: it is zero, or the pilot grips LB alone, or
   did so no longer ago than the queue, the timeout and the timer account for. *)
THEOREM BumperObeyed == Spec => []EndToEndDeadMan
<1>1. IInv => EndToEndDeadMan
  <2> SUFFICES ASSUME IInv, setpoint # Mux!Zero, timed = "grip"
               PROVE  GripsManual \/ endedFor =< GripBound
    BY DEF EndToEndDeadMan
  <2>1. timerAge \in 0 .. MaxGap /\ endedFor \in Nat
    BY Numbers DEF IInv, Types, Mux!TypeOK
  <2>2. Recent(Bound - MaxGap + timerAge) /\ Bound = GripBound
    BY DEF IInv, SetpointEvidence, Bound
  <2> QED
    BY <2>1, <2>2, Numbers DEF Recent, Engaged
<1> QED
  BY <1>1, ManualInvariant, PTL

(* And the stick, through two queues. *)
THEOREM StickObeyed == Spec => []EndToEndStick
<1>1. IInv => EndToEndStick
  <2> SUFFICES ASSUME IInv, setpoint # Mux!Zero, timed = "stick"
               PROVE  Deflected \/ endedFor =< StickBound
    BY DEF EndToEndStick
  <2>1. timerAge \in 0 .. MaxGap /\ endedFor \in Nat
    BY Numbers DEF IInv, Types, Mux!TypeOK
  <2>2. Recent(Bound - MaxGap + timerAge) /\ Bound = StickBound
    BY DEF IInv, SetpointEvidence, Bound
  <2> QED
    BY <2>1, <2>2, Numbers DEF Recent, Engaged
<1> QED
  BY <1>1, ManualInvariant, PTL

-----------------------------------------------------------------------------
(* Inside the composition the mux is the component VelocityMux: but for crashes,
   after which it starts anew, every step of the path is a step of it or leaves
   it alone.  What VelocityMuxProofs shows of a run of the mux holds of each. *)
THEOREM MuxInside == Spec => Mux!Init /\ [][Mux!Next \/ MuxForgets]_muxVars
<1>1. Init => Mux!Init
  BY DEF Init
<1>2. ASSUME IInv, [Next]_vars
      PROVE  Mux!Next \/ MuxForgets \/ UNCHANGED muxVars
  <2>1. CASE PilotActs \/ PadChanges \/ GamepadDies \/ GamepadJoyCb \/ MuxRestarts
    BY <2>1 DEF PilotActs, PadChanges, GamepadDies, GamepadJoyCb, MuxRestarts
  <2>2. CASE MuxJoyCb
    <3>1. Head(toMux) \in FrameMessage /\ Mux!JoyCb(Head(toMux).frame)
      BY <1>2, <2>2, TakeQueue DEF MuxJoyCb, IInv, Queues
    <3>2. Head(toMux).frame \in Shows
      BY <3>1 DEF FrameMessage
    <3>3. \E joy \in Shows : Mux!JoyCb(joy)
      BY <3>1, <3>2
    <3> QED
      BY <3>3 DEF Mux!Next, Shows
  <2>3. CASE MuxGamepadCb
    <3>1. Head(commands) \in CommandMessage /\ Mux!GamepadCb(Head(commands).twist)
      BY <1>2, <2>3, TakeQueue DEF MuxGamepadCb, IInv, Queues
    <3>2. Head(commands).twist \in Twist
      BY <3>1 DEF CommandMessage
    <3> QED
      BY <3>1, <3>2 DEF Mux!Next, Twist
  <2>4. CASE MuxPublish
    BY <2>4 DEF MuxPublish, Mux!Next
  <2>5. CASE MuxDies
    BY <2>5 DEF MuxDies
  <2>6. CASE Tick
    BY <2>6 DEF Tick, Mux!Next
  <2>7. CASE UNCHANGED vars
    BY <2>7 DEF vars
  <2> QED
    BY <1>2, <2>1, <2>2, <2>3, <2>4, <2>5, <2>6, <2>7 DEF Next
<1> QED
  BY <1>1, <1>2, ManualInvariant, PTL DEF Spec
=============================================================================
