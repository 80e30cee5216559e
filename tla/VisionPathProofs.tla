-------------------------- MODULE VisionPathProofs --------------------------
(***************************************************************************)
(* The vision path, for any images, models, delays and periods: what the    *)
(* diagnostics are evidence of, that the rotation is right, which           *)
(* detections the loop over the scores keeps, and what can end the node.    *)
(***************************************************************************)
EXTENDS VisionPath, FiniteSetTheorems, WellFoundedInduction, TLAPS

-----------------------------------------------------------------------------
(* Arithmetic of positions in a buffer. *)

(* Quotient and remainder are unique. *)
LEMMA Split ==
  ASSUME NEW q \in Nat, NEW d \in Nat \ {0}, NEW r \in 0 .. d - 1
  PROVE  (q * d + r) \div d = q /\ (q * d + r) % d = r
OBVIOUS

(* A position in a row is within the row. *)
LEMMA Within ==
  ASSUME NEW w \in Nat, NEW d \in Nat \ {0}, NEW q \in 0 .. w - 1, NEW r \in 0 .. d - 1
  PROVE  q * d + r \in 0 .. w * d - 1
<1>1. (q + 1) * d =< w * d
  OBVIOUS
<1>2. (q + 1) * d = q * d + d
  OBVIOUS
<1>3. q * d \in Nat /\ w * d \in Nat
  OBVIOUS
<1> QED
  BY <1>1, <1>2, <1>3

-----------------------------------------------------------------------------
(* The rotation. *)

(* Whether and where the rotation fetches a byte from. *)
LEMMA RotatedByte ==
  ASSUME NEW s \in Shapes, NEW bpp, s.width # 0, s.step % s.width = 0,
         bpp = s.step \div s.width, NEW k \in 0 .. s.height * s.step - 1
  PROVE  Rotate180(Taken(s)).data[k] =
           Taken(s).data[(s.height - 1 - (k \div s.step)) * s.step
                           + (s.width - 1 - ((k % s.step) \div bpp)) * bpp + (k % bpp)]
BY VisionAssumption DEF Rotate180, Taken

LEMMA RotatedShape ==
  ASSUME NEW s \in Shapes
  PROVE  Rotate180(Taken(s)).shape = s /\ Taken(s).shape = s
BY DEF Rotate180, Taken

(* In an image of packed rows every pixel comes from the opposite one, its bytes
   in order. *)
LEMMA RotatedUpright ==
  ASSUME NEW s \in Shapes, s.step = s.width * s.pixel,
         NEW row \in 0 .. s.height - 1, NEW col \in 0 .. s.width - 1,
         NEW b \in 0 .. s.pixel - 1
  PROVE  Rotate180(Taken(s)).data[row * s.step + col * s.pixel + b] =
           (s.height - 1 - row) * s.step + (s.width - 1 - col) * s.pixel + b
<1> DEFINE h == s.height
           w == s.width
           d == s.pixel
           step == s.step
<1>1. h \in Nat /\ w \in Nat \ {0} /\ d \in Nat \ {0} /\ step = w * d
  BY VisionAssumption
<1>2. row \in 0 .. h - 1 /\ col \in 0 .. w - 1 /\ b \in 0 .. d - 1
  OBVIOUS
<1> DEFINE k == row * step + col * d + b
           r == col * d + b
           back == (w - 1 - col) * d + b
<1>3. /\ Rotate180(Taken(s)).data[k] = Taken(s).data[(h - 1 - row) * step + back]
      /\ (h - 1 - row) * step + back \in 0 .. h * step - 1
  <2>1. step \in Nat \ {0}
    <3> HIDE DEF h, w, d, step
    <3> QED
      BY <1>1
  <2>2. step % w = 0 /\ step \div w = d
    <3> HIDE DEF h, w, d, step
    <3>1. step = d * w + 0 /\ 0 \in 0 .. w - 1
      BY <1>1
    <3> QED
      BY <1>1, <3>1, Split
  <2>3. r \in 0 .. step - 1 /\ back \in 0 .. step - 1
    <3> HIDE DEF h, w, d, step
    <3>1. w - 1 - col \in 0 .. w - 1
      BY <1>1, <1>2
    <3> QED
      BY <1>1, <1>2, <3>1, Within
  <2>4. k = row * step + r /\ k = (row * w + col) * d + b
    <3> HIDE DEF h, w, d, step
    <3> QED
      BY <1>1, <1>2
  <2>5. k \div step = row /\ k % step = r
    <3> HIDE DEF h, w, d, step, k, r
    <3>1. row \in Nat
      BY <1>1, <1>2
    <3>2. (row * step + r) \div step = row /\ (row * step + r) % step = r
      BY <2>1, <2>3, <3>1, Split
    <3> QED
      BY <2>4, <3>2
  <2>6. r \div d = col
    <3> HIDE DEF h, w, d, step
    <3>1. col \in Nat
      BY <1>1, <1>2
    <3> QED
      BY <1>1, <1>2, <3>1, Split
  <2>7. k % d = b
    <3> HIDE DEF h, w, d, step, k
    <3>1. row * w + col \in Nat
      BY <1>1, <1>2
    <3>2. ((row * w + col) * d + b) % d = b
      BY <1>1, <1>2, <3>1, Split
    <3> QED
      BY <2>4, <3>2
  <2>8. k \in 0 .. h * step - 1 /\ (h - 1 - row) * step + back \in 0 .. h * step - 1
    <3> HIDE DEF h, w, d, step, k, r, back
    <3>1. h - 1 - row \in 0 .. h - 1
      BY <1>1, <1>2
    <3> QED
      BY <1>1, <1>2, <2>1, <2>3, <2>4, <3>1, Within
  <2>9. Rotate180(Taken(s)).data[k] =
          Taken(s).data[(h - 1 - (k \div step)) * step
                          + (w - 1 - ((k % step) \div d)) * d + (k % d)]
    <3> HIDE DEF k
    <3> QED
      BY <1>1, <2>2, <2>8, RotatedByte
  <2> QED
    <3>1. (h - 1 - (k \div step)) * step + (w - 1 - ((k % step) \div d)) * d + (k % d)
            = (h - 1 - row) * step + back
      <4>1. (h - 1 - (k \div step)) * step + (w - 1 - ((k % step) \div d)) * d + (k % d)
              = (h - 1 - row) * step + (w - 1 - col) * d + b
        <5> HIDE DEF h, w, d, step, k, r
        <5> QED
          BY <2>5, <2>6, <2>7
      <4>2. (h - 1 - row) * step + (w - 1 - col) * d + b = (h - 1 - row) * step + back
        <5> HIDE DEF h, w, d, step
        <5> QED
          BY <1>1, <1>2, <2>1
      <4> QED
        BY <4>1, <4>2
    <3> QED
      BY <2>8, <2>9, <3>1
<1>4. Taken(s).data[(h - 1 - row) * step + back] = (h - 1 - row) * step + back
  BY <1>3 DEF Taken
<1>5. (h - 1 - row) * step + back = (h - 1 - row) * step + (w - 1 - col) * d + b
  <2> HIDE DEF h, w, d, step
  <2> QED
    BY <1>1, <1>2
<1> QED
  BY <1>3, <1>4, <1>5

-----------------------------------------------------------------------------
(* The invariant. *)

Handed == {IF Flip THEN Rotate180(Taken(s)) ELSE Taken(s) : s \in Shapes}
Waiting == [image : Handed, age : 0 .. MaxDelay]

Types ==
  /\ toNode \in Seq(Waiting)
  /\ lastImage \in Age \union {None}
  /\ tpuOk \in BOOLEAN /\ failing \in BOOLEAN
  /\ diagAge \in 0 .. MaxGap
  /\ report \in {"none", "ok", "warn", "error"}
  /\ dark \in Age /\ verdictAge \in Age

(* The relay was alive when an image that waits, or was the last, left it. *)
Evidence ==
  /\ \A i \in DOMAIN toNode : dark =< toNode[i].age
  /\ lastImage # None => dark =< lastImage + MaxDelay

IInv == Types /\ Evidence /\ tpuOk = ~failing /\ OkHonest /\ ErrorShown

LEMMA Numbers ==
  /\ Depth \in Nat /\ Depth > 0
  /\ MaxDelay \in Nat /\ ImageTimeout \in Nat /\ Period \in Nat /\ MaxGap \in Nat
  /\ AgeCap = MaxDelay + ImageTimeout + MaxGap + 1 /\ AgeCap \in Nat
  /\ Age = 0 .. AgeCap /\ None \notin Nat
BY VisionAssumption DEF AgeCap, Age

(* Time caps an age, and never brings it below what it was. *)
LEMMA OlderAge ==
  ASSUME NEW a \in Age
  PROVE  /\ Older(a) \in Age /\ Older(a) =< a + 1 /\ a =< Older(a)
         /\ Older(a) = a + 1 \/ Older(a) = AgeCap
BY Numbers DEF Older

LEMMA InitInv == Init => IInv
<1> SUFFICES ASSUME Init
             PROVE  IInv
  OBVIOUS
<1>1. toNode = <<>> /\ lastImage = None /\ dark = AgeCap /\ verdictAge = AgeCap
      /\ tpuOk = TRUE /\ failing = FALSE /\ diagAge = 0 /\ report = "none"
  BY DEF Init
<1>2. Types
  <2>1. AgeCap \in Age /\ 0 \in 0 .. MaxGap
    BY Numbers
  <2>2. <<>> \in Seq(Waiting)
    OBVIOUS
  <2> QED
    BY <1>1, <2>1, <2>2 DEF Types
<1>3. Evidence /\ OkHonest /\ ErrorShown
  BY <1>1 DEF Evidence, OkHonest, ErrorShown
<1> QED
  BY <1>1, <1>2, <1>3 DEF IInv

(* Of an image that waits only the age is counted. *)
LEMMA WaitingAge ==
  ASSUME NEW w \in Waiting
  PROVE  /\ w.age \in 0 .. MaxDelay /\ w.age \in Nat
         /\ [w EXCEPT !.age = @ + 1].age = w.age + 1
         /\ w.age < MaxDelay => [w EXCEPT !.age = @ + 1] \in Waiting
BY Numbers DEF Waiting

-----------------------------------------------------------------------------
(* The relay. *)

(* Putting an image in the queue keeps the type of the queue. *)
LEMMA PutType ==
  ASSUME NEW q \in Seq(Waiting), NEW image, [image |-> image, age |-> 0] \in Waiting
  PROVE  Put(q, image) \in Seq(Waiting)
<1>1. ASSUME NEW r \in Seq(Waiting)
      PROVE  Append(r, [image |-> image, age |-> 0]) \in Seq(Waiting)
  OBVIOUS
<1>2. CASE Len(q) < Depth
  BY <1>1, <1>2 DEF Put
<1>3. CASE ~(Len(q) < Depth)
  <2>1. q # <<>>
    BY <1>3, Numbers
  <2>2. Tail(q) \in Seq(Waiting)
    BY <2>1
  <2> QED
    BY <1>1, <1>3, <2>2 DEF Put
<1> QED
  BY <1>2, <1>3

LEMMA RelayInv ==
  ASSUME IInv, NEW s \in Shapes, Relay(s)
  PROVE  IInv'
<1> USE DEF IInv, configVars, nodeVars, diagVars, historyVars
<1> DEFINE image == IF Flip THEN Rotate180(Taken(s)) ELSE Taken(s)
<1>1. [image |-> image, age |-> 0] \in Waiting
  BY Numbers DEF Waiting, Handed
<1>2. toNode' = toNode \/ toNode' = Put(toNode, image)
  BY DEF Relay
<1>3. toNode' \in Seq(Waiting)
  <2> HIDE DEF image
  <2> QED
    BY <1>1, <1>2, PutType DEF Types
<1>4. \A i \in DOMAIN toNode' : toNode'[i].age \in Nat
  <2> SUFFICES ASSUME NEW i \in DOMAIN toNode'
               PROVE  toNode'[i].age \in Nat
    OBVIOUS
  <2>1. toNode'[i] \in Waiting
    BY <1>3
  <2> QED
    BY <2>1, WaitingAge
<1>5. dark' = 0 /\ UNCHANGED <<node, lastImage, tpuOk, failing, verdictAge, diagAge, report>>
  BY DEF Relay
<1>6. Types' /\ Evidence'
  BY <1>3, <1>4, <1>5, Numbers DEF Types, Evidence
<1>7. OkHonest' /\ ErrorShown'
  BY <1>5, Numbers DEF OkHonest, ErrorShown, Types
<1> QED
  BY <1>5, <1>6, <1>7

-----------------------------------------------------------------------------
(* The image callback. *)

(* An image that is taken from the queue is recent evidence. *)
LEMMA CalledFacts ==
  ASSUME IInv, Called
  PROVE  lastImage' = 0 /\ dark =< MaxDelay
<1> USE DEF IInv
<1>1. toNode \in Seq(Waiting) /\ toNode # <<>> /\ lastImage' = 0
  BY DEF Called, Types
<1>2. dark =< toNode[1].age /\ toNode[1].age \in 0 .. MaxDelay
  <2>1. 1 \in DOMAIN toNode /\ toNode[1] \in Waiting
    BY <1>1
  <2> QED
    BY <2>1, WaitingAge DEF Evidence
<1> QED
  BY <1>1, <1>2, Numbers DEF Types

LEMMA ReceivedFacts ==
  ASSUME IInv, Received, dark' = dark
  PROVE  /\ toNode' \in Seq(Waiting) /\ lastImage' = 0
         /\ Evidence'
<1> USE DEF IInv
<1>1. toNode \in Seq(Waiting) /\ toNode # <<>> /\ toNode' = Tail(toNode) /\ lastImage' = 0
  BY DEF Received, Called, Types
<1>2. toNode' \in Seq(Waiting)
  BY <1>1
<1>3. \A i \in DOMAIN toNode' : i + 1 \in DOMAIN toNode /\ toNode'[i] = toNode[i + 1]
  BY <1>1
<1>4. dark' =< lastImage' + MaxDelay
  BY CalledFacts, Numbers DEF Received, Types
<1> QED
  BY <1>1, <1>2, <1>3, <1>4 DEF Evidence

(* What the outcome of an inference does to the flag. *)
LEMMA VerdictFacts ==
  ASSUME IInv, NEW ok \in BOOLEAN, Verdict(ok)
  PROVE  /\ tpuOk' = ok /\ failing' = ~ok
         /\ verdictAge' \in Age
         /\ (failing' = failing /\ verdictAge' = verdictAge) \/ verdictAge' = 0
BY Numbers DEF IInv, Types, Verdict, Outcome

LEMMA ImageCbInv ==
  ASSUME IInv, ImageCb
  PROVE  IInv'
<1> USE DEF IInv, inputVars, configVars, historyVars, diagVars
<1>1. CASE ConversionFails
  <2>1. UNCHANGED <<dark, node, tpuOk, failing, verdictAge, diagAge, report>> /\ Received
    BY <1>1 DEF ConversionFails
  <2>2. toNode' \in Seq(Waiting) /\ lastImage' = 0 /\ Evidence'
    BY <2>1, ReceivedFacts
  <2> QED
    BY <2>1, <2>2, Numbers DEF Types, OkHonest, ErrorShown
<1>2. ASSUME NEW ok \in BOOLEAN, Received, Verdict(ok),
             UNCHANGED <<dark, node, diagAge, report>>
      PROVE  IInv'
  <2>1. toNode' \in Seq(Waiting) /\ lastImage' = 0 /\ Evidence'
    BY <1>2, ReceivedFacts
  <2>2. /\ tpuOk' = ok /\ failing' = ~ok /\ verdictAge' \in Age
        /\ (failing' = failing /\ verdictAge' = verdictAge) \/ verdictAge' = 0
    BY <1>2, VerdictFacts
  <2>3. Types'
    BY <1>2, <2>1, <2>2, Numbers DEF Types
  <2>4. OkHonest'
    BY <1>2 DEF OkHonest
  <2>5. ErrorShown'
    BY <1>2, <2>2, Numbers DEF ErrorShown, Types
  <2> QED
    BY <2>1, <2>2, <2>3, <2>4, <2>5
<1>3. CASE InferenceFails
  BY <1>2, <1>3 DEF InferenceFails
<1>4. CASE Infer
  BY <1>2, <1>4 DEF Infer
<1>5. CASE Detect
  BY <1>5 DEF Detect, Types, Evidence, OkHonest, ErrorShown
<1>6. CASE Die
  <2>1. node' = "died" /\ toNode' = <<>>
        /\ UNCHANGED <<dark, lastImage, tpuOk, failing, verdictAge, diagAge, report>>
    BY <1>6 DEF Die, Ends
  <2> QED
    BY <2>1 DEF Types, Evidence, OkHonest, ErrorShown
<1>7. CASE ResizeFails
  <2>1. /\ node' = "died" /\ toNode' = <<>> /\ lastImage' = 0 /\ dark =< MaxDelay
        /\ UNCHANGED <<dark, tpuOk, failing, verdictAge, diagAge, report>>
    BY <1>7, CalledFacts DEF ResizeFails, Ends
  <2> QED
    BY <2>1, Numbers DEF Types, Evidence, OkHonest, ErrorShown
<1> QED
  BY <1>1, <1>3, <1>4, <1>5, <1>6, <1>7 DEF ImageCb

-----------------------------------------------------------------------------
(* Diagnostics and time. *)

LEMMA PublishInv ==
  ASSUME IInv, PublishDiagnostics
  PROVE  IInv'
<1> USE DEF IInv, inputVars, configVars, nodeVars, historyVars
<1>1. report' = Level /\ diagAge' = 0
      /\ UNCHANGED <<toNode, dark, node, lastImage, tpuOk, failing, verdictAge>>
  BY DEF PublishDiagnostics
<1>2. Types' /\ Evidence'
  BY <1>1, Numbers DEF Types, Evidence, Level
<1>3. Level = "ok" => lastImage # None /\ lastImage =< ImageTimeout
  BY Numbers DEF Level, Types
<1>4. OkHonest'
  BY <1>1, <1>3, Numbers DEF OkHonest, Evidence, Types
<1>5. ErrorShown'
  <2>1. Level = "error" <=> ~tpuOk
    BY DEF Level
  <2> QED
    BY <1>1, <2>1 DEF ErrorShown, Types
<1> QED
  BY <1>1, <1>2, <1>4, <1>5

LEMMA TickInv ==
  ASSUME IInv, Tick
  PROVE  IInv'
<1> USE DEF IInv, configVars
<1>1. /\ dark' = Older(dark) /\ verdictAge' = Older(verdictAge)
      /\ lastImage' = IF lastImage = None THEN None ELSE Older(lastImage)
      /\ UNCHANGED <<node, tpuOk, failing, report>>
  BY DEF Tick
<1>2. /\ dark' \in Age /\ dark' =< dark + 1
      /\ verdictAge' \in Age /\ verdictAge' =< verdictAge + 1
  BY <1>1, OlderAge DEF Types
<1>3. diagAge' \in 0 .. MaxGap /\ (node = "up" => diagAge' = diagAge + 1)
  BY Numbers DEF Tick, Types
<1>4. \A i \in DOMAIN toNode' :
        /\ i \in DOMAIN toNode
        /\ toNode'[i] = [toNode[i] EXCEPT !.age = @ + 1] /\ toNode[i].age < MaxDelay
  BY DEF Tick
<1>5. \A i \in DOMAIN toNode' : toNode'[i] \in Waiting /\ toNode'[i].age = toNode[i].age + 1
  <2> SUFFICES ASSUME NEW i \in DOMAIN toNode'
               PROVE  toNode'[i] \in Waiting /\ toNode'[i].age = toNode[i].age + 1
    OBVIOUS
  <2>1. toNode[i] \in Waiting
    BY <1>4 DEF Types
  <2> QED
    BY <1>4, <2>1, WaitingAge
<1>6. toNode' \in Seq(Waiting)
  <2>1. DOMAIN toNode' = 1 .. Len(toNode) /\ Len(toNode) \in Nat
    BY DEF Tick, Types
  <2>2. toNode' = [i \in 1 .. Len(toNode) |-> toNode'[i]]
    BY <2>1 DEF Tick
  <2> QED
    BY <1>5, <2>1, <2>2
<1>7. Evidence'
  <2>1. \A i \in DOMAIN toNode' : dark' =< toNode'[i].age
    <3> SUFFICES ASSUME NEW i \in DOMAIN toNode'
                 PROVE  dark' =< toNode'[i].age
      OBVIOUS
    <3>1. dark =< toNode[i].age /\ toNode[i].age \in Nat
      <4>1. i \in DOMAIN toNode /\ toNode[i] \in Waiting
        BY <1>4 DEF Types
      <4> QED
        BY <4>1, WaitingAge DEF Evidence
    <3> QED
      BY <1>2, <1>5, <3>1, Numbers DEF Types
  <2>2. lastImage' # None => dark' =< lastImage' + MaxDelay
    <3> SUFFICES ASSUME lastImage' # None
                 PROVE  dark' =< lastImage' + MaxDelay
      OBVIOUS
    <3>1. lastImage \in Age /\ lastImage' = Older(lastImage) /\ dark =< lastImage + MaxDelay
      BY <1>1 DEF Types, Evidence
    <3> QED
      <4>1. lastImage' = lastImage + 1 \/ lastImage' = AgeCap
        BY <3>1, OlderAge
      <4>2. dark \in Nat /\ dark' \in 0 .. AgeCap /\ lastImage \in Nat
        BY <1>2, <3>1, Numbers DEF Types
      <4> QED
        BY <1>2, <3>1, <4>1, <4>2, Numbers
  <2> QED
    BY <2>1, <2>2 DEF Evidence
<1>8. lastImage' \in Age \union {None}
  BY <1>1, OlderAge DEF Types
<1>9. Types'
  BY <1>1, <1>2, <1>3, <1>6, <1>8 DEF Types
<1>10. OkHonest' /\ ErrorShown'
  BY <1>1, <1>2, <1>3, Numbers DEF OkHonest, ErrorShown, Types
<1> QED
  BY <1>1, <1>7, <1>9, <1>10

LEMMA NextInv == IInv /\ [Next]_vars => IInv'
<1> SUFFICES ASSUME IInv, [Next]_vars
             PROVE  IInv'
  OBVIOUS
<1>1. CASE RelayDies
  BY <1>1 DEF RelayDies, configVars, nodeVars, historyVars, diagVars,
              IInv, Types, Evidence, OkHonest, ErrorShown
<1>2. CASE UNCHANGED vars
  BY <1>2 DEF vars, inputVars, configVars, nodeVars, historyVars, diagVars,
              IInv, Types, Evidence, OkHonest, ErrorShown
<1> QED
  BY <1>1, <1>2, RelayInv, ImageCbInv, PublishInv, TickInv DEF Next

(* The invariant holds in every reachable state. *)
THEOREM VisionInvariant == Spec => []IInv
BY InitInv, NextInv, PTL DEF Spec

(* "Running" is evidence that images came, for any delays, timeout and period. *)
THEOREM OkIsHonest == Spec => []OkHonest
<1>1. IInv => OkHonest
  BY DEF IInv
<1> QED
  BY <1>1, VisionInvariant, PTL

(* ERROR is on display if and only if the last inference failed, but for what
   happened since the report. *)
THEOREM ErrorIsShown == Spec => []ErrorShown
<1>1. IInv => ErrorShown
  BY DEF IInv
<1> QED
  BY <1>1, VisionInvariant, PTL

(* Every packed image the relay hands on is upright, whatever its size and
   however many bytes its pixels have. *)
THEOREM ImagesUpright == Spec => []Upright
<1>1. IInv => Upright
  <2> SUFFICES ASSUME IInv, NEW i \in DOMAIN toNode, Flip
               PROVE  LET s == toNode[i].image.shape
                      IN s.step = s.width * s.pixel =>
                           \A row \in 0 .. s.height - 1, col \in 0 .. s.width - 1,
                              b \in 0 .. s.pixel - 1 :
                             toNode[i].image.data[row * s.step + col * s.pixel + b] =
                               (s.height - 1 - row) * s.step
                                 + (s.width - 1 - col) * s.pixel + b
    BY DEF Upright
  <2>1. toNode[i] \in Waiting
    BY DEF IInv, Types
  <2>2. PICK s \in Shapes : toNode[i].image = Rotate180(Taken(s))
    BY <2>1 DEF Waiting, Handed
  <2>3. toNode[i].image.shape = s
    BY <2>2, RotatedShape
  <2> QED
    BY <2>2, <2>3, RotatedUpright
<1> QED
  BY <1>1, VisionInvariant, PTL

-----------------------------------------------------------------------------
(* Numbers have a least in every set of them, which is all that induction needs. *)
LEMMA LeastNumber ==
  ASSUME NEW T \in SUBSET Nat, T # {}
  PROVE  \E n \in T : \A m \in T : n =< m
<1>1. IsWellFoundedOn(OpToRel(<, Nat), Nat)
  BY NatLessThanWellFounded
<1>2. PICK n \in T : \A m \in T : <<m, n>> \notin OpToRel(<, Nat)
  BY <1>1, WFMin
<1>3. \A m \in T : ~(m < n)
  BY <1>2 DEF OpToRel
<1> QED
  BY <1>3

(* A set of numbers that has 0, and with a number its successor, up to n. *)
LEMMA Induction ==
  ASSUME NEW n \in Nat, NEW S, 0 \in S, \A i \in 1 .. n : i - 1 \in S => i \in S
  PROVE  0 .. n \subseteq S
<1> SUFFICES ASSUME {i \in 0 .. n : i \notin S} # {}
             PROVE  FALSE
  OBVIOUS
<1>1. PICK i \in {j \in 0 .. n : j \notin S} : \A j \in 0 .. n : j \notin S => i =< j
  <2> DEFINE T == {j \in 0 .. n : j \notin S}
  <2>1. T \in SUBSET Nat /\ T # {}
    OBVIOUS
  <2>2. \E i \in T : \A m \in T : i =< m
    <3> HIDE DEF T
    <3> QED
      BY <2>1, LeastNumber
  <2> QED
    BY <2>2
<1>2. i # 0 /\ i \in 1 .. n /\ i - 1 \in 0 .. n
  BY <1>1
<1>3. i - 1 \in S
  BY <1>1, <1>2
<1> QED
  BY <1>1, <1>2, <1>3

-----------------------------------------------------------------------------
(* The loop over the scores: what it has kept after the first i of them. *)
After(t, kept, i) ==
  IF i = 0 THEN <<>>
  ELSE IF i > t.count \/ t.scores[i] < Threshold
            \/ Len(kept[i - 1]) >= (IF maxDetections > 0 THEN maxDetections ELSE t.count)
       THEN kept[i - 1] ELSE Append(kept[i - 1], i)
Loop(t, kept, n) == kept = [i \in 0 .. n |-> After(t, kept, i)]

LEMMA LoopExists ==
  ASSUME NEW t, NEW n \in Nat
  PROVE  \E kept : Loop(t, kept, n)
<1> DEFINE S == {i \in 0 .. n : \E kept : Loop(t, kept, i)}
<1>1. 0 \in S
  <2>1. Loop(t, [i \in 0 .. 0 |-> <<>>], 0)
    BY DEF Loop, After
  <2> QED
    BY <2>1
<1>2. ASSUME NEW i \in 1 .. n, i - 1 \in S
      PROVE  i \in S
  <2>1. PICK kept : Loop(t, kept, i - 1)
    BY <1>2
  <2> DEFINE more == [j \in 0 .. i |-> IF j = i THEN After(t, kept, i) ELSE kept[j]]
  <2>2. \A j \in 0 .. i - 1 : more[j] = kept[j] /\ kept[j] = After(t, kept, j)
    BY <2>1 DEF Loop
  <2>3. ASSUME NEW j \in 0 .. i
        PROVE  After(t, more, j) = After(t, kept, j)
    <3>1. j # 0 => more[j - 1] = kept[j - 1]
      BY <2>2
    <3> HIDE DEF more
    <3> QED
      BY <3>1 DEF After
  <2>4. \A j \in 0 .. i : more[j] = After(t, more, j)
    BY <2>2, <2>3
  <2>5. Loop(t, more, i)
    <3>1. more = [j \in 0 .. i |-> more[j]]
      OBVIOUS
    <3> HIDE DEF more
    <3> QED
      BY <2>4, <3>1 DEF Loop
  <2> QED
    BY <2>5
<1>3. 0 .. n \subseteq S
  <2> HIDE DEF S
  <2> QED
    BY <1>1, <1>2, Induction
<1> QED
  BY <1>3

LEMMA KeptLoop ==
  ASSUME NEW t, NEW n \in Nat, Len(t.scores) = n
  PROVE  \E kept : Loop(t, kept, n) /\ Kept(t) = kept[n]
<1> DEFINE kept == CHOOSE k : Loop(t, k, n)
<1>1. Loop(t, kept, n)
  BY LoopExists
<1>2. Kept(t) = kept[n]
  BY DEF Kept, Loop, After
<1> QED
  BY <1>1, <1>2

(* The hits among the first i. *)
LEMMA HitsFinite ==
  ASSUME NEW t, NEW i \in Nat
  PROVE  /\ IsFiniteSet(Hits(t, i)) /\ Cardinality(Hits(t, i)) \in 0 .. i
         /\ Hits(t, i) \subseteq 1 .. i
<1>1. Hits(t, i) \subseteq 1 .. i
  BY DEF Hits
<1>2. IsFiniteSet(1 .. i) /\ Cardinality(1 .. i) = i
  BY FS_Interval
<1>3. IsFiniteSet(Hits(t, i)) /\ Cardinality(Hits(t, i)) =< i
  BY <1>1, <1>2, FS_Subset
<1>4. Cardinality(Hits(t, i)) \in Nat
  BY <1>3, FS_CardinalityType
<1> QED
  BY <1>1, <1>3, <1>4

LEMMA HitsNext ==
  ASSUME NEW t, NEW i \in Nat \ {0}
  PROVE  LET hit == i =< t.count /\ t.scores[i] >= Threshold
         IN /\ Hits(t, i) = IF hit THEN Hits(t, i - 1) \union {i} ELSE Hits(t, i - 1)
            /\ Cardinality(Hits(t, i)) =
                 IF hit THEN Cardinality(Hits(t, i - 1)) + 1 ELSE Cardinality(Hits(t, i - 1))
<1>1. i - 1 \in Nat
  OBVIOUS
<1>2. IsFiniteSet(Hits(t, i - 1)) /\ i \notin Hits(t, i - 1)
  BY <1>1, HitsFinite
<1>3. Hits(t, i) = IF i =< t.count /\ t.scores[i] >= Threshold
                   THEN Hits(t, i - 1) \union {i} ELSE Hits(t, i - 1)
  BY DEF Hits
<1>4. Cardinality(Hits(t, i - 1) \union {i}) = Cardinality(Hits(t, i - 1)) + 1
  BY <1>2, FS_AddElement
<1> QED
  BY <1>3, <1>4

(* What is selected of the first i. *)
Chosen(t, i) ==
  {j \in Hits(t, i) : maxDetections = 0 \/ Cardinality(Hits(t, j)) =< maxDetections}
Ascending(s) == \A i, j \in DOMAIN s : i < j => s[i] < s[j]

(* The loop keeps what is selected, in order, and knows by the length when the
   limit is reached. *)
Keeps(t, s, i) ==
  /\ s \in Seq(1 .. i) /\ Ascending(s)
  /\ ToSet(s) = Chosen(t, i)
  /\ Len(s) = IF maxDetections > 0 /\ Cardinality(Hits(t, i)) > maxDetections
              THEN maxDetections ELSE Cardinality(Hits(t, i))

Tensors == [scores : Seq(Int), count : Int]

LEMMA AppendAscending ==
  ASSUME NEW i \in Nat \ {0}, NEW s \in Seq(1 .. i - 1), Ascending(s)
  PROVE  /\ Append(s, i) \in Seq(1 .. i) /\ Ascending(Append(s, i))
         /\ ToSet(Append(s, i)) = ToSet(s) \union {i}
         /\ Len(Append(s, i)) = Len(s) + 1
<1>1. s \in Seq(1 .. i)
  BY 1 .. i - 1 \subseteq 1 .. i
<1>2. Append(s, i) \in Seq(1 .. i) /\ Len(Append(s, i)) = Len(s) + 1
  BY <1>1
<1>3. /\ DOMAIN Append(s, i) = 1 .. Len(s) + 1
      /\ \A k \in 1 .. Len(s) : Append(s, i)[k] = s[k] /\ s[k] \in 1 .. i - 1
      /\ Append(s, i)[Len(s) + 1] = i
      /\ DOMAIN s = 1 .. Len(s) /\ Len(s) \in Nat
  BY <1>1
<1>4. Ascending(Append(s, i))
  BY <1>3 DEF Ascending
<1>5. ToSet(Append(s, i)) = ToSet(s) \union {i}
  BY <1>3 DEF ToSet
<1> QED
  BY <1>2, <1>4, <1>5

LEMMA LoopStep ==
  ASSUME NEW t \in Tensors, maxDetections \in Nat, NEW kept,
         NEW i \in 1 .. Len(t.scores), Keeps(t, kept[i - 1], i - 1)
  PROVE  Keeps(t, After(t, kept, i), i)
<1> DEFINE s == kept[i - 1]
           c == Cardinality(Hits(t, i - 1))
           hit == i =< t.count /\ t.scores[i] >= Threshold
           full == Len(s) >= (IF maxDetections > 0 THEN maxDetections ELSE t.count)
<1>1. /\ Len(t.scores) \in Nat /\ t.count \in Int /\ t.scores[i] \in Int /\ Threshold \in Int
      /\ i \in Nat \ {0} /\ i - 1 \in Nat
  BY VisionAssumption DEF Tensors
<1>2. c \in 0 .. i - 1
  BY <1>1, HitsFinite
<1>3. /\ Hits(t, i) = IF hit THEN Hits(t, i - 1) \union {i} ELSE Hits(t, i - 1)
      /\ Cardinality(Hits(t, i)) = IF hit THEN c + 1 ELSE c
  BY <1>1, HitsNext
<1>4. /\ s \in Seq(1 .. i - 1) /\ Ascending(s) /\ ToSet(s) = Chosen(t, i - 1)
      /\ Len(s) = IF maxDetections > 0 /\ c > maxDetections THEN maxDetections ELSE c
  BY DEF Keeps
<1>5. s \in Seq(1 .. i)
  BY <1>4, 1 .. i - 1 \subseteq 1 .. i
<1>6. After(t, kept, i) = IF ~hit \/ full THEN s ELSE Append(s, i)
  BY <1>1 DEF After
<1>7. CASE ~hit
  <2>1. Chosen(t, i) = Chosen(t, i - 1)
    BY <1>3, <1>7 DEF Chosen
  <2> QED
    BY <1>3, <1>4, <1>5, <1>6, <1>7, <2>1 DEF Keeps
<1>8. CASE hit /\ full
  <2>1. maxDetections > 0 /\ c >= maxDetections
    BY <1>1, <1>2, <1>4, <1>8
  <2>2. Chosen(t, i) = Chosen(t, i - 1)
    <3>1. ~(Cardinality(Hits(t, i)) =< maxDetections) /\ maxDetections # 0
      BY <1>2, <1>3, <1>8, <2>1
    <3> QED
      BY <1>3, <1>8, <3>1 DEF Chosen
  <2> QED
    BY <1>2, <1>3, <1>4, <1>5, <1>6, <1>8, <2>1, <2>2 DEF Keeps
<1>9. CASE hit /\ ~full
  <2>1. maxDetections = 0 \/ c < maxDetections
    BY <1>1, <1>2, <1>4, <1>9
  <2>2. Chosen(t, i) = Chosen(t, i - 1) \union {i}
    <3>1. maxDetections = 0 \/ Cardinality(Hits(t, i)) =< maxDetections
      BY <1>2, <1>3, <1>9, <2>1
    <3> QED
      BY <1>3, <1>9, <3>1 DEF Chosen
  <2>3. /\ Append(s, i) \in Seq(1 .. i) /\ Ascending(Append(s, i))
        /\ ToSet(Append(s, i)) = ToSet(s) \union {i}
        /\ Len(Append(s, i)) = Len(s) + 1
    BY <1>1, <1>4, AppendAscending
  <2>4. ToSet(Append(s, i)) = Chosen(t, i)
    BY <1>4, <2>2, <2>3
  <2>5. /\ Cardinality(Hits(t, i)) = c + 1 /\ Len(s) = c /\ c \in Nat
        /\ ~(maxDetections > 0 /\ c + 1 > maxDetections)
    BY <1>2, <1>3, <1>4, <1>9, <2>1
  <2>6. Keeps(t, Append(s, i), i)
    <3> HIDE DEF s, c, hit, full
    <3> QED
      BY <2>3, <2>4, <2>5 DEF Keeps
  <2> QED
    BY <1>6, <1>9, <2>6
<1> QED
  BY <1>7, <1>8, <1>9

(* The loop over the scores, for any tensors and limit. *)
THEOREM KeptRight ==
  ASSUME NEW t \in Tensors, maxDetections \in Nat
  PROVE  /\ Kept(t) \in Seq(1 .. Len(t.scores)) /\ Ascending(Kept(t))
         /\ ToSet(Kept(t)) = Selected(t)
<1> DEFINE n == Len(t.scores)
<1>1. n \in Nat
  BY DEF Tensors
<1>2. PICK kept : Loop(t, kept, n) /\ Kept(t) = kept[n]
  BY <1>1, KeptLoop
<1> DEFINE S == {i \in 0 .. n : Keeps(t, kept[i], i)}
<1>3. 0 \in S
  <2>1. kept[0] = <<>>
    BY <1>1, <1>2 DEF Loop, After
  <2>2. Hits(t, 0) = {} /\ Cardinality(Hits(t, 0)) = 0
    BY FS_EmptySet DEF Hits
  <2>3. <<>> \in Seq(1 .. 0) /\ ToSet(<<>>) = {} /\ Ascending(<<>>) /\ Len(<<>>) = 0
    BY DEF ToSet, Ascending
  <2>4. Chosen(t, 0) = {}
    BY <2>2 DEF Chosen
  <2>5. Len(<<>>) = IF maxDetections > 0 /\ Cardinality(Hits(t, 0)) > maxDetections
                    THEN maxDetections ELSE Cardinality(Hits(t, 0))
    BY <2>2, <2>3
  <2>6. Keeps(t, <<>>, 0)
    BY <2>3, <2>4, <2>5, Zenon DEF Keeps
  <2> QED
    BY <1>1, <2>1, <2>6
<1>4. ASSUME NEW i \in 1 .. n, i - 1 \in S
      PROVE  i \in S
  <2>1. Keeps(t, After(t, kept, i), i)
    BY <1>4, LoopStep
  <2>2. kept[i] = After(t, kept, i)
    BY <1>1, <1>2 DEF Loop
  <2> QED
    BY <2>1, <2>2
<1>5. 0 .. n \subseteq S
  <2> HIDE DEF S, n
  <2> QED
    BY <1>1, <1>3, <1>4, Induction
<1>6. Keeps(t, kept[n], n)
  BY <1>1, <1>5
<1>7. Chosen(t, n) = Selected(t)
  BY DEF Chosen, Selected
<1> QED
  BY <1>2, <1>6, <1>7 DEF Keeps

-----------------------------------------------------------------------------
(* The model, the tensors and what becomes of them. *)
ModelInv ==
  /\ relaying \in BOOLEAN /\ Len(toNode) =< Depth
  /\ model \in Models /\ maxDetections \in Limits
  /\ node \in {"up", "exited", "died"} /\ (node # "exited" => Scores # None)
  /\ tensors # None => tensors \in Returned /\ node = "up"
  /\ detections \in Seq(Nat)

(* The tensor of scores is one of the model's. *)
LEMMA ScoresSize ==
  ASSUME model \in Models, Scores # None
  PROVE  model[Scores].size \in Nat
<1>1. model \in Seq([shape : {"boxes", "flat", "count", "other"}, size : Nat])
  BY VisionAssumption
<1>2. Outputs("flat") \subseteq DOMAIN model /\ Outputs("flat") # {}
  BY DEF Scores, Outputs
<1>3. DOMAIN model \subseteq Nat
  BY <1>1
<1>4. Scores \in Outputs("flat")
  <2>1. \E n \in Outputs("flat") : \A m \in Outputs("flat") : n =< m
    BY <1>2, <1>3, LeastNumber
  <2>2. Scores = CHOOSE n \in Outputs("flat") : \A m \in Outputs("flat") : n =< m
    BY <1>2 DEF Scores, Min
  <2> QED
    BY <2>1, <2>2
<1>5. model[Scores] \in [shape : {"boxes", "flat", "count", "other"}, size : Nat]
  <2>1. Scores \in DOMAIN model
    BY <1>2, <1>4
  <2>2. ASSUME NEW S, model \in Seq(S)
        PROVE  model[Scores] \in S
    BY <2>1, <2>2
  <2> QED
    BY <1>1, <2>2
<1> QED
  BY <1>5

LEMMA ReturnedTensors ==
  ASSUME model \in Models, Scores # None, NEW t \in Returned
  PROVE  /\ t.count # NaN => t \in Tensors
         /\ Len(t.scores) = model[Scores].size
<1>1. model[Scores].size \in Nat
  BY ScoresSize
<1>2. /\ t.scores \in [1 .. model[Scores].size -> {Threshold - 1, Threshold}]
      /\ t.count \in (IF Count = None THEN {model[Scores].size} ELSE Counts)
      /\ t = [scores |-> t.scores, count |-> t.count]
  BY DEF Returned
<1>3. t.scores \in Seq(Int) /\ Len(t.scores) = model[Scores].size
  <2>1. {Threshold - 1, Threshold} \subseteq Int
    BY VisionAssumption
  <2>2. t.scores \in [1 .. model[Scores].size -> Int]
    BY <1>2, <2>1
  <2> QED
    BY <1>1, <2>2
<1>4. t.count # NaN => t.count \in Int
  BY <1>1, <1>2, VisionAssumption
<1> QED
  BY <1>2, <1>3, <1>4 DEF Tensors

(* The model does not change. *)
LEMMA SameModel ==
  ASSUME model' = model
  PROVE  Scores' = Scores /\ Returned' = Returned
<1>1. \A shape : Outputs(shape)' = Outputs(shape)
  BY DEF Outputs
<1>2. Scores' = Scores /\ Count' = Count
  BY <1>1 DEF Scores, Count
<1> QED
  BY <1>2 DEF Returned

LEMMA PutLength ==
  ASSUME NEW q \in Seq(Waiting), NEW image, [image |-> image, age |-> 0] \in Waiting,
         Len(q) =< Depth
  PROVE  Len(Put(q, image)) =< Depth
<1> DEFINE e == [image |-> image, age |-> 0]
<1>1. \A r \in Seq(Waiting) : Len(Append(r, e)) = Len(r) + 1
  <2> HIDE DEF e
  <2> QED
    OBVIOUS
<1>2. CASE Len(q) < Depth
  BY <1>1, <1>2, Numbers DEF Put
<1>3. CASE ~(Len(q) < Depth)
  <2>1. q # <<>> /\ Tail(q) \in Seq(Waiting) /\ Len(Tail(q)) = Len(q) - 1
    BY <1>3, Numbers
  <2>2. Put(q, image) = Append(Tail(q), e)
    BY <1>3 DEF Put
  <2> QED
    BY <1>1, <2>1, <2>2, Numbers
<1> QED
  BY <1>2, <1>3

LEMMA SeqElements ==
  ASSUME NEW S, NEW s \in Seq(S)
  PROVE  /\ \A i \in ToSet(s) : i \in S
         /\ \A T : S \subseteq T => s \in Seq(T)
  BY DEF ToSet

(* The detections that are published are positions in the tensor of scores. *)
LEMMA DetectModel ==
  ASSUME ModelInv, Detect
  PROVE  ModelInv'
<1>1. /\ tensors # None /\ tensors' = None /\ Fits(tensors)
      /\ UNCHANGED <<relaying, model, maxDetections, node, toNode>>
      /\ detections' = Kept(tensors)
  BY DEF Detect, inputVars, configVars
<1>2. /\ tensors \in Tensors /\ Len(tensors.scores) = model[Scores].size
      /\ maxDetections \in Nat
  BY <1>1, ReturnedTensors, VisionAssumption DEF ModelInv, Fits
<1>3. detections' \in Seq(Nat)
  <2>1. Kept(tensors) \in Seq(1 .. model[Scores].size)
    BY <1>2, KeptRight
  <2>2. 1 .. model[Scores].size \subseteq Nat
    OBVIOUS
  <2>3. Kept(tensors) \in Seq(Nat)
    BY <2>1, <2>2, SeqElements
  <2> QED
    BY <1>1, <2>3
<1> QED
  BY <1>1, <1>3, SameModel DEF ModelInv

LEMMA EndsModel ==
  ASSUME ModelInv, Die \/ ResizeFails
  PROVE  ModelInv'
<1>1. /\ node' = "died" /\ tensors' = None /\ toNode' = <<>>
      /\ UNCHANGED <<relaying, model, maxDetections, detections>>
      /\ node = "up"
  BY DEF Die, ResizeFails, Called, Ends, configVars, ModelInv
<1>2. Len(toNode') =< Depth
  BY <1>1, Numbers
<1> QED
  BY <1>1, <1>2, SameModel DEF ModelInv

LEMMA ModelStep ==
  ASSUME IInv, ModelInv, [Next]_vars
  PROVE  ModelInv'
<1>1. ASSUME model' = model, maxDetections' = maxDetections, node' = node,
             detections' = detections, relaying' \in BOOLEAN, Len(toNode') =< Depth,
             \/ tensors' = tensors
             \/ tensors' \in Returned /\ node = "up"
      PROVE  ModelInv'
  <2>1. Scores' = Scores /\ Returned' = Returned
    BY <1>1, SameModel
  <2> QED
    BY <1>1, <2>1 DEF ModelInv
<1>2. ASSUME NEW s \in Shapes, Relay(s)
      PROVE  ModelInv'
  <2> DEFINE image == IF Flip THEN Rotate180(Taken(s)) ELSE Taken(s)
  <2>1. [image |-> image, age |-> 0] \in Waiting
    BY Numbers DEF Waiting, Handed
  <2>2. toNode' = toNode \/ toNode' = Put(toNode, image)
    BY <1>2 DEF Relay
  <2>3. Len(toNode') =< Depth
    <3> HIDE DEF image
    <3> QED
      BY <2>1, <2>2, PutLength DEF IInv, Types, ModelInv
  <2> QED
    BY <1>1, <1>2, <2>3 DEF Relay, configVars, nodeVars, ModelInv
<1>3. CASE ConversionFails \/ InferenceFails \/ Infer
  <2>1. /\ Received
        /\ UNCHANGED <<relaying, model, maxDetections, node, detections>>
        /\ tensors' = tensors \/ tensors' \in Returned
    BY <1>3 DEF ConversionFails, InferenceFails, Infer, configVars
  <2>2. Len(toNode') =< Depth
    <3>1. toNode \in Seq(Waiting) /\ toNode # <<>> /\ toNode' = Tail(toNode) /\ Len(toNode) =< Depth
      BY <2>1 DEF Received, Called, IInv, Types, ModelInv
    <3> QED
      BY <3>1, Numbers
  <2> QED
    BY <1>1, <2>1, <2>2 DEF Received, Called, ModelInv
<1>4. CASE Tick
  <2>1. Len(toNode') = Len(toNode)
    <3>1. toNode' = [i \in 1 .. Len(toNode) |-> [toNode[i] EXCEPT !.age = @ + 1]]
          /\ Len(toNode) \in Nat
      BY <1>4 DEF Tick, IInv, Types
    <3> QED
      BY <3>1
  <2> QED
    BY <1>1, <1>4, <2>1 DEF Tick, configVars, ModelInv
<1>5. CASE RelayDies \/ PublishDiagnostics \/ UNCHANGED vars
  BY <1>1, <1>5 DEF RelayDies, PublishDiagnostics, vars, inputVars, configVars, nodeVars, ModelInv
<1> QED
  BY <1>2, <1>3, <1>4, <1>5, DetectModel, EndsModel DEF Next, ImageCb

THEOREM ModelInvariant == Spec => [](IInv /\ ModelInv)
<1>1. Init => ModelInv
  <2> SUFFICES ASSUME Init
               PROVE  ModelInv
    OBVIOUS
  <2>1. /\ relaying = TRUE /\ toNode = <<>> /\ tensors = None /\ detections = <<>>
        /\ model \in Models /\ maxDetections \in Limits
        /\ node \in {"up", "exited"} /\ (node = "up" => Scores # None)
    BY DEF Init
  <2>2. Len(toNode) =< Depth /\ detections \in Seq(Nat)
    BY <2>1, Numbers
  <2> QED
    BY <2>1, <2>2 DEF ModelInv
<1>2. (IInv /\ ModelInv) /\ [Next]_vars => (IInv /\ ModelInv)'
  BY NextInv, ModelStep
<1> QED
  BY InitInv, <1>1, <1>2, PTL DEF Spec

(* The types, and the bound of the image queue. *)
THEOREM VisionTypeCorrect == Spec => []TypeOK
<1>1. IInv /\ ModelInv => TypeOK
  <2> SUFFICES ASSUME IInv, ModelInv
               PROVE  TypeOK
    OBVIOUS
  <2>1. ASSUME NEW i \in DOMAIN toNode
        PROVE  toNode[i].age \in 0 .. MaxDelay
    <3>1. toNode[i] \in Waiting
      BY DEF IInv, Types
    <3> QED
      BY <3>1, WaitingAge
  <2> QED
    BY <2>1 DEF IInv, Types, ModelInv, TypeOK
<1> QED
  BY <1>1, ModelInvariant, PTL

(* _image_cb: a published array holds exactly the detections that reach the
   threshold, in order, cut at max_detections. *)
THEOREM DetectionsAreRight == Spec => DetectionsRight
<1> DEFINE Right ==
      tensors # None /\ tensors' = None /\ node' = "up" =>
        /\ ToSet(detections') = Selected(tensors)
        /\ \A i, j \in DOMAIN detections' : i < j => detections'[i] < detections'[j]
<1>1. (IInv /\ ModelInv) /\ [Next]_vars => [Right]_vars
  <2> SUFFICES ASSUME ModelInv, [Next]_vars, tensors # None, tensors' = None, node' = "up"
               PROVE  /\ ToSet(detections') = Selected(tensors)
                      /\ \A i, j \in DOMAIN detections' : i < j => detections'[i] < detections'[j]
    OBVIOUS
  <2>1. Detect
    BY DEF Next, ImageCb, Relay, RelayDies, ConversionFails, InferenceFails, Infer, Die,
           ResizeFails, Ends, Called, Received, PublishDiagnostics, Tick, vars, nodeVars
  <2>2. tensors \in Tensors /\ maxDetections \in Nat
    BY <2>1, ReturnedTensors, VisionAssumption DEF ModelInv, Detect, Fits
  <2>3. detections' = Kept(tensors)
    BY <2>1 DEF Detect
  <2> QED
    BY <2>2, <2>3, KeptRight DEF Ascending
<1> QED
  BY <1>1, ModelInvariant, PTL DEF Spec, DetectionsRight

(* _image_cb: an inference ends the node if and only if its count is no number or an
   index that is selected cannot be read; nothing else does but an empty image. *)
THEOREM NodeEndsForCause == Spec => EndsForCause
<1> DEFINE Inferred ==
      tensors # None /\ tensors' = None =>
        ((node' = "up") <=> tensors.count # NaN /\ \A i \in Selected(tensors) : Readable(i))
      Outside ==
        node = "up" /\ tensors = None /\ node' # "up" => Empty(Head(toNode).image.shape)
<1>1. (IInv /\ ModelInv) /\ [Next]_vars => [Inferred /\ Outside]_vars
  <2> SUFFICES ASSUME ModelInv, [Next]_vars
               PROVE  Inferred /\ Outside
    OBVIOUS
  <2>1. ASSUME tensors # None, tensors' = None
        PROVE  (node' = "up") <=>
                 tensors.count # NaN /\ \A i \in Selected(tensors) : Readable(i)
    <3>1. node = "up" /\ (Detect \/ Die)
      BY <2>1 DEF ModelInv, Next, ImageCb, Relay, RelayDies, ConversionFails, InferenceFails,
             Infer, ResizeFails, Called, Received, PublishDiagnostics, Tick, vars, nodeVars
    <3>2. (node' = "up") <=> Fits(tensors)
      BY <3>1 DEF Detect, Die, Ends
    <3>3. tensors.count # NaN => ToSet(Kept(tensors)) = Selected(tensors)
      BY <2>1, ReturnedTensors, VisionAssumption, KeptRight DEF ModelInv
    <3> QED
      BY <3>2, <3>3 DEF Fits
  <2>2. ASSUME node = "up", tensors = None, node' # "up"
        PROVE  Empty(Head(toNode).image.shape)
    <3>1. ResizeFails
      BY <2>2 DEF Next, ImageCb, Relay, RelayDies, ConversionFails, InferenceFails, Infer,
             Detect, Die, PublishDiagnostics, Tick, vars, nodeVars
    <3> QED
      BY <3>1 DEF ResizeFails
  <2> QED
    BY <2>1, <2>2
<1> QED
  BY <1>1, ModelInvariant, PTL DEF Spec, EndsForCause
=============================================================================
