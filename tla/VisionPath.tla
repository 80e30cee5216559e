----------------------------- MODULE VisionPath -----------------------------
(***************************************************************************)
(* From the upside-down camera to detections and diagnostics: the image     *)
(* relay (scripts/image_relay.py), its best-effort topic, and the EdgeTPU   *)
(* node (edgetpu_node.py) with its two callbacks on one executor thread.    *)
(*                                                                          *)
(* Of an image only its shape and where its bytes come from are kept, of a  *)
(* tensor its length and which scores reach the threshold.  Counters and    *)
(* averages of the inference are shown, never read, and left out.  What     *)
(* raises outside of the two `try` blocks of the node ends it.              *)
(***************************************************************************)
EXTENDS Integers, Sequences, SequencesExt, FiniteSetsExt

CONSTANTS
  Shapes,         \* of the images: height, width, step, bytes of a pixel; `color` if
                  \* cv_bridge makes it rgb8
  Flip,           \* realsense_flip
  Models,         \* outputs of the models that may be configured: shape and length
  Counts,         \* what a count tensor may hold, cut off to an integer
  NaN,            \* what int() raises for: NaN, or an infinity
  Threshold,      \* score_threshold, and a score that just reaches it
  Limits,         \* values of max_detections, 0 for no limit
  Depth,          \* history depth of the sensor-data QoS
  MaxDelay,       \* bound on the time an image waits for the node, in clock ticks
  ImageTimeout,   \* image_timeout
  Period,         \* diagnostics_period
  MaxGap,         \* bound on the time between two firings of its timer
  None

ASSUME VisionAssumption ==
  /\ Shapes \subseteq
       [height : Nat, width : Nat, step : Nat, pixel : Nat \ {0}, color : BOOLEAN]
  /\ Flip \in BOOLEAN
  /\ Depth \in Nat \ {0} /\ MaxDelay \in Nat
  /\ ImageTimeout \in Nat /\ Period \in Nat \ {0}
  /\ MaxGap \in Nat /\ Period =< MaxGap
  /\ Limits \subseteq Nat /\ None \notin Nat
  /\ Threshold \in Int /\ NaN \notin Int /\ Counts \subseteq Int \union {NaN}
  /\ Models \subseteq Seq([shape : {"boxes", "flat", "count", "other"}, size : Nat])

VARIABLES
  relaying,    \* the relay process runs; nothing restarts it
  toNode,      \* images on /camera/forward, with their ages
  model,       \* output_details
  maxDetections,  \* max_detections
  node,        \* the node is up, it never came up, or an exception ended it
  tensors,     \* what the inference under way returned, None outside of it
  lastImage,   \* now - _last_image_time, None before the first image
  tpuOk,       \* _tpu_ok
  diagAge,     \* time since the diagnostics timer fired
  report,      \* level of the last diagnostics: none, ok, warn, error
  detections,  \* indices of the last Detection2DArray
  dark,        \* history: time since the relay last published
  failing,     \* history: the last inference failed
  verdictAge   \* history: time since that changed

configVars == <<model, maxDetections>>
inputVars == <<relaying, toNode, dark>>
historyVars == <<failing, verdictAge>>
nodeVars == <<node, tensors, lastImage, tpuOk, detections, historyVars>>
diagVars == <<diagAge, report>>
vars == <<inputVars, configVars, nodeVars, diagVars>>

AgeCap == MaxDelay + ImageTimeout + MaxGap + 1
Age == 0 .. AgeCap
Older(age) == IF age < AgeCap THEN age + 1 ELSE AgeCap

-----------------------------------------------------------------------------
(* image_relay.py. *)

(* An image as the camera takes it: byte k is called k. *)
Taken(shape) == [shape |-> shape, data |-> [k \in 0 .. shape.height * shape.step - 1 |-> k]]

(* Mutant: the whole buffer reversed, the bytes of a pixel with it. *)
Reversed(image) ==
  LET last == image.shape.height * image.shape.step - 1
  IN [image EXCEPT !.data = [k \in 0 .. last |-> image.data[last - k]]]

(* rotate_180: reverses rows and columns of the buffer reshaped to height, width,
   bytes per pixel; an image whose rows do not divide into pixels is left alone. *)
Rotate180(image) ==
  LET s == image.shape
      bpp == s.step \div s.width
      From(k) == LET row == k \div s.step  col == (k % s.step) \div bpp
                 IN (s.height - 1 - row) * s.step + (s.width - 1 - col) * bpp + (k % bpp)
  IN IF s.width = 0 \/ s.step % s.width # 0 THEN image
     ELSE [image EXCEPT !.data = [k \in DOMAIN image.data |-> image.data[From(k)]]]

(* Mutant: a queue without a limit. *)
PutForever(queue, image) == Append(queue, [image |-> image, age |-> 0])

Put(queue, image) ==
  Append(IF Len(queue) < Depth THEN queue ELSE Tail(queue), [image |-> image, age |-> 0])

(* The subscription callback of the relay, for an image off the camera. *)
Relay(shape) ==
  /\ relaying
  /\ LET image == IF Flip THEN Rotate180(Taken(shape)) ELSE Taken(shape)
     IN toNode' = IF node = "up" THEN Put(toNode, image) ELSE toNode
  /\ dark' = 0
  /\ UNCHANGED <<relaying, configVars, nodeVars, diagVars>>

RelayDies ==
  /\ relaying' = FALSE
  /\ UNCHANGED <<toNode, dark, configVars, nodeVars, diagVars>>

-----------------------------------------------------------------------------
(* edgetpu_node.py: start-up. *)

Outputs(shape) == {i \in DOMAIN model : model[i].shape = shape}

(* _map_outputs: the last output that looks like boxes or like a count; the
   first of rank 2 has the scores, the last of the others the classes. *)
Boxes == IF Outputs("boxes") = {} THEN None ELSE Max(Outputs("boxes"))
Count == IF Outputs("count") = {} THEN None ELSE Max(Outputs("count"))
Scores == IF Outputs("flat") = {} THEN None ELSE Min(Outputs("flat"))
Classes == IF Cardinality(Outputs("flat")) < 2 THEN None ELSE Max(Outputs("flat"))

(* __init__ exits without a model path, a device, boxes or scores. *)
Init ==
  /\ model \in Models /\ maxDetections \in Limits
  /\ \/ node = "exited"
     \/ node = "up" /\ Boxes # None /\ Scores # None
  /\ relaying = TRUE /\ toNode = <<>>
  /\ tensors = None /\ lastImage = None /\ tpuOk = TRUE /\ detections = <<>>
  /\ diagAge = 0 /\ report = "none"
  /\ dark = AgeCap /\ failing = FALSE /\ verdictAge = AgeCap

-----------------------------------------------------------------------------
(* _image_cb, cut where the inference has returned: the executor runs nothing
   else of the node in between, but time goes by and images arrive. *)

(* The tensors of the model: which scores reach the threshold, and the count. *)
Returned ==
  [scores : [1 .. model[Scores].size -> {Threshold - 1, Threshold}],
   count : IF Count = None THEN {model[Scores].size} ELSE Counts]

Called == node = "up" /\ tensors = None /\ toNode # <<>> /\ lastImage' = 0
Received == Called /\ toNode' = Tail(toNode)

(* An exception leaves the callback and rclpy.spin, and with them the process,
   which neither launch nor the watchdog starts again. *)
Ends == node' = "died" /\ tensors' = None /\ toNode' = <<>>

Outcome(ok) == failing' = ~ok /\ verdictAge' = IF ok = ~failing THEN verdictAge ELSE 0

(* Mutant: a success does not clear an earlier failure. *)
VerdictLatched(ok) == tpuOk' = (tpuOk /\ ok) /\ Outcome(ok)

Verdict(ok) == tpuOk' = ok /\ Outcome(ok)

(* cv_bridge cannot make it rgb8. *)
ConversionFails ==
  /\ Received
  /\ ~Head(toNode).image.shape.color
  /\ UNCHANGED <<relaying, dark, configVars, node, tensors, tpuOk, detections, historyVars, diagVars>>

Empty(shape) == shape.height = 0 \/ shape.width = 0

(* cv2.resize raises, and the node has its `try` only before and after it. *)
ResizeFails ==
  /\ Called
  /\ Head(toNode).image.shape.color /\ Empty(Head(toNode).image.shape)
  /\ Ends
  /\ UNCHANGED <<relaying, dark, configVars, tpuOk, detections, historyVars, diagVars>>

InferenceFails ==
  /\ Received
  /\ Head(toNode).image.shape.color /\ ~Empty(Head(toNode).image.shape)
  /\ Verdict(FALSE)
  /\ UNCHANGED <<relaying, dark, configVars, node, tensors, detections, diagVars>>

Infer ==
  /\ Received
  /\ Head(toNode).image.shape.color /\ ~Empty(Head(toNode).image.shape)
  /\ Verdict(TRUE)
  /\ tensors' \in Returned
  /\ UNCHANGED <<relaying, dark, configVars, node, detections, diagVars>>

(* Mutant: the limit is tested before the score. *)
KeptWithin(t) ==
  LET limit == IF maxDetections > 0 THEN maxDetections ELSE t.count
  IN SelectSeq([i \in 1 .. Min({limit, t.count, Len(t.scores)}) |-> i],
               LAMBDA i : t.scores[i] >= Threshold)

(* What the loop over the scores keeps, after each of them. *)
Kept(t) ==
  LET limit == IF maxDetections > 0 THEN maxDetections ELSE t.count
      kept[i \in 0 .. Len(t.scores)] ==
        IF i = 0 THEN <<>>
        ELSE IF i > t.count \/ t.scores[i] < Threshold \/ Len(kept[i - 1]) >= limit
             THEN kept[i - 1] ELSE Append(kept[i - 1], i)
  IN kept[Len(t.scores)]

(* Without a tensor of classes, zeros take its place. *)
Readable(i) ==
  /\ i =< model[Boxes].size
  /\ Classes # None => i =< model[Classes].size

(* Mutant: classes and boxes are read before score and limit are tested. *)
FitsAll(t) ==
  t.count # NaN /\ \A i \in 1 .. Min({t.count, Len(t.scores)}) : Readable(i)

(* Whether the count is a number and the loop reads every tensor within its bounds. *)
Fits(t) == t.count # NaN /\ \A i \in ToSet(Kept(t)) : Readable(i)

Detect ==
  /\ tensors # None
  /\ Fits(tensors)
  /\ detections' = Kept(tensors)
  /\ tensors' = None
  /\ UNCHANGED <<inputVars, configVars, node, lastImage, tpuOk, historyVars, diagVars>>

(* int() raises, or the index of a tensor. *)
Die ==
  /\ tensors # None
  /\ ~Fits(tensors)
  /\ Ends
  /\ UNCHANGED <<relaying, dark, configVars, lastImage, tpuOk, detections, historyVars, diagVars>>

-----------------------------------------------------------------------------
(* _publish_diagnostics. *)

(* Mutant: before the first image all is well. *)
LevelHopeful == IF ~tpuOk THEN "error" ELSE "ok"

Level ==
  IF ~tpuOk THEN "error"
  ELSE IF lastImage = None THEN "warn"
  ELSE IF lastImage > ImageTimeout THEN "warn" ELSE "ok"

PublishDiagnostics ==
  /\ node = "up" /\ tensors = None
  /\ diagAge >= Period
  /\ report' = Level /\ diagAge' = 0
  /\ UNCHANGED <<inputVars, configVars, nodeVars>>

Tick ==
  /\ node = "up" => diagAge < MaxGap
  /\ \A i \in DOMAIN toNode : toNode[i].age < MaxDelay
  /\ toNode' = [i \in DOMAIN toNode |-> [toNode[i] EXCEPT !.age = @ + 1]]
  /\ lastImage' = IF lastImage = None THEN None ELSE Older(lastImage)
  /\ diagAge' = IF node = "up" THEN diagAge + 1 ELSE diagAge
  /\ dark' = Older(dark) /\ verdictAge' = Older(verdictAge)
  /\ UNCHANGED <<relaying, configVars, node, tensors, tpuOk, failing, detections, report>>

ImageCb == ConversionFails \/ ResizeFails \/ InferenceFails \/ Infer \/ Detect \/ Die

Next ==
  \/ \E shape \in Shapes : Relay(shape)
  \/ RelayDies
  \/ ImageCb
  \/ PublishDiagnostics
  \/ Tick

Spec == Init /\ [][Next]_vars

-----------------------------------------------------------------------------
TypeOK ==
  /\ relaying \in BOOLEAN
  /\ Len(toNode) =< Depth
  /\ \A i \in DOMAIN toNode : toNode[i].age \in 0 .. MaxDelay
  /\ model \in Models /\ maxDetections \in Limits
  /\ node \in {"up", "exited", "died"}
  /\ tensors = None \/ tensors \in Returned
  /\ lastImage \in Age \union {None}
  /\ tpuOk \in BOOLEAN /\ failing \in BOOLEAN
  /\ diagAge \in 0 .. MaxGap
  /\ report \in {"none", "ok", "warn", "error"}
  /\ detections \in Seq(Nat)
  /\ dark \in Age /\ verdictAge \in Age

(* Diagnostics that say "Running" are evidence that images still came through the
   relay: a dead camera or relay is noticed within the wait of one image, the
   timeout and the age of the report, a failed inference notwithstanding
   (edgetpu_node.py:286, README.md:936). *)
OkHonest ==
  node = "up" /\ report = "ok" => dark =< MaxDelay + ImageTimeout + diagAge

(* ERROR is reported if and only if the last inference failed, but for an outcome
   that changed since the report. *)
ErrorShown ==
  node = "up" /\ report # "none" =>
    (report = "error") = failing \/ verdictAge =< diagAge

(* What a published array holds, as config/edgetpu.yaml has it: every index the
   model counts whose score reaches the threshold, in order, and the first
   max_detections of them if there is a limit. *)
Hits(t, i) == {j \in 1 .. i : j =< t.count /\ t.scores[j] >= Threshold}
Selected(t) ==
  {i \in Hits(t, Len(t.scores)) :
     maxDetections = 0 \/ Cardinality(Hits(t, i)) =< maxDetections}

DetectionsRight ==
  [][tensors # None /\ tensors' = None /\ node' = "up" =>
       /\ ToSet(detections') = Selected(tensors)
       /\ \A i, j \in DOMAIN detections' : i < j => detections'[i] < detections'[j]]_vars

(* What ends the node, which nobody starts again, and what does not: an inference ends
   it if and only if its count is no number or boxes or classes are too few for an
   index that is to be published.  An index that they do not have does no harm below
   the threshold, past the count or past the limit (edgetpu_node.py:226-252).
   Outside of an inference only an image without pixels ends it (186). *)
EndsForCause ==
  [][/\ tensors # None /\ tensors' = None =>
          ((node' = "up") <=>
             tensors.count # NaN /\ \A i \in Selected(tensors) : Readable(i))
     /\ node = "up" /\ tensors = None /\ node' # "up" => Empty(Head(toNode).image.shape)]_vars

(* Every image the relay hands on from packed rows is upright: each pixel, with
   its bytes in order, is the one opposite on the camera (image_relay.py:43). *)
Upright ==
  \A i \in DOMAIN toNode :
    LET s == toNode[i].image.shape
    IN Flip /\ s.step = s.width * s.pixel =>
         \A row \in 0 .. s.height - 1, col \in 0 .. s.width - 1, b \in 0 .. s.pixel - 1 :
           toNode[i].image.data[row * s.step + col * s.pixel + b] =
             (s.height - 1 - row) * s.step + (s.width - 1 - col) * s.pixel + b
=============================================================================
