---------------------------- MODULE MCVisionPath ----------------------------
(* A small instance of VisionPath for TLC. *)
EXTENDS VisionPath

Shape(height, width, step, pixel, color) ==
  [height |-> height, width |-> width, step |-> step, pixel |-> pixel, color |-> color]

(* Color with packed and with padded rows and without a row, and depth, which is not
   converted. *)
MCShapes ==
  {Shape(2, 2, 6, 3, TRUE), Shape(1, 2, 8, 3, TRUE), Shape(0, 2, 6, 3, TRUE),
   Shape(2, 1, 2, 2, FALSE)}

MCCounts == {2, 4, NaN}

Output(shape, size) == [shape |-> shape, size |-> size]

(* Scores first, as in EfficientDet; scores only; fewer boxes, and fewer classes,
   than scores; no boxes. *)
MCModels ==
  {<<Output("flat", 3), Output("boxes", 3), Output("count", 1), Output("flat", 3)>>,
   <<Output("boxes", 3), Output("flat", 3)>>,
   <<Output("boxes", 2), Output("flat", 3), Output("count", 1)>>,
   <<Output("boxes", 3), Output("flat", 3), Output("flat", 2)>>,
   <<Output("flat", 3), Output("other", 3)>>}
=============================================================================
