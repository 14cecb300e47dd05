--------------------------- MODULE ViewportDisplay ---------------------------
(***************************************************************************)
(* What a viewport promises: the image drawn for a camera is the picture   *)
(* of the scene as it is when it is drawn.  An edit makes the image        *)
(* obsolete, so that the next frame has to draw one.  Nothing is said of   *)
(* how the picture is obtained, of caches or of buffers.                   *)
(***************************************************************************)
CONSTANTS Picture(_, _),  \* scene, camera -> what must be seen
          Cameras,        \* what the viewport may be asked to draw
          NoImage         \* before the first frame, and after an edit

VARIABLES scene, image

Init == image = NoImage

Edit == image' = NoImage

Draw(camera) ==
    /\ image' = [camera |-> camera, shown |-> Picture(scene, camera)]
    /\ scene' = scene

Next == Edit \/ \E camera \in Cameras : Draw(camera)

Spec == Init /\ [][Next]_<<scene, image>>
=============================================================================
