--------------------------- MODULE StageObjectMap ---------------------------
(***************************************************************************)
(* The registry of stage objects (StageObjectMap.cpp).  The UFE path of a  *)
(* stage object is made of its GUID, so pathToObject is the set of objects *)
(* it holds; stageToObject is a function from stages to objects.           *)
(***************************************************************************)
EXTENDS Functions

EmptyMap == [pathToObject |-> {}, stageToObject |-> << >>]

SetObject(map, object, stage) ==
    [pathToObject  |-> map.pathToObject \cup {object},
     stageToObject |-> [s \in DOMAIN map.stageToObject \cup {stage} |->
                            IF s = stage THEN object ELSE map.stageToObject[s]]]

(* A mutant: the path is erased and the stage is left behind. *)
RemovePathOnly(map, object, stage) ==
    [map EXCEPT !.pathToObject = @ \ {object}]

RemoveObject(map, object, stage) ==
    [pathToObject  |-> map.pathToObject \ {object},
     stageToObject |-> Restrict(map.stageToObject, DOMAIN map.stageToObject \ {stage})]

GetAllStageObjects(map) == Range(map.stageToObject)
=============================================================================
