---------------------------- MODULE MCHdMaxEngine ----------------------------
(* HdMaxEngine on small stages. *)
EXTENDS HdMaxEngine

Constant(shape) == [t \in Times |-> shape]

Prim(binding, points) == [binding |-> binding, points |-> points, color |-> "red",
                          visible |-> TRUE, tag |-> "default"]

\* "big" has one point more than the others.
Sizes == [s \in Shapes |-> IF s = "big" THEN 2 ELSE 1]

Bound(m) == [f \in Faces |-> m]
Plain == Bound(NoMaterial)

Delayed == [strategy |-> "Static", delayed |-> TRUE]
AtOnce == [strategy |-> "Static", delayed |-> FALSE]
Dynamic == [strategy |-> "Dynamic", delayed |-> FALSE]
Off == [strategy |-> "Off", delayed |-> FALSE]

\* Animation: plain meshes, one of which moves; their number of points may change.
Moving == [t \in Times |-> IF t = 0 THEN "s1" ELSE "s2"]
AnimationFirst == [p \in Paths |-> Prim(Plain, IF p = "a" THEN Moving ELSE Constant("s1"))]
AnimationConfigs == {Delayed, Dynamic}
Resized == {Constant("big")}

\* Structure: meshes of two faces, bound to two materials.
Mixed == [f \in Faces |-> IF f = "f1" THEN 1 ELSE 2]
StructureFirst == [p \in Paths |-> Prim(Mixed, Constant("s1"))]
StructureConfigs == {AtOnce, Off}
SecondOnly == [f \in {"f2"} |-> 2]
Narrowed == {Bound(2), SecondOnly}

\* Selection: meshes of a material, and gizmos.
SelectionFirst == [p \in Paths |-> Prim(IF p \in Gizmos THEN Plain ELSE Bound(1), Constant("s1"))]
SelectionConfigs == {Delayed}

\* Appearance: meshes of a material.
AppearanceFirst == [p \in Paths |-> Prim(Bound(1), Constant("s1"))]
AppearanceConfigs == {AtOnce}

\* NewSubset: meshes bound to the second material get faces of the first one.
SecondMaterialFirst == [p \in Paths |-> Prim(Bound(2), Constant("s1"))]
JustMixed == {Mixed}

\* FallbackColor, SelectedInstance: plain meshes.
PlainFirst == [p \in Paths |-> Prim(Plain, Constant("s1"))]

\* SwappedOrder: two moving meshes of a material, after one of another.
SwappedFirst == [p \in Paths |-> Prim(Bound(IF p = Head(SetToSeq(Paths)) THEN 2 ELSE 1), Moving)]
DynamicOnly == {Dynamic}
=============================================================================
