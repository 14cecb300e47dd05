--------------------------- MODULE MCSceneExport ---------------------------
(* Scenes of four nodes for TLC. *)
EXTENDS SceneExport, TLC

Identifiers ==
    "Box" :> <<<<"Box", 0>>>> @@ "Box1" :> <<<<"Box", 1>>>>
    @@ "Box_Shape" :> <<<<"Box", 0>>, <<"Shape", 0>>>>

\* Every tree in which a node comes after its parent.
Trees ==
    {[x \in {SceneRoot} \union Nodes |->
        SelectSeq(<<1, 2, 3, 4>>, LAMBDA c : <<0, p2, p3, p4>>[c] = x)] :
            p2 \in {0, 1}, p3 \in {0, 1, 2}, p4 \in {0, 1, 2, 3}}

Root == <<<<<<"root", 0>>>>>>

Plain ==
    {s \in [children : Trees, root : {Root}, kind : [Nodes -> Kinds],
            object : {<<1, 2, 3, 3>>, <<1, 2, 2, 2>>},
            name : {<<"Box", "Box", "Box1", "Box">>},
            nodes : SUBSET Nodes, offset : {{}}, guides : {{}}, hidden : {{}},
            existing : {<<>>}, classPrims : {{}}] :
        \A m, n \in Nodes : s.object[m] = s.object[n] => s.kind[m] = s.kind[n]}

\* A node whose parent, a point helper with no other child, is left out.
LosesItsHelper(s, n) ==
    \E h \in Nodes : /\ s.children[h] = <<n>>
                     /\ s.kind[h] = "pointHelper"
                     /\ s.nodes # {} /\ n \in s.nodes /\ h \notin s.nodes
Kept == {s \in Plain : \A n \in Nodes : ~LosesItsHelper(s, n)}
LostHelpers == Plain \ Kept

\* A node is called Box_Shape, which may be the object prim of its parent Box.
Named == {[s EXCEPT !.name[2] = "Box_Shape"] : s \in {t \in Kept : Cardinality(t.nodes) \in {0, 3}}}
Namesakes == {s \in Named : s.nodes = {} /\ IsObjectNamesake(s, 1, 2)}

KeptHelpers ==
    Kept
    \union {[s EXCEPT !.offset = {3}, !.existing = <<Root, Append(Root, Identifiers["Box"])>>] :
                s \in {t \in Kept : Cardinality(t.nodes) # 4}}
    \union {[s EXCEPT !.hidden = {1}, !.guides = {3}] : s \in Kept}
    \union {[s EXCEPT !.guides = {1}] : s \in Named \ {t \in Named : IsObjectNamesake(t, 1, 2)}}

\* What the theorem on prims assumes of the scenes holds of all the first run has.
ASSUME KeptAreOrdinary == \A s \in KeptHelpers : IsOrdinary(s)
=============================================================================
