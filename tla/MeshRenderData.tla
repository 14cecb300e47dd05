---------------------------- MODULE MeshRenderData ----------------------------
(***************************************************************************)
(* HdMaxMeshRenderData: what the render delegate keeps of a mesh, between  *)
(* hydra, which fills it (HdMaxMesh::Sync), and the viewport, which draws  *)
(* it (HdMaxEngine::Render).                                               *)
(*                                                                         *)
(* Two sets of dirty bits meet here.  Hydra's bits say what changed in the *)
(* scene and are consumed by Sync.  The bits of HdMaxChangeTracker, one    *)
(* set per material subset, say what must still be loaded in the nitrous   *)
(* buffers: either those of the mesh itself (UpdateRenderGeometry) or      *)
(* those of the consolidated mesh the subset is part of.                   *)
(*                                                                         *)
(* A mesh is a set of faces, each one triangle bound to a material; its    *)
(* points at a time are a "shape".  Every mesh has one instance.           *)
(***************************************************************************)
EXTENDS Naturals, SequencesExt

CONSTANTS Faces,        \* the faces a mesh may have
          Materials,    \* the material paths, as numbers in the order of the paths
          Shapes,       \* the contents of a points array
          VertexCount,  \* how many points each shape has
          Gizmos        \* the paths whose isGizmo primvar is set

NoMaterial == 0    \* the empty material path, which sorts before all others
NoShape == "none"  \* an empty points array

ASSUME MeshAssumption ==
    /\ Materials \subseteq Nat
    /\ NoShape \notin Shapes
    /\ VertexCount \in [Shapes -> Nat \ {0}]

CountOf(shape) == IF shape = NoShape THEN 0 ELSE VertexCount[shape]

\* Hydra's dirty bits of an rprim.
HydraBits == {"DirtyTopology", "DirtyPoints", "DirtyVisibility", "DirtyPrimvar",
              "DirtyMaterialId", "DirtyInstanceIndex", "DirtySelectionHighlight"}

\* The bits of HdMaxChangeTracker.
AllDirty == {"DirtyIndices", "DirtyPoints", "DirtyPointsSize", "DirtyNormals",
             "DirtyVisibility", "DirtyVertexColors", "DirtyMaterial",
             "DirtyTransforms", "DirtySelectionHighlight"}

\* A subset as _InitializeSubsetRenderData makes it.  Its streams are the vertex
\* buffers its geometry has: points, normals, selection, in that order.
NewSubset(m) == [material |-> m, faces |-> {}, dirtyBits |-> {},
                 inConsolidation |-> FALSE, materialData |-> NoMaterial,
                 indexBuffer |-> {}, streams |-> 0]

NewRenderData == [shadedSubsets |-> << >>, points |-> NoShape, color |-> "none",
                  visible |-> TRUE, renderTagActive |-> TRUE, selected |-> FALSE,
                  pointsBuffer |-> NoShape,
                  selectionBuffer |-> [lit |-> FALSE, size |-> 0]]

SetDirty(s, bits) == [s EXCEPT !.dirtyBits = @ \cup bits]

ForEachSubset(d, Op(_)) ==
    [d EXCEPT !.shadedSubsets = [i \in DOMAIN @ |-> Op(@[i])]]

SetAllSubsetRenderDataDirty(d, bits) == ForEachSubset(d, LAMBDA s : SetDirty(s, bits))

AnyDirty(d, bits) ==
    \E i \in DOMAIN d.shadedSubsets : d.shadedSubsets[i].dirtyBits \cap bits # {}

-----------------------------------------------------------------------------
(* HdMaxMesh::Sync. *)

BoundMaterials(binding) == {binding[f] : f \in DOMAIN binding}

\* A finite set of numbers as a sequence, the least first.
InOrder(S) ==
    CHOOSE s \in [1 .. Cardinality(S) -> S] : \A i, j \in DOMAIN s : i < j => s[i] < s[j]

\* The subset for material m: the one there was if there was one, now with these
\* faces.
SubsetFor(d, m, faces) ==
    LET previous == {s \in ToSet(d.shadedSubsets) : s.material = m}
        s == IF previous = {} THEN NewSubset(m) ELSE CHOOSE x \in previous : TRUE
    IN [s EXCEPT !.faces = faces,
                 !.dirtyBits = IF s.faces = faces THEN @ ELSE @ \cup {"DirtyIndices"}]

\* Mutant: a subset that keeps its material is kept as it is.
SyncTopologyKeepingFaces(d, binding) ==
    LET materials == InOrder(BoundMaterials(binding))
    IN [d EXCEPT !.shadedSubsets = [i \in DOMAIN materials |->
            LET previous == {s \in ToSet(@) : s.material = materials[i]} IN
            IF previous # {} THEN CHOOSE s \in previous : TRUE
            ELSE SubsetFor(d, materials[i], {f \in DOMAIN binding : binding[f] = materials[i]})]]

\* _UpdatePerMaterialRenderData and the triangulation: one subset per bound
\* material, sorted by material path.
SyncTopology(d, binding) ==
    LET materials == InOrder(BoundMaterials(binding))
    IN [d EXCEPT !.shadedSubsets = [i \in DOMAIN materials |->
            SubsetFor(d, materials[i], {f \in DOMAIN binding : binding[f] = materials[i]})]]

SyncMaterialData(d) ==
    ForEachSubset(d, LAMBDA s : IF s.material = NoMaterial THEN s
                                ELSE [s EXCEPT !.materialData = s.material])

\* Which bits the subsets get for hydra's bits.  What hydra calls a primvar, or a
\* material id, only is a change of material in the display mode that shows it.
DirtyBitsFor(bits, sameSize, mode) ==
    UNION {IF b \notin bits THEN {} ELSE
           CASE b = "DirtyTopology" -> {"DirtyNormals"}
             [] b = "DirtyPoints" -> {"DirtyPoints"}
                                       \cup (IF sameSize THEN {} ELSE {"DirtyPointsSize"})
             [] b = "DirtyVisibility" -> {"DirtyVisibility"}
             [] b = "DirtyPrimvar" -> {"DirtyVertexColors"}
                  \cup (IF mode = "USDDisplayColor" THEN {"DirtyMaterial"} ELSE {})
             [] b = "DirtyMaterialId" ->
                  IF mode = "USDPreviewSurface" THEN {"DirtyMaterial"} ELSE {}
             [] b = "DirtyInstanceIndex" -> {"DirtyTransforms"}
             [] b = "DirtySelectionHighlight" -> {"DirtySelectionHighlight"}
           : b \in HydraBits}

\* _PropagateDirtyBits: the selection refers to instance indices.
PropagateDirtyBits(bits) ==
    IF "DirtyInstanceIndex" \in bits THEN bits \cup {"DirtySelectionHighlight"} ELSE bits

\* Sync, for the prim of the scene at time t.  Returns the render data and the
\* bits that are left: all of them when the render tag is inactive, all but the
\* topology when the mesh has no face.
Sync(d, dirtyBits, prim, selected, mode, t) ==
    LET bits == PropagateDirtyBits(dirtyBits)
        topo == IF "DirtyTopology" \in bits THEN SyncTopology(d, prim.binding) ELSE d
        sameSize == CountOf(d.points) = CountOf(prim.points[t])
        loaded == [topo EXCEPT
                     !.points = IF "DirtyPoints" \in bits THEN prim.points[t] ELSE @,
                     !.visible = IF "DirtyVisibility" \in bits THEN prim.visible ELSE @,
                     !.color = IF "DirtyPrimvar" \in bits THEN prim.color ELSE @,
                     !.selected = IF "DirtySelectionHighlight" \in bits THEN selected ELSE @]
        dirty == SetAllSubsetRenderDataDirty(loaded, DirtyBitsFor(bits, sameSize, mode))
    IN IF ~d.renderTagActive THEN [data |-> d, bits |-> dirtyBits]
       ELSE IF topo.shadedSubsets = << >>
       THEN [data |-> topo, bits |-> bits \ {"DirtyTopology"}]
       ELSE [data |-> IF bits \cap {"DirtyMaterialId", "DirtyPrimvar"} # {}
                      THEN SyncMaterialData(dirty) ELSE dirty,
             bits |-> {}]

-----------------------------------------------------------------------------
(* Loading the mesh's own buffers, and its material. *)

\* SetVertexBuffer: a buffer is added after the ones there are, or replaces one;
\* it is dropped when one before it is missing.
WithStream(d, n) ==
    ForEachSubset(d, LAMBDA s : IF s.streams = n - 1 THEN [s EXCEPT !.streams = n] ELSE s)

LoadIndices(d) ==
    IF ~AnyDirty(d, {"DirtyIndices"}) THEN d
    ELSE ForEachSubset(d, LAMBDA s : [s EXCEPT !.indexBuffer = s.faces])

LoadPoints(d) ==
    IF AnyDirty(d, {"DirtyPoints"})
    THEN WithStream([d EXCEPT !.pointsBuffer = d.points], 1) ELSE d

LoadNormals(d) == IF AnyDirty(d, {"DirtyNormals"}) THEN WithStream(d, 2) ELSE d

LoadSelection(d) ==
    IF AnyDirty(d, {"DirtySelectionHighlight"})
    THEN WithStream([d EXCEPT !.selectionBuffer =
                        [lit |-> d.selected, size |-> CountOf(d.points)]], 3)
    ELSE d

\* All the subsets share the vertex buffers, so that a bit set on one of them is
\* enough to load a buffer; and all of them are clean at the end.
UpdateRenderGeometry(d) ==
    ForEachSubset(LoadSelection(LoadNormals(LoadPoints(LoadIndices(d)))),
                  LAMBDA s : [s EXCEPT !.dirtyBits = {}])

ResolveViewportMaterial(p, d, s, mode) ==
    CASE p \in Gizmos -> <<"gizmo", d.selected>>
      [] p \notin Gizmos /\ mode = "USDPreviewSurface" /\ s.materialData # NoMaterial ->
           <<"material", s.materialData>>
      [] p \notin Gizmos /\ mode = "WireColor" -> <<"wireColor">>
      [] OTHER -> <<"displayColor", d.color>>
=============================================================================
