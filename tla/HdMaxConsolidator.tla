-------------------------- MODULE HdMaxConsolidator --------------------------
(***************************************************************************)
(* HdMaxConsolidator merges meshes that share a material in consolidated   *)
(* meshes, and keeps them up to date from the dirty bits.                  *)
(*                                                                         *)
(* An Output is what consolidation made of a frame: its geometries, the    *)
(* subsets that are in one (the keys of primToGeom, and                    *)
(* consolidatedRenderData), and the subsets it was offered                 *)
(* (sourceRenderData).  A subset is named by its path and its index in     *)
(* shadedSubsets.  The consolidationCache maps times to outputs.           *)
(*                                                                         *)
(* Every operator takes the render data ("data", a function of the paths)  *)
(* and returns what the code leaves behind: a record with the fields data  *)
(* and cache.                                                              *)
(***************************************************************************)
EXTENDS MeshRenderData

CONSTANTS MaxTriangles,      \* Config.maxTriangles
          MaxCellSize,       \* Config.maxCellSize
          MaxInstanceCount   \* Config.maxInstanceCount

ASSUME LimitAssumption == {MaxTriangles, MaxCellSize, MaxInstanceCount} \subseteq Nat \ {0}

Strategies == {"Static", "Dynamic", "Off"}

NewOutput == [geoms |-> {}, consolidated |-> {}, source |-> << >>]

\* The elements of a sequence that are in T, in order.
Sift(s, T) ==
    LET sifted[n \in 0 .. Len(s)] ==
          IF n = 0 THEN << >>
          ELSE IF s[n] \in T THEN Append(sifted[n - 1], s[n]) ELSE sifted[n - 1]
    IN sifted[Len(s)]

\* The subsets of the listed meshes, in the order the loops visit them.
SubsetsOf(list, data) ==
    LET subsets[n \in 0 .. Len(list)] ==
          IF n = 0 THEN << >>
          ELSE subsets[n - 1] \o [i \in DOMAIN data[list[n]].shadedSubsets |-> <<list[n], i>>]
    IN subsets[Len(list)]

SubsetAt(data, k) == data[k[1]].shadedSubsets[k[2]]

\* The subsets named by "keys" that still exist, changed by Op.
MapSubsets(data, keys, Op(_)) ==
    [p \in DOMAIN data |->
        IF \A k \in keys : k[1] # p THEN data[p]
        ELSE [data[p] EXCEPT !.shadedSubsets =
                [i \in DOMAIN @ |-> IF <<p, i>> \in keys THEN Op(@[i]) ELSE @[i]]]]

Released(s) == [s EXCEPT !.dirtyBits = AllDirty, !.inConsolidation = FALSE]

-----------------------------------------------------------------------------
(* Reset. *)

\* Mutant: the subsets are not handed back dirty.
ResetKeepingClean(data, cache) ==
    LET Unflagged(s) == [s EXCEPT !.inConsolidation = FALSE]
        keys == UNION {ToSet(cache[t].source) : t \in DOMAIN cache}
    IN [data |-> MapSubsets(data, keys, Unflagged), cache |-> << >>]

\* Mutant: the outputs go, the subsets are not handed back at all.
ResetKeepingFlags(data, cache) == [data |-> data, cache |-> << >>]

\* Whatever was offered to consolidation is handed back to its own buffers.
Reset(data, cache) ==
    LET keys == UNION {ToSet(cache[t].source) : t \in DOMAIN cache}
    IN [data |-> MapSubsets(data, keys, Released), cache |-> << >>]

-----------------------------------------------------------------------------
(* BuildConsolidation. *)

KeyOf(data, mode, k) == ResolveViewportMaterial(k[1], data[k[1]], SubsetAt(data, k), mode)

SubsetKeys(data, p) == {<<p, i>> : i \in DOMAIN data[p].shadedSubsets}

TrianglesOf(data, keys) == UNION {{k} \X SubsetAt(data, k).faces : k \in keys}

\* ComputeSubsetInfo: the triangles of the mesh that share the material of k.
NumTriWithSameMaterial(data, mode, k) ==
    Cardinality(TrianglesOf(data, {j \in SubsetKeys(data, k[1]) :
                                     KeyOf(data, mode, j) = KeyOf(data, mode, k)}))

CanBeConsolidated(data, mode, k) ==
    /\ data[k[1]].points # NoShape
    /\ NumTriWithSameMaterial(data, mode, k) <= MaxTriangles
    /\ NumTriWithSameMaterial(data, mode, k) <= MaxCellSize
    /\ Cardinality({KeyOf(data, mode, j) : j \in SubsetKeys(data, k[1])}) <= MaxInstanceCount
    /\ ~SubsetAt(data, k).inConsolidation

\* Mutant: the size limit of a cell is not looked at.
PlacedAnywhere(cells, key, k, size) ==
    LET fits == {n \in DOMAIN cells : cells[n].key = key}
    IN IF fits = {} THEN Append(cells, [key |-> key, numTris |-> size, inputs |-> <<k>>])
       ELSE [cells EXCEPT ![Min(fits)].numTris = @ + size, ![Min(fits)].inputs = Append(@, k)]

\* An input goes in the first cell of its material it fits in, or in a new one.
Placed(cells, key, k, size) ==
    LET fits == {n \in DOMAIN cells :
                   cells[n].key = key /\ cells[n].numTris + size <= MaxCellSize}
    IN IF fits = {} THEN Append(cells, [key |-> key, numTris |-> size, inputs |-> <<k>>])
       ELSE [cells EXCEPT ![Min(fits)].numTris = @ + size, ![Min(fits)].inputs = Append(@, k)]

BuildConsolidationCells(list, data, mode) ==
    LET subsets == SubsetsOf(list, data)
        inputs == Sift(subsets, {k \in ToSet(subsets) : CanBeConsolidated(data, mode, k)})
        cells[n \in 0 .. Len(inputs)] ==
          IF n = 0 THEN << >>
          ELSE Placed(cells[n - 1], KeyOf(data, mode, inputs[n]), inputs[n],
                      Cardinality(SubsetAt(data, inputs[n]).faces))
    IN cells[Len(inputs)]

\* A consolidated mesh: which faces of which subset it draws, with the points and
\* the highlight each mesh has in its vertex buffers.
NewGeom(cell, data) ==
    LET paths == {cell.inputs[n][1] : n \in DOMAIN cell.inputs}
    IN [material |-> cell.key,
        inputs |-> [n \in DOMAIN cell.inputs |->
                      [subset |-> cell.inputs[n],
                       faces |-> SubsetAt(data, cell.inputs[n]).faces]],
        points |-> [p \in paths |-> data[p].points],
        highlight |-> [p \in paths |-> data[p].selected],
        hasActiveSelection |-> \E p \in paths : data[p].selected]

Outputs(cache, t) == IF t \in DOMAIN cache THEN cache[t] ELSE NewOutput

CachedAt(cache, t, out) == [u \in DOMAIN cache \cup {t} |-> IF u = t THEN out ELSE cache[u]]

\* Appends to the output there is; without one and without a new consolidated mesh
\* nothing is cached.  A cell with a single input is not worth a mesh.
BuildConsolidation(list, data, cache, mode, t) ==
    LET cells == {c \in ToSet(BuildConsolidationCells(list, data, mode)) : Len(c.inputs) > 1}
        keys == UNION {ToSet(c.inputs) : c \in cells}
        out == [geoms |-> Outputs(cache, t).geoms \cup {NewGeom(c, data) : c \in cells},
                consolidated |-> Outputs(cache, t).consolidated \cup keys,
                source |-> SubsetsOf(list, data)]
        Flagged(s) == [s EXCEPT !.inConsolidation = TRUE]
    IN [data |-> MapSubsets(data, keys, Flagged),
        cache |-> IF t \in DOMAIN cache \/ cells # {} THEN CachedAt(cache, t, out) ELSE cache]

-----------------------------------------------------------------------------
(* UpdateConsolidation. *)

\* Mutant: a change of selection is not written in place either.
BreakingBitsWithSelection ==
    {"DirtyIndices", "DirtyPointsSize", "DirtyVisibility", "DirtyMaterial",
     "DirtySelectionHighlight"}

\* What cannot be written in place in the vertex buffers.
BreakingBits == {"DirtyIndices", "DirtyPointsSize", "DirtyVisibility", "DirtyMaterial"}

Flagged(list, data) ==
    LET subsets == SubsetsOf(list, data)
    IN Sift(subsets, {k \in ToSet(subsets) : SubsetAt(data, k).inConsolidation})

\* Mutant: only the dirty bits are looked at, not what has disappeared.
MustBreakWhenDirty(list, data, out, strategy, timeChanged) ==
    \E k \in ToSet(Flagged(list, data)) :
      /\ SubsetAt(data, k).dirtyBits # {}
      /\ \/ timeChanged /\ strategy # "Dynamic"
         \/ SubsetAt(data, k).dirtyBits \cap BreakingBits # {}

MustBreak(list, data, out, strategy, timeChanged) ==
    \/ \E k \in ToSet(Flagged(list, data)) :
         /\ SubsetAt(data, k).dirtyBits # {}
         /\ \/ timeChanged /\ strategy # "Dynamic"
            \/ SubsetAt(data, k).dirtyBits \cap BreakingBits # {}
    \/ Len(Flagged(list, data)) # Cardinality(out.consolidated)

GizmoSelectionDirty(data, k) ==
    k[1] \in Gizmos /\ "DirtySelectionHighlight" \in SubsetAt(data, k).dirtyBits

\* The dirty consolidated subsets to write in the vertex buffers.
ToUpdate(list, data) ==
    LET flagged == Flagged(list, data)
    IN Sift(flagged, {k \in ToSet(flagged) :
                        SubsetAt(data, k).dirtyBits # {} /\ ~GizmoSelectionDirty(data, k)})

\* Mutant: the gizmos leave the output and keep their flags.
UnconsolidateKeepingFlags(list, data, out) ==
    LET removed == {k \in out.consolidated : k[1] \in Gizmos}
    IN [data |-> data,
        out |-> [geoms |-> {g \in out.geoms :
                              \A n \in DOMAIN g.inputs : g.inputs[n].subset \notin removed},
                 consolidated |-> out.consolidated \ removed,
                 source |-> out.source]]

\* UnconsolidatePrims, for the gizmos of the list: they leave the output with every
\* geometry one of them is in.
UnconsolidateGizmos(list, data, out) ==
    LET gizmos == ToSet(list) \cap Gizmos
        removed == {k \in out.consolidated : k[1] \in gizmos}
    IN [data |-> MapSubsets(data, UNION {SubsetKeys(data, p) : p \in gizmos}, Released),
        out |-> [geoms |-> {g \in out.geoms :
                              \A n \in DOMAIN g.inputs : g.inputs[n].subset \notin removed},
                 consolidated |-> out.consolidated \ removed,
                 source |-> Sift(out.source, {k \in ToSet(out.source) : k[1] \notin gizmos})]]

\* Where the vertices of a mesh start in the buffers of a geometry, in meshes.
PositionIn(g, p) == Min({n \in DOMAIN g.inputs : g.inputs[n].subset[1] = p})

\* The range of vertices UpdateVertexBuffers locks ends with the mesh of the last
\* input, wherever that one is: these are the meshes it leaves outside.
OutsideLockedRange(g, inputs) ==
    LET mapped == Sift(inputs, {k \in ToSet(inputs) : k[1] \in DOMAIN g.points})
    IN {p \in {k[1] : k \in ToSet(mapped)} : PositionIn(g, p) > PositionIn(g, Last(mapped)[1])}

\* Mutant: the highlight flag is only ever set.
FoundHighlightOrBefore(g, selectionDirty, data) ==
    g.hasActiveSelection \/ \E k \in selectionDirty : data[k[1]].selected

\* The flag is computed anew from the inputs whose selection is dirty.
FoundHighlight(g, selectionDirty, data) ==
    IF selectionDirty = {} THEN g.hasActiveSelection
    ELSE \E k \in selectionDirty : k[1] \in DOMAIN g.points /\ data[k[1]].selected

\* UpdateVertexBuffers of one geometry from the dirty subsets of its material.  What
\* is written outside the locked range may get lost: "lost" are the meshes for which
\* it does.
UpdateVertexBuffers(g, inputs, data, lost) ==
    LET Dirty(bits) == {k \in ToSet(inputs) : SubsetAt(data, k).dirtyBits \cap bits # {}}
        Written(bits, p) == p \notin lost /\ \E k \in Dirty(bits) : k[1] = p
    IN [g EXCEPT
          !.points = [p \in DOMAIN @ |-> IF Written({"DirtyPoints", "DirtyTransforms"}, p)
                                         THEN data[p].points ELSE @[p]],
          !.highlight = [p \in DOMAIN @ |-> IF Written({"DirtySelectionHighlight"}, p)
                                            THEN data[p].selected ELSE @[p]],
          !.hasActiveSelection = FoundHighlight(g, Dirty({"DirtySelectionHighlight"}), data)]

\* The dirty subsets of the material of a geometry, in order.
InputsFor(g, list, data, mode) ==
    LET dirty == ToUpdate(list, data)
    IN Sift(dirty, {k \in ToSet(dirty) : KeyOf(data, mode, k) = g.material})

\* The meshes whose update may get lost this time.
StrayMeshes(list, data, cache, mode, t) ==
    UNION {OutsideLockedRange(g, InputsFor(g, list, data, mode)) : g \in Outputs(cache, t).geoms}

\* Mutant: the output stays where it was as well.
CopiedTo(cache, last, t, out) == CachedAt(cache, t, out)

MovedTo(cache, last, t, out) == CachedAt([u \in DOMAIN cache \ {last} |-> cache[u]], t, out)

\* The consolidation of the last time is broken, or brought up to date and moved to
\* the new time.
UpdateConsolidation(list, data, cache, config, last, t, lost) ==
    LET out == Outputs(cache, last)
        kept == IF \E k \in ToSet(Flagged(list, data)) : GizmoSelectionDirty(data, k)
                THEN UnconsolidateGizmos(list, data, out)
                ELSE [data |-> data, out |-> out]
        UpdatedGeom(g) ==
            LET inputs == InputsFor(g, list, data, config.mode)
            IN UpdateVertexBuffers(g, inputs, data, lost \cap OutsideLockedRange(g, inputs))
        updated == [kept.out EXCEPT !.geoms = {UpdatedGeom(g) : g \in kept.out.geoms}]
    IN IF out.geoms = {} THEN [data |-> data, cache |-> cache]
       ELSE IF MustBreak(list, data, out, config.strategy, last # t) THEN Reset(data, cache)
       ELSE [data |-> kept.data, cache |-> MovedTo(cache, last, t, updated)]
=============================================================================
