--------------------------- MODULE RenderDataTable ---------------------------
(***************************************************************************)
(* The render data tables of HdMaxRenderDelegate.                          *)
(*                                                                         *)
(* The delegate owns one vector of render data per kind of rprim (meshes   *)
(* and basis curves) and, beside each vector, a map from the path of the   *)
(* rprim to the position of its entry.  Other parts of the program (the    *)
(* hydra rprims, the consolidator) remember a position and the path, and   *)
(* come back with both: see SafeGet.  A position goes stale when           *)
(* DestroyRprim moves the last entry of a vector into the freed slot.      *)
(*                                                                         *)
(* Positions count from 1 here and from 0 in the code.                     *)
(***************************************************************************)
EXTENDS Naturals, Sequences, FiniteSets

CONSTANTS Paths,      \* the paths rprims may have
          Invalid,    \* the path of the static "invalid" render data: empty
          MaxIndex    \* bound: the largest position any holder remembers

ASSUME TableAssumption == Invalid \notin Paths /\ MaxIndex \in Nat

Kinds == {"mesh", "basisCurves"}

VARIABLES vector,    \* kind -> the vector of render data: the rPrimPath of each entry
          indexMap,  \* kind -> (path -> position in the vector)
          rprims     \* kind -> (path -> the renderDataIdx its rprim was given)

vars == <<vector, indexMap, rprims>>

-----------------------------------------------------------------------------
(* What the lookups return. *)

FindByKey(k, p) ==
    IF p \in DOMAIN indexMap[k] THEN vector[k][indexMap[k][p]] ELSE Invalid

\* Mutant: the remembered position is trusted without comparing the path.
SafeGetTrusting(k, i, p) ==
    IF i \in DOMAIN vector[k] THEN vector[k][i] ELSE FindByKey(k, p)

\* The remembered position is used when the entry there still has the expected
\* path, and the map otherwise.
SafeGet(k, i, p) ==
    IF i \in DOMAIN vector[k] /\ vector[k][i] = p
    THEN vector[k][i]
    ELSE FindByKey(k, p)

Live(k) == DOMAIN rprims[k]

-----------------------------------------------------------------------------
(* Removing an entry: the last entry takes the freed slot. *)

\* Mutant: the freed slot is only emptied.
VectorLeavingAHole(vec, i) == [vec EXCEPT ![i] = Invalid]

VectorWithout(vec, i) ==
    [n \in 1 .. Len(vec) - 1 |-> IF n = i THEN vec[Len(vec)] ELSE vec[n]]

\* Mutants: the entry that moved keeps its old position in the map; the slot is
\* erased and every later entry shifts down.
MapKeepingPositions(vec, map, p) == [q \in DOMAIN map \ {p} |-> map[q]]

MapShifting(vec, map, p) ==
    [q \in DOMAIN map \ {p} |-> IF map[q] > map[p] THEN map[q] - 1 ELSE map[q]]

MapWithout(vec, map, p) ==
    [q \in DOMAIN map \ {p} |-> IF q = vec[Len(vec)] THEN map[p] ELSE map[q]]

Without(f, p) == [q \in DOMAIN f \ {p} |-> f[q]]

\* insert() of std::unordered_map keeps an entry that is already there.
Inserted(f, p, v) ==
    [q \in DOMAIN f \cup {p} |-> IF q \in DOMAIN f THEN f[q] ELSE v]

-----------------------------------------------------------------------------
Init ==
    /\ vector = [k \in Kinds |-> << >>]
    /\ indexMap = [k \in Kinds |-> << >>]
    /\ rprims = [k \in Kinds |-> << >>]

\* Hydra's render index never creates an rprim under a path it already has.
CreateRprim(k, p) ==
    /\ \A kind \in Kinds : p \notin Live(kind)
    /\ vector' = [vector EXCEPT ![k] = Append(@, p)]
    /\ indexMap' = [indexMap EXCEPT ![k] = Inserted(@, p, Len(vector[k]) + 1)]
    /\ rprims' = [rprims EXCEPT ![k] = Inserted(@, p, Len(vector[k]) + 1)]

\* The kind is not passed: a path found in the map of the basis curves is
\* treated as basis curves, any other one as a mesh.
KindOf(p) ==
    IF p \in DOMAIN indexMap["basisCurves"] THEN "basisCurves" ELSE "mesh"

DestroyRprim(p) ==
    LET k == KindOf(p) IN
    /\ p \in DOMAIN indexMap[k]
    /\ vector' = [vector EXCEPT ![k] = VectorWithout(@, indexMap[k][p])]
    /\ indexMap' = [indexMap EXCEPT ![k] = MapWithout(vector[k], @, p)]
    /\ rprims' = [rprims EXCEPT ![k] = Without(@, p)]

\* Mutant: the basis curves rprims are left behind.
ClearForgettingCurves ==
    /\ vector' = [k \in Kinds |-> << >>]
    /\ indexMap' = [k \in Kinds |-> << >>]
    /\ rprims' = [rprims EXCEPT !["mesh"] = << >>]

\* A new stage: everything goes, and hydra starts over with a new render index.
Clear ==
    /\ vector' = [k \in Kinds |-> << >>]
    /\ indexMap' = [k \in Kinds |-> << >>]
    /\ rprims' = [k \in Kinds |-> << >>]

Next ==
    \/ \E k \in Kinds, p \in Paths : CreateRprim(k, p)
    \/ \E p \in Paths : DestroyRprim(p)
    \/ Clear

Spec == Init /\ [][Next]_vars

-----------------------------------------------------------------------------
TypeOK ==
    /\ vector \in [Kinds -> Seq(Paths)]
    /\ DOMAIN indexMap = Kinds
    /\ DOMAIN rprims = Kinds
    /\ \A k \in Kinds :
         /\ indexMap[k] \in [DOMAIN indexMap[k] -> Nat]
         /\ DOMAIN indexMap[k] \subseteq Paths
         /\ rprims[k] \in [DOMAIN rprims[k] -> Nat]
         /\ DOMAIN rprims[k] \subseteq Paths

\* The map and the vector of a kind describe the same bijection between paths
\* and positions, through any mix of CreateRprim and swap-removals of
\* DestroyRprim.
MapInvertsVector ==
    \A k \in Kinds :
      /\ \A p \in DOMAIN indexMap[k] :
           /\ indexMap[k][p] \in 1 .. Len(vector[k])
           /\ vector[k][indexMap[k][p]] = p
      /\ \A i \in 1 .. Len(vector[k]) :
           /\ vector[k][i] \in DOMAIN indexMap[k]
           /\ indexMap[k][vector[k][i]] = i

\* Every rprim hydra still holds has its render data, in the table of its own
\* kind and in no other, so DestroyRprim guesses the kind right.
EachRprimHasItsTable ==
    /\ \A k \in Kinds : Live(k) = DOMAIN indexMap[k]
    /\ Live("mesh") \cap Live("basisCurves") = {}

\* However stale the remembered position is, SafeGet returns the render data
\* of the rprim asked for, and the invalid one exactly when it is gone: never
\* the data of another rprim (SafeGetMeshRenderData, used by HdMaxMesh, by
\* HdMaxConsolidator::Reset and by HdMaxEngine::Consolidate).
SafeGetFindsTheRprim ==
    \A k \in Kinds, i \in 1 .. MaxIndex, p \in Paths :
      SafeGet(k, i, p) = IF p \in Live(k) THEN p ELSE Invalid

\* Destroying an rprim moves at most one other entry, the last one, and moves
\* it down: the positions everybody else remembers stay good.
OnlyTheLastEntryMoves ==
    [][\A k \in Kinds : \A p \in DOMAIN indexMap[k] \cap DOMAIN indexMap'[k] :
         \/ indexMap'[k][p] = indexMap[k][p]
         \/ indexMap[k][p] = Len(vector[k]) /\ indexMap'[k][p] < indexMap[k][p]]_vars
=============================================================================
