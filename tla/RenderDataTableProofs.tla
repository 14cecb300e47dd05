------------------------ MODULE RenderDataTableProofs ------------------------
(***************************************************************************)
(* The render data tables stay consistent for any set of paths and any     *)
(* number of rprims.  One table is treated first (TableOK and how Append   *)
(* and the swap-removal keep it), then the two tables of the delegate.     *)
(***************************************************************************)
EXTENDS RenderDataTable, TLAPS

\* The vector and the map of one kind describe the same bijection.
TableOK(vec, map) ==
    /\ vec \in Seq(Paths)
    /\ map \in [DOMAIN map -> Nat]
    /\ DOMAIN map \subseteq Paths
    /\ \A p \in DOMAIN map : map[p] \in 1 .. Len(vec) /\ vec[map[p]] = p
    /\ \A i \in 1 .. Len(vec) : vec[i] \in DOMAIN map /\ map[vec[i]] = i

\* v and m are a vector and its map after a new entry for p.
Extended(vec, map, p, v, m) ==
    v = Append(vec, p) /\ m = Inserted(map, p, Len(vec) + 1)

\* The inductive invariant: what TLC checks, with each table in the form the
\* two lemmas below speak of.
IInv ==
    /\ vector \in [Kinds -> Seq(Paths)]
    /\ DOMAIN indexMap = Kinds
    /\ DOMAIN rprims = Kinds
    /\ indexMap = [k \in Kinds |-> indexMap[k]]
    /\ rprims = [k \in Kinds |-> rprims[k]]
    /\ \A k \in Kinds : TableOK(vector[k], indexMap[k])
    /\ \A k \in Kinds : rprims[k] \in [DOMAIN rprims[k] -> Nat]
    /\ EachRprimHasItsTable

-----------------------------------------------------------------------------
\* Appending an entry (CreateRprim) keeps a table consistent.
LEMMA AppendKeepsTable ==
    ASSUME NEW vec, NEW map, TableOK(vec, map),
           NEW p \in Paths \ DOMAIN map,
           NEW v, NEW m, Extended(vec, map, p, v, m)
    PROVE  TableOK(v, m) /\ DOMAIN m = DOMAIN map \cup {p}
<1>1. vec \in Seq(Paths) /\ Len(vec) \in Nat
  BY DEF TableOK
<1>2. /\ v \in Seq(Paths) /\ Len(v) = Len(vec) + 1
      /\ v[Len(vec) + 1] = p
      /\ \A i \in 1 .. Len(vec) : v[i] = vec[i]
  BY <1>1 DEF Extended
<1>3. /\ DOMAIN m = DOMAIN map \cup {p}
      /\ m[p] = Len(vec) + 1
      /\ \A q \in DOMAIN map : m[q] = map[q]
  BY DEF Extended, Inserted
<1>4. m \in [DOMAIN m -> Nat]
  BY <1>1 DEF Extended, Inserted, TableOK
<1>5. DOMAIN m \subseteq Paths
  BY <1>3 DEF TableOK
<1>6. ASSUME NEW q \in DOMAIN m
      PROVE  m[q] \in 1 .. Len(v) /\ v[m[q]] = q
  <2>1. CASE q = p
    BY <2>1, <1>1, <1>2, <1>3
  <2>2. CASE q \in DOMAIN map
    <3>1. map[q] \in 1 .. Len(vec) /\ vec[map[q]] = q
      BY <2>2 DEF TableOK
    <3>2. m[q] = map[q] /\ v[map[q]] = vec[map[q]]
      BY <2>2, <3>1, <1>2, <1>3
    <3> QED BY <3>1, <3>2, <1>1, <1>2
  <2> QED BY <2>1, <2>2, <1>3
<1>7. ASSUME NEW i \in 1 .. Len(v)
      PROVE  v[i] \in DOMAIN m /\ m[v[i]] = i
  <2>1. CASE i = Len(vec) + 1
    BY <2>1, <1>2, <1>3
  <2>2. CASE i \in 1 .. Len(vec)
    <3>1. vec[i] \in DOMAIN map /\ map[vec[i]] = i
      BY <2>2 DEF TableOK
    <3> QED BY <3>1, <2>2, <1>2, <1>3
  <2> QED BY <2>1, <2>2, <1>1, <1>2
<1>8. TableOK(v, m)
  BY <1>2, <1>4, <1>5, <1>6, <1>7 DEF TableOK
<1> QED BY <1>3, <1>8

\* Moving the last entry into the freed slot (DestroyRprim) keeps a table
\* consistent, also when the freed slot is the last one.
LEMMA SwapRemovalKeepsTable ==
    ASSUME NEW vec, NEW map, TableOK(vec, map), NEW p \in DOMAIN map
    PROVE  /\ TableOK(VectorWithout(vec, map[p]), MapWithout(vec, map, p))
           /\ DOMAIN MapWithout(vec, map, p) = DOMAIN map \ {p}
<1> DEFINE n == Len(vec)
           v == VectorWithout(vec, map[p])
           m == MapWithout(vec, map, p)
<1>1. /\ vec \in Seq(Paths) /\ n \in Nat
      /\ \A i \in 1 .. n : vec[i] \in Paths
  BY DEF TableOK
<1>2. map[p] \in 1 .. n /\ vec[map[p]] = p
  BY DEF TableOK
<1>3. n \in 1 .. n /\ vec[n] \in DOMAIN map /\ map[vec[n]] = n
  BY <1>1, <1>2 DEF TableOK
<1>4. /\ v \in Seq(Paths) /\ Len(v) = n - 1
      /\ \A i \in 1 .. n - 1 : v[i] = IF i = map[p] THEN vec[n] ELSE vec[i]
  <2>1. v = [i \in 1 .. n - 1 |-> IF i = map[p] THEN vec[n] ELSE vec[i]]
    BY DEF VectorWithout
  <2>2. n - 1 \in Nat
    BY <1>1, <1>3
  <2>3. \A i \in 1 .. n - 1 : (IF i = map[p] THEN vec[n] ELSE vec[i]) \in Paths
    BY <1>1, <1>3
  <2> HIDE DEF v, n
  <2> QED BY <2>1, <2>2, <2>3
<1>5. /\ DOMAIN m = DOMAIN map \ {p}
      /\ \A q \in DOMAIN map \ {p} : m[q] = IF q = vec[n] THEN map[p] ELSE map[q]
  BY DEF MapWithout
<1>6. m \in [DOMAIN m -> Nat] /\ DOMAIN m \subseteq Paths
  BY DEF MapWithout, TableOK
<1>7. ASSUME NEW q \in DOMAIN m
      PROVE  m[q] \in 1 .. Len(v) /\ v[m[q]] = q
  <2>1. q \in DOMAIN map /\ q # p
    BY <1>5
  <2>2. map[q] \in 1 .. n /\ vec[map[q]] = q
    BY <2>1 DEF TableOK
  <2>3. map[q] # map[p]
    BY <2>1, <2>2, <1>2
  <2>4. CASE q = vec[n]
    <3>1. map[q] = n /\ m[q] = map[p]
      BY <2>4, <2>1, <1>3, <1>5
    <3>2. map[p] \in 1 .. n - 1
      BY <3>1, <2>3, <1>1, <1>2
    <3> HIDE DEF v, m, n
    <3> QED BY <3>1, <3>2, <2>4, <1>4
  <2>5. CASE q # vec[n]
    <3>1. m[q] = map[q]
      BY <2>5, <2>1, <1>5
    <3>2. map[q] # n
      BY <2>5, <2>2
    <3>3. map[q] \in 1 .. n - 1
      BY <3>2, <2>2, <1>1
    <3> HIDE DEF v, m, n
    <3> QED BY <3>1, <3>3, <2>2, <2>3, <1>4
  <2> QED BY <2>4, <2>5
<1>8. ASSUME NEW i \in 1 .. Len(v)
      PROVE  v[i] \in DOMAIN m /\ m[v[i]] = i
  <2>1. i \in 1 .. n - 1 /\ i \in 1 .. n /\ i # n
    BY <1>1, <1>4
  <2>2. vec[i] \in DOMAIN map /\ map[vec[i]] = i
    BY <2>1 DEF TableOK
  <2>3. CASE i = map[p]
    <3>1. v[i] = vec[n]
      BY <2>1, <2>3, <1>4
    <3>2. vec[n] # p
      BY <2>1, <2>3, <1>3
    <3>3. vec[n] \in DOMAIN m /\ m[vec[n]] = map[p]
      BY <3>2, <1>3, <1>5
    <3> QED BY <3>1, <3>3, <2>3
  <2>4. CASE i # map[p]
    <3>1. v[i] = vec[i]
      BY <2>1, <2>4, <1>4
    <3>2. vec[i] # p /\ vec[i] # vec[n]
      BY <2>1, <2>2, <2>4, <1>3
    <3>3. vec[i] \in DOMAIN m /\ m[vec[i]] = map[vec[i]]
      BY <3>2, <2>2, <1>5
    <3> QED BY <3>1, <3>3, <2>2
  <2> QED BY <2>3, <2>4
<1> HIDE DEF v, m
<1>9. TableOK(v, m)
  BY <1>4, <1>6, <1>7, <1>8 DEF TableOK
<1> QED BY <1>5, <1>9 DEF v, m

-----------------------------------------------------------------------------
\* The empty tables satisfy the invariant.
LEMMA InitEstablishes == Init => IInv
<1> SUFFICES ASSUME Init PROVE IInv
  OBVIOUS
<1>1. TableOK(<< >>, << >>)
  BY DEF TableOK
<1>2. << >> \in [DOMAIN << >> -> Nat] /\ DOMAIN << >> = {}
  OBVIOUS
<1> QED BY <1>1, <1>2 DEF Init, IInv, Kinds, EachRprimHasItsTable, Live

\* CreateRprim keeps it: it appends to one table a path that is in neither.
LEMMA CreatePreserves ==
    ASSUME IInv, NEW k \in Kinds, NEW p \in Paths, CreateRprim(k, p)
    PROVE  IInv'
<1> DEFINE n == Len(vector[k]) + 1
<1>1. p \notin DOMAIN indexMap[k] /\ p \notin Live(k)
  BY DEF CreateRprim, IInv, EachRprimHasItsTable
<1>2. TableOK(vector[k], indexMap[k]) /\ n \in Nat
  BY DEF IInv, TableOK
<1>3. /\ TableOK(vector'[k], indexMap'[k])
      /\ DOMAIN indexMap'[k] = DOMAIN indexMap[k] \cup {p}
  <2> DEFINE vec == vector[k]
             map == indexMap[k]
             v == vector'[k]
             m == indexMap'[k]
  <2>1. Extended(vec, map, p, v, m)
    BY DEF CreateRprim, IInv, Extended
  <2>2. TableOK(vec, map) /\ p \in Paths \ DOMAIN map
    BY <1>1, <1>2
  <2> HIDE DEF vec, map, v, m
  <2>3. TableOK(v, m) /\ DOMAIN m = DOMAIN map \cup {p}
    BY <2>1, <2>2, AppendKeepsTable
  <2> QED BY <2>3 DEF vec, map, v, m
<1>4. /\ rprims'[k] = Inserted(rprims[k], p, n)
      /\ DOMAIN rprims'[k] = DOMAIN rprims[k] \cup {p}
      /\ rprims'[k] \in [DOMAIN rprims'[k] -> Nat]
  BY <1>2 DEF CreateRprim, IInv, Inserted
<1>5. \A j \in Kinds \ {k} : /\ vector'[j] = vector[j]
                              /\ indexMap'[j] = indexMap[j]
                              /\ rprims'[j] = rprims[j]
  BY DEF CreateRprim, IInv
<1>6. /\ DOMAIN vector' = Kinds
      /\ vector' = [j \in Kinds |-> vector'[j]]
      /\ DOMAIN indexMap' = Kinds /\ indexMap' = [j \in Kinds |-> indexMap'[j]]
      /\ DOMAIN rprims' = Kinds /\ rprims' = [j \in Kinds |-> rprims'[j]]
  BY DEF CreateRprim, IInv
<1>7. \A j \in Kinds : TableOK(vector'[j], indexMap'[j])
  BY <1>3, <1>5 DEF IInv
<1>8. vector' \in [Kinds -> Seq(Paths)]
  BY <1>6, <1>7 DEF TableOK
<1>9. \A j \in Kinds : rprims'[j] \in [DOMAIN rprims'[j] -> Nat]
  BY <1>4, <1>5 DEF IInv
<1>10. EachRprimHasItsTable'
  <2>1. /\ \A j \in Kinds : DOMAIN rprims[j] = DOMAIN indexMap[j]
        /\ DOMAIN rprims["mesh"] \cap DOMAIN rprims["basisCurves"] = {}
    BY DEF IInv, EachRprimHasItsTable, Live
  <2>2. \A j \in Kinds : p \notin DOMAIN rprims[j]
    BY DEF CreateRprim, Live
  <2>3. \A j \in Kinds : DOMAIN rprims'[j] = DOMAIN indexMap'[j]
    BY <1>3, <1>4, <1>5, <2>1
  <2>4. \A j \in Kinds : DOMAIN rprims'[j]
                           = DOMAIN rprims[j] \cup (IF j = k THEN {p} ELSE {})
    BY <1>4, <1>5
  <2>5. DOMAIN rprims'["mesh"] \cap DOMAIN rprims'["basisCurves"] = {}
    BY <2>1, <2>2, <2>4 DEF Kinds
  <2> QED BY <2>3, <2>5 DEF EachRprimHasItsTable, Live
<1> QED BY <1>6, <1>7, <1>8, <1>9, <1>10 DEF IInv

\* DestroyRprim keeps it: it removes from the table that has the path.
LEMMA DestroyPreserves ==
    ASSUME IInv, NEW p \in Paths, DestroyRprim(p)
    PROVE  IInv'
<1> DEFINE k == KindOf(p)
<1>1. k \in Kinds /\ p \in DOMAIN indexMap[k]
  BY DEF DestroyRprim, KindOf, Kinds
<1>2. /\ vector' = [vector EXCEPT ![k] = VectorWithout(@, indexMap[k][p])]
      /\ indexMap' = [indexMap EXCEPT ![k] = MapWithout(vector[k], @, p)]
      /\ rprims' = [rprims EXCEPT ![k] = Without(@, p)]
  BY DEF DestroyRprim
<1> HIDE DEF k
<1>3. TableOK(vector[k], indexMap[k])
  BY <1>1 DEF IInv
<1>4. /\ TableOK(vector'[k], indexMap'[k])
      /\ DOMAIN indexMap'[k] = DOMAIN indexMap[k] \ {p}
  <2>1. /\ vector'[k] = VectorWithout(vector[k], indexMap[k][p])
        /\ indexMap'[k] = MapWithout(vector[k], indexMap[k], p)
    BY <1>1, <1>2 DEF IInv
  <2> QED BY <1>1, <1>3, <2>1, SwapRemovalKeepsTable
<1>5. /\ DOMAIN rprims'[k] = DOMAIN rprims[k] \ {p}
      /\ rprims'[k] \in [DOMAIN rprims'[k] -> Nat]
  BY <1>1, <1>2 DEF IInv, Without
<1>6. \A j \in Kinds \ {k} : /\ vector'[j] = vector[j]
                              /\ indexMap'[j] = indexMap[j]
                              /\ rprims'[j] = rprims[j]
  BY <1>2 DEF IInv
<1>7. /\ DOMAIN vector' = Kinds
      /\ vector' = [j \in Kinds |-> vector'[j]]
      /\ DOMAIN indexMap' = Kinds /\ indexMap' = [j \in Kinds |-> indexMap'[j]]
      /\ DOMAIN rprims' = Kinds /\ rprims' = [j \in Kinds |-> rprims'[j]]
  BY <1>2 DEF IInv
<1>8. \A j \in Kinds : TableOK(vector'[j], indexMap'[j])
  BY <1>4, <1>6 DEF IInv
<1>9. vector' \in [Kinds -> Seq(Paths)]
  BY <1>7, <1>8 DEF TableOK
<1>10. \A j \in Kinds : rprims'[j] \in [DOMAIN rprims'[j] -> Nat]
  BY <1>5, <1>6 DEF IInv
<1>11. EachRprimHasItsTable'
  BY <1>1, <1>4, <1>5, <1>6 DEF IInv, EachRprimHasItsTable, Live, Kinds
<1> QED BY <1>7, <1>8, <1>9, <1>10, <1>11 DEF IInv

\* Clear keeps it.
LEMMA ClearPreserves == IInv /\ Clear => IInv'
<1> SUFFICES ASSUME Clear PROVE IInv'
  OBVIOUS
<1>1. TableOK(<< >>, << >>)
  BY DEF TableOK
<1>2. << >> \in [DOMAIN << >> -> Nat] /\ DOMAIN << >> = {}
  OBVIOUS
<1> QED BY <1>1, <1>2 DEF Clear, IInv, Kinds, EachRprimHasItsTable, Live

\* Every step keeps it.
LEMMA NextPreserves == IInv /\ [Next]_vars => IInv'
<1> SUFFICES ASSUME IInv, [Next]_vars PROVE IInv'
  OBVIOUS
<1>1. ASSUME NEW k \in Kinds, NEW p \in Paths, CreateRprim(k, p) PROVE IInv'
  BY <1>1, CreatePreserves
<1>2. ASSUME NEW p \in Paths, DestroyRprim(p) PROVE IInv'
  BY <1>2, DestroyPreserves
<1>3. CASE Clear
  BY <1>3, ClearPreserves
<1>4. CASE UNCHANGED vars
  BY <1>4 DEF vars, IInv, TableOK, EachRprimHasItsTable, Live
<1> QED BY <1>1, <1>2, <1>3, <1>4 DEF Next

\* The inductive invariant holds of every behaviour.
LEMMA Inductive == Spec => []IInv
<1> QED BY InitEstablishes, NextPreserves, PTL DEF Spec

-----------------------------------------------------------------------------
\* The tables hold paths and positions only.
THEOREM TypeCorrect == Spec => []TypeOK
<1>1. IInv => TypeOK
  BY DEF IInv, TypeOK, TableOK, EachRprimHasItsTable, Live
<1> QED BY <1>1, Inductive, PTL

\* Path and position describe the same bijection in each table of
\* HdMaxRenderDelegate, whatever rprims hydra creates and destroys.
THEOREM TablesStayInverse == Spec => []MapInvertsVector
<1>1. IInv => MapInvertsVector
  BY DEF IInv, TableOK, MapInvertsVector
<1> QED BY <1>1, Inductive, PTL

\* No rprim is without its render data, and none is in both tables.
THEOREM RprimsStayInTheirTable == Spec => []EachRprimHasItsTable
<1>1. IInv => EachRprimHasItsTable
  BY DEF IInv
<1> QED BY <1>1, Inductive, PTL

\* SafeGetMeshRenderData returns the render data of the rprim asked for, or
\* the invalid one if it is gone, for every remembered position.
THEOREM StalePositionsAreHarmless == Spec => []SafeGetFindsTheRprim
<1>1. IInv => SafeGetFindsTheRprim
  <2> SUFFICES ASSUME IInv, NEW k \in Kinds, NEW i \in 1 .. MaxIndex, NEW p \in Paths
               PROVE  SafeGet(k, i, p) = IF p \in Live(k) THEN p ELSE Invalid
    BY DEF SafeGetFindsTheRprim
  <2>1. TableOK(vector[k], indexMap[k]) /\ Live(k) = DOMAIN indexMap[k]
    BY DEF IInv, EachRprimHasItsTable
  <2>2. DOMAIN vector[k] = 1 .. Len(vector[k])
    BY <2>1 DEF TableOK
  <2>3. CASE p \in Live(k)
    BY <2>1, <2>3 DEF TableOK, SafeGet, FindByKey
  <2>4. CASE p \notin Live(k)
    <3>1. \A n \in DOMAIN vector[k] : vector[k][n] # p
      BY <2>1, <2>2, <2>4 DEF TableOK
    <3> QED BY <3>1, <2>1, <2>4 DEF SafeGet, FindByKey
  <2> QED BY <2>3, <2>4
<1> QED BY <1>1, Inductive, PTL

\* A destroyed rprim displaces no entry but the last one, and only downwards.
THEOREM OthersStayInPlace == Spec => OnlyTheLastEntryMoves
<1> DEFINE Kept(k, p) ==
      \/ indexMap'[k][p] = indexMap[k][p]
      \/ indexMap[k][p] = Len(vector[k]) /\ indexMap'[k][p] < indexMap[k][p]
           A == \A k \in Kinds : \A p \in DOMAIN indexMap[k] \cap DOMAIN indexMap'[k] :
                  Kept(k, p)
<1>1. IInv /\ [Next]_vars => [A]_vars
  <2> SUFFICES ASSUME IInv, Next PROVE A
    OBVIOUS
  <2> SUFFICES ASSUME NEW k \in Kinds,
                      NEW p \in DOMAIN indexMap[k] \cap DOMAIN indexMap'[k]
               PROVE  Kept(k, p)
    OBVIOUS
  <2>1. ASSUME NEW j \in Kinds, NEW q \in Paths, CreateRprim(j, q) PROVE Kept(k, p)
    BY <2>1 DEF CreateRprim, Inserted, IInv
  <2>2. ASSUME NEW q \in Paths, DestroyRprim(q) PROVE Kept(k, p)
    <3>1. CASE k = KindOf(q)
      <4>1. TableOK(vector[k], indexMap[k]) /\ q \in DOMAIN indexMap[k]
        BY <2>2, <3>1 DEF IInv, DestroyRprim
      <4>2. indexMap'[k] = MapWithout(vector[k], indexMap[k], q)
        BY <2>2, <3>1 DEF DestroyRprim, IInv
      <4>3. p # q
        BY <4>2 DEF MapWithout
      <4>4. CASE p = vector[k][Len(vector[k])]
        <5>1. indexMap[k][p] = Len(vector[k]) /\ indexMap[k][q] \in 1 .. Len(vector[k])
          BY <4>1, <4>4 DEF TableOK
        <5>2. indexMap[k][q] # indexMap[k][p]
          BY <4>1, <4>3 DEF TableOK
        <5>3. indexMap'[k][p] = indexMap[k][q]
          BY <4>2, <4>3, <4>4 DEF MapWithout
        <5>4. Len(vector[k]) \in Nat
          BY <4>1 DEF TableOK
        <5> QED BY <5>1, <5>2, <5>3, <5>4
      <4>5. CASE p # vector[k][Len(vector[k])]
        BY <4>2, <4>3, <4>5 DEF MapWithout
      <4> QED BY <4>4, <4>5
    <3>2. CASE k # KindOf(q)
      BY <2>2, <3>2 DEF DestroyRprim, IInv
    <3> QED BY <3>1, <3>2
  <2>3. ASSUME Clear PROVE Kept(k, p)
    BY <2>3 DEF Clear
  <2> QED BY <2>1, <2>2, <2>3 DEF Next
<1>2. Spec => [][A]_vars
  BY <1>1, Inductive, PTL DEF Spec
<1> QED BY <1>2 DEF OnlyTheLastEntryMoves
=============================================================================
