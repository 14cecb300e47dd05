-------------------------- MODULE HdMaxEngineProofs --------------------------
(***************************************************************************)
(* The consolidation cache never holds meshes made for another time than   *)
(* the last frame's: for any stage, any settings, any sequence of times    *)
(* and whatever the edits between frames.                                  *)
(*                                                                         *)
(* And a subset that is flagged "in consolidation", so that nothing draws  *)
(* it on its own, is in a consolidated mesh, as far as that can be: of     *)
(* every mesh no more are flagged than are consolidated, for stages whose  *)
(* edits do not number the subsets of a mesh anew (StableSubsets).  The    *)
(* invariant behind it (EngineInv) says which flags the output knows, and  *)
(* what the next sync of a mesh may make of its subsets.                   *)
(***************************************************************************)
EXTENDS HdMaxEngine, FiniteSetTheorems, SequenceTheorems, WellFoundedInduction, TLAPS

\* OneConsolidation, of a cache that is not the current one.
OnlyAt(t, c) == \A u \in DOMAIN c \ {t} : c[u].geoms = {}

-----------------------------------------------------------------------------
\* After a reset there is no consolidation at any time.
LEMMA ResetLeavesNothing ==
    ASSUME NEW d, NEW c, NEW t
    PROVE  OnlyAt(t, Reset(d, c).cache)
  BY DEF OnlyAt, Reset

\* Whatever is cached at the time of the frame.
LEMMA CachedAtKeepsOne ==
    ASSUME NEW c, NEW t, NEW out, OnlyAt(t, c)
    PROVE  OnlyAt(t, CachedAt(c, t, out))
  BY DEF OnlyAt, CachedAt

\* The output of the last time leaves its entry when it moves to the new one.
LEMMA MovedToKeepsOne ==
    ASSUME NEW c, NEW last, NEW t, NEW out, OnlyAt(last, c)
    PROVE  OnlyAt(t, MovedTo(c, last, t, out))
<1> DEFINE rest == [u \in DOMAIN c \ {last} |-> c[u]]
<1>1. OnlyAt(t, rest)
  BY DEF OnlyAt
<1>2. OnlyAt(t, CachedAt(rest, t, out))
  BY <1>1, CachedAtKeepsOne
<1> QED
  BY <1>2 DEF MovedTo

\* UpdateConsolidation either finds no consolidated mesh at the last time, breaks
\* consolidation, or moves it.
LEMMA UpdateKeepsOne ==
    ASSUME NEW list, NEW d, NEW c, NEW cfg, NEW last, NEW t, NEW lost, OnlyAt(last, c)
    PROVE  OnlyAt(t, UpdateConsolidation(list, d, c, cfg, last, t, lost).cache)
<1> DEFINE new == UpdateConsolidation(list, d, c, cfg, last, t, lost)
<1>1. CASE Outputs(c, last).geoms = {}
  <2>1. new.cache = c
    BY <1>1 DEF UpdateConsolidation
  <2>2. last \in DOMAIN c => c[last].geoms = {}
    BY <1>1 DEF Outputs
  <2> QED
    BY <2>1, <2>2 DEF OnlyAt
<1>2. CASE /\ Outputs(c, last).geoms # {}
           /\ MustBreak(list, d, Outputs(c, last), cfg.strategy, last # t)
  <2>1. new = Reset(d, c)
    BY <1>2 DEF UpdateConsolidation
  <2> QED
    BY <2>1, ResetLeavesNothing
<1>3. CASE /\ Outputs(c, last).geoms # {}
           /\ ~MustBreak(list, d, Outputs(c, last), cfg.strategy, last # t)
  <2>1. \E out : new.cache = MovedTo(c, last, t, out)
    BY <1>3 DEF UpdateConsolidation
  <2> QED
    BY <2>1, MovedToKeepsOne
<1> QED
  BY <1>1, <1>2, <1>3

\* BuildConsolidation only ever adds to the output of the time of the frame.
LEMMA BuildKeepsOne ==
    ASSUME NEW list, NEW d, NEW c, NEW mode, NEW t, OnlyAt(t, c)
    PROVE  OnlyAt(t, BuildConsolidation(list, d, c, mode, t).cache)
<1> DEFINE new == BuildConsolidation(list, d, c, mode, t)
<1>1. \/ new.cache = c
      \/ \E out : new.cache = CachedAt(c, t, out)
  BY DEF BuildConsolidation
<1> QED
  BY <1>1, CachedAtKeepsOne

\* A frame's call of Consolidate, whatever the settings it comes with.
LEMMA ConsolidateKeepsOne ==
    ASSUME NEW list, NEW d, NEW c, NEW cfg, NEW t, NEW elapsed, NEW lost,
           OnlyAt(lastVpRenderTime, c)
    PROVE  OnlyAt(t, Consolidate(list, d, c, cfg, t, elapsed, lost).cache)
<1> DEFINE now == Updated(list, d, c, cfg, t, lost)
           new == Consolidate(list, d, c, cfg, t, elapsed, lost)
<1>1. OnlyAt(t, now.cache)
  BY UpdateKeepsOne, ResetLeavesNothing DEF Updated
<1>2. \/ new.cache = now.cache
      \/ new.cache = BuildConsolidation(list, now.data, now.cache, cfg.mode, t).cache
  BY DEF Consolidate
<1> QED
  BY <1>1, <1>2, BuildKeepsOne

-----------------------------------------------------------------------------
\* Hydra's part of a frame can only reset the cache.
LEMMA HydraRenderKeepsOne ==
    ASSUME OneConsolidation, NEW t, NEW tags
    PROVE  OnlyAt(lastVpRenderTime, HydraRender(t, tags).cache)
<1>1. HydraRender(t, tags).cache = PrepareBatch(tags).cache
  BY DEF HydraRender
<1>2. OnlyAt(lastVpRenderTime, cache)
  BY DEF OneConsolidation, OnlyAt
<1> QED
  BY <1>1, <1>2, ResetLeavesNothing DEF PrepareBatch

\* A frame leaves outputs for its own time only.
LEMMA RenderKeepsOne ==
    ASSUME OneConsolidation, NEW camera, Render(camera)
    PROVE  OneConsolidation'
<1>1. PICK h \in {HydraRender(camera.time, camera.tags)} :
        \/ RenderNothing(h, camera)
        \/ \E setting, elapsed, lost :
             RenderList(h, GetMeshRenderData(h.data), ConfigOf(setting), camera, elapsed, lost)
  BY DEF Render
<1>2. OnlyAt(lastVpRenderTime, h.cache)
  BY HydraRenderKeepsOne
<1>3. CASE RenderNothing(h, camera)
  BY <1>2, <1>3 DEF RenderNothing, OneConsolidation, OnlyAt
<1>4. ASSUME NEW list, NEW cfg, NEW elapsed, NEW lost,
             RenderList(h, list, cfg, camera, elapsed, lost)
      PROVE  OneConsolidation'
  <2>1. /\ cache' = Consolidate(list, h.data, h.cache, cfg, camera.time, elapsed, lost).cache
        /\ lastVpRenderTime' = camera.time
    BY <1>4 DEF RenderList
  <2>2. OnlyAt(camera.time, cache')
    BY <1>2, <2>1, ConsolidateKeepsOne
  <2> QED
    BY <2>1, <2>2 DEF OneConsolidation, OnlyAt
<1> QED
  BY <1>1, <1>3, <1>4

\* So does RenderToMesh, which may reset them.
LEMMA RenderToMeshKeepsOne ==
    ASSUME OneConsolidation, NEW t, NEW tags, RenderToMesh(t, tags)
    PROVE  OneConsolidation'
<1>1. cache' = HydraRender(t, tags).cache /\ lastVpRenderTime' = lastVpRenderTime
  BY DEF RenderToMesh
<1> QED
  BY <1>1, HydraRenderKeepsOne DEF OneConsolidation, OnlyAt

\* No edit touches the cache.
LEMMA EditsLeaveTheCache ==
    ASSUME (\E p \in DOMAIN scene : EditMesh(p)) \/ EditStage
    PROVE  UNCHANGED <<cache, lastVpRenderTime>>
  BY DEF EditMesh, EditStage, SetPoints, SetVisible, SetDisplayColor, SetBinding, SetRenderTag,
         EditInstances, DestroyRprim, CreateRprim, SetSelection, SetDisplayMode, EditPrim,
         engineVars

\* There is no output at the start.
LEMMA InitHasNone == Init => OneConsolidation
  BY DEF Init, OneConsolidation

\* Every step leaves outputs for the last time drawn only.
LEMMA NextKeepsOne == OneConsolidation /\ [Next]_vars => OneConsolidation'
<1> SUFFICES ASSUME OneConsolidation, [Next]_vars PROVE OneConsolidation'
  OBVIOUS
<1>1. CASE (\E p \in DOMAIN scene : EditMesh(p)) \/ EditStage
  BY <1>1, EditsLeaveTheCache DEF OneConsolidation
<1>2. CASE \E camera \in Cameras : Render(camera)
  BY <1>2, RenderKeepsOne
<1>3. CASE \E t \in Times, tags \in RenderTagSets : RenderToMesh(t, tags)
  BY <1>3, RenderToMeshKeepsOne
<1>4. CASE UNCHANGED vars
  BY <1>4 DEF vars, engineVars, OneConsolidation
<1> QED
  BY <1>1, <1>2, <1>3, <1>4 DEF Next

\* There are no consolidated meshes but those of the last frame, whatever the
\* sequence of times, settings and edits (HdMaxConsolidator::UpdateConsolidation moves
\* the output, HdMaxEngine::Consolidate builds at the time of the frame only).
THEOREM CacheHoldsOneConsolidation == Spec => []OneConsolidation
  BY InitHasNone, NextKeepsOne, PTL DEF Spec

-----------------------------------------------------------------------------
(* Sequences and recursion. *)

\* A set of numbers that is not empty has a least one.
LEMMA LeastNumber ==
    ASSUME NEW T, T \subseteq Nat, T # {}
    PROVE  \E x \in T : \A y \in T : x <= y
<1> DEFINE R == OpToRel(<, Nat)
<1>1. IsWellFoundedOn(R, Nat)
  BY NatLessThanWellFounded
<1> HIDE DEF R
<1>2. PICK x \in T : \A y \in T : ~ (<<y, x>> \in R)
  BY <1>1, WFMin
<1>3. ASSUME NEW y \in T, y < x
      PROVE  <<y, x>> \in R
  BY <1>3 DEF R, OpToRel
<1>4. \A y \in T : ~ (y < x) /\ y \in Nat /\ x \in Nat
  BY <1>2, <1>3
<1> QED BY <1>4

\* What holds of 0, and of a number if it does of the one before, holds of all.
LEMMA CountUp ==
    ASSUME NEW N \in Nat, NEW I, 0 \in I, \A n \in 1 .. N : n - 1 \in I => n \in I
    PROVE  \A n \in 0 .. N : n \in I
<1> DEFINE T == (0 .. N) \ I
<1>1. ASSUME T # {}
      PROVE  FALSE
  <2>1. PICK n \in T : \A k \in T : n <= k
    <3>1. T \subseteq Nat
      OBVIOUS
    <3> HIDE DEF T
    <3> QED BY <1>1, <3>1, LeastNumber
  <2>2. n \in 1 .. N /\ n - 1 \in 0 .. N /\ n \notin I
    OBVIOUS
  <2>3. n - 1 \notin T
    BY <2>1, <2>2
  <2> QED BY <2>2, <2>3
<1> QED BY <1>1

\* f[n] is made of n and f[n - 1].
Unfolds(f, N, base, step) == f[0] = base /\ \A n \in 1 .. N : f[n] = step[<<n, f[n - 1]>>]

\* There is a function that is defined so.
LEMMA RecursionExists ==
    ASSUME NEW X, NEW N \in Nat, NEW base \in X, NEW step \in [(1 .. N) \X X -> X]
    PROVE  \E f \in [0 .. N -> X] : Unfolds(f, N, base, step)
<1> DEFINE Builds(f, m) ==
             /\ f \in [0 .. m -> X]
             /\ f[0] = base
             /\ \A n \in 1 .. m : f[n] = step[<<n, f[n - 1]>>]
           I == {m \in 0 .. N : \E f : Builds(f, m)}
<1>1. 0 \in I
  <2> DEFINE g == [n \in 0 .. 0 |-> base]
  <2>1. g \in [0 .. 0 -> X] /\ g[0] = base /\ 1 .. 0 = {}
    OBVIOUS
  <2> HIDE DEF g
  <2>2. Builds(g, 0)
    BY <2>1
  <2>3. 0 \in 0 .. N
    OBVIOUS
  <2> HIDE DEF Builds
  <2> QED BY <2>2, <2>3
<1>2. ASSUME NEW m \in 1 .. N, m - 1 \in I
      PROVE  m \in I
  <2>1. PICK f : Builds(f, m - 1)
    BY <1>2
  <2> DEFINE g == [n \in 0 .. m |-> IF n = m THEN step[<<m, f[m - 1]>>] ELSE f[n]]
  <2>2. f[m - 1] \in X /\ step[<<m, f[m - 1]>>] \in X
    <3>1. m - 1 \in 0 .. m - 1
      OBVIOUS
    <3> QED BY <2>1, <3>1
  <2>3. g \in [0 .. m -> X]
    BY <2>1, <2>2
  <2>4. g[0] = base
    BY <2>1
  <2>5. ASSUME NEW n \in 1 .. m
        PROVE  g[n] = step[<<n, g[n - 1]>>]
    <3>1. n - 1 \in 0 .. m /\ n - 1 # m /\ n \in 0 .. m
      OBVIOUS
    <3>2. g[n - 1] = f[n - 1]
      BY <3>1
    <3>3. CASE n = m
      BY <3>1, <3>2, <3>3
    <3>4. CASE n # m
      <4>1. n \in 1 .. m - 1
        BY <3>4
      <4>2. f[n] = step[<<n, f[n - 1]>>]
        BY <2>1, <4>1
      <4> QED BY <3>1, <3>2, <3>4, <4>2
    <3> QED BY <3>3, <3>4
  <2>6. Builds(g, m)
    <3> HIDE DEF g
    <3> QED BY <2>3, <2>4, <2>5
  <2> QED
    <3> HIDE DEF Builds, g
    <3> QED BY <2>6
<1>3. N \in I
  <2>1. N \in 0 .. N
    OBVIOUS
  <2> HIDE DEF I
  <2> QED BY <1>1, <1>2, <2>1, CountUp
<1>4. PICK f : Builds(f, N)
  BY <1>3
<1> QED BY <1>4 DEF Unfolds

\* A finite set of numbers can be put in order.
LEMMA InOrderSorts ==
    ASSUME NEW S, S \subseteq Nat, IsFiniteSet(S)
    PROVE  /\ InOrder(S) \in [1 .. Cardinality(S) -> S]
           /\ \A i, j \in DOMAIN InOrder(S) : i < j => InOrder(S)[i] < InOrder(S)[j]
<1> DEFINE Sorts(s, A) ==
             /\ s \in [1 .. Cardinality(A) -> A]
             /\ \A i, j \in DOMAIN s : i < j => s[i] < s[j]
           N == Cardinality(S)
           I == {n \in 0 .. N :
                   \A A \in SUBSET S : Cardinality(A) = n => \E s : Sorts(s, A)}
<1>1. N \in Nat
  BY FS_CardinalityType
<1>2. \A A \in SUBSET S : IsFiniteSet(A) /\ Cardinality(A) \in 0 .. N
  <2>1. ASSUME NEW A \in SUBSET S
        PROVE  IsFiniteSet(A) /\ Cardinality(A) \in Nat /\ Cardinality(A) <= N
    BY FS_Subset, FS_CardinalityType
  <2> QED BY <1>1, <2>1
<1>3. 0 \in I
  <2>1. ASSUME NEW A \in SUBSET S, Cardinality(A) = 0
        PROVE  \E s : Sorts(s, A)
    <3> DEFINE s == [i \in {} |-> i]
    <3>1. 1 .. Cardinality(A) = {} /\ DOMAIN s = {} /\ s \in [{} -> A]
      BY <2>1
    <3> HIDE DEF s
    <3>2. Sorts(s, A)
      BY <3>1
    <3> QED BY <3>2
  <2>2. 0 \in 0 .. N
    BY <1>1
  <2> HIDE DEF Sorts
  <2> QED BY <2>1, <2>2
<1>4. ASSUME NEW n \in 1 .. N, n - 1 \in I
      PROVE  n \in I
  <2>1. ASSUME NEW A \in SUBSET S, Cardinality(A) = n
        PROVE  \E s : Sorts(s, A)
    <3>1. A # {}
      BY <1>1, <2>1, FS_EmptySet
    <3>2. PICK m \in A : \A k \in A : m <= k
      BY <3>1, LeastNumber
    <3> DEFINE B == A \ {m}
    <3>3. B \in SUBSET S /\ Cardinality(B) = n - 1
      BY <1>2, <2>1, FS_RemoveElement
    <3>4. PICK s : Sorts(s, B)
      BY <1>4, <3>3
    <3> DEFINE t == [i \in 1 .. n |-> IF i = 1 THEN m ELSE s[i - 1]]
    <3>5. \A i \in 1 .. n : i # 1 => i - 1 \in 1 .. n - 1 /\ i - 1 \in DOMAIN s /\ s[i - 1] \in B
      <4>1. DOMAIN s = 1 .. n - 1
        BY <3>3, <3>4
      <4>2. ASSUME NEW i \in 1 .. n, i # 1
            PROVE  i - 1 \in 1 .. n - 1
        BY <1>1, <4>2
      <4> QED BY <3>3, <3>4, <4>1, <4>2
    <3>6. t \in [1 .. Cardinality(A) -> A]
      BY <2>1, <3>5
    <3>7. ASSUME NEW i \in DOMAIN t, NEW j \in DOMAIN t, i < j
          PROVE  t[i] < t[j]
      <4>1. i \in 1 .. n /\ j \in 1 .. n /\ j # 1
        BY <1>1, <3>7
      <4>2. t[j] = s[j - 1] /\ s[j - 1] \in B
        BY <3>5, <4>1
      <4>3. CASE i = 1
        <5>1. t[i] = m
          BY <4>1, <4>3
        <5>2. m \in Nat /\ s[j - 1] \in Nat /\ m <= s[j - 1] /\ m # s[j - 1]
          BY <3>2, <4>2
        <5> QED BY <4>2, <5>1, <5>2
      <4>4. CASE i # 1
        <5>1. t[i] = s[i - 1] /\ i - 1 \in DOMAIN s /\ j - 1 \in DOMAIN s /\ i - 1 < j - 1
          BY <1>1, <3>5, <3>7, <4>1, <4>4
        <5> QED BY <3>4, <4>2, <5>1
      <4> QED BY <4>3, <4>4
    <3>8. Sorts(t, A)
      <4> HIDE DEF t, B
      <4> QED BY <3>6, <3>7
    <3> QED
      <4> HIDE DEF Sorts, t
      <4> QED BY <3>8
  <2>2. n \in 0 .. N
    BY <1>1
  <2> HIDE DEF Sorts
  <2> QED BY <2>1, <2>2
<1>5. N \in I
  <2>1. N \in 0 .. N
    BY <1>1
  <2> HIDE DEF I, N
  <2> QED BY <1>1, <1>3, <1>4, <2>1, CountUp
<1>6. \E s : Sorts(s, S)
  <2> HIDE DEF Sorts
  <2> QED BY <1>5
<1> QED BY <1>6 DEF InOrder

-----------------------------------------------------------------------------
\* One more element.
LEMMA AppendedSet ==
    ASSUME NEW S, NEW s \in Seq(S), NEW x \in S
    PROVE  /\ Append(s, x) \in Seq(S)
           /\ ToSet(Append(s, x)) = ToSet(s) \cup {x}
           /\ IsInjective(s) /\ x \notin ToSet(s) => IsInjective(Append(s, x))
<1>1. /\ Append(s, x) \in Seq(S) /\ Len(s) \in Nat /\ DOMAIN s = 1 .. Len(s)
      /\ DOMAIN Append(s, x) = 1 .. Len(s) + 1
      /\ Append(s, x)[Len(s) + 1] = x /\ \A i \in 1 .. Len(s) : Append(s, x)[i] = s[i]
  BY AppendProperties
<1> DEFINE t == Append(s, x)
<1> HIDE DEF t
<1>2. \A i \in 1 .. Len(s) + 1 : i = Len(s) + 1 \/ i \in 1 .. Len(s)
  BY <1>1
<1>3. Len(s) + 1 \in 1 .. Len(s) + 1 /\ \A i \in 1 .. Len(s) : i \in 1 .. Len(s) + 1
  BY <1>1
<1>4. ToSet(t) = ToSet(s) \cup {x}
  BY <1>1, <1>2, <1>3 DEF ToSet, t
<1>5. ASSUME IsInjective(s), x \notin ToSet(s)
      PROVE  IsInjective(t)
  BY <1>1, <1>2, <1>5 DEF ToSet, IsInjective, t
<1> QED BY <1>1, <1>4, <1>5 DEF t

\* What Sift leaves.
LEMMA SiftProperties ==
    ASSUME NEW S, NEW s \in Seq(S), NEW T
    PROVE  /\ Sift(s, T) \in Seq(S)
           /\ ToSet(Sift(s, T)) = ToSet(s) \cap T
           /\ IsInjective(s) => IsInjective(Sift(s, T))
<1> DEFINE N == Len(s)
           Step(g) == [n \in 0 .. N |->
                         IF n = 0 THEN <<>>
                         ELSE IF s[n] \in T THEN Append(g[n - 1], s[n]) ELSE g[n - 1]]
           sifted == CHOOSE g : g = Step(g)
           Taken(n) == {s[i] : i \in 1 .. n}
           I == {n \in 0 .. N :
                   /\ sifted[n] \in Seq(S)
                   /\ ToSet(sifted[n]) = Taken(n) \cap T
                   /\ IsInjective(s) => IsInjective(sifted[n])}
<1>1. N \in Nat /\ DOMAIN s = 1 .. N /\ \A n \in 1 .. N : s[n] \in S
  OBVIOUS
<1>2. Sift(s, T) = sifted[N]
  BY DEF Sift
<1> HIDE DEF N
<1>3. sifted = Step(sifted)
  <2> DEFINE step == [a \in (1 .. N) \X Seq(S) |->
                        IF s[a[1]] \in T THEN Append(a[2], s[a[1]]) ELSE a[2]]
  <2>1. step \in [(1 .. N) \X Seq(S) -> Seq(S)]
    <3>1. ASSUME NEW a \in (1 .. N) \X Seq(S)
          PROVE  (IF s[a[1]] \in T THEN Append(a[2], s[a[1]]) ELSE a[2]) \in Seq(S)
      BY <1>1, AppendProperties
    <3> QED BY <3>1
  <2>2. <<>> \in Seq(S)
    OBVIOUS
  <2>3. PICK f \in [0 .. N -> Seq(S)] : Unfolds(f, N, <<>>, step)
    <3> HIDE DEF step
    <3> QED BY <1>1, <2>1, <2>2, RecursionExists
  <2>4. \A n \in 1 .. N : n - 1 \in 0 .. N /\ f[n - 1] \in Seq(S)
    BY <1>1
  <2>5. ASSUME NEW n \in 0 .. N
        PROVE  f[n] = IF n = 0 THEN <<>>
                      ELSE IF s[n] \in T THEN Append(f[n - 1], s[n]) ELSE f[n - 1]
    <3>1. n # 0 => n \in 1 .. N
      BY <1>1
    <3> QED BY <2>3, <2>4, <3>1 DEF Unfolds
  <2>6. f = Step(f)
    BY <2>5
  <2> HIDE DEF Step
  <2> QED BY <2>6
<1> HIDE DEF sifted
<1>4. sifted[0] = <<>>
  BY <1>1, <1>3
<1>5. ASSUME NEW n \in 1 .. N
      PROVE  /\ sifted[n] = IF s[n] \in T THEN Append(sifted[n - 1], s[n]) ELSE sifted[n - 1]
             /\ n - 1 \in 0 .. N
             /\ Taken(n) = Taken(n - 1) \cup {s[n]}
             /\ IsInjective(s) => s[n] \notin Taken(n - 1)
  <2>1. n \in 0 .. N /\ n # 0 /\ n - 1 \in 0 .. N
    BY <1>1
  <2>2. sifted[n] = IF s[n] \in T THEN Append(sifted[n - 1], s[n]) ELSE sifted[n - 1]
    BY <1>3, <2>1
  <2>3. /\ \A i \in 1 .. n : i = n \/ i \in 1 .. n - 1
        /\ \A i \in 1 .. n - 1 : i \in 1 .. n /\ i \in 1 .. N /\ i # n
        /\ n \in 1 .. n
    BY <1>1
  <2>4. Taken(n) = Taken(n - 1) \cup {s[n]}
    BY <2>3
  <2>5. IsInjective(s) => s[n] \notin Taken(n - 1)
    BY <1>1, <2>3 DEF IsInjective
  <2> QED BY <2>1, <2>2, <2>4, <2>5
<1> HIDE DEF Step
<1>6. 0 \in I
  <2>1. Taken(0) = {} /\ ToSet(<<>>) = {} /\ IsInjective(<<>>) /\ <<>> \in Seq(S) /\ 0 \in 0 .. N
    BY <1>1 DEF ToSet, IsInjective
  <2> HIDE DEF Taken
  <2> QED BY <1>4, <2>1
<1>7. ASSUME NEW n \in 1 .. N, n - 1 \in I
      PROVE  n \in I
  <2> HIDE DEF Taken
  <2>1. /\ sifted[n - 1] \in Seq(S) /\ ToSet(sifted[n - 1]) = Taken(n - 1) \cap T
        /\ IsInjective(s) => IsInjective(sifted[n - 1])
    BY <1>7
  <2>2. s[n] \in S /\ n \in 0 .. N
    BY <1>1
  <2>3. CASE s[n] \in T
    <3>1. sifted[n] = Append(sifted[n - 1], s[n])
      BY <1>5, <2>3
    <3>2. IsInjective(s) => s[n] \notin ToSet(sifted[n - 1])
      BY <1>5, <2>1
    <3>3. Taken(n) \cap T = (Taken(n - 1) \cap T) \cup {s[n]}
      BY <1>5, <2>3
    <3>4. /\ Append(sifted[n - 1], s[n]) \in Seq(S)
          /\ ToSet(Append(sifted[n - 1], s[n])) = ToSet(sifted[n - 1]) \cup {s[n]}
          /\ IsInjective(s) => IsInjective(Append(sifted[n - 1], s[n]))
      BY <2>1, <2>2, <3>2, AppendedSet
    <3> QED BY <2>1, <2>2, <3>1, <3>3, <3>4
  <2>4. CASE s[n] \notin T
    BY <1>5, <2>1, <2>2, <2>4
  <2> QED BY <2>3, <2>4
<1>8. N \in I
  <2>1. N \in 0 .. N
    BY <1>1
  <2> HIDE DEF I
  <2> QED BY <1>1, <1>6, <1>7, <2>1, CountUp
<1>9. Taken(N) = ToSet(s)
  BY <1>1 DEF ToSet
<1> HIDE DEF Taken
<1> QED BY <1>2, <1>8, <1>9

\* Two sequences, one after the other.
LEMMA JoinedSet ==
    ASSUME NEW S, NEW s \in Seq(S), NEW t \in Seq(S)
    PROVE  /\ s \o t \in Seq(S)
           /\ ToSet(s \o t) = ToSet(s) \cup ToSet(t)
           /\ IsInjective(s) /\ IsInjective(t) /\ ToSet(s) \cap ToSet(t) = {} => IsInjective(s \o t)
<1> DEFINE r == s \o t
           m == Len(s)
           n == Len(t)
<1>1. /\ r \in Seq(S) /\ m \in Nat /\ n \in Nat
      /\ DOMAIN s = 1 .. m /\ DOMAIN t = 1 .. n /\ DOMAIN r = 1 .. m + n
      /\ \A i \in 1 .. m + n : r[i] = IF i <= m THEN s[i] ELSE t[i - m]
  BY ConcatProperties
<1> HIDE DEF r, m, n
<1>2. \A i \in 1 .. m + n : i \in 1 .. m \/ (~(i <= m) /\ i - m \in 1 .. n)
  BY <1>1
<1>3. /\ \A i \in 1 .. m : i \in 1 .. m + n /\ r[i] = s[i]
      /\ \A i \in 1 .. n : i + m \in 1 .. m + n /\ r[i + m] = t[i]
  <2>1. ASSUME NEW i \in 1 .. n
        PROVE  i + m \in 1 .. m + n /\ ~(i + m <= m) /\ (i + m) - m = i
    BY <1>1
  <2> QED BY <1>1, <2>1
<1>4. ToSet(r) = ToSet(s) \cup ToSet(t)
  <2>1. /\ \A x : x \in ToSet(s) <=> \E i \in 1 .. m : x = s[i]
        /\ \A x : x \in ToSet(t) <=> \E i \in 1 .. n : x = t[i]
        /\ \A x : x \in ToSet(r) <=> \E i \in 1 .. m + n : x = r[i]
    BY <1>1 DEF ToSet
  <2>2. ASSUME NEW i \in 1 .. m + n
        PROVE  r[i] \in ToSet(s) \cup ToSet(t)
    BY <1>1, <1>2, <2>1
  <2>3. ASSUME NEW x \in ToSet(s) \cup ToSet(t)
        PROVE  x \in ToSet(r)
    BY <1>3, <2>1
  <2> QED BY <2>1, <2>2, <2>3
<1>5. ASSUME IsInjective(s), IsInjective(t), ToSet(s) \cap ToSet(t) = {}
      PROVE  IsInjective(r)
  <2>1. SUFFICES ASSUME NEW i \in 1 .. m + n, NEW j \in 1 .. m + n, r[i] = r[j]
                 PROVE  i = j
    BY <1>1 DEF IsInjective
  <2>2. CASE i \in 1 .. m /\ j \in 1 .. m
    BY <1>1, <1>3, <1>5, <2>1, <2>2 DEF IsInjective
  <2>3. CASE ~(i <= m) /\ i - m \in 1 .. n /\ ~(j <= m) /\ j - m \in 1 .. n
    <3>1. t[i - m] = t[j - m]
      BY <1>1, <2>1, <2>3
    <3>2. i - m = j - m
      BY <1>1, <1>5, <2>3, <3>1 DEF IsInjective
    <3> QED BY <1>1, <3>2
  <2>4. CASE (i \in 1 .. m) # (j \in 1 .. m)
    <3>1. \A x \in 1 .. m, y \in 1 .. m + n : ~(y <= m) /\ y - m \in 1 .. n => r[x] # r[y]
      <4>1. \A x \in 1 .. m, y \in 1 .. n : s[x] # t[y]
        BY <1>1, <1>5 DEF ToSet
      <4> QED BY <1>1, <1>3, <4>1
    <3> QED BY <1>2, <2>1, <2>4, <3>1
  <2> QED BY <1>2, <2>2, <2>3, <2>4
<1> QED BY <1>1, <1>4, <1>5 DEF r

\* The subsets of listed meshes are theirs, and each is listed once.
LEMMA SubsetsOfProperties ==
    ASSUME NEW P, NEW list \in Seq(P), NEW D, NEW S,
           \A p \in ToSet(list) : D[p].shadedSubsets \in Seq(S)
    PROVE  /\ SubsetsOf(list, D) \in Seq(P \X Nat)
           /\ ToSet(SubsetsOf(list, D)) = UNION {SubsetKeys(D, p) : p \in ToSet(list)}
           /\ IsInjective(list) => IsInjective(SubsetsOf(list, D))
<1> DEFINE N == Len(list)
           X == Seq(P \X Nat)
           Block(n) == [i \in DOMAIN D[list[n]].shadedSubsets |-> <<list[n], i>>]
           Step(g) == [n \in 0 .. N |-> IF n = 0 THEN <<>> ELSE g[n - 1] \o Block(n)]
           subsets == CHOOSE g : g = Step(g)
           Taken(n) == UNION {SubsetKeys(D, list[i]) : i \in 1 .. n}
           I == {n \in 0 .. N :
                   /\ subsets[n] \in X
                   /\ ToSet(subsets[n]) = Taken(n)
                   /\ IsInjective(list) => IsInjective(subsets[n])}
<1>1. N \in Nat /\ DOMAIN list = 1 .. N /\ \A n \in 1 .. N : list[n] \in P /\ list[n] \in ToSet(list)
  BY DEF ToSet
<1>2. SubsetsOf(list, D) = subsets[N]
  BY DEF SubsetsOf
<1> HIDE DEF N
<1>3. ASSUME NEW n \in 1 .. N
      PROVE  /\ Block(n) \in X
             /\ ToSet(Block(n)) = SubsetKeys(D, list[n])
             /\ IsInjective(Block(n))
  <2> DEFINE L == Len(D[list[n]].shadedSubsets)
  <2>1. L \in Nat /\ DOMAIN D[list[n]].shadedSubsets = 1 .. L
    BY <1>1
  <2>2. Block(n) \in [1 .. L -> P \X Nat]
    BY <1>1, <2>1
  <2>3. Block(n) \in X
    BY <2>1, <2>2
  <2>4. ToSet(Block(n)) = SubsetKeys(D, list[n])
    BY DEF ToSet, SubsetKeys
  <2>5. IsInjective(Block(n))
    BY DEF IsInjective
  <2> QED BY <2>3, <2>4, <2>5
<1> HIDE DEF Block
<1>4. subsets = Step(subsets)
  <2> DEFINE step == [a \in (1 .. N) \X X |-> a[2] \o Block(a[1])]
  <2>1. step \in [(1 .. N) \X X -> X]
    <3>1. ASSUME NEW a \in (1 .. N) \X X
          PROVE  a[2] \o Block(a[1]) \in X
      BY <1>3, ConcatProperties
    <3> QED BY <3>1
  <2>2. <<>> \in X
    OBVIOUS
  <2>3. PICK f \in [0 .. N -> X] : Unfolds(f, N, <<>>, step)
    <3> HIDE DEF step, X
    <3> QED BY <1>1, <2>1, <2>2, RecursionExists
  <2>4. ASSUME NEW n \in 1 .. N
        PROVE  f[n] = f[n - 1] \o Block(n)
    <3>1. n - 1 \in 0 .. N /\ f[n - 1] \in X
      BY <1>1
    <3> QED BY <2>3, <3>1 DEF Unfolds
  <2>5. ASSUME NEW n \in 0 .. N
        PROVE  f[n] = IF n = 0 THEN <<>> ELSE f[n - 1] \o Block(n)
    <3>1. n # 0 => n \in 1 .. N
      BY <1>1
    <3> QED BY <2>3, <2>4, <3>1 DEF Unfolds
  <2>6. f = Step(f)
    BY <2>5
  <2> HIDE DEF Step
  <2> QED BY <2>6
<1> HIDE DEF subsets
<1>5. subsets[0] = <<>>
  BY <1>1, <1>4
<1>6. ASSUME NEW n \in 1 .. N
      PROVE  /\ subsets[n] = subsets[n - 1] \o Block(n)
             /\ Taken(n) = Taken(n - 1) \cup SubsetKeys(D, list[n])
             /\ IsInjective(list) => Taken(n - 1) \cap SubsetKeys(D, list[n]) = {}
  <2>1. n \in 0 .. N /\ n # 0
    BY <1>1
  <2>2. subsets[n] = subsets[n - 1] \o Block(n)
    BY <1>4, <2>1
  <2>3. /\ \A i \in 1 .. n : i = n \/ i \in 1 .. n - 1
        /\ \A i \in 1 .. n - 1 : i \in 1 .. n /\ i \in 1 .. N /\ i # n
        /\ n \in 1 .. n
    BY <1>1
  <2>4. Taken(n) = Taken(n - 1) \cup SubsetKeys(D, list[n])
    BY <2>3
  <2>5. ASSUME IsInjective(list), NEW k \in Taken(n - 1)
        PROVE  k \notin SubsetKeys(D, list[n])
    <3>1. PICK i \in 1 .. n - 1 : k \in SubsetKeys(D, list[i])
      OBVIOUS
    <3>2. list[i] # list[n]
      BY <1>1, <2>3, <2>5 DEF IsInjective
    <3> QED BY <3>1, <3>2 DEF SubsetKeys
  <2> HIDE DEF Taken
  <2> QED BY <2>2, <2>4, <2>5
<1> HIDE DEF Step
<1>7. 0 \in I
  <2>1. /\ Taken(0) = {} /\ ToSet(<<>>) = {} /\ IsInjective(<<>>) /\ <<>> \in X
        /\ 0 \in 0 .. N
    BY <1>1 DEF ToSet, IsInjective
  <2> HIDE DEF Taken, X
  <2> QED BY <1>5, <2>1
<1>8. ASSUME NEW n \in 1 .. N, n - 1 \in I
      PROVE  n \in I
  <2> HIDE DEF Taken
  <2>1. /\ subsets[n - 1] \in X /\ ToSet(subsets[n - 1]) = Taken(n - 1)
        /\ IsInjective(list) => IsInjective(subsets[n - 1])
    BY <1>8
  <2>2. /\ subsets[n - 1] \o Block(n) \in X
        /\ ToSet(subsets[n - 1] \o Block(n)) = ToSet(subsets[n - 1]) \cup ToSet(Block(n))
        /\ IsInjective(list) => IsInjective(subsets[n - 1] \o Block(n))
    BY <1>3, <1>6, <2>1, JoinedSet
  <2>3. n \in 0 .. N
    BY <1>1
  <2> QED BY <1>3, <1>6, <2>1, <2>2, <2>3
<1>9. N \in I
  <2>1. N \in 0 .. N
    BY <1>1
  <2> HIDE DEF I
  <2> QED BY <1>1, <1>7, <1>8, <2>1, CountUp
<1>10. Taken(N) = UNION {SubsetKeys(D, p) : p \in ToSet(list)}
  BY <1>1 DEF ToSet
<1> HIDE DEF Taken
<1> QED BY <1>2, <1>9, <1>10

Cells(Q, K) == [key : Q, numTris : Nat, inputs : Seq(K)]

\* Inputs in a cell are of its material, and no cell has one of another.
CellsApart(cells, D, mode) ==
    /\ \A n \in DOMAIN cells :
          /\ IsInjective(cells[n].inputs)
          /\ \A k \in ToSet(cells[n].inputs) : KeyOf(D, mode, k) = cells[n].key
    /\ \A m, n \in DOMAIN cells :
          m # n => ToSet(cells[m].inputs) \cap ToSet(cells[n].inputs) = {}

InputsIn(cells) == UNION {ToSet(cells[n].inputs) : n \in DOMAIN cells}

\* An input goes in one cell, and every cell keeps its material.
LEMMA PlacedProperties ==
    ASSUME NEW Q, NEW K, NEW cells \in Seq(Cells(Q, K)), NEW key \in Q, NEW k \in K, NEW size \in Nat
    PROVE  /\ Placed(cells, key, k, size) \in Seq(Cells(Q, K))
           /\ \/ Placed(cells, key, k, size)
                   = Append(cells, [key |-> key, numTris |-> size, inputs |-> <<k>>])
              \/ \E m \in DOMAIN cells :
                   /\ cells[m].key = key
                   /\ cells[m].numTris + size <= MaxCellSize
                   /\ Placed(cells, key, k, size) = [cells EXCEPT ![m] =
                        [key |-> key, numTris |-> cells[m].numTris + size,
                         inputs |-> Append(cells[m].inputs, k)]]
<1> DEFINE fits == {n \in DOMAIN cells :
                      cells[n].key = key /\ cells[n].numTris + size <= MaxCellSize}
<1>1. /\ Len(cells) \in Nat /\ DOMAIN cells = 1 .. Len(cells)
      /\ \A n \in DOMAIN cells : cells[n] \in Cells(Q, K)
  OBVIOUS
<1>2. CASE fits = {}
  <2>1. Placed(cells, key, k, size)
          = Append(cells, [key |-> key, numTris |-> size, inputs |-> <<k>>])
    BY <1>2 DEF Placed
  <2>2. [key |-> key, numTris |-> size, inputs |-> <<k>>] \in Cells(Q, K)
    BY DEF Cells
  <2> QED BY <2>1, <2>2, AppendProperties
<1>3. CASE fits # {}
  <2>1. fits \subseteq Nat /\ fits \subseteq DOMAIN cells
    BY <1>1
  <2>2. Min(fits) \in fits
    <3> HIDE DEF fits
    <3>1. \E x \in fits : \A y \in fits : x <= y
      BY <1>3, <2>1, LeastNumber
    <3> QED BY <3>1 DEF Min
  <2> DEFINE m == Min(fits)
             new == [key |-> key, numTris |-> cells[m].numTris + size,
                     inputs |-> Append(cells[m].inputs, k)]
  <2>3. /\ m \in DOMAIN cells /\ cells[m].key = key /\ cells[m].numTris + size <= MaxCellSize
        /\ cells[m] \in Cells(Q, K)
    BY <1>1, <2>2
  <2>4. Placed(cells, key, k, size)
          = [cells EXCEPT ![m].numTris = @ + size, ![m].inputs = Append(@, k)]
    BY <1>3 DEF Placed
  <2> HIDE DEF m
  <2>5. /\ cells[m] = [key |-> cells[m].key, numTris |-> cells[m].numTris,
                       inputs |-> cells[m].inputs]
        /\ cells[m].numTris \in Nat /\ cells[m].inputs \in Seq(K)
    BY <2>3 DEF Cells
  <2>6. Placed(cells, key, k, size) = [cells EXCEPT ![m] = new]
    BY <2>3, <2>4, <2>5
  <2>7. new \in Cells(Q, K)
    BY <2>3, <2>5, AppendProperties DEF Cells
  <2> HIDE DEF new
  <2>8. [cells EXCEPT ![m] = new] \in Seq(Cells(Q, K))
    BY <1>1, <2>3, <2>7
  <2> QED BY <2>3, <2>6, <2>8 DEF new
<1> QED BY <1>2, <1>3

\* One more input.
LEMMA PlacedApart ==
    ASSUME NEW Q, NEW K, NEW cells \in Seq(Cells(Q, K)), NEW k \in K, NEW size \in Nat,
           NEW D, NEW mode, KeyOf(D, mode, k) \in Q, CellsApart(cells, D, mode),
           k \notin InputsIn(cells)
    PROVE  /\ Placed(cells, KeyOf(D, mode, k), k, size) \in Seq(Cells(Q, K))
           /\ CellsApart(Placed(cells, KeyOf(D, mode, k), k, size), D, mode)
           /\ InputsIn(Placed(cells, KeyOf(D, mode, k), k, size)) = InputsIn(cells) \cup {k}
<1> DEFINE key == KeyOf(D, mode, k)
           new == Placed(cells, key, k, size)
           added == [key |-> key, numTris |-> size, inputs |-> <<k>>]
<1>1. /\ Len(cells) \in Nat /\ DOMAIN cells = 1 .. Len(cells)
      /\ \A n \in DOMAIN cells : cells[n].inputs \in Seq(K)
  <2>1. \A n \in DOMAIN cells : cells[n] \in Cells(Q, K)
    OBVIOUS
  <2> QED BY <2>1 DEF Cells
<1>2. new \in Seq(Cells(Q, K))
  BY PlacedProperties
<1>3. CASE new = Append(cells, added)
  <2> DEFINE N == Len(cells) + 1
  <2>1. /\ DOMAIN new = 1 .. N /\ N \in 1 .. N /\ N \notin DOMAIN cells
        /\ \A n \in 1 .. N : n = N \/ n \in DOMAIN cells
        /\ \A n \in DOMAIN cells : n \in 1 .. N
    BY <1>1, <1>3
  <2>2. new[N].inputs = <<k>> /\ new[N].key = key /\ \A n \in DOMAIN cells : new[n] = cells[n]
    BY <1>1, <1>3
  <2>3. ToSet(<<k>>) = {k} /\ IsInjective(<<k>>)
    BY DEF ToSet, IsInjective
  <2>4. \A n \in DOMAIN cells : k \notin ToSet(cells[n].inputs)
    BY DEF InputsIn
  <2> HIDE DEF new, key, N
  <2>5. CellsApart(new, D, mode)
    <3>1. ASSUME NEW n \in DOMAIN new
          PROVE  /\ IsInjective(new[n].inputs)
                 /\ \A j \in ToSet(new[n].inputs) : KeyOf(D, mode, j) = new[n].key
      BY <2>1, <2>2, <2>3 DEF CellsApart, key
    <3>2. ASSUME NEW m \in DOMAIN new, NEW n \in DOMAIN new, m # n
          PROVE  ToSet(new[m].inputs) \cap ToSet(new[n].inputs) = {}
      <4>1. CASE m = N
        <5>1. n \in DOMAIN cells /\ new[n] = cells[n]
          BY <2>1, <2>2, <3>2, <4>1
        <5> QED BY <2>2, <2>3, <2>4, <4>1, <5>1
      <4>2. CASE n = N
        <5>1. m \in DOMAIN cells /\ new[m] = cells[m]
          BY <2>1, <2>2, <3>2, <4>2
        <5> QED BY <2>2, <2>3, <2>4, <4>2, <5>1
      <4>3. CASE m # N /\ n # N
        <5>1. m \in DOMAIN cells /\ n \in DOMAIN cells /\ new[m] = cells[m] /\ new[n] = cells[n]
          BY <2>1, <2>2, <4>3
        <5> QED BY <3>2, <5>1 DEF CellsApart
      <4> QED BY <4>1, <4>2, <4>3
    <3> QED BY <3>1, <3>2 DEF CellsApart
  <2>6. InputsIn(new) = InputsIn(cells) \cup {k}
    BY <2>1, <2>2, <2>3 DEF InputsIn
  <2> QED BY <1>2, <2>5, <2>6 DEF new, key
<1>4. ASSUME NEW m \in DOMAIN cells, cells[m].key = key,
             new = [cells EXCEPT ![m] =
                      [key |-> key, numTris |-> cells[m].numTris + size,
                       inputs |-> Append(cells[m].inputs, k)]]
      PROVE  CellsApart(new, D, mode) /\ InputsIn(new) = InputsIn(cells) \cup {k}
  <2>1. /\ DOMAIN new = DOMAIN cells
        /\ new[m].inputs = Append(cells[m].inputs, k) /\ new[m].key = cells[m].key
        /\ \A n \in DOMAIN cells : n # m => new[n] = cells[n]
    BY <1>4
  <2>2. \A n \in DOMAIN cells : k \notin ToSet(cells[n].inputs)
    BY DEF InputsIn
  <2> HIDE DEF new, key
  <2>3. /\ ToSet(new[m].inputs) = ToSet(cells[m].inputs) \cup {k}
        /\ IsInjective(cells[m].inputs) => IsInjective(new[m].inputs)
    BY <1>1, <2>1, <2>2, AppendedSet
  <2>4. CellsApart(new, D, mode)
    <3>1. ASSUME NEW n \in DOMAIN new
          PROVE  /\ IsInjective(new[n].inputs)
                 /\ \A j \in ToSet(new[n].inputs) : KeyOf(D, mode, j) = new[n].key
      BY <1>4, <2>1, <2>3 DEF CellsApart, key
    <3>2. ASSUME NEW i \in DOMAIN new, NEW n \in DOMAIN new, i # n
          PROVE  ToSet(new[i].inputs) \cap ToSet(new[n].inputs) = {}
      <4>1. ToSet(cells[i].inputs) \cap ToSet(cells[n].inputs) = {}
        BY <2>1, <3>2 DEF CellsApart
      <4>2. CASE i = m
        BY <2>1, <2>2, <2>3, <3>2, <4>1, <4>2
      <4>3. CASE n = m
        BY <2>1, <2>2, <2>3, <3>2, <4>1, <4>3
      <4>4. CASE i # m /\ n # m
        BY <2>1, <4>1, <4>4
      <4> QED BY <4>2, <4>3, <4>4
    <3> QED BY <3>1, <3>2 DEF CellsApart
  <2>5. InputsIn(new) = InputsIn(cells) \cup {k}
    BY <2>1, <2>3 DEF InputsIn
  <2> QED BY <2>4, <2>5
<1>5. \/ new = Append(cells, added)
      \/ \E m \in DOMAIN cells :
           /\ cells[m].key = key
           /\ new = [cells EXCEPT ![m] =
                      [key |-> key, numTris |-> cells[m].numTris + size,
                       inputs |-> Append(cells[m].inputs, k)]]
  BY PlacedProperties
<1> HIDE DEF new, key, added
<1> QED BY <1>2, <1>3, <1>4, <1>5 DEF new, key

\* The triangles of the inputs of a cell, each with the number of its input.
TrianglesIn(inputs, D) ==
    UNION {{n} \X SubsetAt(D, inputs[n]).faces : n \in DOMAIN inputs}

\* The number of triangles of a cell is right, and no cell has too many.
CellsFit(cells, D) ==
    \A n \in DOMAIN cells :
      /\ IsFiniteSet(TrianglesIn(cells[n].inputs, D))
      /\ cells[n].numTris = Cardinality(TrianglesIn(cells[n].inputs, D))
      /\ cells[n].numTris <= MaxCellSize

\* Naming the elements of a set does not change their number.
LEMMA SizeOfNamed ==
    ASSUME NEW F, IsFiniteSet(F), NEW n
    PROVE  IsFiniteSet({n} \X F) /\ Cardinality({n} \X F) = Cardinality(F)
<1> DEFINE T == {n} \X F
           f == [x \in F |-> <<n, x>>]
<1>1. f \in [F -> T]
  OBVIOUS
<1>2. \A x, y \in F : f[x] = f[y] => x = y
  OBVIOUS
<1>3. \A z \in T : \E x \in F : f[x] = z
  OBVIOUS
<1> HIDE DEF f, T
<1>4. f \in Bijection(F, T)
  BY <1>1, <1>2, <1>3 DEF Bijection, Injection, IsInjective, Surjection
<1>5. ExistsBijection(F, T)
  BY <1>4 DEF ExistsBijection
<1>6. IsFiniteSet(T) /\ Cardinality(T) = Cardinality(F)
  BY <1>5, FS_Bijection
<1> QED
  BY <1>6 DEF T

\* One more input adds its triangles.
LEMMA TrianglesAdded ==
    ASSUME NEW K, NEW inputs \in Seq(K), NEW k \in K, NEW D,
           IsFiniteSet(SubsetAt(D, k).faces), IsFiniteSet(TrianglesIn(inputs, D))
    PROVE  /\ IsFiniteSet(TrianglesIn(Append(inputs, k), D))
           /\ Cardinality(TrianglesIn(Append(inputs, k), D))
                = Cardinality(TrianglesIn(inputs, D)) + Cardinality(SubsetAt(D, k).faces)
<1> DEFINE N == Len(inputs) + 1
           r == Append(inputs, k)
           A == TrianglesIn(inputs, D)
           F == SubsetAt(D, k).faces
           B == {N} \X F
<1>1. /\ N \in Nat /\ DOMAIN inputs = 1 .. N - 1 /\ DOMAIN r = 1 .. N
      /\ r[N] = k /\ \A n \in 1 .. N - 1 : r[n] = inputs[n]
  OBVIOUS
<1>2. /\ \A n \in 1 .. N : n = N \/ n \in 1 .. N - 1
      /\ \A n \in 1 .. N - 1 : n \in 1 .. N /\ n # N
      /\ N \in 1 .. N
  BY <1>1
<1> HIDE DEF N, r
<1>3. TrianglesIn(r, D) = A \cup B
  BY <1>1, <1>2 DEF TrianglesIn
<1>4. A \cap B = {}
  BY <1>1, <1>2 DEF TrianglesIn
<1> HIDE DEF A, F
<1>5. IsFiniteSet(B) /\ Cardinality(B) = Cardinality(F)
  BY SizeOfNamed DEF F
<1>6. IsFiniteSet(A)
  BY DEF A
<1> HIDE DEF B
<1>7. /\ IsFiniteSet(A \cup B)
      /\ Cardinality(A \cup B) = Cardinality(A) + Cardinality(B) - Cardinality(A \cap B)
  BY <1>5, <1>6, FS_Union
<1>8. Cardinality(A \cap B) = 0 /\ Cardinality(A) \in Nat /\ Cardinality(B) \in Nat
  BY <1>4, <1>5, <1>6, FS_EmptySet, FS_CardinalityType
<1> QED
  BY <1>3, <1>5, <1>7, <1>8 DEF r, A, F

\* A placed input of a known size leaves the cells within their limit.
LEMMA PlacedOfSizeFits ==
    ASSUME NEW Q, NEW K, NEW cells \in Seq(Cells(Q, K)), NEW key \in Q, NEW k \in K,
           NEW size \in Nat, NEW D, CellsFit(cells, D), size <= MaxCellSize,
           \A inputs \in Seq(K) :
             IsFiniteSet(TrianglesIn(inputs, D)) =>
               /\ IsFiniteSet(TrianglesIn(Append(inputs, k), D))
               /\ Cardinality(TrianglesIn(Append(inputs, k), D))
                    = Cardinality(TrianglesIn(inputs, D)) + size
    PROVE  CellsFit(Placed(cells, key, k, size), D)
<1> DEFINE new == Placed(cells, key, k, size)
           added == [key |-> key, numTris |-> size, inputs |-> <<k>>]
<1>1. /\ Len(cells) \in Nat /\ DOMAIN cells = 1 .. Len(cells)
      /\ \A n \in DOMAIN cells : cells[n].inputs \in Seq(K) /\ cells[n].numTris \in Nat
  <2>1. \A n \in DOMAIN cells : cells[n] \in Cells(Q, K)
    OBVIOUS
  <2> QED BY <2>1 DEF Cells
<1>2. CASE new = Append(cells, added)
  <2> DEFINE N == Len(cells) + 1
             e == << >>
             s == Append(e, k)
  <2>1. /\ DOMAIN new = 1 .. N /\ N \in 1 .. N
        /\ \A n \in 1 .. N : n = N \/ n \in DOMAIN cells
        /\ new[N] = added
        /\ \A n \in DOMAIN cells : new[n] = cells[n]
    BY <1>1, <1>2
  <2>2. TrianglesIn(e, D) = {} /\ e \in Seq(K)
    BY DEF TrianglesIn
  <2>3. IsFiniteSet({}) /\ Cardinality({}) = 0
    BY FS_EmptySet
  <2>4. added.inputs = s /\ added.numTris = size
    OBVIOUS
  <2> HIDE DEF new, added, N, e
  <2>5. IsFiniteSet(TrianglesIn(s, D)) /\ Cardinality(TrianglesIn(s, D)) = 0 + size
    BY <2>2, <2>3
  <2> HIDE DEF s
  <2>6. /\ IsFiniteSet(TrianglesIn(new[N].inputs, D))
        /\ new[N].numTris = Cardinality(TrianglesIn(new[N].inputs, D))
        /\ new[N].numTris <= MaxCellSize
    BY <2>1, <2>4, <2>5
  <2>7. CellsFit(new, D)
    BY <2>1, <2>6 DEF CellsFit
  <2> QED
    BY <2>7 DEF new
<1>3. ASSUME NEW m \in DOMAIN cells, cells[m].numTris + size <= MaxCellSize,
             new = [cells EXCEPT ![m] =
                      [key |-> key, numTris |-> cells[m].numTris + size,
                       inputs |-> Append(cells[m].inputs, k)]]
      PROVE  CellsFit(new, D)
  <2>1. /\ DOMAIN new = DOMAIN cells
        /\ new[m].inputs = Append(cells[m].inputs, k) /\ new[m].numTris = cells[m].numTris + size
        /\ \A n \in DOMAIN cells : n # m => new[n] = cells[n]
    BY <1>3
  <2> DEFINE old == cells[m].inputs
  <2>2. /\ old \in Seq(K) /\ IsFiniteSet(TrianglesIn(old, D))
        /\ cells[m].numTris = Cardinality(TrianglesIn(old, D))
    BY <1>1 DEF CellsFit
  <2>3. new[m].inputs = Append(old, k)
    BY <2>1
  <2> HIDE DEF old, new
  <2>4. /\ IsFiniteSet(TrianglesIn(Append(old, k), D))
        /\ Cardinality(TrianglesIn(Append(old, k), D)) = cells[m].numTris + size
    BY <2>2
  <2> QED
    BY <1>3, <2>1, <2>3, <2>4 DEF CellsFit
<1>4. \/ new = Append(cells, added)
      \/ \E m \in DOMAIN cells :
           /\ cells[m].key = key
           /\ cells[m].numTris + size <= MaxCellSize
           /\ new = [cells EXCEPT ![m] =
                      [key |-> key, numTris |-> cells[m].numTris + size,
                       inputs |-> Append(cells[m].inputs, k)]]
  BY PlacedProperties
<1> HIDE DEF new, added
<1> QED BY <1>2, <1>3, <1>4 DEF new

\* A placed input leaves the cells within their limit.
LEMMA PlacedFits ==
    ASSUME NEW Q, NEW K, NEW cells \in Seq(Cells(Q, K)), NEW key \in Q, NEW k \in K, NEW D,
           IsFiniteSet(SubsetAt(D, k).faces), CellsFit(cells, D),
           Cardinality(SubsetAt(D, k).faces) <= MaxCellSize
    PROVE  CellsFit(Placed(cells, key, k, Cardinality(SubsetAt(D, k).faces)), D)
<1> DEFINE size == Cardinality(SubsetAt(D, k).faces)
<1>1. size \in Nat /\ size <= MaxCellSize
  BY FS_CardinalityType
<1>2. \A inputs \in Seq(K) :
        IsFiniteSet(TrianglesIn(inputs, D)) =>
          /\ IsFiniteSet(TrianglesIn(Append(inputs, k), D))
          /\ Cardinality(TrianglesIn(Append(inputs, k), D))
               = Cardinality(TrianglesIn(inputs, D)) + size
  BY TrianglesAdded
<1> HIDE DEF size
<1>3. CellsFit(Placed(cells, key, k, size), D)
  BY <1>1, <1>2, PlacedOfSizeFits
<1> QED
  BY <1>3 DEF size

\* A subset that can be consolidated is not too big for a cell.
LEMMA OwnTrianglesFit ==
    ASSUME NEW D, NEW mode, NEW k, NEW F, IsFiniteSet(F), k \in SubsetKeys(D, k[1]),
           IsFiniteSet(DOMAIN D[k[1]].shadedSubsets),
           \A j \in SubsetKeys(D, k[1]) : SubsetAt(D, j).faces \subseteq F,
           CanBeConsolidated(D, mode, k)
    PROVE  /\ IsFiniteSet(SubsetAt(D, k).faces)
           /\ Cardinality(SubsetAt(D, k).faces) <= MaxCellSize
<1> DEFINE p == k[1]
           A == {j \in SubsetKeys(D, p) : KeyOf(D, mode, j) = KeyOf(D, mode, k)}
           T == TrianglesOf(D, A)
           own == SubsetAt(D, k).faces
           I == DOMAIN D[p].shadedSubsets
<1>1. T \in SUBSET (({p} \X I) \X F)
  BY DEF TrianglesOf, SubsetKeys
<1>2. IsFiniteSet(({p} \X I) \X F)
  <2>1. IsFiniteSet({p})
    BY FS_Singleton
  <2> HIDE DEF I, p
  <2>2. IsFiniteSet({p} \X I)
    BY <2>1, FS_Product DEF I, p
  <2> QED
    BY <2>2, FS_Product
<1>3. own \in SUBSET F /\ {k} \X own \subseteq T
  BY DEF TrianglesOf
<1>4. Cardinality(T) <= MaxCellSize
  BY DEF CanBeConsolidated, NumTriWithSameMaterial
<1> HIDE DEF T, own, I, p
<1>5. IsFiniteSet(T) /\ IsFiniteSet(own)
  BY <1>1, <1>2, <1>3, FS_Subset
<1>6. Cardinality({k} \X own) = Cardinality(own)
  BY <1>5, SizeOfNamed
<1>7. {k} \X own \in SUBSET T
  BY <1>3
<1>8. Cardinality(own) <= Cardinality(T) /\ Cardinality(own) \in Nat /\ Cardinality(T) \in Nat
  <2> DEFINE named == {k} \X own
  <2>1. named \in SUBSET T /\ Cardinality(named) = Cardinality(own)
    BY <1>6, <1>7
  <2> HIDE DEF named
  <2>2. Cardinality(named) <= Cardinality(T)
    BY <1>5, <2>1, FS_Subset
  <2> QED
    BY <1>5, <2>1, <2>2, FS_CardinalityType
<1> QED
  BY <1>4, <1>5, <1>8, LimitAssumption DEF LimitAssumption, own

\* What the cells of a list hold: subsets of it that can be consolidated, each once,
\* and no more triangles than allowed.
LEMMA CellsProperties ==
    ASSUME NEW P, NEW list \in Seq(P), IsInjective(list), NEW D, NEW S, NEW mode,
           \A p \in ToSet(list) : D[p].shadedSubsets \in Seq(S),
           NEW F, IsFiniteSet(F), \A s \in S : s.faces \subseteq F
    PROVE  LET cells == BuildConsolidationCells(list, D, mode)
           IN /\ \E Q : cells \in Seq(Cells(Q, P \X Nat))
              /\ CellsApart(cells, D, mode)
              /\ CellsFit(cells, D)
              /\ \A k : k \in InputsIn(cells) <=>
                          k \in ToSet(SubsetsOf(list, D)) /\ CanBeConsolidated(D, mode, k)
<1> DEFINE subsets == SubsetsOf(list, D)
           inputs == Sift(subsets, {k \in ToSet(subsets) : CanBeConsolidated(D, mode, k)})
           N == Len(inputs)
           K == P \X Nat
           Q == {KeyOf(D, mode, k) : k \in ToSet(inputs)}
           Size(n) == Cardinality(SubsetAt(D, inputs[n]).faces)
           Step(g) == [n \in 0 .. N |->
                         IF n = 0 THEN << >>
                         ELSE Placed(g[n - 1], KeyOf(D, mode, inputs[n]), inputs[n], Size(n))]
           cells == CHOOSE g : g = Step(g)
           X == Seq(Cells(Q, K))
           Taken(n) == {inputs[i] : i \in 1 .. n}
           I == {n \in 0 .. N :
                   /\ cells[n] \in X /\ CellsApart(cells[n], D, mode) /\ CellsFit(cells[n], D)
                   /\ InputsIn(cells[n]) = Taken(n)}
<1>1. /\ subsets \in Seq(K) /\ IsInjective(subsets)
      /\ ToSet(subsets) = UNION {SubsetKeys(D, p) : p \in ToSet(list)}
  BY SubsetsOfProperties
<1>2. BuildConsolidationCells(list, D, mode) = cells[N]
  BY DEF BuildConsolidationCells
<1> HIDE DEF subsets, K
<1>3. /\ inputs \in Seq(K) /\ IsInjective(inputs)
      /\ ToSet(inputs) = {k \in ToSet(subsets) : CanBeConsolidated(D, mode, k)}
  <2> DEFINE T == {k \in ToSet(subsets) : CanBeConsolidated(D, mode, k)}
  <2>1. T \subseteq ToSet(subsets)
    OBVIOUS
  <2> HIDE DEF T
  <2> DEFINE r == Sift(subsets, T)
  <2>2. r \in Seq(K) /\ IsInjective(r) /\ ToSet(r) = ToSet(subsets) \cap T
    BY <1>1, SiftProperties
  <2>3. ToSet(subsets) \cap T = T
    BY <2>1
  <2> QED BY <2>2, <2>3 DEF T
<1> HIDE DEF inputs
<1>4. N \in Nat /\ DOMAIN inputs = 1 .. N /\ \A n \in 1 .. N : inputs[n] \in K /\ inputs[n] \in ToSet(inputs)
  BY <1>3 DEF ToSet
<1>5. \A n \in 1 .. N : /\ IsFiniteSet(SubsetAt(D, inputs[n]).faces)
                        /\ Size(n) \in Nat /\ Size(n) <= MaxCellSize
                        /\ KeyOf(D, mode, inputs[n]) \in Q
  <2>1. ASSUME NEW n \in 1 .. N
        PROVE  /\ IsFiniteSet(SubsetAt(D, inputs[n]).faces)
               /\ Size(n) \in Nat /\ Size(n) <= MaxCellSize
    <3> DEFINE k == inputs[n]
    <3>1. k \in UNION {SubsetKeys(D, p) : p \in ToSet(list)} /\ CanBeConsolidated(D, mode, k)
      BY <1>1, <1>3, <1>4
    <3>2. PICK p \in ToSet(list) : k \in SubsetKeys(D, p)
      BY <3>1
    <3>3. Size(n) = Cardinality(SubsetAt(D, k).faces)
      OBVIOUS
    <3> HIDE DEF k, Size
    <3>4. k[1] = p /\ k \in SubsetKeys(D, k[1])
      BY <3>2 DEF SubsetKeys
    <3>5. IsFiniteSet(DOMAIN D[k[1]].shadedSubsets)
      <4>1. D[p].shadedSubsets \in Seq(S)
        OBVIOUS
      <4> DEFINE subs == D[p].shadedSubsets
      <4>2. DOMAIN subs = 1 .. Len(subs) /\ Len(subs) \in Int
        BY <4>1
      <4> HIDE DEF subs
      <4>3. IsFiniteSet(1 .. Len(subs))
        BY <4>2, FS_Interval
      <4> QED
        BY <3>4, <4>2, <4>3 DEF subs
    <3>6. \A j \in SubsetKeys(D, k[1]) : SubsetAt(D, j).faces \subseteq F
      <4>1. \A i \in DOMAIN D[p].shadedSubsets : D[p].shadedSubsets[i].faces \subseteq F
        OBVIOUS
      <4> QED
        BY <3>4, <4>1 DEF SubsetKeys, SubsetAt
    <3>7. /\ IsFiniteSet(SubsetAt(D, k).faces)
          /\ Cardinality(SubsetAt(D, k).faces) <= MaxCellSize
      BY <3>1, <3>4, <3>5, <3>6, OwnTrianglesFit
    <3> QED
      BY <3>3, <3>7, FS_CardinalityType DEF k
  <2> QED BY <1>4, <2>1
<1> HIDE DEF N, Size, Q
<1>6. cells = Step(cells)
  <2> DEFINE step == [a \in (1 .. N) \X X |->
                        Placed(a[2], KeyOf(D, mode, inputs[a[1]]), inputs[a[1]], Size(a[1]))]
  <2>1. step \in [(1 .. N) \X X -> X]
    <3>1. ASSUME NEW a \in (1 .. N) \X X
          PROVE  Placed(a[2], KeyOf(D, mode, inputs[a[1]]), inputs[a[1]], Size(a[1])) \in X
      <4>1. a[1] \in 1 .. N /\ a[2] \in X
        OBVIOUS
      <4> QED BY <1>4, <1>5, <4>1, PlacedProperties
    <3> HIDE DEF X
    <3> QED BY <3>1
  <2>2. <<>> \in X
    OBVIOUS
  <2> HIDE DEF X
  <2>3. PICK f \in [0 .. N -> X] : Unfolds(f, N, <<>>, step)
    <3> HIDE DEF step
    <3> QED BY <1>4, <2>1, <2>2, RecursionExists
  <2>4. ASSUME NEW n \in 1 .. N
        PROVE  f[n] = Placed(f[n - 1], KeyOf(D, mode, inputs[n]), inputs[n], Size(n))
    <3>1. n - 1 \in 0 .. N /\ f[n - 1] \in X
      BY <1>4
    <3>2. f[n] = step[<<n, f[n - 1]>>]
      BY <2>3 DEF Unfolds
    <3> QED BY <3>1, <3>2
  <2>5. ASSUME NEW n \in 0 .. N
        PROVE  f[n] = IF n = 0 THEN <<>>
                      ELSE Placed(f[n - 1], KeyOf(D, mode, inputs[n]), inputs[n], Size(n))
    <3>1. n # 0 => n \in 1 .. N
      BY <1>4
    <3> QED BY <2>3, <2>4, <3>1 DEF Unfolds
  <2>6. f = Step(f)
    BY <2>5
  <2> HIDE DEF Step
  <2> QED BY <2>6
<1> HIDE DEF cells
<1>7. /\ cells[0] = <<>>
      /\ \A n \in 1 .. N : n \in 0 .. N /\ n # 0
            /\ cells[n] = Placed(cells[n - 1], KeyOf(D, mode, inputs[n]), inputs[n], Size(n))
  <2>1. \A n \in 1 .. N : n \in 0 .. N /\ n # 0
    BY <1>4
  <2> QED BY <1>4, <1>6, <2>1
<1> HIDE DEF Step
<1>8. 0 \in I
  <2>1. <<>> \in X /\ DOMAIN <<>> = {}
    OBVIOUS
  <2>2. CellsApart(<<>>, D, mode) /\ CellsFit(<<>>, D) /\ InputsIn(<<>>) = {}
    BY <2>1 DEF CellsApart, CellsFit, InputsIn
  <2>3. Taken(0) = {} /\ 0 \in 0 .. N
    BY <1>4
  <2> HIDE DEF Taken, X
  <2> QED BY <1>7, <2>1, <2>2, <2>3
<1>9. ASSUME NEW n \in 1 .. N, n - 1 \in I
      PROVE  n \in I
  <2>1. /\ cells[n - 1] \in X /\ CellsApart(cells[n - 1], D, mode) /\ CellsFit(cells[n - 1], D)
        /\ InputsIn(cells[n - 1]) = Taken(n - 1)
    BY <1>9
  <2>2. /\ \A i \in 1 .. n : i = n \/ i \in 1 .. n - 1
        /\ \A i \in 1 .. n - 1 : i \in 1 .. n /\ i \in 1 .. N /\ i # n
        /\ n \in 1 .. n
    BY <1>4
  <2>3. Taken(n) = Taken(n - 1) \cup {inputs[n]} /\ inputs[n] \notin Taken(n - 1)
    <3>1. Taken(n) = Taken(n - 1) \cup {inputs[n]}
      BY <2>2
    <3>2. \A i \in 1 .. n - 1 : inputs[i] # inputs[n]
      BY <1>3, <1>4, <2>2 DEF IsInjective
    <3> QED BY <3>1, <3>2
  <2> HIDE DEF Taken, I
  <2>4. /\ cells[n] \in X /\ CellsApart(cells[n], D, mode) /\ CellsFit(cells[n], D)
        /\ InputsIn(cells[n]) = InputsIn(cells[n - 1]) \cup {inputs[n]}
    <3>1. inputs[n] \in K /\ Size(n) \in Nat /\ KeyOf(D, mode, inputs[n]) \in Q
      BY <1>4, <1>5
    <3>2. inputs[n] \notin InputsIn(cells[n - 1])
      BY <2>1, <2>3
    <3>3. cells[n - 1] \in Seq(Cells(Q, K)) /\ CellsApart(cells[n - 1], D, mode)
      BY <2>1
    <3> DEFINE c == cells[n - 1]
               k == inputs[n]
               size == Size(n)
               new == Placed(c, KeyOf(D, mode, k), k, size)
    <3>4. cells[n] = new
      BY <1>7
    <3>5. /\ new \in Seq(Cells(Q, K)) /\ CellsApart(new, D, mode)
          /\ InputsIn(new) = InputsIn(c) \cup {k}
      <4>1. /\ c \in Seq(Cells(Q, K)) /\ k \in K /\ size \in Nat /\ KeyOf(D, mode, k) \in Q
            /\ CellsApart(c, D, mode) /\ k \notin InputsIn(c)
        BY <3>1, <3>2, <3>3
      <4> HIDE DEF c, k, size
      <4> QED BY <4>1, PlacedApart
    <3>6. CellsFit(new, D)
      <4>1. /\ c \in Seq(Cells(Q, K)) /\ k \in K /\ KeyOf(D, mode, k) \in Q /\ CellsFit(c, D)
            /\ IsFiniteSet(SubsetAt(D, k).faces) /\ size <= MaxCellSize
            /\ size = Cardinality(SubsetAt(D, k).faces)
        BY <1>5, <2>1, <3>1 DEF Size
      <4> DEFINE key == KeyOf(D, mode, k)
      <4> HIDE DEF c, k, size, key
      <4>2. CellsFit(Placed(c, key, k, Cardinality(SubsetAt(D, k).faces)), D)
        BY <4>1, PlacedFits DEF key
      <4> QED BY <4>1, <4>2 DEF key
    <3> HIDE DEF new
    <3> QED BY <3>4, <3>5, <3>6
  <2> QED BY <1>7, <2>1, <2>3, <2>4 DEF I
<1>10. N \in I
  <2>1. N \in 0 .. N
    BY <1>4
  <2> HIDE DEF I
  <2> QED BY <1>4, <1>8, <1>9, <2>1, CountUp
<1>11. Taken(N) = ToSet(inputs)
  BY <1>4 DEF ToSet
<1> HIDE DEF Taken
<1> QED BY <1>2, <1>3, <1>10, <1>11 DEF subsets, K

-----------------------------------------------------------------------------
(* HdMaxMesh::Sync and the loading of buffers: what becomes of the flags. *)

SubsetRecords ==
    [material : Nat, faces : SUBSET Faces, dirtyBits : SUBSET AllDirty,
     inConsolidation : BOOLEAN, materialData : Nat, indexBuffer : SUBSET Faces,
     streams : 0 .. 3]

IsRenderData(d) ==
    /\ DOMAIN d = {"shadedSubsets", "points", "color", "visible", "renderTagActive",
                   "selected", "pointsBuffer", "selectionBuffer"}
    /\ d.shadedSubsets \in Seq(SubsetRecords)

\* e has the subsets of d, with the same flags.
KeepsFlags(d, e) ==
    /\ IsRenderData(e)
    /\ DOMAIN e.shadedSubsets = DOMAIN d.shadedSubsets
    /\ \A i \in DOMAIN d.shadedSubsets :
         /\ e.shadedSubsets[i].material = d.shadedSubsets[i].material
         /\ e.shadedSubsets[i].inConsolidation = d.shadedSubsets[i].inConsolidation

\* The subsets of e are those of a binding, in order, and every flag of e is one of d.
RebuiltFor(d, e, binding) ==
    /\ IsRenderData(e)
    /\ Len(e.shadedSubsets) = Cardinality(BoundMaterials(binding))
    /\ \A i \in DOMAIN e.shadedSubsets :
         /\ e.shadedSubsets[i].material = InOrder(BoundMaterials(binding))[i]
         /\ e.shadedSubsets[i].inConsolidation =>
              \E j \in DOMAIN d.shadedSubsets :
                /\ d.shadedSubsets[j].inConsolidation
                /\ d.shadedSubsets[j].material = e.shadedSubsets[i].material

\* Two steps that keep the flags keep them.
LEMMA KeepsFlagsTransitive ==
    ASSUME NEW d, NEW e, NEW f, KeepsFlags(d, e), KeepsFlags(e, f)
    PROVE  KeepsFlags(d, f)
  BY DEF KeepsFlags

\* So does none.
LEMMA KeepsFlagsReflexive ==
    ASSUME NEW d, IsRenderData(d)
    PROVE  KeepsFlags(d, d)
  BY DEF KeepsFlags

\* The subsets are replaced one by one.
LEMMA ReplacedOneByOne ==
    ASSUME NEW d, IsRenderData(d), NEW e, DOMAIN e = DOMAIN d,
           DOMAIN e.shadedSubsets = DOMAIN d.shadedSubsets,
           e.shadedSubsets = [i \in DOMAIN d.shadedSubsets |-> e.shadedSubsets[i]],
           \A i \in DOMAIN d.shadedSubsets :
             /\ e.shadedSubsets[i] \in SubsetRecords
             /\ e.shadedSubsets[i].material = d.shadedSubsets[i].material
             /\ e.shadedSubsets[i].inConsolidation = d.shadedSubsets[i].inConsolidation
    PROVE  KeepsFlags(d, e)
<1>1. d.shadedSubsets \in Seq(SubsetRecords)
  BY DEF IsRenderData
<1> HIDE DEF SubsetRecords
<1>2. DOMAIN d.shadedSubsets = 1 .. Len(d.shadedSubsets) /\ Len(d.shadedSubsets) \in Nat
  BY <1>1
<1>3. e.shadedSubsets \in [1 .. Len(d.shadedSubsets) -> SubsetRecords]
  BY <1>2
<1>4. e.shadedSubsets \in Seq(SubsetRecords)
  BY <1>2, <1>3
<1> QED
  BY <1>4 DEF KeepsFlags, IsRenderData

\* What ReplacedOneByOne asks of a replacement of the subsets.
Replaces(d, e, s) ==
    /\ DOMAIN e = DOMAIN d
    /\ e.shadedSubsets = s
    /\ DOMAIN s = DOMAIN d.shadedSubsets
    /\ s = [i \in DOMAIN d.shadedSubsets |-> s[i]]
    /\ \A i \in DOMAIN d.shadedSubsets :
         /\ s[i] \in SubsetRecords
         /\ s[i].material = d.shadedSubsets[i].material
         /\ s[i].inConsolidation = d.shadedSubsets[i].inConsolidation

\* The same, of a replacement.
LEMMA ReplacedKeeps ==
    ASSUME NEW d, IsRenderData(d), NEW e, NEW s, Replaces(d, e, s)
    PROVE  KeepsFlags(d, e)
  BY ReplacedOneByOne DEF Replaces

\* Loading the indices keeps the flags.
LEMMA LoadIndicesKeeps ==
    ASSUME NEW d, IsRenderData(d)
    PROVE  KeepsFlags(d, LoadIndices(d))
<1>1. \A i \in DOMAIN d.shadedSubsets : d.shadedSubsets[i] \in SubsetRecords
  BY DEF IsRenderData
<1>2. CASE AnyDirty(d, {"DirtyIndices"})
  <2> DEFINE s == [i \in DOMAIN d.shadedSubsets |->
                     [d.shadedSubsets[i] EXCEPT !.indexBuffer = d.shadedSubsets[i].faces]]
  <2>1. LoadIndices(d) = [d EXCEPT !.shadedSubsets = s]
    BY <1>2 DEF LoadIndices, ForEachSubset
  <2>2. Replaces(d, [d EXCEPT !.shadedSubsets = s], s)
    BY <1>1 DEF Replaces, IsRenderData, SubsetRecords
  <2> QED
    BY <2>1, <2>2, ReplacedKeeps
<1> QED
  BY <1>2, KeepsFlagsReflexive DEF LoadIndices

\* A buffer is loaded in the render data, and offered to every subset.
LEMMA WithStreamKeeps ==
    ASSUME NEW d, IsRenderData(d), NEW n \in 1 .. 3, NEW e, DOMAIN e = DOMAIN d,
           e.shadedSubsets = d.shadedSubsets
    PROVE  KeepsFlags(d, WithStream(e, n))
<1>1. \A i \in DOMAIN d.shadedSubsets : d.shadedSubsets[i] \in SubsetRecords
  BY DEF IsRenderData
<1> DEFINE s == [i \in DOMAIN d.shadedSubsets |->
                   IF d.shadedSubsets[i].streams = n - 1
                   THEN [d.shadedSubsets[i] EXCEPT !.streams = n] ELSE d.shadedSubsets[i]]
<1>2. WithStream(e, n) = [e EXCEPT !.shadedSubsets = s]
  BY DEF WithStream, ForEachSubset
<1>3. \A i \in DOMAIN d.shadedSubsets :
         /\ s[i] \in SubsetRecords
         /\ s[i].material = d.shadedSubsets[i].material
         /\ s[i].inConsolidation = d.shadedSubsets[i].inConsolidation
  BY <1>1 DEF SubsetRecords
<1>4. DOMAIN s = DOMAIN d.shadedSubsets /\ s = [i \in DOMAIN d.shadedSubsets |-> s[i]]
  OBVIOUS
<1> HIDE DEF s
<1>5. Replaces(d, [e EXCEPT !.shadedSubsets = s], s)
  BY <1>3, <1>4 DEF Replaces, IsRenderData
<1> QED
  BY <1>2, <1>5, ReplacedKeeps

\* Loading the buffers of a mesh keeps the flags.
LEMMA UpdateRenderGeometryKeeps ==
    ASSUME NEW d, IsRenderData(d)
    PROVE  KeepsFlags(d, UpdateRenderGeometry(d))
<1> DEFINE a == LoadIndices(d)
           b == LoadPoints(a)
           c == LoadNormals(b)
           e == LoadSelection(c)
<1>1. KeepsFlags(d, a) /\ IsRenderData(a)
  BY LoadIndicesKeeps DEF KeepsFlags
<1> HIDE DEF a
<1>2. KeepsFlags(a, b) /\ IsRenderData(b)
  <2> DEFINE f == [a EXCEPT !.pointsBuffer = a.points]
  <2>1. b = IF AnyDirty(a, {"DirtyPoints"}) THEN WithStream(f, 1) ELSE a
    BY DEF LoadPoints
  <2>2. DOMAIN f = DOMAIN a /\ f.shadedSubsets = a.shadedSubsets
    BY <1>1 DEF IsRenderData
  <2> HIDE DEF f
  <2>3. KeepsFlags(a, WithStream(f, 1))
    BY <1>1, <2>2, WithStreamKeeps
  <2> QED
    BY <1>1, <2>1, <2>3, KeepsFlagsReflexive DEF KeepsFlags
<1> HIDE DEF b
<1>3. KeepsFlags(b, c) /\ IsRenderData(c)
  <2>1. KeepsFlags(b, WithStream(b, 2))
    BY <1>2, WithStreamKeeps
  <2> QED
    BY <1>2, <2>1, KeepsFlagsReflexive DEF KeepsFlags, LoadNormals
<1> HIDE DEF c
<1>4. KeepsFlags(c, e) /\ IsRenderData(e)
  <2> DEFINE f == [c EXCEPT !.selectionBuffer = [lit |-> c.selected, size |-> CountOf(c.points)]]
  <2>1. e = IF AnyDirty(c, {"DirtySelectionHighlight"}) THEN WithStream(f, 3) ELSE c
    BY DEF LoadSelection
  <2>2. DOMAIN f = DOMAIN c /\ f.shadedSubsets = c.shadedSubsets
    BY <1>3 DEF IsRenderData
  <2> HIDE DEF f
  <2>3. KeepsFlags(c, WithStream(f, 3))
    BY <1>3, <2>2, WithStreamKeeps
  <2> QED
    BY <1>3, <2>1, <2>3, KeepsFlagsReflexive DEF KeepsFlags
<1> HIDE DEF e
<1>5. KeepsFlags(e, UpdateRenderGeometry(d))
  <2> DEFINE s == [i \in DOMAIN e.shadedSubsets |-> [e.shadedSubsets[i] EXCEPT !.dirtyBits = {}]]
  <2>1. \A i \in DOMAIN e.shadedSubsets : e.shadedSubsets[i] \in SubsetRecords
    BY <1>4 DEF IsRenderData
  <2>2. UpdateRenderGeometry(d) = [e EXCEPT !.shadedSubsets = s]
    BY DEF UpdateRenderGeometry, ForEachSubset, a, b, c, e
  <2>3. Replaces(e, [e EXCEPT !.shadedSubsets = s], s)
    BY <1>4, <2>1 DEF Replaces, IsRenderData, SubsetRecords
  <2> QED
    BY <1>4, <2>2, <2>3, ReplacedKeeps
<1> QED
  BY <1>1, <1>2, <1>3, <1>4, <1>5, KeepsFlagsTransitive

-----------------------------------------------------------------------------
\* What a function with a finite domain takes is finitely many.
LEMMA FiniteImage ==
    ASSUME NEW f, IsFiniteSet(DOMAIN f)
    PROVE  IsFiniteSet({f[x] : x \in DOMAIN f})
<1> DEFINE T == {f[x] : x \in DOMAIN f}
           g == [x \in DOMAIN f |-> f[x]]
<1>1. g \in Surjection(DOMAIN f, T)
  BY DEF Surjection
<1> QED
  BY <1>1, FS_Surjection

\* The materials of a binding are numbers, finitely many.
LEMMA BoundMaterialsAreNumbers ==
    ASSUME NEW b, IsBinding(b), IsFiniteSet(Faces)
    PROVE  BoundMaterials(b) \subseteq Nat /\ IsFiniteSet(BoundMaterials(b))
<1>1. IsFiniteSet(DOMAIN b)
  <2>1. DOMAIN b \in SUBSET Faces
    BY DEF IsBinding
  <2> QED
    BY <2>1, FS_Subset
<1>2. IsFiniteSet(BoundMaterials(b))
  BY <1>1, FiniteImage DEF BoundMaterials
<1>3. \A f \in DOMAIN b : b[f] \in Nat
  <2>1. Materials \subseteq Nat
    BY MeshAssumption DEF MeshAssumption
  <2>2. Materials \cup {NoMaterial} \subseteq Nat
    BY <2>1 DEF NoMaterial
  <2>3. \A f \in DOMAIN b : b[f] \in Materials \cup {NoMaterial}
    BY DEF IsBinding
  <2> QED
    BY <2>2, <2>3
<1>4. BoundMaterials(b) \subseteq Nat
  BY <1>3 DEF BoundMaterials
<1> QED
  BY <1>2, <1>4

\* The subset of a material is flagged only if the one there was is.
LEMMA SubsetForProperties ==
    ASSUME NEW d, IsRenderData(d), NEW m \in Nat, NEW F \in SUBSET Faces
    PROVE  /\ SubsetFor(d, m, F) \in SubsetRecords
           /\ SubsetFor(d, m, F).material = m
           /\ SubsetFor(d, m, F).inConsolidation =>
                \E j \in DOMAIN d.shadedSubsets :
                  /\ d.shadedSubsets[j].inConsolidation
                  /\ d.shadedSubsets[j].material = m
<1> DEFINE previous == {s \in ToSet(d.shadedSubsets) : s.material = m}
           s == IF previous = {} THEN NewSubset(m) ELSE CHOOSE x \in previous : TRUE
<1>1. ToSet(d.shadedSubsets) = {d.shadedSubsets[j] : j \in DOMAIN d.shadedSubsets}
  BY DEF ToSet
<1>2. \A j \in DOMAIN d.shadedSubsets : d.shadedSubsets[j] \in SubsetRecords
  BY DEF IsRenderData
<1>3. /\ s \in SubsetRecords
      /\ s.material = m
      /\ s.inConsolidation => \E j \in DOMAIN d.shadedSubsets :
                  /\ d.shadedSubsets[j].inConsolidation
                  /\ d.shadedSubsets[j].material = m
  <2>1. CASE previous = {}
    BY <2>1 DEF NewSubset, SubsetRecords, NoMaterial
  <2>2. CASE previous # {}
    BY <1>1, <1>2, <2>2
  <2> QED
    BY <2>1, <2>2
<1>4. SubsetFor(d, m, F) =
        [s EXCEPT !.faces = F, !.dirtyBits = IF s.faces = F THEN @ ELSE @ \cup {"DirtyIndices"}]
  BY DEF SubsetFor
<1> HIDE DEF s
<1> QED
  BY <1>3, <1>4 DEF SubsetRecords, AllDirty

\* A sync of the topology makes the subsets of the binding.
LEMMA SyncTopologyRebuilds ==
    ASSUME NEW d, IsRenderData(d), NEW b, IsBinding(b), IsFiniteSet(Faces)
    PROVE  RebuiltFor(d, SyncTopology(d, b), b)
<1> DEFINE M == BoundMaterials(b)
           N == Cardinality(M)
           FacesOf(m) == {f \in DOMAIN b : b[f] = m}
           s == [i \in DOMAIN InOrder(M) |-> SubsetFor(d, InOrder(M)[i], FacesOf(InOrder(M)[i]))]
           e == SyncTopology(d, b)
<1>1. /\ InOrder(M) \in [1 .. N -> M] /\ N \in Nat /\ M \subseteq Nat
  BY BoundMaterialsAreNumbers, InOrderSorts, FS_CardinalityType
<1>2. e = [d EXCEPT !.shadedSubsets = s]
  BY DEF SyncTopology
<1>3. DOMAIN e = DOMAIN d /\ e.shadedSubsets = s
  BY <1>2 DEF IsRenderData
<1>4. \A i \in 1 .. N :
        /\ s[i] \in SubsetRecords
        /\ s[i].material = InOrder(M)[i]
        /\ s[i].inConsolidation => \E j \in DOMAIN d.shadedSubsets :
                  /\ d.shadedSubsets[j].inConsolidation
                  /\ d.shadedSubsets[j].material = s[i].material
  <2> SUFFICES ASSUME NEW i \in 1 .. N
               PROVE  /\ s[i] \in SubsetRecords
                      /\ s[i].material = InOrder(M)[i]
                      /\ s[i].inConsolidation => \E j \in DOMAIN d.shadedSubsets :
                            /\ d.shadedSubsets[j].inConsolidation
                            /\ d.shadedSubsets[j].material = s[i].material
    OBVIOUS
  <2> DEFINE m == InOrder(M)[i]
  <2>1. m \in Nat /\ FacesOf(m) \in SUBSET Faces
    BY <1>1 DEF IsBinding
  <2>2. s[i] = SubsetFor(d, m, FacesOf(m))
    BY <1>1
  <2> HIDE DEF m, FacesOf, s
  <2>3. /\ SubsetFor(d, m, FacesOf(m)) \in SubsetRecords
        /\ SubsetFor(d, m, FacesOf(m)).material = m
        /\ SubsetFor(d, m, FacesOf(m)).inConsolidation =>
                \E j \in DOMAIN d.shadedSubsets :
                  /\ d.shadedSubsets[j].inConsolidation
                  /\ d.shadedSubsets[j].material = m
    BY <2>1, SubsetForProperties
  <2> QED
    BY <2>2, <2>3 DEF m
<1>5. s \in [1 .. N -> SubsetRecords]
  <2>1. DOMAIN s = 1 .. N /\ s = [i \in 1 .. N |-> s[i]]
    BY <1>1
  <2> HIDE DEF s
  <2> QED
    BY <1>4, <2>1
<1> HIDE DEF s, N, M
<1>6. s \in Seq(SubsetRecords) /\ Len(s) = N /\ DOMAIN s = 1 .. N
  BY <1>1, <1>5
<1> QED
  BY <1>3, <1>4, <1>6 DEF RebuiltFor, IsRenderData, M, N

\* Setting dirty bits keeps the flags.
LEMMA SetDirtyKeeps ==
    ASSUME NEW d, IsRenderData(d), NEW e, DOMAIN e = DOMAIN d, e.shadedSubsets = d.shadedSubsets,
           NEW bits, bits \subseteq AllDirty
    PROVE  KeepsFlags(d, SetAllSubsetRenderDataDirty(e, bits))
<1>1. \A i \in DOMAIN d.shadedSubsets : d.shadedSubsets[i] \in SubsetRecords
  BY DEF IsRenderData
<1> DEFINE s == [i \in DOMAIN d.shadedSubsets |->
                   [d.shadedSubsets[i] EXCEPT !.dirtyBits = @ \cup bits]]
<1>2. SetAllSubsetRenderDataDirty(e, bits) = [e EXCEPT !.shadedSubsets = s]
  BY DEF SetAllSubsetRenderDataDirty, SetDirty, ForEachSubset
<1>3. \A i \in DOMAIN d.shadedSubsets :
         /\ s[i] \in SubsetRecords
         /\ s[i].material = d.shadedSubsets[i].material
         /\ s[i].inConsolidation = d.shadedSubsets[i].inConsolidation
  BY <1>1 DEF SubsetRecords
<1>4. DOMAIN s = DOMAIN d.shadedSubsets /\ s = [i \in DOMAIN d.shadedSubsets |-> s[i]]
  OBVIOUS
<1> HIDE DEF s
<1>5. Replaces(d, [e EXCEPT !.shadedSubsets = s], s)
  BY <1>3, <1>4 DEF Replaces, IsRenderData
<1> QED
  BY <1>2, <1>5, ReplacedKeeps

\* So does resolving the materials.
LEMMA SyncMaterialDataKeeps ==
    ASSUME NEW d, IsRenderData(d)
    PROVE  KeepsFlags(d, SyncMaterialData(d))
<1>1. \A i \in DOMAIN d.shadedSubsets : d.shadedSubsets[i] \in SubsetRecords
  BY DEF IsRenderData
<1> DEFINE s == [i \in DOMAIN d.shadedSubsets |->
                   IF d.shadedSubsets[i].material = NoMaterial THEN d.shadedSubsets[i]
                   ELSE [d.shadedSubsets[i] EXCEPT !.materialData = d.shadedSubsets[i].material]]
<1>2. SyncMaterialData(d) = [d EXCEPT !.shadedSubsets = s]
  BY DEF SyncMaterialData, ForEachSubset
<1>3. \A i \in DOMAIN d.shadedSubsets :
         /\ s[i] \in SubsetRecords
         /\ s[i].material = d.shadedSubsets[i].material
         /\ s[i].inConsolidation = d.shadedSubsets[i].inConsolidation
  BY <1>1 DEF SubsetRecords
<1>4. DOMAIN s = DOMAIN d.shadedSubsets /\ s = [i \in DOMAIN d.shadedSubsets |-> s[i]]
  OBVIOUS
<1> HIDE DEF s
<1>5. Replaces(d, [d EXCEPT !.shadedSubsets = s], s)
  BY <1>3, <1>4 DEF Replaces, IsRenderData
<1> QED
  BY <1>2, <1>5, ReplacedKeeps

\* The bits that are set are bits of the change tracker.
LEMMA DirtyBitsForSome ==
    ASSUME NEW bits, NEW sameSize, NEW mode
    PROVE  DirtyBitsFor(bits, sameSize, mode) \subseteq AllDirty
<1> DEFINE Of(b) ==
           IF b \notin bits THEN {} ELSE
           CASE b = "DirtyTopology" -> {"DirtyNormals"}
             [] b = "DirtyPoints" -> {"DirtyPoints"}
                                       \cup (IF sameSize THEN {} ELSE {"DirtyPointsSize"})
             [] b = "DirtyVisibility" -> {"DirtyVisibility"}
             [] b = "DirtyPrimvar" -> {"DirtyVertexColors"}
                  \cup (IF mode = "USDDisplayColor" THEN {"DirtyMaterial"} ELSE {})
             [] b = "DirtyMaterialId" ->
                  IF mode = "USDPreviewSurface" THEN {"DirtyMaterial"} ELSE {}
             [] b = "DirtyInstanceIndex" -> {"DirtyTransforms"}
             [] b = "DirtySelectionHighlight" -> {"DirtySelectionHighlight"}
<1>1. \A b \in HydraBits : Of(b) \subseteq AllDirty
  BY DEF HydraBits, AllDirty
<1>2. DirtyBitsFor(bits, sameSize, mode) = UNION {Of(b) : b \in HydraBits}
  BY DEF DirtyBitsFor
<1> HIDE DEF Of
<1> QED
  BY <1>1, <1>2

\* A sync keeps the subsets with their flags, or makes those of the binding.
LEMMA SyncKeepsOrRebuilds ==
    ASSUME NEW d, IsRenderData(d), NEW bits, NEW prim, IsBinding(prim.binding),
           IsFiniteSet(Faces), NEW selected, NEW mode, NEW t
    PROVE  LET e == Sync(d, bits, prim, selected, mode, t).data
           IN KeepsFlags(d, e) \/ RebuiltFor(d, e, prim.binding)
<1> DEFINE all == PropagateDirtyBits(bits)
           topo == IF "DirtyTopology" \in all THEN SyncTopology(d, prim.binding) ELSE d
           sameSize == CountOf(d.points) = CountOf(prim.points[t])
           loaded == [topo EXCEPT
                     !.points = IF "DirtyPoints" \in all THEN prim.points[t] ELSE @,
                     !.visible = IF "DirtyVisibility" \in all THEN prim.visible ELSE @,
                     !.color = IF "DirtyPrimvar" \in all THEN prim.color ELSE @,
                     !.selected = IF "DirtySelectionHighlight" \in all THEN selected ELSE @]
           dirty == SetAllSubsetRenderDataDirty(loaded, DirtyBitsFor(all, sameSize, mode))
           e == Sync(d, bits, prim, selected, mode, t).data
<1>1. \/ e = d
      \/ e = topo
      \/ e = dirty
      \/ e = SyncMaterialData(dirty)
  BY DEF Sync
<1>2. KeepsFlags(d, topo) \/ RebuiltFor(d, topo, prim.binding)
  BY SyncTopologyRebuilds, KeepsFlagsReflexive
<1>3. IsRenderData(topo)
  BY <1>2 DEF KeepsFlags, RebuiltFor
<1>4. KeepsFlags(topo, dirty) /\ KeepsFlags(topo, SyncMaterialData(dirty))
  <2>1. DOMAIN loaded = DOMAIN topo /\ loaded.shadedSubsets = topo.shadedSubsets
    BY <1>3 DEF IsRenderData
  <2> HIDE DEF loaded, topo, sameSize, all
  <2>2. KeepsFlags(topo, dirty)
    BY <1>3, <2>1, SetDirtyKeeps, DirtyBitsForSome
  <2>3. KeepsFlags(dirty, SyncMaterialData(dirty))
    BY <2>2, SyncMaterialDataKeeps DEF KeepsFlags
  <2> QED
    BY <2>2, <2>3, KeepsFlagsTransitive
<1> HIDE DEF topo, dirty, e
<1>5. ASSUME NEW f, KeepsFlags(topo, f)
      PROVE  KeepsFlags(d, f) \/ RebuiltFor(d, f, prim.binding)
  <2>1. CASE KeepsFlags(d, topo)
    BY <1>5, <2>1, KeepsFlagsTransitive
  <2>2. CASE RebuiltFor(d, topo, prim.binding)
    <3>1. Len(f.shadedSubsets) = Len(topo.shadedSubsets)
      BY <1>5, <1>3 DEF KeepsFlags, IsRenderData
    <3> QED
      BY <1>5, <2>2, <3>1 DEF RebuiltFor, KeepsFlags
  <2> QED
    BY <1>2, <2>1, <2>2
<1>6. KeepsFlags(d, d) /\ KeepsFlags(topo, topo)
  BY <1>3, KeepsFlagsReflexive
<1> QED
  BY <1>1, <1>4, <1>5, <1>6 DEF e

-----------------------------------------------------------------------------
(* Flags and outputs. *)

FlaggedOf(D, p) == {k \in SubsetKeys(D, p) : SubsetAt(D, k).inConsolidation}

\* The flags of a mesh are known to the output.
Backed(D, p, out) ==
    /\ FlaggedOf(D, p) # {} => SubsetKeys(D, p) \subseteq ToSet(out.source)
    /\ \/ FlaggedOf(D, p) \subseteq out.consolidated
       \/ /\ Len(D[p].shadedSubsets) <= 1
          /\ FlaggedOf(D, p) # {} => \E k \in out.consolidated : k[1] = p

\* The subsets are those of the materials M; a sync with this binding leaves all of
\* them, or one at most.
NumberedBy(d, M, B) ==
    /\ M \subseteq Nat /\ IsFiniteSet(M)
    /\ d.shadedSubsets # << >> =>
         /\ Len(d.shadedSubsets) = Cardinality(M)
         /\ \A i \in DOMAIN d.shadedSubsets : d.shadedSubsets[i].material = InOrder(M)[i]
    /\ \/ B = M
       \/ B \subseteq M /\ Cardinality(B) <= 1

Numbered(d, binding) == \E M : NumberedBy(d, M, BoundMaterials(binding))

\* e has the subsets of d, whatever their flags.
SameSubsets(d, e) ==
    /\ IsRenderData(e)
    /\ DOMAIN e.shadedSubsets = DOMAIN d.shadedSubsets
    /\ \A i \in DOMAIN d.shadedSubsets :
         e.shadedSubsets[i].material = d.shadedSubsets[i].material

\* A subset is named by its mesh and its index.
LEMMA FlagsByIndex ==
    ASSUME NEW D, NEW p
    PROVE  /\ \A k : k \in FlaggedOf(D, p) <=>
                \E i \in DOMAIN D[p].shadedSubsets :
                  k = <<p, i>> /\ D[p].shadedSubsets[i].inConsolidation
           /\ \A k : k \in SubsetKeys(D, p) <=> \E i \in DOMAIN D[p].shadedSubsets : k = <<p, i>>
  BY DEF FlaggedOf, SubsetKeys, SubsetAt

\* A mesh that keeps its flags stays known to the output.
LEMMA KeptStaysBacked ==
    ASSUME NEW D, NEW E, NEW p, NEW out, IsRenderData(D[p]), KeepsFlags(D[p], E[p]),
           Backed(D, p, out)
    PROVE  Backed(E, p, out)
<1>1. FlaggedOf(E, p) = FlaggedOf(D, p) /\ SubsetKeys(E, p) = SubsetKeys(D, p)
  <2>1. SubsetKeys(E, p) = SubsetKeys(D, p)
    BY DEF KeepsFlags, SubsetKeys
  <2>2. \A k : k \in FlaggedOf(E, p) <=> k \in FlaggedOf(D, p)
    BY FlagsByIndex DEF KeepsFlags
  <2> QED
    BY <2>1, <2>2
<1>2. Len(E[p].shadedSubsets) = Len(D[p].shadedSubsets)
  BY DEF KeepsFlags, IsRenderData
<1> QED
  BY <1>1, <1>2 DEF Backed

\* A mesh that keeps its subsets stays numbered.
LEMMA SameStaysNumbered ==
    ASSUME NEW d, NEW e, NEW b, IsRenderData(d), SameSubsets(d, e), Numbered(d, b)
    PROVE  Numbered(e, b)
<1>1. PICK M : NumberedBy(d, M, BoundMaterials(b))
  BY DEF Numbered
<1>2. /\ Len(e.shadedSubsets) = Len(d.shadedSubsets)
      /\ DOMAIN e.shadedSubsets = DOMAIN d.shadedSubsets
      /\ e.shadedSubsets # <<>> => d.shadedSubsets # <<>>
      /\ \A i \in DOMAIN d.shadedSubsets :
           e.shadedSubsets[i].material = d.shadedSubsets[i].material
  BY DEF SameSubsets, IsRenderData
<1>3. NumberedBy(e, M, BoundMaterials(b))
  BY <1>1, <1>2 DEF NumberedBy
<1> QED
  BY <1>3 DEF Numbered

\* A mesh made for its binding is numbered by it.
LEMMA RebuiltIsNumbered ==
    ASSUME NEW d, NEW e, NEW b, IsBinding(b), IsFiniteSet(Faces), RebuiltFor(d, e, b)
    PROVE  Numbered(e, b)
<1>1. NumberedBy(e, BoundMaterials(b), BoundMaterials(b))
  <2>1. BoundMaterials(b) \subseteq Nat /\ IsFiniteSet(BoundMaterials(b))
    BY BoundMaterialsAreNumbers
  <2> QED
    BY <2>1 DEF RebuiltFor, NumberedBy
<1> QED
  BY <1>1 DEF Numbered

\* A mesh made for its binding keeps flags where the numbers are those of before: when
\* all the materials stay, or when one subset is left.
LEMMA RebuiltStaysBacked ==
    ASSUME NEW D, NEW E, NEW p, NEW out, NEW b, IsBinding(b), IsFiniteSet(Faces),
           IsRenderData(D[p]), RebuiltFor(D[p], E[p], b), Backed(D, p, out),
           Numbered(D[p], b)
    PROVE  Backed(E, p, out)
<1> DEFINE B == BoundMaterials(b)
           ds == D[p].shadedSubsets
           es == E[p].shadedSubsets
<1>1. PICK M : NumberedBy(D[p], M, B)
  BY DEF Numbered
<1>2. /\ ds \in Seq(SubsetRecords) /\ es \in Seq(SubsetRecords)
      /\ Len(es) = Cardinality(B)
      /\ \A i \in DOMAIN es :
           /\ es[i].material = InOrder(B)[i]
           /\ es[i].inConsolidation =>
                \E j \in DOMAIN ds : ds[j].inConsolidation /\ ds[j].material = es[i].material
  BY DEF RebuiltFor, IsRenderData
<1>3. CASE ds = <<>>
  <2>1. FlaggedOf(E, p) = {}
    BY <1>2, <1>3, FlagsByIndex
  <2> QED
    BY <2>1 DEF Backed
<1>4. CASE ds # <<>> /\ B = M
  <2>1. /\ \A i, j \in DOMAIN InOrder(M) : i < j => InOrder(M)[i] < InOrder(M)[j]
        /\ DOMAIN InOrder(M) = 1 .. Cardinality(M)
        /\ Cardinality(M) \in Nat
        /\ \A i \in 1 .. Cardinality(M) : InOrder(M)[i] \in Nat
    BY <1>1, InOrderSorts, FS_CardinalityType DEF NumberedBy
  <2>2. /\ DOMAIN ds = 1 .. Cardinality(M) /\ DOMAIN es = 1 .. Cardinality(M)
        /\ Len(es) = Len(ds)
        /\ \A i \in DOMAIN ds : ds[i].material = InOrder(M)[i]
    BY <1>1, <1>2, <1>4 DEF NumberedBy
  <2>3. \A i \in DOMAIN es : es[i].inConsolidation => ds[i].inConsolidation
    <3> SUFFICES ASSUME NEW i \in DOMAIN es, es[i].inConsolidation PROVE ds[i].inConsolidation
      OBVIOUS
    <3>1. PICK j \in DOMAIN ds : ds[j].inConsolidation /\ ds[j].material = es[i].material
      BY <1>2
    <3>2. InOrder(M)[j] = InOrder(M)[i]
      BY <1>2, <1>4, <2>2, <3>1
    <3>3. i = j
      BY <2>1, <2>2, <3>2
    <3> QED
      BY <3>1, <3>3
  <2>4. FlaggedOf(E, p) \subseteq FlaggedOf(D, p)
    BY <2>2, <2>3, FlagsByIndex
  <2>5. SubsetKeys(E, p) = SubsetKeys(D, p)
    BY <2>2 DEF SubsetKeys
  <2> QED
    BY <2>2, <2>4, <2>5 DEF Backed
<1>5. CASE ds # <<>> /\ B \subseteq M /\ Cardinality(B) <= 1
  <2>1. Len(es) <= 1 /\ DOMAIN es \subseteq {1}
    BY <1>2, <1>5
  <2>2. ASSUME FlaggedOf(E, p) # {}
        PROVE  /\ SubsetKeys(E, p) \subseteq ToSet(out.source)
               /\ \E k \in out.consolidated : k[1] = p
    <3>1. PICK j \in DOMAIN ds : ds[j].inConsolidation
      BY <1>2, <2>2, FlagsByIndex
    <3>2. <<p, j>> \in FlaggedOf(D, p)
      BY <3>1, FlagsByIndex
    <3>3. SubsetKeys(E, p) \subseteq SubsetKeys(D, p)
      <4>1. 1 \in DOMAIN ds
        BY <1>2, <1>5
      <4> QED
        BY <2>1, <4>1, FlagsByIndex
    <3>4. <<p, j>>[1] = p
      OBVIOUS
    <3> QED
      BY <3>2, <3>3, <3>4 DEF Backed
  <2> QED
    BY <2>1, <2>2 DEF Backed
<1> QED
  BY <1>1, <1>3, <1>4, <1>5 DEF NumberedBy

\* D and E have the same meshes with the same subsets.
SameMeshes(D, E) ==
    DOMAIN E = DOMAIN D /\ \A p \in DOMAIN D : SameSubsets(D[p], E[p])

AreRenderData(D) == \A p \in DOMAIN D : IsRenderData(D[p])

\* MapSubsets, with the changed subsets as a function of the keys.
Mapped(D, keys, f) ==
    [p \in DOMAIN D |->
        IF \A k \in keys : k[1] # p THEN D[p]
        ELSE [D[p] EXCEPT !.shadedSubsets =
                [i \in DOMAIN D[p].shadedSubsets |->
                   IF <<p, i>> \in keys THEN f[<<p, i>>] ELSE D[p].shadedSubsets[i]]]]

\* The subsets an operator of the consolidator may leave.
Fits(D, f) ==
    \A p \in DOMAIN D : \A i \in DOMAIN D[p].shadedSubsets :
      /\ f[<<p, i>>] \in SubsetRecords
      /\ f[<<p, i>>].material = D[p].shadedSubsets[i].material

\* Changing subsets one by one leaves the meshes.
LEMMA MappedSubsets ==
    ASSUME NEW D, AreRenderData(D), NEW keys, NEW f, Fits(D, f)
    PROVE  /\ SameMeshes(D, Mapped(D, keys, f))
           /\ \A p \in DOMAIN D : \A i \in DOMAIN D[p].shadedSubsets :
                Mapped(D, keys, f)[p].shadedSubsets[i]
                  = IF <<p, i>> \in keys THEN f[<<p, i>>] ELSE D[p].shadedSubsets[i]
<1> DEFINE E == Mapped(D, keys, f)
           s(p) == [i \in DOMAIN D[p].shadedSubsets |->
                      IF <<p, i>> \in keys THEN f[<<p, i>>] ELSE D[p].shadedSubsets[i]]
<1>1. DOMAIN E = DOMAIN D
  BY DEF Mapped
<1>2. ASSUME NEW p \in DOMAIN D
      PROVE  /\ SameSubsets(D[p], E[p])
             /\ \A i \in DOMAIN D[p].shadedSubsets : E[p].shadedSubsets[i] = s(p)[i]
  <2> DEFINE d == D[p]
             ds == d.shadedSubsets
  <2>1. IsRenderData(d) /\ ds \in Seq(SubsetRecords) /\ \A i \in DOMAIN ds : ds[i] \in SubsetRecords
    BY DEF AreRenderData, IsRenderData
  <2>2. CASE \A k \in keys : k[1] # p
    <3>1. E[p] = d
      BY <2>2 DEF Mapped
    <3>2. \A i \in DOMAIN ds : <<p, i>> \notin keys
      BY <2>2
    <3> QED
      BY <2>1, <3>1, <3>2 DEF SameSubsets
  <2>3. CASE ~ \A k \in keys : k[1] # p
    <3>1. E[p] = [d EXCEPT !.shadedSubsets = s(p)]
      BY <2>3 DEF Mapped
    <3>2. DOMAIN E[p] = DOMAIN d /\ E[p].shadedSubsets = s(p)
      BY <2>1, <3>1 DEF IsRenderData
    <3>3. \A i \in DOMAIN ds : s(p)[i] \in SubsetRecords /\ s(p)[i].material = ds[i].material
      BY <2>1 DEF Fits
    <3>4. DOMAIN s(p) = DOMAIN ds /\ s(p) = [i \in DOMAIN ds |-> s(p)[i]]
      OBVIOUS
    <3> HIDE DEF s
    <3>5. s(p) \in Seq(SubsetRecords)
      <4>1. DOMAIN ds = 1 .. Len(ds) /\ Len(ds) \in Nat
        BY <2>1
      <4> HIDE DEF ds
      <4>2. s(p) \in [1 .. Len(ds) -> SubsetRecords]
        BY <3>3, <3>4, <4>1
      <4> QED
        BY <4>1, <4>2
    <3> QED
      BY <2>1, <3>2, <3>3, <3>4, <3>5 DEF SameSubsets, IsRenderData
  <2> QED
    BY <2>2, <2>3
<1> QED
  BY <1>1, <1>2 DEF SameMeshes

\* Subsets are handed back.
LEMMA ReleasedSubsets ==
    ASSUME NEW D, AreRenderData(D), NEW keys
    PROVE  /\ SameMeshes(D, MapSubsets(D, keys, Released))
           /\ \A p \in DOMAIN D :
                FlaggedOf(MapSubsets(D, keys, Released), p) = FlaggedOf(D, p) \ keys
<1> DEFINE L == UNION {SubsetKeys(D, p) : p \in DOMAIN D}
           f == [k \in L |-> Released(SubsetAt(D, k))]
           E == MapSubsets(D, keys, Released)
<1>1. \A p \in DOMAIN D : \A i \in DOMAIN D[p].shadedSubsets :
        <<p, i>> \in L /\ f[<<p, i>>] = Released(D[p].shadedSubsets[i])
  BY DEF SubsetKeys, SubsetAt
<1> HIDE DEF f
<1>2. E = Mapped(D, keys, f)
  BY <1>1 DEF MapSubsets, Mapped
<1>3. \A p \in DOMAIN D : \A i \in DOMAIN D[p].shadedSubsets :
        /\ f[<<p, i>>] \in SubsetRecords
        /\ f[<<p, i>>].material = D[p].shadedSubsets[i].material
        /\ ~f[<<p, i>>].inConsolidation
  <2>1. \A p \in DOMAIN D : \A i \in DOMAIN D[p].shadedSubsets :
          D[p].shadedSubsets[i] \in SubsetRecords
    BY DEF AreRenderData, IsRenderData
  <2>2. \A s \in SubsetRecords :
          /\ Released(s) \in SubsetRecords
          /\ Released(s).material = s.material
          /\ ~Released(s).inConsolidation
    BY DEF Released, SubsetRecords
  <2> QED
    BY <1>1, <2>1, <2>2
<1>4. Fits(D, f)
  BY <1>3 DEF Fits
<1> HIDE DEF E
<1>5. /\ SameMeshes(D, E)
      /\ \A p \in DOMAIN D : \A i \in DOMAIN D[p].shadedSubsets :
           E[p].shadedSubsets[i]
             = IF <<p, i>> \in keys THEN f[<<p, i>>] ELSE D[p].shadedSubsets[i]
  BY <1>2, <1>4, MappedSubsets
<1>6. \A p \in DOMAIN D : FlaggedOf(E, p) = FlaggedOf(D, p) \ keys
  <2> SUFFICES ASSUME NEW p \in DOMAIN D, NEW k
               PROVE  k \in FlaggedOf(E, p) <=> k \in FlaggedOf(D, p) \ keys
    OBVIOUS
  <2>1. DOMAIN E[p].shadedSubsets = DOMAIN D[p].shadedSubsets
    BY <1>5 DEF SameMeshes, SameSubsets
  <2> QED
    BY <1>3, <1>5, <2>1, FlagsByIndex
<1> QED
  BY <1>5, <1>6 DEF E

\* Subsets become part of a consolidated mesh.
LEMMA FlaggedSubsets ==
    ASSUME NEW D, AreRenderData(D), NEW keys
    PROVE  LET Flag(s) == [s EXCEPT !.inConsolidation = TRUE]
               E == MapSubsets(D, keys, Flag)
           IN /\ SameMeshes(D, E)
              /\ \A p \in DOMAIN D :
                   FlaggedOf(E, p) = FlaggedOf(D, p) \cup (SubsetKeys(D, p) \cap keys)
<1> DEFINE L == UNION {SubsetKeys(D, p) : p \in DOMAIN D}
           Flag(s) == [s EXCEPT !.inConsolidation = TRUE]
           f == [k \in L |-> Flag(SubsetAt(D, k))]
           E == MapSubsets(D, keys, Flag)
<1>1. \A p \in DOMAIN D : \A i \in DOMAIN D[p].shadedSubsets :
        <<p, i>> \in L /\ f[<<p, i>>] = Flag(D[p].shadedSubsets[i])
  <2> SUFFICES ASSUME NEW p \in DOMAIN D, NEW i \in DOMAIN D[p].shadedSubsets
               PROVE  <<p, i>> \in L /\ f[<<p, i>>] = Flag(D[p].shadedSubsets[i])
    OBVIOUS
  <2>1. <<p, i>> \in L
    BY DEF SubsetKeys
  <2>2. SubsetAt(D, <<p, i>>) = D[p].shadedSubsets[i]
    BY DEF SubsetAt
  <2> HIDE DEF L, Flag
  <2> QED
    BY <2>1, <2>2
<1> HIDE DEF f
<1>2. E = Mapped(D, keys, f)
  BY <1>1 DEF MapSubsets, Mapped
<1>3. \A p \in DOMAIN D : \A i \in DOMAIN D[p].shadedSubsets :
        /\ f[<<p, i>>] \in SubsetRecords
        /\ f[<<p, i>>].material = D[p].shadedSubsets[i].material
        /\ f[<<p, i>>].inConsolidation
  <2>1. \A p \in DOMAIN D : \A i \in DOMAIN D[p].shadedSubsets :
          D[p].shadedSubsets[i] \in SubsetRecords
    BY DEF AreRenderData, IsRenderData
  <2>2. \A s \in SubsetRecords :
          /\ Flag(s) \in SubsetRecords
          /\ Flag(s).material = s.material
          /\ Flag(s).inConsolidation
    BY DEF SubsetRecords
  <2> HIDE DEF Flag
  <2> QED
    BY <1>1, <2>1, <2>2
<1>4. Fits(D, f)
  BY <1>3 DEF Fits
<1> HIDE DEF E
<1>5. /\ SameMeshes(D, E)
      /\ \A p \in DOMAIN D : \A i \in DOMAIN D[p].shadedSubsets :
           E[p].shadedSubsets[i]
             = IF <<p, i>> \in keys THEN f[<<p, i>>] ELSE D[p].shadedSubsets[i]
  BY <1>2, <1>4, MappedSubsets
<1>6. \A p \in DOMAIN D : FlaggedOf(E, p) = FlaggedOf(D, p) \cup (SubsetKeys(D, p) \cap keys)
  <2> SUFFICES ASSUME NEW p \in DOMAIN D, NEW k
               PROVE  k \in FlaggedOf(E, p) <=> k \in FlaggedOf(D, p) \cup (SubsetKeys(D, p) \cap keys)
    OBVIOUS
  <2>1. DOMAIN E[p].shadedSubsets = DOMAIN D[p].shadedSubsets
    BY <1>5 DEF SameMeshes, SameSubsets
  <2> QED
    BY <1>3, <1>5, <2>1, FlagsByIndex
<1> QED
  BY <1>5, <1>6 DEF E

KeysOf(g) == {g.inputs[n].subset : n \in DOMAIN g.inputs}

IsOutput(out) ==
    /\ DOMAIN out = {"geoms", "consolidated", "source"}
    /\ out.consolidated \subseteq Paths \X Nat
    /\ IsFiniteSet(out.consolidated)
    /\ out.source \in Seq(Paths \X Nat)
    /\ out.consolidated = UNION {KeysOf(g) : g \in out.geoms}
    /\ \A g \in out.geoms :
         /\ "inputs" \in DOMAIN g
         /\ \A k, l \in KeysOf(g) : k[1] \in Gizmos <=> l[1] \in Gizmos

AreOutputs(c) == \A t \in DOMAIN c : IsOutput(c[t])

AreBacked(D, out) == \A p \in DOMAIN D : Backed(D, p, out)

\* An output that is not in the cache is an empty one.
LEMMA OutputsAreOutputs ==
    ASSUME NEW c, AreOutputs(c), NEW t
    PROVE  IsOutput(Outputs(c, t))
<1>1. IsOutput(NewOutput)
  <2>1. IsFiniteSet({}) /\ << >> \in Seq(Paths \X Nat)
    BY FS_EmptySet
  <2> QED
    BY <2>1 DEF IsOutput, NewOutput, KeysOf
<1> QED
  BY <1>1 DEF Outputs, AreOutputs

\* A mesh without flags needs no output.
LEMMA NoFlagIsBacked ==
    ASSUME NEW D, NEW p, NEW out, FlaggedOf(D, p) = {}
    PROVE  Backed(D, p, out)
  BY DEF Backed

\* A reset takes all the flags away.
LEMMA ResetReleases ==
    ASSUME NEW D, AreRenderData(D), NEW c, NEW t, AreBacked(D, Outputs(c, t))
    PROVE  /\ SameMeshes(D, Reset(D, c).data)
           /\ \A p \in DOMAIN D : FlaggedOf(Reset(D, c).data, p) = {}
           /\ DOMAIN Reset(D, c).cache = {}
<1> DEFINE keys == UNION {ToSet(c[u].source) : u \in DOMAIN c}
<1>1. /\ Reset(D, c).data = MapSubsets(D, keys, Released)
      /\ Reset(D, c).cache = << >>
  BY DEF Reset
<1>2. /\ SameMeshes(D, MapSubsets(D, keys, Released))
      /\ \A p \in DOMAIN D : FlaggedOf(MapSubsets(D, keys, Released), p) = FlaggedOf(D, p) \ keys
  BY ReleasedSubsets
<1>3. ASSUME NEW p \in DOMAIN D PROVE FlaggedOf(D, p) \subseteq keys
  <2>1. Backed(D, p, Outputs(c, t))
    BY DEF AreBacked
  <2>2. FlaggedOf(D, p) \subseteq ToSet(Outputs(c, t).source)
    BY <2>1 DEF Backed, FlaggedOf
  <2>3. CASE t \in DOMAIN c
    BY <2>2, <2>3 DEF Outputs
  <2>4. CASE t \notin DOMAIN c
    <3>1. ToSet(<<>>) = {}
      BY DEF ToSet
    <3> QED
      BY <2>2, <2>4, <3>1 DEF Outputs, NewOutput
  <2> QED
    BY <2>3, <2>4
<1> HIDE DEF keys
<1>4. DOMAIN << >> = {}
  OBVIOUS
<1> QED
  BY <1>1, <1>2, <1>3, <1>4

\* A sequence without repetitions is as long as its set.
LEMMA LengthOfInjective ==
    ASSUME NEW S, NEW s \in Seq(S), IsInjective(s)
    PROVE  IsFiniteSet(ToSet(s)) /\ Cardinality(ToSet(s)) = Len(s)
<1> DEFINE N == Len(s)
<1>1. N \in Nat /\ DOMAIN s = 1 .. N /\ s = [i \in 1 .. N |-> s[i]]
  OBVIOUS
<1>2. ToSet(s) = {s[i] : i \in 1 .. N}
  BY <1>1 DEF ToSet
<1>3. s \in Bijection(1 .. N, ToSet(s))
  <2>1. s \in [1 .. N -> ToSet(s)]
    BY <1>1, <1>2
  <2>2. \A a, b \in 1 .. N : s[a] = s[b] => a = b
    BY <1>1 DEF IsInjective
  <2>3. \A x \in ToSet(s) : \E i \in 1 .. N : s[i] = x
    BY <1>2
  <2> QED
    BY <2>1, <2>2, <2>3 DEF Bijection, Injection, Surjection
<1>4. ExistsBijection(1 .. N, ToSet(s))
  BY <1>3 DEF ExistsBijection
<1>5. IsFiniteSet(1 .. N) /\ Cardinality(1 .. N) = N
  <2>1. 1 \in Int /\ N \in Int
    BY <1>1
  <2> HIDE DEF N
  <2>2. IsFiniteSet(1 .. N) /\ Cardinality(1 .. N) = IF 1 > N THEN 0 ELSE N - 1 + 1
    BY <2>1, FS_Interval
  <2> QED
    BY <1>1, <2>2
<1> QED
  BY <1>4, <1>5, FS_Bijection

\* When as many subsets of the list are flagged as the output holds, no other mesh is
\* flagged, and the output holds no other mesh, and no subset that is there and not flagged.
LEMMA NothingOutsideTheList ==
    ASSUME NEW D, AreRenderData(D), NEW out, IsOutput(out), AreBacked(D, out),
           NEW P, DOMAIN D \subseteq P,
           NEW list \in Seq(P), IsInjective(list), ToSet(list) \subseteq DOMAIN D,
           Len(Flagged(list, D)) = Cardinality(out.consolidated)
    PROVE  /\ \A p \in DOMAIN D : FlaggedOf(D, p) # {} => p \in ToSet(list)
           /\ \A k \in out.consolidated : k[1] \in ToSet(list)
           /\ \A k \in out.consolidated :
                k \in SubsetKeys(D, k[1]) => SubsetAt(D, k).inConsolidation
<1> DEFINE B == out.consolidated
           A == UNION {FlaggedOf(D, p) : p \in ToSet(list)}
           All == UNION {FlaggedOf(D, p) : p \in DOMAIN D}
           Counterpart(k) == IF k \in B THEN k ELSE CHOOSE y \in B : y[1] = k[1]
<1>1. IsFiniteSet(A) /\ Cardinality(A) = Cardinality(B)
  <2> DEFINE subsets == SubsetsOf(list, D)
             T == {k \in ToSet(subsets) : SubsetAt(D, k).inConsolidation}
  <2>1. \A p \in ToSet(list) : D[p].shadedSubsets \in Seq(SubsetRecords)
    BY DEF AreRenderData, IsRenderData
  <2>2. /\ subsets \in Seq(P \X Nat)
        /\ ToSet(subsets) = UNION {SubsetKeys(D, p) : p \in ToSet(list)}
        /\ IsInjective(subsets)
    BY <2>1, SubsetsOfProperties
  <2>3. Flagged(list, D) = Sift(subsets, T)
    BY DEF Flagged
  <2> HIDE DEF subsets, T
  <2>4. /\ Sift(subsets, T) \in Seq(P \X Nat)
        /\ ToSet(Sift(subsets, T)) = ToSet(subsets) \cap T
        /\ IsInjective(Sift(subsets, T))
    BY <2>2, SiftProperties
  <2>5. ToSet(subsets) \cap T = A
    BY <2>2 DEF T, FlaggedOf
  <2> QED
    BY <2>3, <2>4, <2>5, LengthOfInjective
<1>2. \A k \in All : \E p \in DOMAIN D : \E i \in DOMAIN D[p].shadedSubsets :
        k = <<p, i>> /\ k[1] = p /\ k \in FlaggedOf(D, p)
  BY FlagsByIndex
<1>3. ASSUME NEW k \in All
      PROVE  Counterpart(k) \in B /\ Counterpart(k)[1] = k[1]
  <2>1. PICK p \in DOMAIN D : k[1] = p /\ k \in FlaggedOf(D, p)
    BY <1>2
  <2>2. k \in B \/ \E y \in B : y[1] = k[1]
    BY <2>1 DEF AreBacked, Backed
  <2> QED
    BY <2>2
<1>4. ASSUME NEW k \in All, NEW l \in All, Counterpart(k) = Counterpart(l)
      PROVE  k = l
  <2>1. PICK p \in DOMAIN D : \E i \in DOMAIN D[p].shadedSubsets :
               k = <<p, i>> /\ k[1] = p /\ k \in FlaggedOf(D, p)
    BY <1>2
  <2>2. PICK q \in DOMAIN D : \E i \in DOMAIN D[q].shadedSubsets :
               l = <<q, i>> /\ l[1] = q /\ l \in FlaggedOf(D, q)
    BY <1>2
  <2>3. p = q
    BY <1>3, <1>4, <2>1, <2>2
  <2>4. CASE FlaggedOf(D, p) \subseteq B
    BY <1>4, <2>1, <2>2, <2>3, <2>4
  <2>5. CASE Len(D[p].shadedSubsets) <= 1
    <3>1. DOMAIN D[p].shadedSubsets \subseteq {1}
      <4>1. D[p].shadedSubsets \in Seq(SubsetRecords)
        BY DEF AreRenderData, IsRenderData
      <4> QED
        BY <2>5, <4>1
    <3> QED
      BY <2>1, <2>2, <2>3, <3>1
  <2> QED
    BY <2>4, <2>5 DEF AreBacked, Backed
<1>5. A \subseteq All /\ IsFiniteSet(B) /\ Cardinality(A) \in Nat
  BY <1>1, FS_CardinalityType DEF IsOutput
<1>6. \A k \in A : k[1] \in ToSet(list)
  BY FlagsByIndex
<1>7. ASSUME NEW x \in A, NEW y \in B, Counterpart(x) = y, y \in SubsetKeys(D, y[1]),
             ~SubsetAt(D, y).inConsolidation
      PROVE  FALSE
  <2>1. PICK p \in DOMAIN D : \E i \in DOMAIN D[p].shadedSubsets :
               x = <<p, i>> /\ x[1] = p /\ x \in FlaggedOf(D, p)
    BY <1>2, <1>5
  <2>2. SubsetAt(D, x).inConsolidation
    BY <2>1 DEF FlaggedOf
  <2>3. x \notin B
    BY <1>7, <2>2
  <2>4. y[1] = p
    BY <1>3, <1>5, <1>7, <2>1
  <2>5. Len(D[p].shadedSubsets) <= 1
    BY <2>1, <2>3 DEF AreBacked, Backed
  <2>6. DOMAIN D[p].shadedSubsets \subseteq {1}
    <3>1. D[p].shadedSubsets \in Seq(SubsetRecords)
      BY DEF AreRenderData, IsRenderData
    <3> QED
      BY <2>5, <3>1
  <2>7. x = <<p, 1>> /\ y = <<p, 1>>
    BY <1>7, <2>1, <2>4, <2>6 DEF SubsetKeys
  <2> QED
    BY <1>7, <2>2, <2>7
<1> HIDE DEF A, B, All, Counterpart
<1>8. ASSUME NEW S, S \subseteq All, NEW T, IsFiniteSet(S), IsFiniteSet(T),
             \A k \in S : Counterpart(k) \in T
      PROVE  ~(Cardinality(T) < Cardinality(S))
  <2> SUFFICES ASSUME Cardinality(T) < Cardinality(S) PROVE FALSE
    OBVIOUS
  <2> DEFINE g == [k \in S |-> Counterpart(k)]
  <2>1. g \in [S -> T]
    BY <1>8
  <2>2. \E x, y \in S : x # y /\ g[x] = g[y]
    <3> HIDE DEF g
    <3> QED
      BY <1>8, <2>1, FS_PigeonHole
  <2> QED
    BY <1>4, <1>8, <2>2
<1>9. ASSUME NEW p \in DOMAIN D, FlaggedOf(D, p) # {}, p \notin ToSet(list)
      PROVE  FALSE
  <2>1. PICK k : k \in FlaggedOf(D, p)
    BY <1>9
  <2>2. k \in All /\ k[1] = p
    BY <2>1, FlagsByIndex DEF All
  <2>3. k \notin A
    BY <1>6, <1>9, <2>2
  <2>4. IsFiniteSet(A \cup {k}) /\ Cardinality(A \cup {k}) = Cardinality(A) + 1
    BY <1>1, <2>3, FS_AddElement
  <2>5. A \cup {k} \subseteq All /\ \A x \in A \cup {k} : Counterpart(x) \in B
    BY <1>3, <1>5, <2>2
  <2>6. ~(Cardinality(B) < Cardinality(A \cup {k}))
    BY <1>5, <1>8, <2>4, <2>5
  <2> QED
    BY <1>1, <1>5, <2>4, <2>6
<1>10. ASSUME NEW y \in B, \A x \in A : Counterpart(x) # y
      PROVE  FALSE
  <2>1. IsFiniteSet(B \ {y}) /\ Cardinality(B \ {y}) = Cardinality(B) - 1
    BY <1>5, FS_RemoveElement
  <2>2. \A x \in A : Counterpart(x) \in B \ {y}
    BY <1>3, <1>5, <1>10
  <2>3. ~(Cardinality(B \ {y}) < Cardinality(A))
    BY <1>1, <1>5, <1>8, <2>1, <2>2
  <2> QED
    BY <1>1, <1>5, <2>1, <2>3
<1>11. \A y \in B : y[1] \in ToSet(list)
  BY <1>3, <1>5, <1>6, <1>10
<1>12. \A y \in B : y \in SubsetKeys(D, y[1]) => SubsetAt(D, y).inConsolidation
  BY <1>10, <1>7
<1> QED
  BY <1>9, <1>11, <1>12 DEF B

-----------------------------------------------------------------------------
(* Consolidation, step by step. *)

\* The flags and the outputs agree at time t.
Agree(D, c, t) == AreRenderData(D) /\ AreOutputs(c) /\ AreBacked(D, Outputs(c, t))

\* Nothing is consolidated but meshes of the list.
Within(D, c, t, list) ==
    /\ \A p \in DOMAIN D : FlaggedOf(D, p) # {} => p \in ToSet(list)
    /\ \A k \in Outputs(c, t).consolidated : k[1] \in ToSet(list)

\* The same meshes are render data.
LEMMA SameAreRenderData ==
    ASSUME NEW D, NEW E, SameMeshes(D, E)
    PROVE  AreRenderData(E)
  BY DEF SameMeshes, SameSubsets, AreRenderData

\* Nothing has changed.
LEMMA SameMeshesReflexive ==
    ASSUME NEW D, AreRenderData(D)
    PROVE  SameMeshes(D, D)
  BY DEF SameMeshes, SameSubsets, AreRenderData

\* Where nothing is flagged and there is no consolidated mesh, all agrees.
LEMMA NothingAgrees ==
    ASSUME NEW D, AreRenderData(D), NEW c, AreOutputs(c), NEW t, NEW list,
           \A p \in DOMAIN D : FlaggedOf(D, p) = {}, Outputs(c, t).geoms = {}
    PROVE  Agree(D, c, t) /\ Within(D, c, t, list)
<1>1. Outputs(c, t).consolidated = {}
  BY OutputsAreOutputs DEF IsOutput
<1> QED
  BY <1>1, NoFlagIsBacked DEF Agree, Within, AreBacked

\* After a reset nothing is flagged and nothing is cached.
LEMMA ResetAgrees ==
    ASSUME NEW D, NEW c, NEW t, Agree(D, c, t), NEW u, NEW list
    PROVE  /\ SameMeshes(D, Reset(D, c).data)
           /\ Agree(Reset(D, c).data, Reset(D, c).cache, u)
           /\ Within(Reset(D, c).data, Reset(D, c).cache, u, list)
<1> DEFINE r == Reset(D, c)
<1>1. /\ SameMeshes(D, r.data)
      /\ \A p \in DOMAIN D : FlaggedOf(r.data, p) = {}
      /\ DOMAIN r.cache = {}
  BY ResetReleases DEF Agree
<1> HIDE DEF r
<1>2. AreOutputs(r.cache) /\ Outputs(r.cache, u).geoms = {}
  BY <1>1 DEF AreOutputs, Outputs, NewOutput
<1>3. AreRenderData(r.data) /\ DOMAIN r.data = DOMAIN D
  BY <1>1, SameAreRenderData DEF SameMeshes
<1>4. Agree(r.data, r.cache, u) /\ Within(r.data, r.cache, u, list)
  BY <1>1, <1>2, <1>3, NothingAgrees
<1> QED
  BY <1>1, <1>4 DEF r

\* Without consolidated meshes no subset is flagged.
LEMMA NoGeomsNoFlags ==
    ASSUME NEW D, NEW out, IsOutput(out), AreBacked(D, out), out.geoms = {}, NEW p \in DOMAIN D
    PROVE  FlaggedOf(D, p) = {}
<1>1. out.consolidated = {}
  BY DEF IsOutput
<1> QED
  BY <1>1 DEF AreBacked, Backed

\* The gizmos of the list leave the flags and the output together.
LEMMA UnconsolidateAgrees ==
    ASSUME NEW D, AreRenderData(D), NEW out, IsOutput(out), AreBacked(D, out), NEW list,
           \A p \in DOMAIN D : FlaggedOf(D, p) # {} => p \in ToSet(list),
           \A k \in out.consolidated : k[1] \in ToSet(list)
    PROVE  LET kept == UnconsolidateGizmos(list, D, out)
           IN /\ SameMeshes(D, kept.data)
              /\ IsOutput(kept.out)
              /\ AreBacked(kept.data, kept.out)
              /\ \A p \in DOMAIN D : FlaggedOf(kept.data, p) \subseteq FlaggedOf(D, p)
              /\ kept.out.consolidated \subseteq out.consolidated
<1> DEFINE kept == UnconsolidateGizmos(list, D, out)
           gizmos == ToSet(list) \cap Gizmos
           removed == {k \in out.consolidated : k[1] \in gizmos}
           keys == UNION {SubsetKeys(D, p) : p \in gizmos}
           staying == {k \in ToSet(out.source) : k[1] \notin gizmos}
<1>1. /\ kept.data = MapSubsets(D, keys, Released)
      /\ kept.out = [geoms |-> {g \in out.geoms :
                                  \A n \in DOMAIN g.inputs : g.inputs[n].subset \notin removed},
                     consolidated |-> out.consolidated \ removed,
                     source |-> Sift(out.source, staying)]
  BY DEF UnconsolidateGizmos
<1> HIDE DEF kept
<1>2. /\ SameMeshes(D, kept.data)
      /\ \A p \in DOMAIN D : FlaggedOf(kept.data, p) = FlaggedOf(D, p) \ keys
  <2> HIDE DEF keys
  <2> QED
    BY <1>1, ReleasedSubsets
<1>3. IsOutput(kept.out)
  <2>1. /\ DOMAIN kept.out = {"geoms", "consolidated", "source"}
        /\ kept.out.consolidated = out.consolidated \ removed
        /\ kept.out.source = Sift(out.source, staying)
        /\ \A g : g \in kept.out.geoms <=>
             g \in out.geoms /\ \A n \in DOMAIN g.inputs : g.inputs[n].subset \notin removed
    BY <1>1
  <2>2. kept.out.source \in Seq(Paths \X Nat)
    <3> HIDE DEF staying
    <3> QED
      BY <2>1, SiftProperties DEF IsOutput
  <2>3. IsFiniteSet(kept.out.consolidated) /\ kept.out.consolidated \subseteq Paths \X Nat
    <3>1. kept.out.consolidated \in SUBSET out.consolidated
      BY <2>1
    <3> QED
      BY <3>1, FS_Subset DEF IsOutput
  <2>4. \A g \in kept.out.geoms : g \in out.geoms /\ \A k \in KeysOf(g) : k \notin removed
    BY <2>1 DEF KeysOf
  <2>5. ASSUME NEW k \in out.consolidated, k \notin removed
        PROVE  \E g \in kept.out.geoms : k \in KeysOf(g)
    <3>1. PICK g \in out.geoms : k \in KeysOf(g)
      BY DEF IsOutput
    <3>2. ASSUME NEW n \in DOMAIN g.inputs, g.inputs[n].subset \in removed
          PROVE  FALSE
      <4> DEFINE l == g.inputs[n].subset
      <4>1. l \in KeysOf(g) /\ l[1] \in Gizmos
        BY <3>2 DEF KeysOf
      <4> HIDE DEF l
      <4>2. k[1] \in Gizmos
        BY <3>1, <4>1 DEF IsOutput
      <4> QED
        BY <2>5, <4>2
    <3> QED
      BY <2>1, <3>1, <3>2
  <2>6. kept.out.consolidated = UNION {KeysOf(g) : g \in kept.out.geoms}
    <3> HIDE DEF removed
    <3>1. \A g \in out.geoms : KeysOf(g) \subseteq out.consolidated
      BY DEF IsOutput
    <3> QED
      BY <2>1, <2>4, <2>5, <3>1
  <2> HIDE DEF removed, staying
  <2> QED
    BY <2>1, <2>2, <2>3, <2>4, <2>6 DEF IsOutput
<1>4. ASSUME NEW p \in DOMAIN D
      PROVE  Backed(kept.data, p, kept.out)
  <2>1. Backed(D, p, out)
    BY DEF AreBacked
  <2>2. /\ FlaggedOf(kept.data, p) = FlaggedOf(D, p) \ keys
        /\ SubsetKeys(kept.data, p) = SubsetKeys(D, p)
        /\ Len(kept.data[p].shadedSubsets) = Len(D[p].shadedSubsets)
    <3>1. SameSubsets(D[p], kept.data[p]) /\ IsRenderData(D[p])
      BY <1>2 DEF SameMeshes, AreRenderData
    <3>2. SubsetKeys(kept.data, p) = SubsetKeys(D, p)
      BY <3>1 DEF SameSubsets, SubsetKeys
    <3>3. Len(kept.data[p].shadedSubsets) = Len(D[p].shadedSubsets)
      BY <3>1 DEF SameSubsets, IsRenderData
    <3> QED
      BY <1>2, <3>2, <3>3
  <2>3. CASE p \in gizmos
    <3>1. FlaggedOf(D, p) \subseteq keys
      BY <2>3 DEF FlaggedOf
    <3>2. FlaggedOf(kept.data, p) = {}
      BY <2>2, <3>1
    <3> QED
      BY <3>2, NoFlagIsBacked
  <2>4. CASE p \notin gizmos
    <3>1. \A k \in SubsetKeys(D, p) : k[1] = p
      BY FlagsByIndex
    <3>2. ToSet(kept.out.source) = ToSet(out.source) \cap staying
      <4> HIDE DEF staying
      <4> QED
        BY <1>1, SiftProperties DEF IsOutput
    <3>3. SubsetKeys(D, p) \subseteq ToSet(out.source) =>
            SubsetKeys(D, p) \subseteq ToSet(kept.out.source)
      BY <2>4, <3>1, <3>2
    <3>4. \A k \in out.consolidated : k[1] = p => k \in kept.out.consolidated
      BY <1>1, <2>4
    <3>5. FlaggedOf(kept.data, p) \subseteq FlaggedOf(D, p)
      BY <2>2
    <3>6. \A k \in FlaggedOf(D, p) : k[1] = p
      BY FlagsByIndex
    <3> QED
      BY <2>1, <2>2, <3>3, <3>4, <3>5, <3>6 DEF Backed
  <2> QED
    BY <2>3, <2>4
<1>5. DOMAIN kept.data = DOMAIN D
  BY <1>2 DEF SameMeshes
<1>6. kept.out.consolidated \subseteq out.consolidated
  BY <1>1
<1> QED
  BY <1>2, <1>3, <1>4, <1>5, <1>6 DEF kept, AreBacked

\* A list of meshes as the consolidator gets it.
IsList(list, D) ==
    /\ DOMAIN D \subseteq Paths
    /\ list \in Seq(Paths)
    /\ IsInjective(list)
    /\ ToSet(list) \subseteq DOMAIN D

\* A geometry that is updated in place keeps its inputs.
LEMMA UpdatedGeomKeepsInputs ==
    ASSUME NEW g, "inputs" \in DOMAIN g, NEW inputs, NEW D, NEW lost
    PROVE  LET h == UpdateVertexBuffers(g, inputs, D, lost)
           IN "inputs" \in DOMAIN h /\ KeysOf(h) = KeysOf(g)
<1> DEFINE h == UpdateVertexBuffers(g, inputs, D, lost)
<1>1. DOMAIN h = DOMAIN g /\ h.inputs = g.inputs
  BY DEF UpdateVertexBuffers
<1> HIDE DEF h
<1>2. "inputs" \in DOMAIN h /\ KeysOf(h) = KeysOf(g)
  BY <1>1 DEF KeysOf
<1> QED
  BY <1>2 DEF h

\* The output is found where it is moved to.
LEMMA MovedToAgrees ==
    ASSUME NEW c, AreOutputs(c), NEW last, NEW t, NEW out, IsOutput(out)
    PROVE  /\ AreOutputs(MovedTo(c, last, t, out))
           /\ Outputs(MovedTo(c, last, t, out), t) = out
  BY DEF AreOutputs, MovedTo, CachedAt, Outputs

\* UpdateConsolidation breaks consolidation, or finds all of it in the list.
LEMMA UpdateAgrees ==
    ASSUME NEW D, NEW c, NEW last, Agree(D, c, last), OnlyAt(last, c),
           NEW list, IsList(list, D), NEW cfg, NEW t, NEW lost
    PROVE  LET r == UpdateConsolidation(list, D, c, cfg, last, t, lost)
           IN /\ SameMeshes(D, r.data)
              /\ Agree(r.data, r.cache, t)
              /\ Within(r.data, r.cache, t, list)
<1> DEFINE r == UpdateConsolidation(list, D, c, cfg, last, t, lost)
           out == Outputs(c, last)
<1>1. AreRenderData(D) /\ AreOutputs(c) /\ AreBacked(D, out) /\ IsOutput(out)
  BY OutputsAreOutputs DEF Agree
<1>2. CASE out.geoms = {}
  <2>1. r.data = D /\ r.cache = c
    BY <1>2 DEF UpdateConsolidation
  <2>2. \A p \in DOMAIN D : FlaggedOf(D, p) = {}
    BY <1>1, <1>2, NoGeomsNoFlags
  <2>3. Outputs(c, t).geoms = {}
    BY <1>2 DEF OnlyAt, Outputs, NewOutput
  <2> HIDE DEF r
  <2>4. SameMeshes(D, r.data) /\ Agree(r.data, r.cache, t) /\ Within(r.data, r.cache, t, list)
    BY <1>1, <2>1, <2>2, <2>3, NothingAgrees, SameMeshesReflexive
  <2> QED
    BY <2>4 DEF r
<1>3. CASE out.geoms # {} /\ MustBreak(list, D, out, cfg.strategy, last # t)
  <2>1. r = Reset(D, c)
    BY <1>3 DEF UpdateConsolidation
  <2> HIDE DEF r
  <2>2. SameMeshes(D, r.data) /\ Agree(r.data, r.cache, t) /\ Within(r.data, r.cache, t, list)
    BY <2>1, ResetAgrees
  <2> QED
    BY <2>2 DEF r
<1>4. CASE out.geoms # {} /\ ~MustBreak(list, D, out, cfg.strategy, last # t)
  <2> DEFINE dirty == \E k \in ToSet(Flagged(list, D)) : GizmoSelectionDirty(D, k)
             kept == IF dirty THEN UnconsolidateGizmos(list, D, out)
                     ELSE [data |-> D, out |-> out]
             UpdatedGeom(g) ==
               LET inputs == InputsFor(g, list, D, cfg.mode)
               IN UpdateVertexBuffers(g, inputs, D, lost \cap OutsideLockedRange(g, inputs))
             updated == [kept.out EXCEPT !.geoms = {UpdatedGeom(g) : g \in kept.out.geoms}]
  <2>1. r.data = kept.data /\ r.cache = MovedTo(c, last, t, updated)
    BY <1>4 DEF UpdateConsolidation
  <2>2. Len(Flagged(list, D)) = Cardinality(out.consolidated)
    BY <1>4 DEF MustBreak
  <2> HIDE DEF r, out, dirty
  <2>3. /\ \A p \in DOMAIN D : FlaggedOf(D, p) # {} => p \in ToSet(list)
        /\ \A k \in out.consolidated : k[1] \in ToSet(list)
    BY <1>1, <2>2, NothingOutsideTheList DEF IsList
  <2>4. /\ SameMeshes(D, kept.data)
        /\ IsOutput(kept.out)
        /\ AreBacked(kept.data, kept.out)
        /\ \A p \in DOMAIN D : FlaggedOf(kept.data, p) \subseteq FlaggedOf(D, p)
        /\ kept.out.consolidated \subseteq out.consolidated
    <3>1. CASE dirty
      BY <1>1, <2>3, <3>1, UnconsolidateAgrees
    <3>2. CASE ~dirty
      BY <1>1, <3>2, SameMeshesReflexive
    <3> QED
      BY <3>1, <3>2
  <2> HIDE DEF kept
  <2>5. \A g \in kept.out.geoms : "inputs" \in DOMAIN UpdatedGeom(g) /\ KeysOf(UpdatedGeom(g)) = KeysOf(g)
    BY <2>4, UpdatedGeomKeepsInputs DEF IsOutput
  <2> HIDE DEF UpdatedGeom
  <2>6. /\ DOMAIN updated = DOMAIN kept.out
        /\ updated.geoms = {UpdatedGeom(g) : g \in kept.out.geoms}
        /\ updated.consolidated = kept.out.consolidated
        /\ updated.source = kept.out.source
    BY <2>4 DEF IsOutput
  <2> HIDE DEF updated
  <2>7. IsOutput(updated)
    <3>1. UNION {KeysOf(g) : g \in updated.geoms} = UNION {KeysOf(g) : g \in kept.out.geoms}
      BY <2>5, <2>6
    <3>2. \A g \in updated.geoms :
            /\ "inputs" \in DOMAIN g
            /\ \A k, l \in KeysOf(g) : k[1] \in Gizmos <=> l[1] \in Gizmos
      BY <2>4, <2>5, <2>6 DEF IsOutput
    <3> QED
      BY <2>4, <2>6, <3>1, <3>2 DEF IsOutput
  <2>8. AreBacked(kept.data, updated)
    BY <2>4, <2>6 DEF AreBacked, Backed
  <2>9. AreOutputs(r.cache) /\ Outputs(r.cache, t) = updated
    BY <1>1, <2>1, <2>7, MovedToAgrees
  <2>10. Agree(r.data, r.cache, t)
    BY <2>1, <2>4, <2>8, <2>9, SameAreRenderData DEF Agree
  <2>11. Within(r.data, r.cache, t, list)
    BY <2>1, <2>3, <2>4, <2>6, <2>9 DEF Within, SameMeshes
  <2> QED
    BY <2>1, <2>4, <2>10, <2>11 DEF r
<1> QED
  BY <1>2, <1>3, <1>4 DEF out

-----------------------------------------------------------------------------
(* BuildConsolidation. *)

\* The key of a subset tells whether it is one of a gizmo.
LEMMA KeyTellsGizmos ==
    ASSUME NEW D, NEW mode, NEW k
    PROVE  KeyOf(D, mode, k)[1] = "gizmo" <=> k[1] \in Gizmos
<1> DEFINE d == D[k[1]]
           s == SubsetAt(D, k)
<1>1. \/ k[1] \in Gizmos /\ KeyOf(D, mode, k) = <<"gizmo", d.selected>>
      \/ k[1] \notin Gizmos /\ KeyOf(D, mode, k) = <<"material", s.materialData>>
      \/ k[1] \notin Gizmos /\ KeyOf(D, mode, k) = <<"wireColor">>
      \/ k[1] \notin Gizmos /\ KeyOf(D, mode, k) = <<"displayColor", d.color>>
  BY DEF KeyOf, ResolveViewportMaterial
<1> HIDE DEF d, s
<1>2. /\ <<"gizmo", d.selected>>[1] = "gizmo" /\ <<"material", s.materialData>>[1] = "material"
      /\ <<"wireColor">>[1] = "wireColor" /\ <<"displayColor", d.color>>[1] = "displayColor"
  OBVIOUS
<1> QED
  BY <1>1, <1>2

\* A new geometry is made of the inputs of its cell.
LEMMA NewGeomKeys ==
    ASSUME NEW c, NEW D, NEW K, c.inputs \in Seq(K)
    PROVE  "inputs" \in DOMAIN NewGeom(c, D) /\ KeysOf(NewGeom(c, D)) = ToSet(c.inputs)
<1> DEFINE g == NewGeom(c, D)
<1>1. "inputs" \in DOMAIN g
  BY DEF NewGeom
<1>2. /\ DOMAIN g.inputs = DOMAIN c.inputs
      /\ \A n \in DOMAIN c.inputs : g.inputs[n].subset = c.inputs[n]
  BY DEF NewGeom
<1> HIDE DEF g
<1>3. KeysOf(g) = ToSet(c.inputs)
  BY <1>2 DEF KeysOf, ToSet
<1> QED
  BY <1>1, <1>3 DEF g

\* The cells worth a mesh: their inputs are listed and not flagged, all gizmos or none,
\* in no other cell, and not too big together.
LEMMA GoodCells ==
    ASSUME NEW D, AreRenderData(D), NEW list, IsList(list, D), NEW mode, IsFiniteSet(Faces)
    PROVE  LET cells == {c \in ToSet(BuildConsolidationCells(list, D, mode)) : Len(c.inputs) > 1}
               subsets == SubsetsOf(list, D)
           IN /\ subsets \in Seq(Paths \X Nat)
              /\ ToSet(subsets) = UNION {SubsetKeys(D, p) : p \in ToSet(list)}
              /\ IsFiniteSet(ToSet(subsets))
              /\ \A c \in cells :
                   /\ c.inputs \in Seq(Paths \X Nat)
                   /\ ToSet(c.inputs) \subseteq ToSet(subsets)
                   /\ \A k, l \in ToSet(c.inputs) : k[1] \in Gizmos <=> l[1] \in Gizmos
                   /\ \A k \in ToSet(c.inputs) : ~SubsetAt(D, k).inConsolidation
                   /\ Cardinality(TrianglesIn(c.inputs, D)) <= MaxCellSize
              /\ \A c, e \in cells : c = e \/ ToSet(c.inputs) \cap ToSet(e.inputs) = {}
<1> DEFINE built == BuildConsolidationCells(list, D, mode)
           subsets == SubsetsOf(list, D)
<1>1. /\ \A p \in ToSet(list) : D[p].shadedSubsets \in Seq(SubsetRecords)
      /\ \A s \in SubsetRecords : s.faces \subseteq Faces
  <2>1. \A s \in SubsetRecords : s.faces \subseteq Faces
    BY DEF SubsetRecords
  <2> QED
    BY <2>1 DEF AreRenderData, IsRenderData, IsList
<1> HIDE DEF built, subsets
<1>2. /\ \E Q : built \in Seq(Cells(Q, Paths \X Nat))
      /\ CellsApart(built, D, mode)
      /\ CellsFit(built, D)
      /\ InputsIn(built) \subseteq ToSet(subsets)
      /\ \A k \in InputsIn(built) : CanBeConsolidated(D, mode, k)
  <2> DEFINE S == SubsetRecords
             P == Paths
  <2>1. /\ list \in Seq(P) /\ IsInjective(list)
        /\ \A p \in ToSet(list) : D[p].shadedSubsets \in Seq(S)
        /\ \A s \in S : s.faces \subseteq Faces
    BY <1>1 DEF IsList
  <2> HIDE DEF S, P
  <2>2. \E Q : BuildConsolidationCells(list, D, mode) \in Seq(Cells(Q, P \X Nat))
    BY <2>1, CellsProperties
  <2>3. CellsApart(BuildConsolidationCells(list, D, mode), D, mode)
    BY <2>1, CellsProperties
  <2>4. /\ InputsIn(BuildConsolidationCells(list, D, mode)) \subseteq ToSet(SubsetsOf(list, D))
        /\ \A k \in InputsIn(BuildConsolidationCells(list, D, mode)) : CanBeConsolidated(D, mode, k)
    BY <2>1, CellsProperties
  <2>5. CellsFit(BuildConsolidationCells(list, D, mode), D)
    BY <2>1, CellsProperties
  <2> QED
    BY <2>2, <2>3, <2>4, <2>5 DEF built, subsets, P
<1>3. /\ subsets \in Seq(Paths \X Nat)
      /\ ToSet(subsets) = UNION {SubsetKeys(D, p) : p \in ToSet(list)}
      /\ IsInjective(subsets)
  BY <1>1, SubsetsOfProperties DEF IsList, subsets
<1>4. IsFiniteSet(ToSet(subsets))
  BY <1>3, LengthOfInjective
<1>5. ASSUME NEW c \in ToSet(built)
      PROVE  /\ c.inputs \in Seq(Paths \X Nat)
             /\ ToSet(c.inputs) \subseteq ToSet(subsets)
             /\ \A k, l \in ToSet(c.inputs) : k[1] \in Gizmos <=> l[1] \in Gizmos
             /\ \A k \in ToSet(c.inputs) : ~SubsetAt(D, k).inConsolidation
             /\ Cardinality(TrianglesIn(c.inputs, D)) <= MaxCellSize
  <2>1. PICK n \in DOMAIN built : c = built[n]
    BY DEF ToSet
  <2>2. PICK Q : built \in Seq(Cells(Q, Paths \X Nat))
    BY <1>2
  <2>3. c \in Cells(Q, Paths \X Nat)
    <3> DEFINE X == Cells(Q, Paths \X Nat)
    <3> HIDE DEF X
    <3>1. built \in Seq(X)
      BY <2>2 DEF X
    <3>2. c \in X
      BY <2>1, <3>1
    <3> QED
      BY <3>2 DEF X
  <2>4. c.inputs \in Seq(Paths \X Nat)
    BY <2>3 DEF Cells
  <2>5. ToSet(c.inputs) \subseteq InputsIn(built)
    BY <2>1 DEF InputsIn
  <2>6. \A k \in ToSet(c.inputs) : KeyOf(D, mode, k) = c.key
    BY <1>2, <2>1 DEF CellsApart
  <2>7. \A k, l \in ToSet(c.inputs) : k[1] \in Gizmos <=> l[1] \in Gizmos
    BY <2>6, KeyTellsGizmos
  <2>8. \A k \in ToSet(c.inputs) : ~SubsetAt(D, k).inConsolidation
    BY <1>2, <2>5 DEF CanBeConsolidated
  <2>9. Cardinality(TrianglesIn(c.inputs, D)) <= MaxCellSize
    BY <1>2, <2>1 DEF CellsFit
  <2> QED
    BY <1>2, <2>4, <2>5, <2>7, <2>8, <2>9
<1>6. ASSUME NEW c \in ToSet(built), NEW e \in ToSet(built), c # e
      PROVE  ToSet(c.inputs) \cap ToSet(e.inputs) = {}
  <2>1. PICK m \in DOMAIN built : c = built[m]
    BY DEF ToSet
  <2>2. PICK n \in DOMAIN built : e = built[n]
    BY DEF ToSet
  <2>3. m # n
    BY <1>6, <2>1, <2>2
  <2> QED
    BY <1>2, <2>1, <2>2, <2>3 DEF CellsApart
<1> QED
  BY <1>3, <1>4, <1>5, <1>6 DEF built, subsets

\* Cleaning the consolidated subsets keeps their flags.
LEMMA CleanedSubsets ==
    ASSUME NEW D, AreRenderData(D), NEW keys
    PROVE  /\ SameMeshes(D, MapSubsets(D, keys, Clean))
           /\ \A p \in DOMAIN D : FlaggedOf(MapSubsets(D, keys, Clean), p) = FlaggedOf(D, p)
<1> DEFINE L == UNION {SubsetKeys(D, p) : p \in DOMAIN D}
           f == [k \in L |-> Clean(SubsetAt(D, k))]
           E == MapSubsets(D, keys, Clean)
<1>1. \A p \in DOMAIN D : \A i \in DOMAIN D[p].shadedSubsets :
        <<p, i>> \in L /\ f[<<p, i>>] = Clean(D[p].shadedSubsets[i])
  BY DEF SubsetKeys, SubsetAt
<1> HIDE DEF f
<1>2. E = Mapped(D, keys, f)
  BY <1>1 DEF MapSubsets, Mapped
<1>3. \A p \in DOMAIN D : \A i \in DOMAIN D[p].shadedSubsets :
        /\ f[<<p, i>>] \in SubsetRecords
        /\ f[<<p, i>>].material = D[p].shadedSubsets[i].material
        /\ f[<<p, i>>].inConsolidation = D[p].shadedSubsets[i].inConsolidation
  <2>1. \A p \in DOMAIN D : \A i \in DOMAIN D[p].shadedSubsets :
          D[p].shadedSubsets[i] \in SubsetRecords
    BY DEF AreRenderData, IsRenderData
  <2>2. \A s \in SubsetRecords :
          /\ Clean(s) \in SubsetRecords
          /\ Clean(s).material = s.material
          /\ Clean(s).inConsolidation = s.inConsolidation
    BY DEF Clean, SubsetRecords
  <2> QED
    BY <1>1, <2>1, <2>2
<1>4. Fits(D, f)
  BY <1>3 DEF Fits
<1> HIDE DEF E
<1>5. /\ SameMeshes(D, E)
      /\ \A p \in DOMAIN D : \A i \in DOMAIN D[p].shadedSubsets :
           E[p].shadedSubsets[i]
             = IF <<p, i>> \in keys THEN f[<<p, i>>] ELSE D[p].shadedSubsets[i]
  BY <1>2, <1>4, MappedSubsets
<1>6. \A p \in DOMAIN D : FlaggedOf(E, p) = FlaggedOf(D, p)
  <2> SUFFICES ASSUME NEW p \in DOMAIN D, NEW k
               PROVE  k \in FlaggedOf(E, p) <=> k \in FlaggedOf(D, p)
    OBVIOUS
  <2>1. DOMAIN E[p].shadedSubsets = DOMAIN D[p].shadedSubsets
    BY <1>5 DEF SameMeshes, SameSubsets
  <2> QED
    BY <1>3, <1>5, <2>1, FlagsByIndex
<1> QED
  BY <1>5, <1>6 DEF E

\* What counts of a mesh for Backed.
LEMMA SameMeshesSameKeys ==
    ASSUME NEW D, AreRenderData(D), NEW E, SameMeshes(D, E), NEW p \in DOMAIN D
    PROVE  /\ SubsetKeys(E, p) = SubsetKeys(D, p)
           /\ Len(E[p].shadedSubsets) = Len(D[p].shadedSubsets)
<1>1. SameSubsets(D[p], E[p]) /\ IsRenderData(D[p])
  BY DEF SameMeshes, AreRenderData
<1>2. SubsetKeys(E, p) = SubsetKeys(D, p)
  BY <1>1 DEF SameSubsets, SubsetKeys
<1>3. Len(E[p].shadedSubsets) = Len(D[p].shadedSubsets)
  BY <1>1 DEF SameSubsets, IsRenderData
<1> QED
  BY <1>2, <1>3

\* The same flags agree with the same outputs.
LEMMA SameFlagsAgree ==
    ASSUME NEW D, NEW c, NEW t, Agree(D, c, t), NEW E, SameMeshes(D, E),
           \A p \in DOMAIN D : FlaggedOf(E, p) = FlaggedOf(D, p)
    PROVE  Agree(E, c, t)
<1>1. AreRenderData(D) /\ AreRenderData(E) /\ DOMAIN E = DOMAIN D
  BY SameAreRenderData DEF Agree, SameMeshes
<1>2. ASSUME NEW p \in DOMAIN D PROVE Backed(E, p, Outputs(c, t))
  BY <1>1, SameMeshesSameKeys DEF Agree, AreBacked, Backed
<1> QED
  BY <1>1, <1>2 DEF Agree, AreBacked

\* BuildConsolidation flags what it adds to the output.
LEMMA BuildAgrees ==
    ASSUME NEW D, NEW c, NEW t, Agree(D, c, t), NEW list, IsList(list, D), Within(D, c, t, list),
           NEW mode, IsFiniteSet(Faces)
    PROVE  LET r == BuildConsolidation(list, D, c, mode, t)
           IN /\ SameMeshes(D, r.data)
              /\ Agree(r.data, r.cache, t)
<1> DEFINE r == BuildConsolidation(list, D, c, mode, t)
           cells == {x \in ToSet(BuildConsolidationCells(list, D, mode)) : Len(x.inputs) > 1}
           keys == UNION {ToSet(x.inputs) : x \in cells}
           old == Outputs(c, t)
           subsets == SubsetsOf(list, D)
           out == [geoms |-> old.geoms \cup {NewGeom(x, D) : x \in cells},
                   consolidated |-> old.consolidated \cup keys,
                   source |-> subsets]
           Flag(s) == [s EXCEPT !.inConsolidation = TRUE]
           E == MapSubsets(D, keys, Flag)
<1>1. /\ r.data = E
      /\ r.cache = IF t \in DOMAIN c \/ cells # {} THEN CachedAt(c, t, out) ELSE c
  BY DEF BuildConsolidation
<1>2. AreRenderData(D) /\ AreOutputs(c) /\ AreBacked(D, old) /\ IsOutput(old)
  BY OutputsAreOutputs DEF Agree
<1>3. /\ SameMeshes(D, E)
      /\ \A p \in DOMAIN D :
           FlaggedOf(E, p) = FlaggedOf(D, p) \cup (SubsetKeys(D, p) \cap keys)
  <2> HIDE DEF keys
  <2> QED
    BY <1>2, FlaggedSubsets
<1>4. /\ subsets \in Seq(Paths \X Nat)
      /\ ToSet(subsets) = UNION {SubsetKeys(D, p) : p \in ToSet(list)}
      /\ IsFiniteSet(ToSet(subsets))
      /\ \A x \in cells :
           /\ x.inputs \in Seq(Paths \X Nat)
           /\ ToSet(x.inputs) \subseteq ToSet(subsets)
           /\ \A k, l \in ToSet(x.inputs) : k[1] \in Gizmos <=> l[1] \in Gizmos
  BY <1>2, GoodCells
<1> HIDE DEF r, cells, old, subsets, E
<1>5. /\ keys \subseteq ToSet(subsets)
      /\ IsFiniteSet(keys)
      /\ keys \subseteq Paths \X Nat
  <2>1. keys \in SUBSET ToSet(subsets)
    BY <1>4
  <2>2. ToSet(subsets) \subseteq Paths \X Nat
    <3> DEFINE K == Paths \X Nat
    <3> HIDE DEF K
    <3>1. subsets \in Seq(K)
      BY <1>4 DEF K
    <3>2. ToSet(subsets) \subseteq K
      BY <3>1 DEF ToSet
    <3> QED
      BY <3>2 DEF K
  <2> QED
    BY <1>4, <2>1, <2>2, FS_Subset
<1>6. \A x \in cells :
        "inputs" \in DOMAIN NewGeom(x, D) /\ KeysOf(NewGeom(x, D)) = ToSet(x.inputs)
  BY <1>4, NewGeomKeys
<1>7. IsOutput(out)
  <2>1. /\ DOMAIN out = {"geoms", "consolidated", "source"}
        /\ out.geoms = old.geoms \cup {NewGeom(x, D) : x \in cells}
        /\ out.consolidated = old.consolidated \cup keys
        /\ out.source = subsets
    OBVIOUS
  <2> HIDE DEF out
  <2>2. \A g \in out.geoms :
         /\ "inputs" \in DOMAIN g
         /\ \A k, l \in KeysOf(g) : k[1] \in Gizmos <=> l[1] \in Gizmos
    BY <1>2, <1>4, <1>6, <2>1 DEF IsOutput
  <2>3. UNION {KeysOf(g) : g \in out.geoms} = (UNION {KeysOf(g) : g \in old.geoms}) \cup keys
    BY <1>6, <2>1
  <2>4. IsFiniteSet(out.consolidated)
    <3>1. IsFiniteSet(old.consolidated)
      BY <1>2 DEF IsOutput
    <3> HIDE DEF keys
    <3>2. IsFiniteSet(old.consolidated \cup keys)
      BY <1>5, <3>1, FS_Union
    <3> QED
      BY <2>1, <3>2
  <2>5. out.consolidated \subseteq Paths \X Nat
    BY <1>2, <1>5, <2>1 DEF IsOutput
  <2>6. out.consolidated = UNION {KeysOf(g) : g \in out.geoms}
    BY <1>2, <2>1, <2>3 DEF IsOutput
  <2> QED
    BY <1>4, <2>1, <2>2, <2>4, <2>5, <2>6 DEF IsOutput
<1>8. AreRenderData(E) /\ DOMAIN E = DOMAIN D
  BY <1>3, SameAreRenderData DEF SameMeshes
<1>9. out.source = subsets /\ out.consolidated = old.consolidated \cup keys
  OBVIOUS
<1> HIDE DEF out
<1>10. CASE t \in DOMAIN c \/ cells # {}
  <2>1. AreOutputs(r.cache) /\ Outputs(r.cache, t) = out
    BY <1>1, <1>2, <1>7, <1>10 DEF AreOutputs, CachedAt, Outputs
  <2>2. ASSUME NEW p \in DOMAIN D
        PROVE  Backed(E, p, out)
    <3>1. /\ SubsetKeys(E, p) = SubsetKeys(D, p)
          /\ Len(E[p].shadedSubsets) = Len(D[p].shadedSubsets)
          /\ FlaggedOf(E, p) = FlaggedOf(D, p) \cup (SubsetKeys(D, p) \cap keys)
          /\ Backed(D, p, old)
      BY <1>2, <1>3, SameMeshesSameKeys DEF AreBacked
    <3>2. \A q : \A k \in SubsetKeys(D, q) : k[1] = q
      BY FlagsByIndex
    <3> HIDE DEF keys
    <3>3. ASSUME NEW k \in keys PROVE k[1] \in ToSet(list)
      <4>1. PICK q \in ToSet(list) : k \in SubsetKeys(D, q)
        BY <1>4, <1>5
      <4> QED
        BY <3>2, <4>1
    <3>4. FlaggedOf(E, p) # {} => p \in ToSet(list)
      BY <3>1, <3>2, <3>3 DEF Within
    <3>5. FlaggedOf(E, p) # {} => SubsetKeys(E, p) \subseteq ToSet(out.source)
      BY <1>4, <1>9, <3>1, <3>4
    <3>6. CASE FlaggedOf(D, p) \subseteq old.consolidated
      BY <1>9, <3>1, <3>5, <3>6 DEF Backed
    <3>7. CASE /\ Len(D[p].shadedSubsets) <= 1
               /\ FlaggedOf(D, p) # {} => \E k \in old.consolidated : k[1] = p
      <4>1. FlaggedOf(E, p) # {} => \E k \in out.consolidated : k[1] = p
        BY <1>9, <3>1, <3>2, <3>7
      <4> QED
        BY <3>1, <3>5, <3>7, <4>1 DEF Backed
    <3> QED
      BY <3>1, <3>6, <3>7 DEF Backed
  <2>3. Agree(r.data, r.cache, t)
    BY <1>1, <1>8, <2>1, <2>2 DEF Agree, AreBacked
  <2> QED
    BY <1>1, <1>3, <2>3 DEF r
<1>11. CASE ~(t \in DOMAIN c \/ cells # {})
  <2>1. keys = {} /\ r.cache = c
    BY <1>1, <1>11
  <2>2. \A p \in DOMAIN D : FlaggedOf(E, p) = FlaggedOf(D, p)
    BY <1>3, <2>1
  <2>3. Agree(r.data, r.cache, t)
    BY <1>1, <1>3, <2>1, <2>2, SameFlagsAgree
  <2> QED
    BY <1>1, <1>3, <2>3 DEF r
<1> QED
  BY <1>10, <1>11

-----------------------------------------------------------------------------
(* HdMaxEngine::Consolidate. *)

\* The same meshes twice are the same meshes.
LEMMA SameMeshesTransitive ==
    ASSUME NEW D, NEW E, NEW F, SameMeshes(D, E), SameMeshes(E, F)
    PROVE  SameMeshes(D, F)
  BY DEF SameMeshes, SameSubsets

\* Bringing consolidation up to date, or starting it from scratch.
LEMMA UpdatedAgrees ==
    ASSUME NEW D, NEW c, Agree(D, c, lastVpRenderTime), OnlyAt(lastVpRenderTime, c),
           NEW list, IsList(list, D), NEW cfg, NEW t, NEW lost
    PROVE  LET r == Updated(list, D, c, cfg, t, lost)
           IN /\ SameMeshes(D, r.data)
              /\ Agree(r.data, r.cache, t)
              /\ Within(r.data, r.cache, t, list)
<1> DEFINE u == UpdateConsolidation(list, D, c, cfg, lastVpRenderTime, t, lost)
           z == Reset(D, c)
           r == Updated(list, D, c, cfg, t, lost)
<1>1. r = z \/ r = u
  BY DEF Updated
<1>2. SameMeshes(D, u.data) /\ Agree(u.data, u.cache, t) /\ Within(u.data, u.cache, t, list)
  BY UpdateAgrees
<1>3. SameMeshes(D, z.data) /\ Agree(z.data, z.cache, t) /\ Within(z.data, z.cache, t, list)
  BY ResetAgrees
<1> HIDE DEF u, z, r
<1>4. SameMeshes(D, r.data) /\ Agree(r.data, r.cache, t) /\ Within(r.data, r.cache, t, list)
  BY <1>1, <1>2, <1>3
<1> QED
  BY <1>4 DEF r

\* A frame's call of Consolidate leaves flags the output knows.
LEMMA ConsolidateAgrees ==
    ASSUME NEW D, NEW c, Agree(D, c, lastVpRenderTime), OnlyAt(lastVpRenderTime, c),
           NEW list, IsList(list, D), NEW cfg, NEW t, NEW elapsed, NEW lost, IsFiniteSet(Faces)
    PROVE  LET r == Consolidate(list, D, c, cfg, t, elapsed, lost)
           IN SameMeshes(D, r.data) /\ Agree(r.data, r.cache, t)
<1> DEFINE now == Updated(list, D, c, cfg, t, lost)
           made == BuildConsolidation(list, now.data, now.cache, cfg.mode, t)
           r == Consolidate(list, D, c, cfg, t, elapsed, lost)
           Cleaned(d, keys) == MapSubsets(d, keys, Clean)
<1>1. \/ r.data = now.data /\ r.cache = now.cache
      \/ \E keys : r.data = Cleaned(now.data, keys) /\ r.cache = now.cache
      \/ \E keys : r.data = Cleaned(made.data, keys) /\ r.cache = made.cache
  BY DEF Consolidate
<1>2. /\ SameMeshes(D, now.data) /\ Agree(now.data, now.cache, t)
      /\ Within(now.data, now.cache, t, list)
  BY UpdatedAgrees
<1> HIDE DEF now, r
<1>3. IsList(list, now.data)
  BY <1>2 DEF SameMeshes, IsList
<1>4. SameMeshes(now.data, made.data) /\ Agree(made.data, made.cache, t)
  BY <1>2, <1>3, BuildAgrees
<1> HIDE DEF made
<1>5. SameMeshes(D, made.data)
  BY <1>2, <1>4, SameMeshesTransitive
<1>6. ASSUME NEW E, NEW e, SameMeshes(D, E), Agree(E, e, t), NEW keys
      PROVE  SameMeshes(D, Cleaned(E, keys)) /\ Agree(Cleaned(E, keys), e, t)
  <2>1. /\ SameMeshes(E, Cleaned(E, keys))
        /\ \A p \in DOMAIN E : FlaggedOf(Cleaned(E, keys), p) = FlaggedOf(E, p)
    BY <1>6, CleanedSubsets DEF Agree
  <2> HIDE DEF Cleaned
  <2>2. Agree(Cleaned(E, keys), e, t)
    BY <1>6, <2>1, SameFlagsAgree
  <2> QED
    BY <1>6, <2>1, <2>2, SameMeshesTransitive
<1> HIDE DEF Cleaned
<1>7. SameMeshes(D, r.data) /\ Agree(r.data, r.cache, t)
  BY <1>1, <1>2, <1>4, <1>5, <1>6
<1> QED
  BY <1>7 DEF r

-----------------------------------------------------------------------------
(* The limits of the consolidated meshes. *)

FacesIn(g) == UNION {{n} \X g.inputs[n].faces : n \in DOMAIN g.inputs}

\* Several inputs, and no more triangles than allowed.
InLimits(g) == Len(g.inputs) > 1 /\ Cardinality(FacesIn(g)) <= MaxCellSize

Limits(out) ==
    /\ \A g \in out.geoms : InLimits(g)
    /\ \A g, h \in out.geoms : g = h \/ KeysOf(g) \cap KeysOf(h) = {}

\* What is merged, and still there, is flagged.
AllFlagged(D, out) ==
    \A k \in out.consolidated : k \in SubsetKeys(D, k[1]) => SubsetAt(D, k).inConsolidation

\* Without geometries there is nothing to exceed a limit.
LEMMA NothingInLimits ==
    ASSUME NEW D, NEW out, IsOutput(out), out.geoms = {}
    PROVE  Limits(out) /\ AllFlagged(D, out)
<1>1. out.consolidated = {}
  BY DEF IsOutput
<1> QED
  BY <1>1 DEF Limits, AllFlagged

\* A geometry updated in place keeps to its limits.
LEMMA UpdatedGeomInLimits ==
    ASSUME NEW g, NEW inputs, NEW D, NEW lost, InLimits(g)
    PROVE  InLimits(UpdateVertexBuffers(g, inputs, D, lost))
<1> DEFINE h == UpdateVertexBuffers(g, inputs, D, lost)
<1>1. h.inputs = g.inputs
  BY DEF UpdateVertexBuffers, InLimits
<1> HIDE DEF h
<1>2. InLimits(h)
  BY <1>1 DEF InLimits, FacesIn
<1> QED
  BY <1>2 DEF h

\* When the gizmos leave, what stays merged stays flagged.
LEMMA UnconsolidateLimits ==
    ASSUME NEW D, AreRenderData(D), NEW out, IsOutput(out), NEW list, ToSet(list) \subseteq DOMAIN D,
           \A k \in out.consolidated : k[1] \in ToSet(list),
           Limits(out), AllFlagged(D, out)
    PROVE  LET kept == UnconsolidateGizmos(list, D, out)
           IN Limits(kept.out) /\ AllFlagged(kept.data, kept.out)
<1> DEFINE kept == UnconsolidateGizmos(list, D, out)
           gizmos == ToSet(list) \cap Gizmos
           removed == {k \in out.consolidated : k[1] \in gizmos}
           keys == UNION {SubsetKeys(D, p) : p \in gizmos}
<1>1. /\ kept.data = MapSubsets(D, keys, Released)
      /\ kept.out.geoms \subseteq out.geoms
      /\ kept.out.consolidated = out.consolidated \ removed
  BY DEF UnconsolidateGizmos
<1> HIDE DEF kept
<1>2. Limits(kept.out)
  BY <1>1 DEF Limits
<1>3. /\ SameMeshes(D, kept.data)
      /\ \A p \in DOMAIN D : FlaggedOf(kept.data, p) = FlaggedOf(D, p) \ keys
  <2> HIDE DEF keys
  <2> QED
    BY <1>1, ReleasedSubsets
<1>4. ASSUME NEW k \in kept.out.consolidated, k \in SubsetKeys(kept.data, k[1])
      PROVE  SubsetAt(kept.data, k).inConsolidation
  <2>1. k \in out.consolidated /\ k[1] \notin gizmos /\ k[1] \in DOMAIN D
    BY <1>1
  <2>2. SubsetKeys(kept.data, k[1]) = SubsetKeys(D, k[1])
    BY <1>3, <2>1, SameMeshesSameKeys
  <2>3. k \in FlaggedOf(D, k[1])
    BY <1>4, <2>1, <2>2 DEF AllFlagged, FlaggedOf
  <2>4. k \notin keys
    <3>1. \A p : \A l \in SubsetKeys(D, p) : l[1] = p
      BY FlagsByIndex
    <3> HIDE DEF gizmos
    <3> QED
      BY <2>1, <3>1
  <2>5. k \in FlaggedOf(kept.data, k[1])
    BY <1>3, <2>1, <2>3, <2>4
  <2> QED
    BY <2>5 DEF FlaggedOf
<1> QED
  BY <1>2, <1>4 DEF kept, AllFlagged

\* UpdateConsolidation leaves the limits as they are, and all that is merged flagged.
LEMMA UpdateLimits ==
    ASSUME NEW D, NEW c, NEW last, Agree(D, c, last), OnlyAt(last, c),
           NEW list, IsList(list, D), NEW cfg, NEW t, NEW lost, Limits(Outputs(c, last))
    PROVE  LET r == UpdateConsolidation(list, D, c, cfg, last, t, lost)
           IN Limits(Outputs(r.cache, t)) /\ AllFlagged(r.data, Outputs(r.cache, t))
<1> DEFINE r == UpdateConsolidation(list, D, c, cfg, last, t, lost)
           out == Outputs(c, last)
<1>1. AreRenderData(D) /\ AreOutputs(c) /\ AreBacked(D, out) /\ IsOutput(out)
  BY OutputsAreOutputs DEF Agree
<1>2. CASE out.geoms = {}
  <2>1. r.data = D /\ r.cache = c
    BY <1>2 DEF UpdateConsolidation
  <2>2. Outputs(c, t).geoms = {} /\ IsOutput(Outputs(c, t))
    BY <1>1, <1>2, OutputsAreOutputs DEF OnlyAt, Outputs, NewOutput
  <2> HIDE DEF r
  <2> QED
    BY <2>1, <2>2, NothingInLimits DEF r
<1>3. CASE out.geoms # {} /\ MustBreak(list, D, out, cfg.strategy, last # t)
  <2>1. r = Reset(D, c)
    BY <1>3 DEF UpdateConsolidation
  <2> HIDE DEF r
  <2>2. DOMAIN r.cache = {}
    BY <1>1, <2>1, ResetReleases
  <2>3. AreOutputs(r.cache) /\ Outputs(r.cache, t).geoms = {}
    BY <2>2 DEF AreOutputs, Outputs, NewOutput
  <2> QED
    BY <2>3, OutputsAreOutputs, NothingInLimits DEF r
<1>4. CASE out.geoms # {} /\ ~MustBreak(list, D, out, cfg.strategy, last # t)
  <2> DEFINE dirty == \E k \in ToSet(Flagged(list, D)) : GizmoSelectionDirty(D, k)
             kept == IF dirty THEN UnconsolidateGizmos(list, D, out)
                     ELSE [data |-> D, out |-> out]
             UpdatedGeom(g) ==
               LET inputs == InputsFor(g, list, D, cfg.mode)
               IN UpdateVertexBuffers(g, inputs, D, lost \cap OutsideLockedRange(g, inputs))
             updated == [kept.out EXCEPT !.geoms = {UpdatedGeom(g) : g \in kept.out.geoms}]
  <2>1. r.data = kept.data /\ r.cache = MovedTo(c, last, t, updated)
    BY <1>4 DEF UpdateConsolidation
  <2>2. Len(Flagged(list, D)) = Cardinality(out.consolidated)
    BY <1>4 DEF MustBreak
  <2> HIDE DEF r, out, dirty
  <2>3. /\ \A p \in DOMAIN D : FlaggedOf(D, p) # {} => p \in ToSet(list)
        /\ \A k \in out.consolidated : k[1] \in ToSet(list)
        /\ AllFlagged(D, out)
    BY <1>1, <2>2, NothingOutsideTheList DEF IsList, AllFlagged
  <2>4. Limits(kept.out) /\ AllFlagged(kept.data, kept.out) /\ IsOutput(kept.out)
    <3>1. Limits(out) /\ ToSet(list) \subseteq DOMAIN D
      BY DEF out, IsList
    <3>2. CASE dirty
      BY <1>1, <2>3, <3>1, <3>2, UnconsolidateAgrees, UnconsolidateLimits
    <3>3. CASE ~dirty
      BY <1>1, <2>3, <3>1, <3>3
    <3> QED
      BY <3>2, <3>3
  <2> HIDE DEF kept
  <2>5. \A g \in kept.out.geoms : InLimits(UpdatedGeom(g)) /\ KeysOf(UpdatedGeom(g)) = KeysOf(g)
    BY <2>4, UpdatedGeomKeepsInputs, UpdatedGeomInLimits DEF IsOutput, Limits
  <2> HIDE DEF UpdatedGeom
  <2>6. /\ updated.geoms = {UpdatedGeom(g) : g \in kept.out.geoms}
        /\ updated.consolidated = kept.out.consolidated
    BY <2>4 DEF IsOutput
  <2> HIDE DEF updated
  <2>7. Limits(updated)
    BY <2>4, <2>5, <2>6 DEF Limits
  <2>8. AllFlagged(kept.data, updated)
    BY <2>4, <2>6 DEF AllFlagged
  <2>9. Outputs(r.cache, t) = updated
    BY <2>1 DEF MovedTo, CachedAt, Outputs
  <2> QED
    BY <2>1, <2>7, <2>8, <2>9 DEF r
<1> QED
  BY <1>2, <1>3, <1>4 DEF out

\* A new geometry is as big as its cell.
LEMMA NewGeomInLimits ==
    ASSUME NEW c, NEW D, Len(c.inputs) > 1, NEW K, c.inputs \in Seq(K),
           Cardinality(TrianglesIn(c.inputs, D)) <= MaxCellSize
    PROVE  InLimits(NewGeom(c, D))
<1> DEFINE g == NewGeom(c, D)
<1>1. /\ DOMAIN g.inputs = DOMAIN c.inputs
      /\ \A n \in DOMAIN c.inputs : g.inputs[n].faces = SubsetAt(D, c.inputs[n]).faces
      /\ g.inputs = [n \in 1 .. Len(c.inputs) |-> g.inputs[n]]
  BY DEF NewGeom
<1> HIDE DEF g
<1>2. FacesIn(g) = TrianglesIn(c.inputs, D)
  BY <1>1 DEF FacesIn, TrianglesIn
<1>3. Len(g.inputs) = Len(c.inputs)
  <2> DEFINE N == Len(c.inputs)
             e == [n \in 1 .. N |-> g.inputs[n]]
  <2>1. N \in Nat
    OBVIOUS
  <2>2. g.inputs = e
    BY <1>1
  <2> HIDE DEF N
  <2>3. Len(e) = N
    BY <2>1
  <2> QED
    BY <2>2, <2>3 DEF N
<1>4. InLimits(g)
  BY <1>2, <1>3 DEF InLimits
<1> QED
  BY <1>4 DEF g

\* BuildConsolidation only merges what is not merged yet.
LEMMA BuildLimits ==
    ASSUME NEW D, NEW c, NEW t, Agree(D, c, t), NEW list, IsList(list, D),
           NEW mode, IsFiniteSet(Faces), Limits(Outputs(c, t)), AllFlagged(D, Outputs(c, t))
    PROVE  Limits(Outputs(BuildConsolidation(list, D, c, mode, t).cache, t))
<1> DEFINE r == BuildConsolidation(list, D, c, mode, t)
           cells == {x \in ToSet(BuildConsolidationCells(list, D, mode)) : Len(x.inputs) > 1}
           old == Outputs(c, t)
           subsets == SubsetsOf(list, D)
           new == Outputs(r.cache, t)
<1>1. \/ /\ r.cache = c
      \/ \E out : /\ out.geoms = old.geoms \cup {NewGeom(x, D) : x \in cells}
                  /\ r.cache = CachedAt(c, t, out)
  <2> DEFINE keys == UNION {ToSet(x.inputs) : x \in cells}
             out == [geoms |-> old.geoms \cup {NewGeom(x, D) : x \in cells},
                     consolidated |-> old.consolidated \cup keys,
                     source |-> subsets]
  <2>1. r.cache = IF t \in DOMAIN c \/ cells # {} THEN CachedAt(c, t, out) ELSE c
    BY DEF BuildConsolidation
  <2>2. out.geoms = old.geoms \cup {NewGeom(x, D) : x \in cells}
    OBVIOUS
  <2> HIDE DEF r, out, old, cells
  <2> QED
    BY <2>1, <2>2
<1>2. AreRenderData(D) /\ IsOutput(old)
  BY OutputsAreOutputs DEF Agree
<1>3. /\ ToSet(subsets) = UNION {SubsetKeys(D, p) : p \in ToSet(list)}
      /\ \A x \in cells :
           /\ x.inputs \in Seq(Paths \X Nat)
           /\ ToSet(x.inputs) \subseteq ToSet(subsets)
           /\ \A k \in ToSet(x.inputs) : ~SubsetAt(D, k).inConsolidation
           /\ Cardinality(TrianglesIn(x.inputs, D)) <= MaxCellSize
      /\ \A x, y \in cells : x = y \/ ToSet(x.inputs) \cap ToSet(y.inputs) = {}
  BY <1>2, GoodCells
<1>4. \A x \in cells : Len(x.inputs) > 1
  OBVIOUS
<1> HIDE DEF r, cells, old, subsets
<1>5. \A x \in cells : InLimits(NewGeom(x, D)) /\ KeysOf(NewGeom(x, D)) = ToSet(x.inputs)
  <2> TAKE x \in cells
  <2> DEFINE K == Paths \X Nat
  <2>1. x.inputs \in Seq(K) /\ Len(x.inputs) > 1 /\ Cardinality(TrianglesIn(x.inputs, D)) <= MaxCellSize
    BY <1>3, <1>4
  <2> HIDE DEF K
  <2> QED
    BY <2>1, NewGeomInLimits, NewGeomKeys
<1>6. ASSUME NEW x \in cells, NEW g \in old.geoms
      PROVE  ToSet(x.inputs) \cap KeysOf(g) = {}
  <2> SUFFICES ASSUME NEW k \in ToSet(x.inputs), k \in KeysOf(g) PROVE FALSE
    OBVIOUS
  <2>1. k \in UNION {SubsetKeys(D, p) : p \in ToSet(list)}
    <3>1. k \in ToSet(subsets)
      BY <1>3
    <3> QED
      BY <1>3, <3>1
  <2>2. k \in SubsetKeys(D, k[1])
    <3>1. PICK p \in ToSet(list) : k \in SubsetKeys(D, p)
      BY <2>1
    <3> QED
      BY <3>1, FlagsByIndex
  <2>3. k \in old.consolidated
    BY <1>2 DEF IsOutput
  <2> QED
    BY <1>3, <2>2, <2>3 DEF AllFlagged, old
<1>7. CASE r.cache = c
  BY <1>7 DEF r, old
<1>8. ASSUME NEW out, out.geoms = old.geoms \cup {NewGeom(x, D) : x \in cells},
             r.cache = CachedAt(c, t, out)
      PROVE  Limits(new)
  <2>1. new = out
    BY <1>8 DEF CachedAt, Outputs
  <2> HIDE DEF new
  <2>2. \A g : g \in new.geoms <=> g \in old.geoms \/ \E x \in cells : g = NewGeom(x, D)
    BY <1>8, <2>1
  <2>3. Limits(old)
    BY DEF old
  <2>4. \A g \in new.geoms : InLimits(g)
    BY <1>5, <2>2, <2>3 DEF Limits
  <2>5. ASSUME NEW g \in new.geoms, NEW h \in new.geoms, g # h
        PROVE  KeysOf(g) \cap KeysOf(h) = {}
    <3>1. CASE g \in old.geoms /\ h \in old.geoms
      BY <2>3, <2>5, <3>1 DEF Limits
    <3>2. ASSUME g \in old.geoms, NEW y \in cells, h = NewGeom(y, D)
          PROVE  KeysOf(g) \cap KeysOf(h) = {}
      BY <1>5, <1>6, <3>2
    <3>3. ASSUME h \in old.geoms, NEW x \in cells, g = NewGeom(x, D)
          PROVE  KeysOf(g) \cap KeysOf(h) = {}
      BY <1>5, <1>6, <3>3
    <3>4. ASSUME NEW x \in cells, g = NewGeom(x, D), NEW y \in cells, h = NewGeom(y, D)
          PROVE  KeysOf(g) \cap KeysOf(h) = {}
      BY <1>3, <1>5, <2>5, <3>4
    <3> QED
      BY <2>2, <3>1, <3>2, <3>3, <3>4
  <2> QED
    BY <2>4, <2>5 DEF Limits
<1> QED
  BY <1>1, <1>7, <1>8 DEF r

\* A frame's call of Consolidate keeps to the limits.
LEMMA ConsolidateLimits ==
    ASSUME NEW D, NEW c, Agree(D, c, lastVpRenderTime), OnlyAt(lastVpRenderTime, c),
           NEW list, IsList(list, D), NEW cfg, NEW t, NEW elapsed, NEW lost, IsFiniteSet(Faces),
           Limits(Outputs(c, lastVpRenderTime))
    PROVE  Limits(Outputs(Consolidate(list, D, c, cfg, t, elapsed, lost).cache, t))
<1> DEFINE u == UpdateConsolidation(list, D, c, cfg, lastVpRenderTime, t, lost)
           z == Reset(D, c)
           now == Updated(list, D, c, cfg, t, lost)
           made == BuildConsolidation(list, now.data, now.cache, cfg.mode, t)
           r == Consolidate(list, D, c, cfg, t, elapsed, lost)
<1>1. r.cache = now.cache \/ r.cache = made.cache
  BY DEF Consolidate
<1>2. SameMeshes(D, now.data) /\ Agree(now.data, now.cache, t)
  BY UpdatedAgrees
<1>3. now = z \/ now = u
  BY DEF Updated
<1>4. Limits(Outputs(u.cache, t)) /\ AllFlagged(u.data, Outputs(u.cache, t))
  BY UpdateLimits
<1>5. Limits(Outputs(z.cache, t)) /\ AllFlagged(z.data, Outputs(z.cache, t))
  <2>1. DOMAIN z.cache = {}
    BY ResetReleases DEF Agree
  <2> HIDE DEF z
  <2>2. AreOutputs(z.cache) /\ Outputs(z.cache, t).geoms = {}
    BY <2>1 DEF AreOutputs, Outputs, NewOutput
  <2> QED
    BY <2>2, OutputsAreOutputs, NothingInLimits
<1> HIDE DEF u, z, now, r
<1>6. Limits(Outputs(now.cache, t)) /\ AllFlagged(now.data, Outputs(now.cache, t))
  BY <1>3, <1>4, <1>5
<1>7. IsList(list, now.data)
  BY <1>2 DEF SameMeshes, IsList
<1>8. Limits(Outputs(made.cache, t))
  BY <1>2, <1>6, <1>7, BuildLimits
<1> HIDE DEF made
<1>9. Limits(Outputs(r.cache, t))
  BY <1>1, <1>6, <1>8
<1> QED
  BY <1>9 DEF r

-----------------------------------------------------------------------------
\* Numbered, of all meshes.
AreNumbered(D) == \A p \in DOMAIN D : Numbered(D[p], scene[p].binding)

AreBindings == \A p \in DOMAIN scene : IsBinding(scene[p].binding)

\* Meshes that keep their subsets stay numbered.
LEMMA SameAreNumbered ==
    ASSUME NEW D, AreRenderData(D), AreNumbered(D), NEW E, SameMeshes(D, E)
    PROVE  AreNumbered(E)
<1>1. ASSUME NEW p \in DOMAIN D PROVE Numbered(E[p], scene[p].binding)
  BY SameStaysNumbered DEF AreRenderData, AreNumbered, SameMeshes
<1> QED
  BY <1>1 DEF AreNumbered, SameMeshes

\* A mesh is replaced by one that keeps its flags, or by one made for its binding.
LEMMA SyncedAgrees ==
    ASSUME AreBindings, IsFiniteSet(Faces),
           NEW D, NEW c, NEW t, Agree(D, c, t), AreNumbered(D), DOMAIN D \subseteq DOMAIN scene,
           NEW E, DOMAIN E = DOMAIN D,
           \A p \in DOMAIN D : KeepsFlags(D[p], E[p]) \/ RebuiltFor(D[p], E[p], scene[p].binding)
    PROVE  Agree(E, c, t) /\ AreNumbered(E)
<1>1. ASSUME NEW p \in DOMAIN D
      PROVE  /\ IsRenderData(E[p]) /\ Backed(E, p, Outputs(c, t))
             /\ Numbered(E[p], scene[p].binding)
  <2> DEFINE b == scene[p].binding
             out == Outputs(c, t)
  <2>1. /\ IsRenderData(D[p]) /\ Backed(D, p, out) /\ Numbered(D[p], b) /\ IsBinding(b)
    BY DEF Agree, AreRenderData, AreBacked, AreNumbered, AreBindings
  <2> HIDE DEF b, out
  <2>2. CASE KeepsFlags(D[p], E[p])
    <3>1. IsRenderData(E[p]) /\ SameSubsets(D[p], E[p])
      BY <2>2 DEF KeepsFlags, SameSubsets
    <3>2. Backed(E, p, out) /\ Numbered(E[p], b)
      BY <2>1, <2>2, <3>1, KeptStaysBacked, SameStaysNumbered
    <3> QED
      BY <3>1, <3>2 DEF b, out
  <2>3. CASE RebuiltFor(D[p], E[p], b)
    <3>1. IsRenderData(E[p])
      BY <2>3 DEF RebuiltFor
    <3>2. Backed(E, p, out) /\ Numbered(E[p], b)
      BY <2>1, <2>3, RebuiltStaysBacked, RebuiltIsNumbered
    <3> QED
      BY <3>1, <3>2 DEF b, out
  <2> QED
    BY <2>2, <2>3 DEF b
<1> QED
  BY <1>1 DEF Agree, AreRenderData, AreBacked, AreNumbered

-----------------------------------------------------------------------------
(* The inductive invariant. *)

\* The edits number the subsets of a mesh as they were, or leave one at most: a mesh
\* keeps the materials it came with, or has two that may become fewer.  With a third
\* one the second subset may become the first, and takes over its flag.
StableSubsets ==
    "binding" \in Edits => \A p \in Paths, b \in Bindings :
      \/ BoundMaterials(b) = BoundMaterials(FirstPrim[p].binding)
      \/ ~SubsetsMayAppear /\ Cardinality(BoundMaterials(FirstPrim[p].binding)) <= 2

\* What the edits have left of the materials of a mesh.
Settled(p) ==
    \/ BoundMaterials(scene[p].binding) = BoundMaterials(FirstPrim[p].binding)
    \/ ~SubsetsMayAppear /\ Cardinality(BoundMaterials(scene[p].binding)) <= 1

SceneInv ==
    /\ DOMAIN scene \subseteq Paths
    /\ \A p \in DOMAIN scene :
         "binding" \in DOMAIN scene[p] /\ IsBinding(scene[p].binding) /\ Settled(p)

OrderInv ==
    /\ order \in Seq(Paths) /\ IsInjective(order) /\ ToSet(order) = DOMAIN scene
    /\ DOMAIN data = DOMAIN scene

DataInv == Agree(data, cache, lastVpRenderTime) /\ AreNumbered(data)

EngineInv == SceneInv /\ OrderInv /\ DataInv /\ OneConsolidation

\* Flags that the output knows are as many at most.
LEMMA InvCounts == EngineInv => FlaggedSubsetsAreConsolidated
<1> SUFFICES ASSUME EngineInv, NEW p \in DOMAIN data
             PROVE  Cardinality({k \in SubsetKeys(data, p) : SubsetAt(data, k).inConsolidation})
                      <= Cardinality({k \in LastOutput.consolidated : k[1] = p})
  BY DEF FlaggedSubsetsAreConsolidated
<1> DEFINE A == FlaggedOf(data, p)
           B == {k \in LastOutput.consolidated : k[1] = p}
<1>1. /\ AreRenderData(data) /\ IsOutput(LastOutput) /\ Backed(data, p, LastOutput)
  BY OutputsAreOutputs DEF EngineInv, DataInv, Agree, AreBacked, LastOutput
<1>2. IsFiniteSet(B) /\ Cardinality(B) \in Nat
  <2>1. B \in SUBSET LastOutput.consolidated
    OBVIOUS
  <2>2. IsFiniteSet(B)
    BY <1>1, <2>1, FS_Subset DEF IsOutput
  <2> QED
    BY <2>2, FS_CardinalityType
<1>3. \A k \in A : k[1] = p
  BY FlagsByIndex
<1>4. CASE A \subseteq LastOutput.consolidated
  <2>1. A \in SUBSET B
    BY <1>3, <1>4
  <2> HIDE DEF A, B
  <2>2. Cardinality(A) <= Cardinality(B)
    BY <1>2, <2>1, FS_Subset
  <2> QED
    BY <2>2 DEF A, B, FlaggedOf
<1>5. CASE /\ Len(data[p].shadedSubsets) <= 1
           /\ A # {} => \E k \in LastOutput.consolidated : k[1] = p
  <2>1. CASE A = {}
    <3>1. Cardinality(A) = 0
      BY <2>1, FS_EmptySet
    <3> HIDE DEF B
    <3>2. Cardinality(A) <= Cardinality(B)
      BY <1>2, <3>1
    <3> QED
      BY <3>2 DEF B, FlaggedOf
  <2>2. CASE A # {}
    <3>1. PICK k \in B : TRUE
      BY <1>5, <2>2
    <3>2. data[p].shadedSubsets \in Seq(SubsetRecords)
      BY <1>1 DEF AreRenderData, IsRenderData
    <3>3. DOMAIN data[p].shadedSubsets \subseteq {1}
      BY <1>5, <3>2
    <3>4. A = {<<p, 1>>}
      BY <2>2, <3>3, FlagsByIndex
    <3> HIDE DEF A, B
    <3>5. Cardinality(A) = 1
      BY <3>4, FS_Singleton
    <3>6. Cardinality(B) # 0
      BY <1>2, <3>1, FS_EmptySet
    <3>7. Cardinality(A) <= Cardinality(B)
      BY <1>2, <3>5, <3>6
    <3> QED
      BY <3>7 DEF A, B, FlaggedOf
  <2> QED
    BY <2>1, <2>2
<1> QED
  BY <1>1, <1>4, <1>5 DEF Backed

\* A set as a sequence.
LEMMA SequenceOfSet ==
    ASSUME NEW S, IsFiniteSet(S)
    PROVE  /\ SetToSeq(S) \in Seq(S)
           /\ IsInjective(SetToSeq(S))
           /\ ToSet(SetToSeq(S)) = S
<1> DEFINE N == Cardinality(S)
           s == SetToSeq(S)
<1>1. N \in Nat /\ ExistsBijection(1 .. N, S)
  BY FS_CardinalityType
<1>2. \E f \in [1 .. N -> S] : IsInjective(f)
  <2>1. PICK f : f \in Bijection(1 .. N, S)
    BY <1>1 DEF ExistsBijection
  <2>2. f \in [1 .. N -> S] /\ IsInjective(f)
    BY <2>1 DEF Bijection, Injection, IsInjective
  <2> QED
    BY <2>2
<1>3. s \in [1 .. N -> S] /\ IsInjective(s)
  BY <1>2 DEF SetToSeq
<1> HIDE DEF s
<1>4. s \in Injection(1 .. N, S)
  BY <1>3 DEF Injection, IsInjective
<1>5. IsFiniteSet(1 .. N) /\ Cardinality(1 .. N) = N
  <2>1. 1 \in Int /\ N \in Int
    BY <1>1
  <2> HIDE DEF N
  <2>2. IsFiniteSet(1 .. N) /\ Cardinality(1 .. N) = IF 1 > N THEN 0 ELSE N - 1 + 1
    BY <2>1, FS_Interval
  <2> QED
    BY <1>1, <2>2
<1>6. s \in Surjection(1 .. N, S)
  BY <1>4, <1>5, FS_Injection
<1>7. ToSet(s) = S
  BY <1>3, <1>6 DEF Surjection, ToSet
<1>8. s \in Seq(S)
  BY <1>1, <1>3
<1> QED
  BY <1>3, <1>7, <1>8 DEF s

\* At the start no mesh has a subset.
LEMMA InitHolds == Init => EngineInv
<1> SUFFICES ASSUME Init PROVE EngineInv
  OBVIOUS
<1>1. scene = FirstPrim /\ DOMAIN FirstPrim = Paths /\ DOMAIN data = Paths
  BY EngineAssumption DEF Init, EngineAssumption
<1>2. SceneInv
  BY SceneAssumption, <1>1 DEF SceneInv, SceneAssumption, Settled
<1>3. OrderInv
  <2>1. order = SetToSeq(Paths)
    BY DEF Init
  <2> QED
    BY SceneAssumption, <1>1, <2>1, SequenceOfSet DEF OrderInv, SceneAssumption
<1>4. ASSUME NEW p \in DOMAIN data
      PROVE  /\ IsRenderData(data[p]) /\ FlaggedOf(data, p) = {}
             /\ Numbered(data[p], scene[p].binding)
  <2>1. data[p] = NewRenderData /\ p \in Paths
    BY <1>1, <1>4 DEF Init
  <2>2. data[p].shadedSubsets = << >> /\ IsRenderData(data[p])
    BY <2>1 DEF NewRenderData, IsRenderData
  <2>3. FlaggedOf(data, p) = {}
    BY <2>2, FlagsByIndex
  <2>4. IsBinding(scene[p].binding) /\ IsFiniteSet(Faces)
    BY SceneAssumption, <1>1, <2>1 DEF SceneAssumption
  <2> DEFINE M == BoundMaterials(scene[p].binding)
  <2>5. M \subseteq Nat /\ IsFiniteSet(M)
    BY <2>4, BoundMaterialsAreNumbers
  <2>6. NumberedBy(data[p], M, M)
    BY <2>2, <2>5 DEF NumberedBy
  <2> QED
    BY <2>2, <2>3, <2>6 DEF Numbered
<1>5. DataInv
  <2>1. cache = << >> /\ DOMAIN << >> = {}
    BY DEF Init
  <2>2. AreOutputs(cache) /\ \A p \in DOMAIN data : Backed(data, p, Outputs(cache, lastVpRenderTime))
    BY <1>4, <2>1, NoFlagIsBacked DEF AreOutputs
  <2> QED
    BY <1>4, <2>2 DEF DataInv, Agree, AreRenderData, AreBacked, AreNumbered
<1> QED
  BY <1>2, <1>3, <1>5, InitHasNone DEF EngineInv

-----------------------------------------------------------------------------
(* Edits. *)

\* What happens to one mesh says nothing of another.
LEMMA BackedByTheMesh ==
    ASSUME NEW D, NEW E, NEW p, E[p] = D[p], NEW out, Backed(D, p, out)
    PROVE  Backed(E, p, out)
<1>1. SubsetKeys(E, p) = SubsetKeys(D, p)
  BY DEF SubsetKeys
<1>2. \A k : k \in FlaggedOf(E, p) <=> k \in FlaggedOf(D, p)
  BY FlagsByIndex
<1>3. FlaggedOf(E, p) = FlaggedOf(D, p)
  BY <1>2
<1> QED
  BY <1>1, <1>3 DEF Backed

\* A binding c in place of b leaves the materials, or one at most.
MaterialsLeft(b, c) ==
    \/ BoundMaterials(c) = BoundMaterials(b)
    \/ BoundMaterials(c) \subseteq BoundMaterials(b) /\ Cardinality(BoundMaterials(c)) <= 1

\* A narrower binding may still be synced.
LEMMA NarrowedStaysNumbered ==
    ASSUME NEW d, NEW b, NEW c, Numbered(d, b), MaterialsLeft(b, c)
    PROVE  Numbered(d, c)
<1>1. PICK M : NumberedBy(d, M, BoundMaterials(b))
  BY DEF Numbered
<1>2. NumberedBy(d, M, BoundMaterials(c))
  BY <1>1 DEF NumberedBy, MaterialsLeft
<1> QED
  BY <1>2 DEF Numbered

\* When only the scene changes, and of every mesh the binding stays or is narrowed.
LEMMA SceneEditKeeps ==
    ASSUME EngineInv, UNCHANGED <<order, data, cache, lastVpRenderTime>>, DOMAIN scene' = DOMAIN scene,
           \A q \in DOMAIN scene :
             /\ "binding" \in DOMAIN scene'[q] /\ IsBinding(scene'[q].binding) /\ Settled(q)'
             /\ MaterialsLeft(scene[q].binding, scene'[q].binding)
    PROVE  EngineInv'
<1>1. SceneInv' /\ OrderInv'
  BY DEF EngineInv, SceneInv, OrderInv
<1>2. OneConsolidation'
  BY DEF EngineInv, OneConsolidation
<1>3. Agree(data, cache, lastVpRenderTime)'
  BY DEF EngineInv, DataInv
<1>4. AreNumbered(data)'
  <2> SUFFICES ASSUME NEW q \in DOMAIN data PROVE Numbered(data[q], scene'[q].binding)
    BY DEF AreNumbered
  <2>1. q \in DOMAIN scene /\ Numbered(data[q], scene[q].binding)
    BY DEF EngineInv, OrderInv, DataInv, AreNumbered
  <2> QED
    BY <2>1, NarrowedStaysNumbered
<1> QED
  BY <1>1, <1>2, <1>3, <1>4 DEF EngineInv, DataInv

\* An edit of another attribute than the binding.
LEMMA OtherFieldKeeps ==
    ASSUME EngineInv, NEW p \in DOMAIN scene, NEW field, field # "binding", NEW value,
           NEW bits, EditPrim(p, field, value, bits)
    PROVE  EngineInv'
<1>1. /\ scene' = [scene EXCEPT ![p] = [@ EXCEPT ![field] = value]]
      /\ UNCHANGED <<order, data, cache, lastVpRenderTime>>
  BY DEF EditPrim, engineVars
<1>2. DOMAIN scene' = DOMAIN scene
  BY <1>1
<1>3. ASSUME NEW q \in DOMAIN scene
      PROVE  "binding" \in DOMAIN scene'[q] /\ scene'[q].binding = scene[q].binding
  BY <1>1 DEF EngineInv, SceneInv
<1> QED
  BY <1>1, <1>2, <1>3, SceneEditKeeps DEF EngineInv, SceneInv, Settled, MaterialsLeft

\* An edit of the binding.
LEMMA SetBindingKeeps ==
    ASSUME StableSubsets, EngineInv, NEW p \in DOMAIN scene,
           NEW b \in Bindings, SetBinding(p, b)
    PROVE  EngineInv'
<1> DEFINE old == BoundMaterials(scene[p].binding)
           new == BoundMaterials(b)
           first == BoundMaterials(FirstPrim[p].binding)
<1>1. /\ scene' = [scene EXCEPT ![p] = [@ EXCEPT !["binding"] = b]]
      /\ UNCHANGED <<order, data, cache, lastVpRenderTime>>
      /\ SubsetsMayAppear \/ new \subseteq old
      /\ "binding" \in Edits
  BY DEF SetBinding, Edit, EditPrim, engineVars, BoundMaterials
<1>2. /\ p \in Paths /\ IsBinding(b) /\ IsBinding(scene[p].binding)
      /\ IsBinding(FirstPrim[p].binding) /\ IsFiniteSet(Faces)
      /\ "binding" \in DOMAIN scene[p]
  BY SceneAssumption DEF SceneAssumption, EngineInv, SceneInv
<1>3. /\ \/ new = first
         \/ ~SubsetsMayAppear /\ Cardinality(first) <= 2
      /\ \/ old = first
         \/ ~SubsetsMayAppear /\ Cardinality(old) <= 1
  BY <1>1, <1>2 DEF StableSubsets, EngineInv, SceneInv, Settled
<1>4. /\ IsFiniteSet(new) /\ IsFiniteSet(old) /\ IsFiniteSet(first)
  BY <1>2, BoundMaterialsAreNumbers
<1> HIDE DEF old, new, first
<1>5. /\ Cardinality(new) \in Nat /\ Cardinality(old) \in Nat
  BY <1>4, FS_CardinalityType
<1>6. \/ new = old
      \/ new \subseteq old /\ Cardinality(new) <= 1 /\ ~SubsetsMayAppear
  <2>1. CASE SubsetsMayAppear
    BY <1>3, <2>1
  <2>2. CASE ~SubsetsMayAppear /\ new # old
    <3>1. new \subseteq old
      BY <1>1, <2>2
    <3>2. Cardinality(new) <= Cardinality(old) /\ Cardinality(new) # Cardinality(old)
      <4>1. new \in SUBSET old
        BY <3>1
      <4> QED
        BY <1>4, <2>2, <4>1, FS_Subset
    <3>3. Cardinality(old) <= 2
      BY <1>3, <1>5, <2>2
    <3> QED
      BY <1>5, <2>2, <3>1, <3>2, <3>3
  <2> QED
    BY <2>1, <2>2
<1>7. DOMAIN scene' = DOMAIN scene
  BY <1>1
<1>8. ASSUME NEW q \in DOMAIN scene, q # p
      PROVE  scene'[q] = scene[q]
  BY <1>1, <1>8
<1>9. "binding" \in DOMAIN scene'[p] /\ scene'[p].binding = b
  BY <1>1, <1>2
<1>10. ASSUME NEW q \in DOMAIN scene
       PROVE  /\ "binding" \in DOMAIN scene'[q] /\ IsBinding(scene'[q].binding) /\ Settled(q)'
              /\ MaterialsLeft(scene[q].binding, scene'[q].binding)
  <2>1. CASE q = p
    <3>1. Settled(p)'
      BY <1>3, <1>6, <1>9 DEF Settled, new, old, first
    <3> QED
      BY <1>2, <1>6, <1>9, <2>1, <3>1 DEF new, old, MaterialsLeft
  <2>2. CASE q # p
    BY <1>8, <2>2 DEF EngineInv, SceneInv, Settled, MaterialsLeft
  <2> QED
    BY <2>1, <2>2
<1> QED
  BY <1>1, <1>7, <1>10, SceneEditKeeps

\* A prim that has just appeared has no subset.
LEMMA NewPrim ==
    ASSUME NEW D, NEW p, D[p] = NewRenderData, NEW b, IsBinding(b)
    PROVE  IsRenderData(D[p]) /\ FlaggedOf(D, p) = {} /\ Numbered(D[p], b)
<1>1. D[p].shadedSubsets = << >> /\ IsRenderData(D[p])
  BY DEF NewRenderData, IsRenderData
<1>2. FlaggedOf(D, p) = {}
  BY <1>1, FlagsByIndex
<1>3. BoundMaterials(b) \subseteq Nat /\ IsFiniteSet(BoundMaterials(b))
  BY SceneAssumption, BoundMaterialsAreNumbers DEF SceneAssumption
<1>4. NumberedBy(D[p], BoundMaterials(b), BoundMaterials(b))
  BY <1>1, <1>3 DEF NumberedBy
<1> QED
  BY <1>1, <1>2, <1>4 DEF Numbered

\* Its entry goes to the end of the vector.
LEMMA CreateOrders ==
    ASSUME OrderInv, NEW p \in Paths, CreateRprim(p)
    PROVE  OrderInv'
<1>1. /\ p \notin DOMAIN scene /\ order' = Append(order, p)
      /\ DOMAIN scene' = DOMAIN scene \cup {p} /\ DOMAIN data' = DOMAIN data \cup {p}
  BY DEF CreateRprim, With
<1>2. /\ Append(order, p) \in Seq(Paths) /\ ToSet(Append(order, p)) = ToSet(order) \cup {p}
      /\ IsInjective(Append(order, p))
  BY <1>1, AppendedSet DEF OrderInv
<1> QED
  BY <1>1, <1>2 DEF OrderInv

\* A prim appears.
LEMMA CreateKeeps ==
    ASSUME EngineInv, NEW p \in Paths, CreateRprim(p)
    PROVE  EngineInv'
<1>1. /\ p \notin DOMAIN scene
      /\ scene' = With(scene, p, FirstPrim[p])
      /\ data' = With(data, p, NewRenderData)
      /\ order' = Append(order, p)
      /\ UNCHANGED <<cache, lastVpRenderTime>>
  BY DEF CreateRprim, engineVars
<1>2. /\ DOMAIN scene' = DOMAIN scene \cup {p} /\ scene'[p] = FirstPrim[p]
      /\ \A q \in DOMAIN scene : scene'[q] = scene[q]
  BY <1>1 DEF With
<1>3. /\ DOMAIN data' = DOMAIN data \cup {p} /\ data'[p] = NewRenderData
      /\ \A q \in DOMAIN data : data'[q] = data[q]
  BY <1>1 DEF With, EngineInv, OrderInv
<1>4. SceneInv'
  BY SceneAssumption, <1>2 DEF EngineInv, SceneInv, SceneAssumption, Settled
<1>5. OrderInv'
  BY CreateOrders DEF EngineInv
<1>6. ASSUME NEW q \in DOMAIN data'
      PROVE  /\ IsRenderData(data'[q])
             /\ Backed(data', q, Outputs(cache, lastVpRenderTime))
             /\ Numbered(data'[q], scene'[q].binding)
  <2>1. CASE q = p
    <3>1. IsBinding(scene'[p].binding)
      BY SceneAssumption, <1>2 DEF SceneAssumption
    <3> QED
      BY <1>3, <2>1, <3>1, NewPrim, NoFlagIsBacked
  <2>2. CASE q \in DOMAIN data
    <3>1. data'[q] = data[q] /\ scene'[q] = scene[q]
      BY <1>2, <1>3, <2>2 DEF EngineInv, OrderInv
    <3>2. /\ IsRenderData(data[q]) /\ Numbered(data[q], scene[q].binding)
          /\ Backed(data, q, Outputs(cache, lastVpRenderTime))
      BY <2>2 DEF EngineInv, DataInv, Agree, AreRenderData, AreBacked, AreNumbered
    <3> QED
      BY <3>1, <3>2, BackedByTheMesh
  <2> QED
    BY <1>3, <2>1, <2>2
<1>7. DataInv'
  BY <1>1, <1>6 DEF EngineInv, DataInv, Agree, AreRenderData, AreBacked, AreNumbered, AreOutputs
<1>8. OneConsolidation'
  BY <1>1 DEF EngineInv, OneConsolidation
<1> QED
  BY <1>4, <1>5, <1>7, <1>8 DEF EngineInv

\* The last entry in the place of the one that goes.
LEMMA RemovedFromProperties ==
    ASSUME NEW S, NEW s \in Seq(S), IsInjective(s), NEW p \in ToSet(s)
    PROVE  /\ RemovedFrom(s, p) \in Seq(S)
           /\ IsInjective(RemovedFrom(s, p))
           /\ ToSet(RemovedFrom(s, p)) = ToSet(s) \ {p}
<1> DEFINE r == RemovedFrom(s, p)
           N == Len(s)
<1>1. /\ N \in Nat /\ DOMAIN s = 1 .. N /\ \A i \in 1 .. N : s[i] \in S
  OBVIOUS
<1>2. PICK m \in 1 .. N : s[m] = p
  BY <1>1 DEF ToSet
<1>3. \A i, j \in 1 .. N : s[i] = s[j] => i = j
  BY <1>1 DEF IsInjective
<1>4. Last(s) = s[N]
  BY DEF Last
<1>5. r = [n \in 1 .. N - 1 |-> IF s[n] = p THEN s[N] ELSE s[n]]
  BY <1>4 DEF RemovedFrom
<1>6. DOMAIN r = 1 .. N - 1 /\ \A n \in 1 .. N - 1 : r[n] = IF n = m THEN s[N] ELSE s[n]
  BY <1>1, <1>2, <1>3, <1>5
<1> HIDE DEF r, N
<1>7. r \in Seq(S)
  <2>1. \A n \in 1 .. N - 1 : r[n] \in S
    BY <1>1, <1>2, <1>6
  <2>2. N - 1 \in Nat
    BY <1>1, <1>2
  <2>3. r = [n \in 1 .. N - 1 |-> r[n]]
    BY <1>5
  <2>4. r \in [1 .. N - 1 -> S]
    BY <2>1, <2>3
  <2> QED
    BY <2>2, <2>4
<1>8. IsInjective(r)
  <2> SUFFICES ASSUME NEW i \in 1 .. N - 1, NEW j \in 1 .. N - 1, r[i] = r[j] PROVE i = j
    BY <1>6 DEF IsInjective
  <2>1. i \in 1 .. N /\ j \in 1 .. N /\ N \in 1 .. N /\ i # N /\ j # N
    BY <1>1
  <2> QED
    BY <1>3, <1>6, <2>1
<1>9. ASSUME NEW x
      PROVE  x \in ToSet(r) <=> x \in ToSet(s) \ {p}
  <2>1. x \in ToSet(r) <=> \E n \in 1 .. N - 1 : r[n] = x
    BY <1>6 DEF ToSet
  <2>2. x \in ToSet(s) <=> \E n \in 1 .. N : s[n] = x
    BY <1>1 DEF ToSet
  <2>3. ASSUME NEW n \in 1 .. N - 1, r[n] = x
        PROVE  x \in ToSet(s) \ {p}
    <3>1. n \in 1 .. N /\ N \in 1 .. N /\ n # N
      BY <1>1
    <3>2. CASE n = m
      <4>1. x = s[N] /\ N # m
        BY <1>6, <2>3, <3>1, <3>2
      <4> QED
        BY <1>2, <1>3, <2>2, <3>1, <4>1
    <3>3. CASE n # m
      BY <1>2, <1>3, <1>6, <2>2, <2>3, <3>1, <3>3
    <3> QED
      BY <3>2, <3>3
  <2>4. ASSUME NEW n \in 1 .. N, s[n] = x, x # p
        PROVE  \E l \in 1 .. N - 1 : r[l] = x
    <3>1. n # m
      BY <1>2, <2>4
    <3>2. CASE n = N
      <4>1. m \in 1 .. N - 1
        BY <1>1, <3>1, <3>2
      <4>2. r[m] = x
        BY <1>6, <2>4, <3>2, <4>1
      <4> QED
        BY <4>1, <4>2
    <3>3. CASE n # N
      <4>1. n \in 1 .. N - 1
        BY <1>1, <3>3
      <4>2. r[n] = x
        BY <1>6, <2>4, <3>1, <4>1
      <4> QED
        BY <4>1, <4>2
    <3> QED
      BY <3>2, <3>3
  <2> QED
    BY <2>1, <2>2, <2>3, <2>4
<1>10. ToSet(r) = ToSet(s) \ {p}
  BY <1>9
<1> QED
  BY <1>7, <1>8, <1>10 DEF r

\* The last entry takes the place of the one that goes.
LEMMA DestroyOrders ==
    ASSUME OrderInv, NEW p \in DOMAIN scene, DestroyRprim(p)
    PROVE  OrderInv'
<1>1. /\ order' = RemovedFrom(order, p)
      /\ DOMAIN scene' = DOMAIN scene \ {p} /\ DOMAIN data' = DOMAIN scene \ {p}
  BY DEF DestroyRprim
<1>2. order \in Seq(Paths) /\ IsInjective(order) /\ p \in ToSet(order)
  BY DEF OrderInv
<1>3. /\ RemovedFrom(order, p) \in Seq(Paths) /\ IsInjective(RemovedFrom(order, p))
      /\ ToSet(RemovedFrom(order, p)) = ToSet(order) \ {p}
  BY <1>2, RemovedFromProperties
<1> QED
  BY <1>1, <1>3 DEF OrderInv

\* A prim disappears.
LEMMA DestroyKeeps ==
    ASSUME EngineInv, NEW p \in DOMAIN scene, DestroyRprim(p)
    PROVE  EngineInv'
<1>1. /\ scene' = [q \in DOMAIN scene \ {p} |-> scene[q]]
      /\ data' = [q \in DOMAIN scene \ {p} |-> data[q]]
      /\ order' = RemovedFrom(order, p)
      /\ UNCHANGED <<cache, lastVpRenderTime>>
  BY DEF DestroyRprim, engineVars
<1>2. SceneInv'
  BY <1>1 DEF EngineInv, SceneInv, Settled
<1>3. OrderInv'
  BY DestroyOrders DEF EngineInv
<1>4. ASSUME NEW q \in DOMAIN data'
      PROVE  /\ IsRenderData(data'[q])
             /\ Backed(data', q, Outputs(cache, lastVpRenderTime))
             /\ Numbered(data'[q], scene'[q].binding)
  <2>1. q \in DOMAIN data /\ data'[q] = data[q] /\ scene'[q] = scene[q]
    BY <1>1 DEF EngineInv, OrderInv
  <2>2. /\ IsRenderData(data[q]) /\ Numbered(data[q], scene[q].binding)
        /\ Backed(data, q, Outputs(cache, lastVpRenderTime))
    BY <2>1 DEF EngineInv, DataInv, Agree, AreRenderData, AreBacked, AreNumbered
  <2> QED
    BY <2>1, <2>2, BackedByTheMesh
<1>5. DataInv'
  BY <1>1, <1>4 DEF EngineInv, DataInv, Agree, AreRenderData, AreBacked, AreNumbered, AreOutputs
<1>6. OneConsolidation'
  BY <1>1 DEF EngineInv, OneConsolidation
<1> QED
  BY <1>2, <1>3, <1>5, <1>6 DEF EngineInv

-----------------------------------------------------------------------------
(* Frames. *)

\* The bindings are what a sync can work with.
LEMMA InvScene ==
    ASSUME EngineInv
    PROVE  AreBindings /\ IsFiniteSet(Faces)
  BY SceneAssumption DEF SceneAssumption, EngineInv, SceneInv, AreBindings

\* Other render tags reset consolidation.
LEMMA PreparedAgrees ==
    ASSUME EngineInv, NEW tags
    PROVE  LET r == PrepareBatch(tags)
           IN /\ SameMeshes(data, r.data)
              /\ Agree(r.data, r.cache, lastVpRenderTime)
              /\ AreNumbered(r.data)
<1> DEFINE r == PrepareBatch(tags)
<1>1. Agree(data, cache, lastVpRenderTime) /\ AreNumbered(data) /\ AreRenderData(data)
  BY DEF EngineInv, DataInv, Agree
<1>2. CASE tags = renderTags
  <2>1. r.data = data /\ r.cache = cache
    BY <1>2 DEF PrepareBatch
  <2> QED
    BY <1>1, <2>1, SameMeshesReflexive
<1>3. CASE tags # renderTags
  <2>1. r = Reset(data, cache)
    BY <1>3 DEF PrepareBatch
  <2> HIDE DEF r
  <2>2. /\ SameMeshes(data, Reset(data, cache).data)
        /\ Agree(Reset(data, cache).data, Reset(data, cache).cache, lastVpRenderTime)
    BY <1>1, ResetAgrees
  <2>3. AreNumbered(Reset(data, cache).data)
    BY <1>1, <2>2, SameAreNumbered
  <2> QED
    BY <2>1, <2>2, <2>3 DEF r
<1> QED
  BY <1>2, <1>3

\* What hydra does in a frame leaves every mesh with its subsets or with those of its
\* binding.
LEMMA HydraAgrees ==
    ASSUME EngineInv, NEW t, NEW tags
    PROVE  LET h == HydraRender(t, tags)
           IN /\ DOMAIN h.data = DOMAIN data
              /\ Agree(h.data, h.cache, lastVpRenderTime)
              /\ AreNumbered(h.data)
<1> DEFINE prepared == PrepareBatch(tags)
           flipped == ApplyActiveRenderTags(prepared.data, tags)
           active == [p \in DOMAIN data |->
                        IF p \in flipped
                        THEN [prepared.data[p] EXCEPT !.renderTagActive = ~@]
                        ELSE prepared.data[p]]
           marked == [p \in DOMAIN hydra |-> IF p \in flipped THEN HydraBits ELSE hydra[p]]
           bits == SetTime(marked, t)
           synced == RenderBatch(active, bits, t, tags)
           h == HydraRender(t, tags)
<1>1. /\ h.data = [p \in DOMAIN synced |-> synced[p].data]
      /\ h.cache = prepared.cache
  BY DEF HydraRender
<1>2. /\ SameMeshes(data, prepared.data)
      /\ Agree(prepared.data, prepared.cache, lastVpRenderTime)
      /\ AreNumbered(prepared.data)
  BY PreparedAgrees
<1>3. DOMAIN synced = DOMAIN data
  BY DEF RenderBatch
<1> HIDE DEF prepared, h
<1>4. ASSUME NEW p \in DOMAIN data
      PROVE  IsRenderData(active[p]) /\ KeepsFlags(prepared.data[p], active[p])
  <2>1. IsRenderData(prepared.data[p])
    BY <1>2 DEF Agree, AreRenderData, SameMeshes
  <2>2. KeepsFlags(prepared.data[p], prepared.data[p])
    BY <2>1, KeepsFlagsReflexive
  <2>3. CASE p \notin flipped
    BY <2>1, <2>2, <2>3
  <2>4. CASE p \in flipped
    <3>1. active[p] = [prepared.data[p] EXCEPT !.renderTagActive = ~@]
      BY <2>4
    <3> HIDE DEF active, flipped
    <3>2. /\ DOMAIN active[p] = DOMAIN prepared.data[p]
          /\ active[p].shadedSubsets = prepared.data[p].shadedSubsets
      BY <2>1, <3>1 DEF IsRenderData
    <3> QED
      BY <2>1, <2>2, <3>2 DEF IsRenderData, KeepsFlags
  <2> QED
    BY <2>3, <2>4
<1>5. ASSUME NEW p \in DOMAIN data
      PROVE  \/ KeepsFlags(active[p], synced[p].data)
             \/ RebuiltFor(active[p], synced[p].data, scene[p].binding)
  <2>1. IsRenderData(active[p]) /\ IsBinding(scene[p].binding) /\ IsFiniteSet(Faces)
    BY <1>4, InvScene DEF AreBindings, EngineInv, OrderInv
  <2> HIDE DEF active, bits, flipped, marked
  <2>2. CASE HasTagIn(p, tags) /\ bits[p] # {}
    <3>1. DOMAIN active = DOMAIN data
      BY DEF active
    <3>2. synced[p] = Sync(active[p], bits[p], scene[p], p \in selection, displayMode, t)
      BY <2>2, <3>1 DEF RenderBatch
    <3> QED
      BY <2>1, <3>2, SyncKeepsOrRebuilds
  <2>3. CASE ~(HasTagIn(p, tags) /\ bits[p] # {})
    <3>1. DOMAIN active = DOMAIN data
      BY DEF active
    <3>2. synced[p].data = active[p]
      BY <2>3, <3>1 DEF RenderBatch
    <3> QED
      BY <2>1, <3>2, KeepsFlagsReflexive
  <2> QED
    BY <2>2, <2>3
<1>6. DOMAIN active = DOMAIN data /\ DOMAIN prepared.data = DOMAIN data
  BY <1>2 DEF SameMeshes
<1> HIDE DEF active, synced, flipped, marked, bits
<1>7. AreBindings /\ IsFiniteSet(Faces) /\ DOMAIN data = DOMAIN scene
  BY InvScene DEF EngineInv, OrderInv
<1>8. Agree(active, prepared.cache, lastVpRenderTime) /\ AreNumbered(active)
  BY <1>2, <1>4, <1>6, <1>7, SyncedAgrees
<1>9. \A p \in DOMAIN data : h.data[p] = synced[p].data
  BY <1>1, <1>3
<1>10. DOMAIN h.data = DOMAIN data
  BY <1>1, <1>3
<1>11. Agree(h.data, prepared.cache, lastVpRenderTime) /\ AreNumbered(h.data)
  BY <1>5, <1>6, <1>7, <1>8, <1>9, <1>10, SyncedAgrees
<1> QED
  BY <1>1, <1>10, <1>11 DEF h

\* The meshes a frame draws are meshes that there are, each once.
LEMMA ListOfMeshes ==
    ASSUME EngineInv, NEW D, DOMAIN D = DOMAIN data
    PROVE  IsList(GetMeshRenderData(D), D)
<1> DEFINE T == {p \in DOMAIN D : D[p].renderTagActive /\ D[p].visible
                                    /\ D[p].shadedSubsets # << >>}
<1>1. order \in Seq(Paths) /\ IsInjective(order) /\ DOMAIN D \subseteq Paths
  BY DEF EngineInv, OrderInv, SceneInv
<1>2. T \subseteq DOMAIN D /\ GetMeshRenderData(D) = Sift(order, T)
  BY DEF GetMeshRenderData
<1> HIDE DEF T
<1>3. /\ Sift(order, T) \in Seq(Paths) /\ IsInjective(Sift(order, T))
      /\ ToSet(Sift(order, T)) = ToSet(order) \cap T
  BY <1>1, SiftProperties
<1> QED
  BY <1>1, <1>2, <1>3 DEF IsList

\* When the scene and the vector of render data stay.
LEMMA SameSceneKeeps ==
    ASSUME EngineInv, UNCHANGED <<scene, order>>, DOMAIN data' = DOMAIN data,
           Agree(data, cache, lastVpRenderTime)', AreNumbered(data)', OneConsolidation'
    PROVE  EngineInv'
<1>1. SceneInv' /\ OrderInv'
  BY DEF EngineInv, SceneInv, OrderInv, Settled
<1> QED
  BY <1>1 DEF EngineInv, DataInv

\* Consolidation and the loading of the meshes that are drawn alone.
LEMMA DrawingAgrees ==
    ASSUME EngineInv, NEW camera, NEW setting, NEW elapsed, NEW lost,
           NEW list, NEW h, DOMAIN h.data = DOMAIN data, IsList(list, h.data),
           Agree(h.data, h.cache, lastVpRenderTime), AreNumbered(h.data),
           OnlyAt(lastVpRenderTime, h.cache),
           RenderList(h, list, setting, camera, elapsed, lost), UNCHANGED scene
    PROVE  DOMAIN data' = DOMAIN data /\ Agree(data, cache, lastVpRenderTime)' /\ AreNumbered(data)'
<1> DEFINE c == Consolidate(list, h.data, h.cache, setting, camera.time, elapsed, lost)
           alone == DrawnAlone(list, c.data, c.outs, camera.view)
<1>1. /\ cache' = c.cache
      /\ data' = [p \in DOMAIN c.data |->
                    IF p \in alone THEN UpdateRenderGeometry(c.data[p]) ELSE c.data[p]]
      /\ lastVpRenderTime' = camera.time
  BY DEF RenderList
<1>2. IsFiniteSet(Faces) /\ AreBindings /\ DOMAIN data = DOMAIN scene
  BY InvScene DEF EngineInv, OrderInv
<1>3. SameMeshes(h.data, c.data) /\ Agree(c.data, c.cache, camera.time)
  BY <1>2, ConsolidateAgrees
<1> HIDE DEF c, alone
<1>4. AreNumbered(c.data) /\ DOMAIN c.data = DOMAIN data
  BY <1>3, SameAreNumbered DEF Agree, SameMeshes
<1>5. DOMAIN data' = DOMAIN data
  BY <1>1, <1>4
<1>6. ASSUME NEW p \in DOMAIN c.data
      PROVE  KeepsFlags(c.data[p], data'[p])
  <2>1. IsRenderData(c.data[p])
    BY <1>3 DEF Agree, AreRenderData
  <2> QED
    BY <1>1, <2>1, UpdateRenderGeometryKeeps, KeepsFlagsReflexive
<1>7. Agree(data', c.cache, camera.time)
  BY <1>2, <1>3, <1>4, <1>5, <1>6, SyncedAgrees
<1>8. \A p \in DOMAIN data' : Numbered(data'[p], scene[p].binding)
  <2>1. \A D : AreNumbered(D) <=> \A p \in DOMAIN D : Numbered(D[p], scene[p].binding)
    BY DEF AreNumbered
  <2> DEFINE E == data'
  <2>2. DOMAIN E = DOMAIN c.data /\ \A p \in DOMAIN c.data : KeepsFlags(c.data[p], E[p])
    BY <1>4, <1>5, <1>6
  <2> HIDE DEF E
  <2>3. AreNumbered(E)
    BY <1>2, <1>3, <1>4, <2>2, SyncedAgrees
  <2> QED
    BY <2>1, <2>3 DEF E
<1>9. AreNumbered(data)'
  BY <1>8 DEF AreNumbered
<1> QED
  BY <1>1, <1>5, <1>7, <1>9

\* A frame keeps the invariant.
LEMMA RenderKeeps ==
    ASSUME EngineInv, NEW camera, Render(camera)
    PROVE  EngineInv'
<1> DEFINE h == HydraRender(camera.time, camera.tags)
           list == GetMeshRenderData(h.data)
<1>1. /\ UNCHANGED <<scene, order>>
      /\ \/ RenderNothing(h, camera)
         \/ \E setting, elapsed, lost :
              RenderList(h, list, ConfigOf(setting), camera, elapsed, lost)
  BY DEF Render, sceneVars
<1>2. /\ DOMAIN h.data = DOMAIN data /\ AreNumbered(h.data)
      /\ Agree(h.data, h.cache, lastVpRenderTime)
  BY HydraAgrees
<1>3. OnlyAt(lastVpRenderTime, h.cache)
  BY HydraRenderKeepsOne DEF EngineInv
<1>4. OneConsolidation'
  BY RenderKeepsOne DEF EngineInv
<1> HIDE DEF h
<1>5. IsList(list, h.data)
  BY <1>2, ListOfMeshes
<1> HIDE DEF list
<1>6. CASE RenderNothing(h, camera)
  <2>1. data' = h.data /\ cache' = h.cache /\ lastVpRenderTime' = lastVpRenderTime
    BY <1>6 DEF RenderNothing
  <2>2. AreNumbered(data)'
    BY <1>1, <1>2, <2>1 DEF AreNumbered
  <2> QED
    BY <1>1, <1>2, <1>4, <2>1, <2>2, SameSceneKeeps
<1>7. ASSUME NEW setting, NEW elapsed, NEW lost,
             RenderList(h, list, ConfigOf(setting), camera, elapsed, lost)
      PROVE  EngineInv'
  <2> DEFINE cfg == ConfigOf(setting)
  <2>1. RenderList(h, list, cfg, camera, elapsed, lost)
    BY <1>7
  <2> HIDE DEF cfg
  <2>2. DOMAIN data' = DOMAIN data /\ Agree(data, cache, lastVpRenderTime)' /\ AreNumbered(data)'
    BY <1>1, <1>2, <1>3, <1>5, <2>1, DrawingAgrees
  <2> QED
    BY <1>1, <1>4, <2>2, SameSceneKeeps
<1> QED
  BY <1>1, <1>6, <1>7

\* So does a sync for another purpose.
LEMMA RenderToMeshKeeps ==
    ASSUME EngineInv, NEW t, NEW tags, RenderToMesh(t, tags)
    PROVE  EngineInv'
<1> DEFINE h == HydraRender(t, tags)
<1>1. /\ UNCHANGED <<scene, order, lastVpRenderTime>>
      /\ data' = h.data /\ cache' = h.cache
  BY DEF RenderToMesh, sceneVars
<1>2. /\ DOMAIN h.data = DOMAIN data /\ AreNumbered(h.data)
      /\ Agree(h.data, h.cache, lastVpRenderTime)
  BY HydraAgrees
<1>3. OneConsolidation'
  BY RenderToMeshKeepsOne DEF EngineInv
<1> HIDE DEF h
<1>4. AreNumbered(data)'
  BY <1>1, <1>2 DEF AreNumbered
<1> QED
  BY <1>1, <1>2, <1>3, <1>4, SameSceneKeeps

\* What these edits change, the invariant does not speak of.
LEMMA OtherEditsKeep ==
    ASSUME EngineInv,
           UNCHANGED <<scene, order, data, cache, lastVpRenderTime>>
    PROVE  EngineInv'
<1>1. OneConsolidation'
  BY DEF EngineInv, OneConsolidation
<1>2. Agree(data, cache, lastVpRenderTime)' /\ AreNumbered(data)'
  BY DEF EngineInv, DataInv, AreNumbered
<1> QED
  BY <1>1, <1>2, SameSceneKeeps

\* An edit of the purpose of a prim.
LEMMA SetRenderTagKeeps ==
    ASSUME EngineInv, NEW p \in DOMAIN scene, NEW tag, SetRenderTag(p, tag)
    PROVE  EngineInv'
<1>1. /\ scene' = [scene EXCEPT ![p].tag = tag]
      /\ UNCHANGED <<order, data, cache, lastVpRenderTime>>
  BY DEF SetRenderTag
<1>2. DOMAIN scene' = DOMAIN scene
  BY <1>1
<1>3. ASSUME NEW q \in DOMAIN scene
      PROVE  "binding" \in DOMAIN scene'[q] /\ scene'[q].binding = scene[q].binding
  BY <1>1 DEF EngineInv, SceneInv
<1> QED
  BY <1>1, <1>2, <1>3, SceneEditKeeps DEF EngineInv, SceneInv, Settled, MaterialsLeft

\* Every edit of a mesh keeps the invariant.
LEMMA EditMeshKeeps ==
    ASSUME StableSubsets, EngineInv, NEW p \in DOMAIN scene, EditMesh(p)
    PROVE  EngineInv'
<1>1. ASSUME NEW a \in Animations, SetPoints(p, a) PROVE EngineInv'
  BY <1>1, OtherFieldKeeps DEF SetPoints
<1>2. ASSUME NEW visible \in BOOLEAN, SetVisible(p, visible) PROVE EngineInv'
  BY <1>2, OtherFieldKeeps DEF SetVisible
<1>3. ASSUME NEW c \in Colors, SetDisplayColor(p, c) PROVE EngineInv'
  BY <1>3, OtherFieldKeeps DEF SetDisplayColor
<1>4. ASSUME NEW b \in Bindings, SetBinding(p, b) PROVE EngineInv'
  BY <1>4, SetBindingKeeps
<1>5. ASSUME NEW tag \in RenderTags, SetRenderTag(p, tag) PROVE EngineInv'
  BY <1>5, SetRenderTagKeeps
<1>6. CASE EditInstances(p)
  BY <1>6, OtherEditsKeep DEF EditInstances, sceneVars, engineVars
<1>7. CASE DestroyRprim(p)
  BY <1>7, DestroyKeeps
<1> QED
  BY <1>1, <1>2, <1>3, <1>4, <1>5, <1>6, <1>7 DEF EditMesh

\* So does every edit of the stage.
LEMMA EditStageKeeps ==
    ASSUME EngineInv, EditStage
    PROVE  EngineInv'
<1>1. ASSUME NEW p \in Paths, CreateRprim(p) PROVE EngineInv'
  BY <1>1, CreateKeeps
<1>2. ASSUME NEW paths \in Selections, SetSelection(paths) PROVE EngineInv'
  BY <1>2, OtherEditsKeep DEF SetSelection, engineVars
<1>3. ASSUME NEW mode \in DisplayModes, SetDisplayMode(mode) PROVE EngineInv'
  BY <1>3, OtherEditsKeep DEF SetDisplayMode, engineVars
<1> QED
  BY <1>1, <1>2, <1>3 DEF EditStage

\* Every step keeps the invariant.
LEMMA NextKeeps ==
    ASSUME StableSubsets
    PROVE  EngineInv /\ [Next]_vars => EngineInv'
<1> SUFFICES ASSUME EngineInv, [Next]_vars PROVE EngineInv'
  OBVIOUS
<1>1. CASE \E p \in DOMAIN scene : EditMesh(p)
  BY <1>1, EditMeshKeeps
<1>2. CASE EditStage
  BY <1>2, EditStageKeeps
<1>3. CASE \E camera \in Cameras : Render(camera)
  BY <1>3, RenderKeeps
<1>4. CASE \E t \in Times, tags \in RenderTagSets : RenderToMesh(t, tags)
  BY <1>4, RenderToMeshKeeps
<1>5. CASE UNCHANGED vars
  BY <1>5, OtherEditsKeep DEF vars, sceneVars, engineVars
<1> QED
  BY <1>1, <1>2, <1>3, <1>4, <1>5 DEF Next

\* Of every mesh no more subsets are flagged "in consolidation" than the output of the
\* last frame holds, whatever the meshes, the settings, the times and the tags, where
\* edits do not number subsets anew (HdMaxConsolidator::Reset and HdMaxMesh::Sync keep
\* flag and output together from two sides).
THEOREM FlagsAreConsolidated ==
    ASSUME StableSubsets
    PROVE  Spec => []FlaggedSubsetsAreConsolidated
<1>1. Init => EngineInv
  BY InitHolds
<1>2. EngineInv /\ [Next]_vars => EngineInv'
  BY NextKeeps
<1> QED
  BY <1>1, <1>2, InvCounts, PTL DEF Spec
-----------------------------------------------------------------------------
(* The limits, frame after frame. *)

\* What hydra does leaves the consolidated meshes, or none.
LEMMA HydraLimits ==
    ASSUME EngineInv, Limits(LastOutput), NEW t, NEW tags
    PROVE  Limits(Outputs(HydraRender(t, tags).cache, lastVpRenderTime))
<1> DEFINE h == HydraRender(t, tags)
<1>1. h.cache = PrepareBatch(tags).cache
  BY DEF HydraRender
<1>2. h.cache = cache \/ h.cache = Reset(data, cache).cache
  BY <1>1 DEF PrepareBatch
<1> HIDE DEF h
<1>3. CASE h.cache = cache
  BY <1>3 DEF LastOutput, h
<1>4. CASE h.cache = Reset(data, cache).cache
  <2>1. DOMAIN h.cache = {}
    BY <1>4, ResetReleases DEF EngineInv, DataInv, Agree
  <2>2. AreOutputs(h.cache) /\ Outputs(h.cache, lastVpRenderTime).geoms = {}
    BY <2>1 DEF AreOutputs, Outputs, NewOutput
  <2> QED
    BY <2>2, OutputsAreOutputs, NothingInLimits DEF h
<1> QED
  BY <1>2, <1>3, <1>4

\* A frame keeps to the limits.
LEMMA RenderLimits ==
    ASSUME EngineInv, Limits(LastOutput), NEW camera, Render(camera)
    PROVE  Limits(LastOutput')
<1> DEFINE h == HydraRender(camera.time, camera.tags)
           list == GetMeshRenderData(h.data)
<1>1. \/ RenderNothing(h, camera)
      \/ \E setting, elapsed, lost :
           RenderList(h, list, ConfigOf(setting), camera, elapsed, lost)
  BY DEF Render
<1>2. /\ DOMAIN h.data = DOMAIN data
      /\ Agree(h.data, h.cache, lastVpRenderTime)
  BY HydraAgrees
<1>3. OnlyAt(lastVpRenderTime, h.cache)
  BY HydraRenderKeepsOne DEF EngineInv
<1>4. Limits(Outputs(h.cache, lastVpRenderTime))
  BY HydraLimits
<1> HIDE DEF h
<1>5. IsList(list, h.data)
  BY <1>2, ListOfMeshes
<1> HIDE DEF list
<1>6. CASE RenderNothing(h, camera)
  <2>1. cache' = h.cache /\ lastVpRenderTime' = lastVpRenderTime
    BY <1>6 DEF RenderNothing
  <2> QED
    BY <1>4, <2>1 DEF LastOutput
<1>7. ASSUME NEW setting, NEW elapsed, NEW lost,
             RenderList(h, list, ConfigOf(setting), camera, elapsed, lost)
      PROVE  Limits(LastOutput')
  <2> DEFINE cfg == ConfigOf(setting)
             t == camera.time
             c == Consolidate(list, h.data, h.cache, cfg, t, elapsed, lost)
  <2>1. cache' = c.cache /\ lastVpRenderTime' = t
    BY <1>7 DEF RenderList
  <2>2. IsFiniteSet(Faces)
    BY InvScene
  <2> HIDE DEF cfg, t
  <2>3. Limits(Outputs(c.cache, t))
    BY <1>2, <1>3, <1>4, <1>5, <2>2, ConsolidateLimits
  <2> HIDE DEF c
  <2> QED
    BY <2>1, <2>3 DEF LastOutput
<1> QED
  BY <1>1, <1>6, <1>7

\* Every step keeps to the limits.
LEMMA NextLimits == EngineInv /\ Limits(LastOutput) /\ [Next]_vars => Limits(LastOutput')
<1> SUFFICES ASSUME EngineInv, Limits(LastOutput), [Next]_vars PROVE Limits(LastOutput')
  OBVIOUS
<1>1. CASE (\E p \in DOMAIN scene : EditMesh(p)) \/ EditStage
  BY <1>1, EditsLeaveTheCache DEF LastOutput
<1>2. CASE \E camera \in Cameras : Render(camera)
  BY <1>2, RenderLimits
<1>3. CASE \E t \in Times, tags \in RenderTagSets : RenderToMesh(t, tags)
  <2>1. PICK t \in Times, tags \in RenderTagSets : RenderToMesh(t, tags)
    BY <1>3
  <2>2. cache' = HydraRender(t, tags).cache /\ lastVpRenderTime' = lastVpRenderTime
    BY <2>1 DEF RenderToMesh
  <2> QED
    BY <2>2, HydraLimits DEF LastOutput
<1>4. CASE UNCHANGED vars
  BY <1>4 DEF vars, engineVars, LastOutput
<1> QED
  BY <1>1, <1>2, <1>3, <1>4 DEF Next

\* No consolidated mesh has a single input or more triangles than Config.maxCellSize,
\* and no subset is in two: cells are only filled with subsets that are not flagged,
\* and all that the output holds is flagged (BuildConsolidationCells,
\* UpdateConsolidation).
THEOREM CellsStayInLimits ==
    ASSUME StableSubsets
    PROVE  Spec => []CellsRespectLimits
<1>1. Init => EngineInv /\ Limits(LastOutput)
  <2>1. Init => LastOutput.geoms = {}
    BY DEF Init, LastOutput, Outputs, NewOutput
  <2> QED
    BY <2>1, InitHolds DEF Limits
<1>2. EngineInv /\ Limits(LastOutput) /\ [Next]_vars => EngineInv' /\ Limits(LastOutput)'
  BY NextKeeps, NextLimits DEF Limits
<1>3. Limits(LastOutput) => CellsRespectLimits
  BY DEF CellsRespectLimits, Limits, InLimits, FacesIn, KeysOf
<1> QED
  BY <1>1, <1>2, <1>3, PTL DEF Spec

-----------------------------------------------------------------------------
(* What consolidation and a sync leave of a mesh besides its subsets. *)

\* What GetMeshRenderData asks of a mesh is the same.
SameSights(D, E) ==
    /\ DOMAIN E = DOMAIN D
    /\ \A p \in DOMAIN D : /\ E[p].visible = D[p].visible
                           /\ E[p].renderTagActive = D[p].renderTagActive

\* The consolidator only changes subsets.
LEMMA MappedSights ==
    ASSUME NEW D, AreRenderData(D), NEW keys
    PROVE  LET Flag(s) == [s EXCEPT !.inConsolidation = TRUE]
           IN /\ SameSights(D, MapSubsets(D, keys, Released))
              /\ SameSights(D, MapSubsets(D, keys, Flag))
              /\ SameSights(D, MapSubsets(D, keys, Clean))
<1> DEFINE Flag(s) == [s EXCEPT !.inConsolidation = TRUE]
<1>1. ASSUME NEW d, IsRenderData(d), NEW s
      PROVE  /\ [d EXCEPT !.shadedSubsets = s].visible = d.visible
             /\ [d EXCEPT !.shadedSubsets = s].renderTagActive = d.renderTagActive
  BY <1>1 DEF IsRenderData
<1>2. \A p \in DOMAIN D : IsRenderData(D[p])
  BY DEF AreRenderData
<1>3. SameSights(D, MapSubsets(D, keys, Released))
  BY <1>1, <1>2 DEF MapSubsets, SameSights
<1>4. SameSights(D, MapSubsets(D, keys, Flag))
  <2> HIDE DEF Flag
  <2> QED
    BY <1>1, <1>2 DEF MapSubsets, SameSights
<1>5. SameSights(D, MapSubsets(D, keys, Clean))
  BY <1>1, <1>2 DEF MapSubsets, SameSights
<1> QED
  BY <1>3, <1>4, <1>5

\* So does UpdateConsolidation.
LEMMA UpdatedSights ==
    ASSUME NEW D, AreRenderData(D), NEW c, NEW list, NEW cfg, NEW t, NEW lost
    PROVE  /\ SameSights(D, Reset(D, c).data)
           /\ SameSights(D, Updated(list, D, c, cfg, t, lost).data)
<1> DEFINE u == UpdateConsolidation(list, D, c, cfg, lastVpRenderTime, t, lost)
           gizmos == UNION {SubsetKeys(D, p) : p \in ToSet(list) \cap Gizmos}
           offered == UNION {ToSet(c[v].source) : v \in DOMAIN c}
<1>1. Reset(D, c).data = MapSubsets(D, offered, Released)
  BY DEF Reset
<1>2. \A out : UnconsolidateGizmos(list, D, out).data = MapSubsets(D, gizmos, Released)
  BY DEF UnconsolidateGizmos
<1>3. \/ u.data = D
      \/ u.data = Reset(D, c).data
      \/ \E out : u.data = UnconsolidateGizmos(list, D, out).data
  BY DEF UpdateConsolidation
<1> HIDE DEF u, gizmos, offered
<1>4. SameSights(D, D) /\ SameSights(D, Reset(D, c).data)
  BY <1>1, MappedSights DEF SameSights
<1>5. SameSights(D, u.data)
  BY <1>1, <1>2, <1>3, <1>4, MappedSights
<1> QED
  BY <1>4, <1>5 DEF Updated, u

\* So does Consolidate.
LEMMA ConsolidatedSights ==
    ASSUME NEW D, NEW c, Agree(D, c, lastVpRenderTime), OnlyAt(lastVpRenderTime, c),
           NEW list, IsList(list, D), NEW cfg, NEW t, NEW elapsed, NEW lost, IsFiniteSet(Faces)
    PROVE  SameSights(D, Consolidate(list, D, c, cfg, t, elapsed, lost).data)
<1> DEFINE now == Updated(list, D, c, cfg, t, lost)
           made == BuildConsolidation(list, now.data, now.cache, cfg.mode, t)
           r == Consolidate(list, D, c, cfg, t, elapsed, lost)
           Cleaned(d, keys) == MapSubsets(d, keys, Clean)
           Flag(s) == [s EXCEPT !.inConsolidation = TRUE]
<1>1. \/ r.data = now.data
      \/ \E keys : r.data = Cleaned(now.data, keys)
      \/ \E keys : r.data = Cleaned(made.data, keys)
  BY DEF Consolidate
<1>2. SameSights(D, now.data) /\ Agree(now.data, now.cache, t) /\ SameMeshes(D, now.data)
      /\ Within(now.data, now.cache, t, list)
  BY UpdatedSights, UpdatedAgrees DEF Agree
<1>3. \E keys : made.data = MapSubsets(now.data, keys, Flag)
  BY DEF BuildConsolidation
<1> HIDE DEF now, r
<1>4. IsList(list, now.data)
  BY <1>2 DEF SameMeshes, IsList
<1>5. AreRenderData(now.data) /\ AreRenderData(made.data)
  BY <1>2, <1>4, BuildAgrees DEF Agree
<1>6. SameSights(now.data, made.data)
  BY <1>3, <1>5, MappedSights
<1> HIDE DEF made
<1>7. SameSights(D, made.data)
  BY <1>2, <1>6 DEF SameSights
<1>8. ASSUME NEW E, AreRenderData(E), SameSights(D, E), NEW keys
      PROVE  SameSights(D, Cleaned(E, keys))
  <2>1. SameSights(E, Cleaned(E, keys))
    BY <1>8, MappedSights
  <2> HIDE DEF Cleaned
  <2> QED
    BY <1>8, <2>1 DEF SameSights
<1> HIDE DEF Cleaned
<1>9. SameSights(D, r.data)
  BY <1>1, <1>2, <1>5, <1>7, <1>8
<1> QED
  BY <1>9 DEF r

\* Loading the buffers of a mesh leaves it in sight.
LEMMA LoadedSights ==
    ASSUME NEW d, IsRenderData(d)
    PROVE  /\ UpdateRenderGeometry(d).visible = d.visible
           /\ UpdateRenderGeometry(d).renderTagActive = d.renderTagActive
<1> DEFINE Seen(e) == /\ {"visible", "renderTagActive", "shadedSubsets"} \subseteq DOMAIN e
                      /\ e.visible = d.visible
                      /\ e.renderTagActive = d.renderTagActive
           a == LoadIndices(d)
           b == LoadPoints(a)
           c == LoadNormals(b)
           e == LoadSelection(c)
<1>1. ASSUME NEW f, Seen(f), NEW s, NEW points, NEW buffer
      PROVE  /\ Seen([f EXCEPT !.shadedSubsets = s])
             /\ Seen([f EXCEPT !.pointsBuffer = points])
             /\ Seen([f EXCEPT !.selectionBuffer = buffer])
  BY <1>1
<1>2. Seen(d)
  BY DEF IsRenderData
<1> HIDE DEF Seen
<1>3. Seen(a)
  BY <1>1, <1>2 DEF LoadIndices, ForEachSubset
<1> HIDE DEF a
<1>4. \A f : \A n : Seen(f) => Seen(WithStream(f, n))
  BY <1>1 DEF WithStream, ForEachSubset
<1>5. Seen(b)
  BY <1>1, <1>3, <1>4 DEF LoadPoints
<1> HIDE DEF b
<1>6. Seen(c)
  BY <1>4, <1>5 DEF LoadNormals
<1> HIDE DEF c
<1>7. Seen(e)
  BY <1>1, <1>4, <1>6 DEF LoadSelection
<1> HIDE DEF e
<1>8. Seen(UpdateRenderGeometry(d))
  <2> DEFINE s == [i \in DOMAIN e.shadedSubsets |-> [e.shadedSubsets[i] EXCEPT !.dirtyBits = {}]]
  <2>1. UpdateRenderGeometry(d) = [e EXCEPT !.shadedSubsets = s]
    BY DEF UpdateRenderGeometry, ForEachSubset, a, b, c, e
  <2> HIDE DEF s
  <2>2. Seen([e EXCEPT !.shadedSubsets = s])
    BY <1>1, <1>7
  <2> QED
    BY <2>1, <2>2
<1> QED
  BY <1>8 DEF Seen

\* The bits of a selection, and those that a change of the subsets or of the visibility
\* leaves on every subset.
LEMMA BitsThatTell ==
    ASSUME NEW bits, NEW sameSize, NEW mode
    PROVE  LET found == DirtyBitsFor(bits, sameSize, mode)
           IN /\ "DirtyTopology" \in bits => found # {}
              /\ "DirtyVisibility" \in bits => found # {}
              /\ bits \subseteq {"DirtySelectionHighlight"} => found \subseteq bits
<1> DEFINE Of(b) ==
           IF b \notin bits THEN {} ELSE
           CASE b = "DirtyTopology" -> {"DirtyNormals"}
             [] b = "DirtyPoints" -> {"DirtyPoints"}
                                       \cup (IF sameSize THEN {} ELSE {"DirtyPointsSize"})
             [] b = "DirtyVisibility" -> {"DirtyVisibility"}
             [] b = "DirtyPrimvar" -> {"DirtyVertexColors"}
                  \cup (IF mode = "USDDisplayColor" THEN {"DirtyMaterial"} ELSE {})
             [] b = "DirtyMaterialId" ->
                  IF mode = "USDPreviewSurface" THEN {"DirtyMaterial"} ELSE {}
             [] b = "DirtyInstanceIndex" -> {"DirtyTransforms"}
             [] b = "DirtySelectionHighlight" -> {"DirtySelectionHighlight"}
           found == DirtyBitsFor(bits, sameSize, mode)
<1>1. found = UNION {Of(b) : b \in HydraBits}
  BY DEF DirtyBitsFor
<1>2. "DirtyTopology" \in bits => "DirtyNormals" \in Of("DirtyTopology")
  OBVIOUS
<1>3. "DirtyVisibility" \in bits => "DirtyVisibility" \in Of("DirtyVisibility")
  OBVIOUS
<1>4. {"DirtyTopology", "DirtyVisibility"} \subseteq HydraBits
  BY DEF HydraBits
<1>5. ASSUME bits \subseteq {"DirtySelectionHighlight"}, NEW b \in HydraBits
      PROVE  Of(b) \subseteq bits
  BY <1>5
<1> HIDE DEF Of, found
<1>6. "DirtyTopology" \in bits => found # {}
  BY <1>1, <1>2, <1>4
<1>7. "DirtyVisibility" \in bits => found # {}
  BY <1>1, <1>3, <1>4
<1>8. bits \subseteq {"DirtySelectionHighlight"} => found \subseteq bits
  BY <1>1, <1>5
<1> QED
  BY <1>6, <1>7, <1>8 DEF found

\* What was not dirty, and is not, has not changed.
CleanIsUnchanged(d, e) ==
    \A i \in DOMAIN e.shadedSubsets :
      e.shadedSubsets[i].dirtyBits = {} =>
        /\ i \in DOMAIN d.shadedSubsets
        /\ d.shadedSubsets[i].dirtyBits = {}
        /\ e.shadedSubsets[i].inConsolidation = d.shadedSubsets[i].inConsolidation
        /\ e.visible = d.visible

\* Only the selection has changed.
OnlySelected(d, e) ==
    /\ DOMAIN e.shadedSubsets = DOMAIN d.shadedSubsets
    /\ e.visible = d.visible
    /\ \A i \in DOMAIN d.shadedSubsets :
         /\ e.shadedSubsets[i].inConsolidation = d.shadedSubsets[i].inConsolidation
         /\ e.shadedSubsets[i].dirtyBits
              \subseteq d.shadedSubsets[i].dirtyBits \cup {"DirtySelectionHighlight"}

\* A sync leaves a trace of what it changes, and its bits where it changes nothing.
LEMMA SyncLeavesTrace ==
    ASSUME NEW d, IsRenderData(d), NEW bits, NEW prim, IsBinding(prim.binding),
           IsFiniteSet(Faces), NEW selected, NEW mode, NEW t
    PROVE  LET r == Sync(d, bits, prim, selected, mode, t)
           IN /\ r.data.renderTagActive = d.renderTagActive
              /\ ~d.renderTagActive => r.bits = bits
              /\ CleanIsUnchanged(d, r.data)
              /\ bits \subseteq {"DirtySelectionHighlight"} => OnlySelected(d, r.data)
<1> DEFINE all == PropagateDirtyBits(bits)
           topo == IF "DirtyTopology" \in all THEN SyncTopology(d, prim.binding) ELSE d
           sameSize == CountOf(d.points) = CountOf(prim.points[t])
           loaded == [topo EXCEPT
                     !.points = IF "DirtyPoints" \in all THEN prim.points[t] ELSE @,
                     !.visible = IF "DirtyVisibility" \in all THEN prim.visible ELSE @,
                     !.color = IF "DirtyPrimvar" \in all THEN prim.color ELSE @,
                     !.selected = IF "DirtySelectionHighlight" \in all THEN selected ELSE @]
           found == DirtyBitsFor(all, sameSize, mode)
           dirty == SetAllSubsetRenderDataDirty(loaded, found)
           done == SyncMaterialData(dirty)
           r == Sync(d, bits, prim, selected, mode, t)
<1>1. \/ r.data = d /\ r.bits = bits
      \/ r.data = topo /\ d.renderTagActive /\ topo.shadedSubsets = << >>
      \/ r.data = dirty /\ d.renderTagActive
      \/ /\ r.data = done /\ d.renderTagActive
         /\ all \cap {"DirtyMaterialId", "DirtyPrimvar"} # {}
  BY DEF Sync
<1>2. /\ "DirtyTopology" \in all => found # {}
      /\ "DirtyVisibility" \in all => found # {}
      /\ bits \subseteq {"DirtySelectionHighlight"} =>
           /\ all = bits
           /\ found \subseteq bits
           /\ "DirtyTopology" \notin all /\ "DirtyVisibility" \notin all
           /\ all \cap {"DirtyMaterialId", "DirtyPrimvar"} = {}
  <2>1. bits \subseteq {"DirtySelectionHighlight"} => all = bits
    BY DEF PropagateDirtyBits
  <2> HIDE DEF all, sameSize
  <2> QED
    BY <2>1, BitsThatTell
<1>3. /\ IsRenderData(topo)
      /\ topo.renderTagActive = d.renderTagActive /\ topo.visible = d.visible
  <2> DEFINE e == SyncTopology(d, prim.binding)
  <2>1. IsRenderData(e)
    BY SyncTopologyRebuilds DEF RebuiltFor
  <2>2. e.renderTagActive = d.renderTagActive /\ e.visible = d.visible
    BY DEF SyncTopology, IsRenderData
  <2>3. topo = e \/ topo = d
    OBVIOUS
  <2> HIDE DEF e, topo
  <2> QED
    BY <2>1, <2>2, <2>3
<1>4. "DirtyTopology" \notin all => topo = d
  OBVIOUS
<1>5. /\ DOMAIN loaded = DOMAIN topo /\ loaded.shadedSubsets = topo.shadedSubsets
      /\ loaded.renderTagActive = topo.renderTagActive
      /\ "DirtyVisibility" \notin all => loaded.visible = topo.visible
  BY <1>3 DEF IsRenderData
<1> HIDE DEF all, topo, found, loaded, r
<1>6. /\ DOMAIN dirty.shadedSubsets = DOMAIN topo.shadedSubsets
      /\ dirty.renderTagActive = loaded.renderTagActive /\ dirty.visible = loaded.visible
      /\ {"shadedSubsets", "visible", "renderTagActive"} \subseteq DOMAIN dirty
      /\ \A i \in DOMAIN topo.shadedSubsets :
           /\ dirty.shadedSubsets[i].inConsolidation = topo.shadedSubsets[i].inConsolidation
           /\ dirty.shadedSubsets[i].dirtyBits = topo.shadedSubsets[i].dirtyBits \cup found
           /\ dirty.shadedSubsets[i] \in SubsetRecords \/ ~(found \subseteq AllDirty)
  <2>1. \A i \in DOMAIN topo.shadedSubsets : topo.shadedSubsets[i] \in SubsetRecords
    BY <1>3 DEF IsRenderData
  <2> DEFINE s == [i \in DOMAIN topo.shadedSubsets |->
                     [topo.shadedSubsets[i] EXCEPT !.dirtyBits = @ \cup found]]
  <2>2. dirty = [loaded EXCEPT !.shadedSubsets = s]
    BY <1>5 DEF SetAllSubsetRenderDataDirty, SetDirty, ForEachSubset
  <2>3. \A i \in DOMAIN topo.shadedSubsets :
           /\ s[i].inConsolidation = topo.shadedSubsets[i].inConsolidation
           /\ s[i].dirtyBits = topo.shadedSubsets[i].dirtyBits \cup found
           /\ s[i] \in SubsetRecords \/ ~(found \subseteq AllDirty)
    BY <2>1 DEF SubsetRecords
  <2>4. DOMAIN s = DOMAIN topo.shadedSubsets
    OBVIOUS
  <2> HIDE DEF s, dirty
  <2> QED
    BY <1>3, <1>5, <2>2, <2>3, <2>4 DEF IsRenderData
<1>7. /\ DOMAIN done.shadedSubsets = DOMAIN dirty.shadedSubsets
      /\ done.renderTagActive = dirty.renderTagActive /\ done.visible = dirty.visible
      /\ \A i \in DOMAIN dirty.shadedSubsets :
           /\ done.shadedSubsets[i].inConsolidation = dirty.shadedSubsets[i].inConsolidation
           /\ done.shadedSubsets[i].dirtyBits = dirty.shadedSubsets[i].dirtyBits
  <2>1. \A i \in DOMAIN dirty.shadedSubsets : dirty.shadedSubsets[i] \in SubsetRecords
    BY <1>6, DirtyBitsForSome DEF found
  <2> HIDE DEF dirty
  <2> DEFINE s == [i \in DOMAIN dirty.shadedSubsets |->
                     IF dirty.shadedSubsets[i].material = NoMaterial THEN dirty.shadedSubsets[i]
                     ELSE [dirty.shadedSubsets[i] EXCEPT !.materialData =
                             dirty.shadedSubsets[i].material]]
  <2>2. done = [dirty EXCEPT !.shadedSubsets = s]
    BY DEF SyncMaterialData, ForEachSubset
  <2>3. \A i \in DOMAIN dirty.shadedSubsets :
           /\ s[i].inConsolidation = dirty.shadedSubsets[i].inConsolidation
           /\ s[i].dirtyBits = dirty.shadedSubsets[i].dirtyBits
    BY <2>1 DEF SubsetRecords
  <2>4. DOMAIN s = DOMAIN dirty.shadedSubsets
    OBVIOUS
  <2> HIDE DEF s, done
  <2> QED
    BY <1>6, <2>2, <2>3, <2>4
<1> HIDE DEF dirty, done
<1>8. ASSUME NEW e, e = dirty \/ e = done
      PROVE  /\ e.renderTagActive = d.renderTagActive
             /\ CleanIsUnchanged(d, e)
             /\ bits \subseteq {"DirtySelectionHighlight"} => OnlySelected(d, e)
  <2>1. /\ DOMAIN e.shadedSubsets = DOMAIN topo.shadedSubsets
        /\ e.renderTagActive = d.renderTagActive /\ e.visible = loaded.visible
        /\ \A i \in DOMAIN topo.shadedSubsets :
             /\ e.shadedSubsets[i].inConsolidation = topo.shadedSubsets[i].inConsolidation
             /\ e.shadedSubsets[i].dirtyBits = topo.shadedSubsets[i].dirtyBits \cup found
    BY <1>3, <1>5, <1>6, <1>7, <1>8
  <2>2. CleanIsUnchanged(d, e)
    <3> SUFFICES ASSUME NEW i \in DOMAIN e.shadedSubsets, e.shadedSubsets[i].dirtyBits = {}
                 PROVE  /\ i \in DOMAIN d.shadedSubsets
                        /\ d.shadedSubsets[i].dirtyBits = {}
                        /\ e.shadedSubsets[i].inConsolidation = d.shadedSubsets[i].inConsolidation
                        /\ e.visible = d.visible
      BY DEF CleanIsUnchanged
    <3>1. found = {} /\ topo.shadedSubsets[i].dirtyBits = {}
      BY <2>1
    <3>2. topo = d /\ loaded.visible = d.visible
      BY <1>2, <1>4, <1>5, <3>1
    <3> QED
      BY <2>1, <3>1, <3>2
  <2>3. bits \subseteq {"DirtySelectionHighlight"} => OnlySelected(d, e)
    BY <1>2, <1>4, <1>5, <2>1 DEF OnlySelected
  <2> QED
    BY <2>1, <2>2, <2>3
<1>9. CleanIsUnchanged(d, d) /\ OnlySelected(d, d)
  BY DEF CleanIsUnchanged, OnlySelected
<1>10. CASE r.data = topo /\ d.renderTagActive /\ topo.shadedSubsets = << >>
  <2>1. CleanIsUnchanged(d, r.data)
    BY <1>10 DEF CleanIsUnchanged
  <2> QED
    BY <1>2, <1>3, <1>4, <1>9, <1>10, <2>1 DEF r
<1> QED
  BY <1>1, <1>8, <1>9, <1>10 DEF r

\* What has no dirty bits and is held by the output is flagged, and its mesh visible.
ShownIn(D, out) ==
    \A k \in out.consolidated :
      /\ k[1] \in DOMAIN D
      /\ k \in SubsetKeys(D, k[1])
      /\ SubsetAt(D, k).dirtyBits = {}
      => SubsetAt(D, k).inConsolidation /\ D[k[1]].visible

\* A mesh whose render tag is inactive is dirty: it has not been synced since.
InactiveAreDirty(D, bits) ==
    /\ DOMAIN bits = DOMAIN D
    /\ \A p \in DOMAIN D : ~D[p].renderTagActive => "DirtyTopology" \in bits[p]

\* Hydra syncs each mesh, or leaves it with its bits.
LEMMA HydraTrace ==
    ASSUME EngineInv, InactiveAreDirty(data, hydra), NEW t, NEW tags
    PROVE  LET h == HydraRender(t, tags)
           IN /\ InactiveAreDirty(h.data, h.hydra)
              /\ ShownIn(data, LastOutput) =>
                   ShownIn(h.data, Outputs(h.cache, lastVpRenderTime))
              /\ tags = renderTags /\ ~authoredTagsChanged /\ t = sceneTime
                   /\ OnlyDirty({"DirtySelectionHighlight"})
                 => /\ h.cache = cache
                    /\ \A p \in DOMAIN data :
                         /\ OnlySelected(data[p], h.data[p])
                         /\ h.data[p].renderTagActive = data[p].renderTagActive
<1> DEFINE prepared == PrepareBatch(tags)
           flipped == ApplyActiveRenderTags(prepared.data, tags)
           active == [p \in DOMAIN data |->
                        IF p \in flipped
                        THEN [prepared.data[p] EXCEPT !.renderTagActive = ~@]
                        ELSE prepared.data[p]]
           marked == [p \in DOMAIN hydra |-> IF p \in flipped THEN HydraBits ELSE hydra[p]]
           bits == SetTime(marked, t)
           synced == RenderBatch(active, bits, t, tags)
           h == HydraRender(t, tags)
           still == /\ tags = renderTags /\ ~authoredTagsChanged /\ t = sceneTime
                    /\ OnlyDirty({"DirtySelectionHighlight"})
<1>1. /\ h.data = [p \in DOMAIN synced |-> synced[p].data]
      /\ h.hydra = [p \in DOMAIN synced |-> synced[p].bits]
      /\ h.cache = prepared.cache
  BY DEF HydraRender
<1>2. /\ SameMeshes(data, prepared.data)
      /\ Agree(prepared.data, prepared.cache, lastVpRenderTime)
  BY PreparedAgrees
<1>3. DOMAIN synced = DOMAIN data /\ DOMAIN active = DOMAIN data
  BY DEF RenderBatch
<1>4. /\ tags = renderTags => prepared.data = data /\ prepared.cache = cache
      /\ tags # renderTags => prepared = Reset(data, cache)
  BY DEF PrepareBatch
<1>5. AreRenderData(data) /\ Agree(data, cache, lastVpRenderTime)
  BY DEF EngineInv, DataInv, Agree
<1>6. SameSights(data, prepared.data)
  BY <1>4, <1>5, UpdatedSights DEF SameSights
<1>7. tags # renderTags => Outputs(prepared.cache, lastVpRenderTime).consolidated = {}
  <2>1. DOMAIN Reset(data, cache).cache = {}
    BY <1>5, ResetReleases DEF Agree
  <2> QED
    BY <1>4, <2>1 DEF Outputs, NewOutput
<1>8. still => flipped = {}
  BY DEF ApplyActiveRenderTags
<1> HIDE DEF prepared, h, flipped
<1>9. ASSUME NEW p \in DOMAIN data
      PROVE  /\ IsRenderData(active[p])
             /\ active[p].shadedSubsets = prepared.data[p].shadedSubsets
             /\ active[p].visible = data[p].visible
             /\ p \notin flipped => active[p] = prepared.data[p]
  <2>1. IsRenderData(prepared.data[p]) /\ prepared.data[p].visible = data[p].visible
    BY <1>2, <1>6 DEF Agree, AreRenderData, SameMeshes, SameSights
  <2> QED
    BY <2>1 DEF IsRenderData
<1>10. DOMAIN hydra = DOMAIN data
  BY DEF InactiveAreDirty
<1>11. ASSUME NEW p \in DOMAIN data
       PROVE  /\ ~active[p].renderTagActive => "DirtyTopology" \in bits[p]
              /\ still => bits[p] \subseteq {"DirtySelectionHighlight"}
  <2>1. /\ marked[p] \subseteq bits[p]
        /\ t = sceneTime => bits[p] = marked[p]
    <3> HIDE DEF marked
    <3>1. DOMAIN marked = DOMAIN data
      BY <1>10 DEF marked
    <3> QED
      BY <3>1 DEF SetTime
  <2>2. marked[p] = IF p \in flipped THEN HydraBits ELSE hydra[p]
    BY <1>10
  <2>3. "DirtyTopology" \in HydraBits
    BY DEF HydraBits
  <2>4. p \notin flipped => active[p].renderTagActive = data[p].renderTagActive
    BY <1>6, <1>9 DEF SameSights
  <2>5. ~data[p].renderTagActive => "DirtyTopology" \in hydra[p]
    BY DEF InactiveAreDirty
  <2>6. still => hydra[p] \subseteq {"DirtySelectionHighlight"}
    BY <1>10 DEF OnlyDirty
  <2> HIDE DEF marked, bits, active
  <2> QED
    BY <1>8, <2>1, <2>2, <2>3, <2>4, <2>5, <2>6
<1> HIDE DEF marked, bits, active
<1>12. ASSUME NEW p \in DOMAIN data
       PROVE  /\ synced[p].data.renderTagActive = active[p].renderTagActive
              /\ ~active[p].renderTagActive => synced[p].bits = bits[p]
              /\ CleanIsUnchanged(active[p], synced[p].data)
              /\ still => OnlySelected(active[p], synced[p].data)
  <2>1. IsRenderData(active[p]) /\ IsBinding(scene[p].binding) /\ IsFiniteSet(Faces)
    BY <1>9, InvScene DEF AreBindings, EngineInv, OrderInv
  <2>2. CASE HasTagIn(p, tags) /\ bits[p] # {}
    <3>1. synced[p] = Sync(active[p], bits[p], scene[p], p \in selection, displayMode, t)
      BY <1>3, <2>2 DEF RenderBatch
    <3> HIDE DEF synced, still
    <3>2. still => bits[p] \subseteq {"DirtySelectionHighlight"}
      BY <1>11
    <3> QED
      BY <2>1, <3>1, <3>2, SyncLeavesTrace
  <2>3. CASE ~(HasTagIn(p, tags) /\ bits[p] # {})
    <3>1. synced[p] = [data |-> active[p], bits |-> bits[p]]
      BY <1>3, <2>3 DEF RenderBatch
    <3> QED
      BY <3>1 DEF CleanIsUnchanged, OnlySelected
  <2> QED
    BY <2>2, <2>3
<1> HIDE DEF synced, still
<1>13. /\ DOMAIN h.data = DOMAIN data /\ DOMAIN h.hydra = DOMAIN data
       /\ \A p \in DOMAIN data : h.data[p] = synced[p].data /\ h.hydra[p] = synced[p].bits
  BY <1>1, <1>3
<1>14. InactiveAreDirty(h.data, h.hydra)
  BY <1>11, <1>12, <1>13 DEF InactiveAreDirty
<1>15. ASSUME ShownIn(data, LastOutput)
       PROVE  ShownIn(h.data, Outputs(h.cache, lastVpRenderTime))
  <2>1. CASE tags # renderTags
    BY <1>1, <1>7, <2>1 DEF ShownIn
  <2>2. CASE tags = renderTags
    <3>1. h.cache = cache /\ prepared.data = data
      BY <1>1, <1>4, <2>2
    <3> SUFFICES ASSUME NEW k \in LastOutput.consolidated, k[1] \in DOMAIN h.data,
                        k \in SubsetKeys(h.data, k[1]), SubsetAt(h.data, k).dirtyBits = {}
                 PROVE  SubsetAt(h.data, k).inConsolidation /\ h.data[k[1]].visible
      BY <3>1 DEF ShownIn, LastOutput
    <3> DEFINE p == k[1]
               i == k[2]
    <3>2. p \in DOMAIN data /\ i \in DOMAIN h.data[p].shadedSubsets
      BY <1>13 DEF SubsetKeys
    <3>3. h.data[p].shadedSubsets[i].dirtyBits = {}
      BY DEF SubsetAt
    <3>4. CleanIsUnchanged(active[p], h.data[p])
      BY <1>12, <1>13, <3>2
    <3>5. /\ active[p].shadedSubsets = data[p].shadedSubsets
          /\ active[p].visible = data[p].visible
      BY <1>9, <3>1, <3>2
    <3>6. /\ i \in DOMAIN data[p].shadedSubsets /\ data[p].shadedSubsets[i].dirtyBits = {}
          /\ h.data[p].shadedSubsets[i].inConsolidation = data[p].shadedSubsets[i].inConsolidation
          /\ h.data[p].visible = data[p].visible
      BY <3>2, <3>3, <3>4, <3>5 DEF CleanIsUnchanged
    <3>7. k \in SubsetKeys(data, p)
      BY <3>6, <1>13 DEF SubsetKeys
    <3>8. data[p].shadedSubsets[i].inConsolidation /\ data[p].visible
      BY <1>15, <3>2, <3>6, <3>7 DEF ShownIn, SubsetAt
    <3> QED
      BY <3>6, <3>8 DEF SubsetAt
  <2> QED
    BY <2>1, <2>2
<1>16. ASSUME still
       PROVE  /\ h.cache = cache
              /\ \A p \in DOMAIN data :
                   /\ OnlySelected(data[p], h.data[p])
                   /\ h.data[p].renderTagActive = data[p].renderTagActive
  <2>1. tags = renderTags
    BY <1>16 DEF still
  <2>2. \A p \in DOMAIN data : active[p] = data[p]
    BY <1>4, <1>8, <1>9, <1>16, <2>1
  <2> QED
    BY <1>1, <1>4, <1>12, <1>13, <1>16, <2>1, <2>2
<1> QED
  BY <1>14, <1>15, <1>16 DEF h, still

-----------------------------------------------------------------------------
(* A frame shows what it consolidates. *)

\* BuildConsolidation adds the cells worth a mesh to the output.
LEMMA BuildAdds ==
    ASSUME NEW D, NEW c, NEW t, NEW list, NEW mode
    PROVE  LET cells == {x \in ToSet(BuildConsolidationCells(list, D, mode)) : Len(x.inputs) > 1}
               old == Outputs(c, t)
               new == Outputs(BuildConsolidation(list, D, c, mode, t).cache, t)
           IN /\ old.geoms \subseteq new.geoms
              /\ new.consolidated = old.consolidated \cup UNION {ToSet(x.inputs) : x \in cells}
<1> DEFINE r == BuildConsolidation(list, D, c, mode, t)
           cells == {x \in ToSet(BuildConsolidationCells(list, D, mode)) : Len(x.inputs) > 1}
           keys == UNION {ToSet(x.inputs) : x \in cells}
           old == Outputs(c, t)
           new == Outputs(r.cache, t)
           out == [geoms |-> old.geoms \cup {NewGeom(x, D) : x \in cells},
                   consolidated |-> old.consolidated \cup keys,
                   source |-> SubsetsOf(list, D)]
<1>1. r.cache = IF t \in DOMAIN c \/ cells # {} THEN CachedAt(c, t, out) ELSE c
  BY DEF BuildConsolidation
<1>2. old.geoms \subseteq out.geoms /\ out.consolidated = old.consolidated \cup keys
  OBVIOUS
<1> HIDE DEF r, out, cells
<1>3. CASE r.cache = c /\ cells = {}
  <2>1. new = old /\ keys = {}
    BY <1>3
  <2> HIDE DEF new, old, keys
  <2>2. old.geoms \subseteq new.geoms /\ new.consolidated = old.consolidated \cup keys
    BY <2>1
  <2> QED
    BY <2>2 DEF new, old, keys, r, cells
<1>4. CASE r.cache = CachedAt(c, t, out)
  <2>1. new = out
    BY <1>4 DEF CachedAt, Outputs
  <2> QED
    BY <1>2, <2>1 DEF r, cells
<1>5. (r.cache = c /\ cells = {}) \/ r.cache = CachedAt(c, t, out)
  BY <1>1
<1> QED
  BY <1>3, <1>4, <1>5 DEF r, cells

\* What it adds is flagged, and listed.
LEMMA BuildShows ==
    ASSUME NEW D, NEW c, NEW t, Agree(D, c, t), NEW list, IsList(list, D), Within(D, c, t, list),
           NEW mode, IsFiniteSet(Faces), AllFlagged(D, Outputs(c, t))
    PROVE  LET r == BuildConsolidation(list, D, c, mode, t)
               out == Outputs(r.cache, t)
           IN /\ AllFlagged(r.data, out)
              /\ \A k \in out.consolidated : k[1] \in ToSet(list)
<1> DEFINE r == BuildConsolidation(list, D, c, mode, t)
           cells == {x \in ToSet(BuildConsolidationCells(list, D, mode)) : Len(x.inputs) > 1}
           keys == UNION {ToSet(x.inputs) : x \in cells}
           old == Outputs(c, t)
           new == Outputs(r.cache, t)
           subsets == SubsetsOf(list, D)
           Flag(s) == [s EXCEPT !.inConsolidation = TRUE]
           E == MapSubsets(D, keys, Flag)
<1>1. r.data = E
  BY DEF BuildConsolidation
<1>2. AreRenderData(D) /\ IsOutput(old)
  BY OutputsAreOutputs DEF Agree
<1>3. /\ SameMeshes(D, E)
      /\ \A p \in DOMAIN D :
           FlaggedOf(E, p) = FlaggedOf(D, p) \cup (SubsetKeys(D, p) \cap keys)
  <2> HIDE DEF keys
  <2> QED
    BY <1>2, FlaggedSubsets
<1>4. /\ ToSet(subsets) = UNION {SubsetKeys(D, p) : p \in ToSet(list)}
      /\ \A x \in cells : ToSet(x.inputs) \subseteq ToSet(subsets)
  BY <1>2, GoodCells
<1>6. new.consolidated = old.consolidated \cup keys
  BY BuildAdds
<1> HIDE DEF r, cells, old, subsets, E
<1>5. \A k \in keys : k[1] \in ToSet(list)
  <2> TAKE k \in keys
  <2>1. k \in ToSet(subsets)
    BY <1>4
  <2>2. PICK p \in ToSet(list) : k \in SubsetKeys(D, p)
    BY <1>4, <2>1
  <2> QED
    BY <2>2, FlagsByIndex
<1> HIDE DEF new, keys
<1>7. \A k \in new.consolidated : k[1] \in ToSet(list)
  BY <1>5, <1>6 DEF Within, old
<1>8. ASSUME NEW k \in new.consolidated, k \in SubsetKeys(E, k[1])
      PROVE  SubsetAt(E, k).inConsolidation
  <2>1. k[1] \in DOMAIN D
    BY <1>7 DEF IsList
  <2>2. k \in SubsetKeys(D, k[1])
    BY <1>2, <1>3, <1>8, <2>1, SameMeshesSameKeys
  <2>3. k \in old.consolidated => k \in FlaggedOf(D, k[1])
    BY <2>2 DEF AllFlagged, FlaggedOf, old
  <2>4. k \in FlaggedOf(E, k[1])
    BY <1>3, <1>6, <2>1, <2>2, <2>3
  <2> QED
    BY <2>4 DEF FlaggedOf
<1> QED
  BY <1>1, <1>6, <1>7, <1>8 DEF r, new, old, AllFlagged

\* What Consolidate leaves merged is flagged, and listed.
LEMMA ConsolidateShows ==
    ASSUME NEW D, NEW c, Agree(D, c, lastVpRenderTime), OnlyAt(lastVpRenderTime, c),
           NEW list, IsList(list, D), NEW cfg, NEW t, NEW elapsed, NEW lost, IsFiniteSet(Faces),
           Limits(Outputs(c, lastVpRenderTime))
    PROVE  LET r == Consolidate(list, D, c, cfg, t, elapsed, lost)
               out == Outputs(r.cache, t)
           IN /\ AllFlagged(r.data, out)
              /\ \A k \in out.consolidated : k[1] \in ToSet(list)
<1> DEFINE now == Updated(list, D, c, cfg, t, lost)
           made == BuildConsolidation(list, now.data, now.cache, cfg.mode, t)
           r == Consolidate(list, D, c, cfg, t, elapsed, lost)
           Cleaned(d, keys) == MapSubsets(d, keys, Clean)
<1>1. \/ r.data = now.data /\ r.cache = now.cache
      \/ \E keys : r.data = Cleaned(now.data, keys) /\ r.cache = now.cache
      \/ \E keys : r.data = Cleaned(made.data, keys) /\ r.cache = made.cache
  BY DEF Consolidate
<1> DEFINE u == UpdateConsolidation(list, D, c, cfg, lastVpRenderTime, t, lost)
           z == Reset(D, c)
           Shows(d, e) == /\ AllFlagged(d, Outputs(e, t))
                          /\ \A k \in Outputs(e, t).consolidated : k[1] \in ToSet(list)
<1>2. /\ SameMeshes(D, now.data) /\ Agree(now.data, now.cache, t)
      /\ Within(now.data, now.cache, t, list)
  BY UpdatedAgrees
<1>3. now = z \/ now = u
  BY DEF Updated
<1>4. AllFlagged(u.data, Outputs(u.cache, t))
  BY UpdateLimits
<1>5. AllFlagged(z.data, Outputs(z.cache, t))
  <2>1. DOMAIN z.cache = {}
    BY ResetReleases DEF Agree
  <2> HIDE DEF z
  <2> QED
    BY <2>1 DEF AllFlagged, Outputs, NewOutput
<1> HIDE DEF u, z, now, r
<1>6. AllFlagged(now.data, Outputs(now.cache, t))
  BY <1>3, <1>4, <1>5
<1>7. IsList(list, now.data) /\ DOMAIN now.data = DOMAIN D
  BY <1>2 DEF SameMeshes, IsList
<1>8. /\ AllFlagged(made.data, Outputs(made.cache, t))
      /\ \A k \in Outputs(made.cache, t).consolidated : k[1] \in ToSet(list)
  BY <1>2, <1>6, <1>7, BuildShows
<1>9. SameMeshes(now.data, made.data)
  BY <1>2, <1>7, BuildAgrees
<1> HIDE DEF made
<1>10. /\ AreRenderData(now.data) /\ DOMAIN now.data = DOMAIN D
       /\ AreRenderData(made.data) /\ DOMAIN made.data = DOMAIN D
  BY <1>2, <1>7, <1>9, SameAreRenderData DEF SameMeshes
<1>11. Shows(now.data, now.cache) /\ Shows(made.data, made.cache)
  BY <1>2, <1>6, <1>8 DEF Within
<1>12. ASSUME NEW E, AreRenderData(E), DOMAIN E = DOMAIN D, NEW e, Shows(E, e), NEW keys
       PROVE  Shows(Cleaned(E, keys), e)
  <2> DEFINE F == Cleaned(E, keys)
  <2>1. /\ SameMeshes(E, F)
        /\ \A p \in DOMAIN E : FlaggedOf(F, p) = FlaggedOf(E, p)
    BY <1>12, CleanedSubsets
  <2> HIDE DEF F
  <2>2. ASSUME NEW k \in Outputs(e, t).consolidated, k \in SubsetKeys(F, k[1])
        PROVE  SubsetAt(F, k).inConsolidation
    <3>1. k[1] \in DOMAIN E
      BY <1>12 DEF IsList
    <3>2. k \in SubsetKeys(E, k[1])
      BY <1>12, <2>1, <2>2, <3>1, SameMeshesSameKeys
    <3>3. k \in FlaggedOf(E, k[1])
      BY <1>12, <3>2 DEF AllFlagged, FlaggedOf
    <3> QED
      BY <2>1, <3>1, <3>3 DEF FlaggedOf
  <2> QED
    BY <1>12, <2>2 DEF AllFlagged, F
<1> HIDE DEF Cleaned, Shows
<1>13. Shows(r.data, r.cache)
  BY <1>1, <1>10, <1>11, <1>12
<1> QED
  BY <1>13 DEF r, Shows

-----------------------------------------------------------------------------
(* A selection keeps the consolidated meshes. *)

ShowInv == ShownIn(data, LastOutput) /\ InactiveAreDirty(data, hydra)

\* The first frame finds nothing consolidated and everything dirty.
LEMMA InitShows == Init => ShowInv
<1> SUFFICES ASSUME Init PROVE ShowInv
  OBVIOUS
<1>1. LastOutput.consolidated = {}
  BY DEF Init, LastOutput, Outputs, NewOutput
<1>2. \A p \in Paths : "DirtyTopology" \in hydra[p]
  BY DEF Init, HydraBits
<1>3. DOMAIN hydra = Paths /\ DOMAIN data = Paths
  BY DEF Init
<1> QED
  BY <1>1, <1>2, <1>3 DEF ShowInv, ShownIn, InactiveAreDirty

\* What a frame draws is listed, so that what it consolidates is visible.
LEMMA RenderShows ==
    ASSUME EngineInv, Limits(LastOutput), ShowInv, NEW camera, Render(camera)
    PROVE  ShowInv'
<1> DEFINE h == HydraRender(camera.time, camera.tags)
           list == GetMeshRenderData(h.data)
<1>1. /\ hydra' = h.hydra
      /\ \/ RenderNothing(h, camera)
         \/ \E setting, elapsed, lost :
              RenderList(h, list, ConfigOf(setting), camera, elapsed, lost)
  BY DEF Render
<1>2. /\ DOMAIN h.data = DOMAIN data /\ AreRenderData(h.data)
      /\ Agree(h.data, h.cache, lastVpRenderTime)
  BY HydraAgrees DEF Agree
<1>3. OnlyAt(lastVpRenderTime, h.cache)
  BY HydraRenderKeepsOne DEF EngineInv
<1>4. Limits(Outputs(h.cache, lastVpRenderTime))
  BY HydraLimits
<1>5. /\ InactiveAreDirty(h.data, h.hydra)
      /\ ShownIn(h.data, Outputs(h.cache, lastVpRenderTime))
  BY HydraTrace DEF ShowInv
<1> HIDE DEF h
<1>6. IsList(list, h.data)
  BY <1>2, ListOfMeshes
<1>7. \A p \in ToSet(list) : p \in DOMAIN h.data /\ h.data[p].visible
  <2> DEFINE T == {p \in DOMAIN h.data : h.data[p].renderTagActive /\ h.data[p].visible
                                           /\ h.data[p].shadedSubsets # << >>}
  <2>1. list = Sift(order, T)
    BY DEF GetMeshRenderData
  <2> HIDE DEF T
  <2>2. ToSet(Sift(order, T)) = ToSet(order) \cap T
    BY SiftProperties DEF EngineInv, OrderInv
  <2>3. ToSet(list) \subseteq T
    BY <2>1, <2>2
  <2> QED
    BY <2>3 DEF T
<1> HIDE DEF list
<1>8. CASE RenderNothing(h, camera)
  <2>1. data' = h.data /\ cache' = h.cache /\ lastVpRenderTime' = lastVpRenderTime
    BY <1>8 DEF RenderNothing
  <2>2. ShownIn(data', LastOutput') /\ InactiveAreDirty(data', hydra')
    BY <1>1, <1>5, <2>1 DEF LastOutput
  <2> QED
    BY <2>2 DEF ShowInv, ShownIn, InactiveAreDirty
<1>9. ASSUME NEW setting, NEW elapsed, NEW lost,
             RenderList(h, list, ConfigOf(setting), camera, elapsed, lost)
      PROVE  ShowInv'
  <2> DEFINE cfg == ConfigOf(setting)
             t == camera.time
             c == Consolidate(list, h.data, h.cache, cfg, t, elapsed, lost)
             alone == DrawnAlone(list, c.data, c.outs, camera.view)
             out == Outputs(c.cache, t)
  <2>1. /\ cache' = c.cache /\ lastVpRenderTime' = t
        /\ data' = [p \in DOMAIN c.data |->
                      IF p \in alone THEN UpdateRenderGeometry(c.data[p]) ELSE c.data[p]]
    BY <1>9 DEF RenderList
  <2>2. IsFiniteSet(Faces)
    BY InvScene
  <2> HIDE DEF cfg, t
  <2>3. AllFlagged(c.data, out) /\ \A k \in out.consolidated : k[1] \in ToSet(list)
    BY <1>2, <1>3, <1>4, <1>6, <2>2, ConsolidateShows
  <2>4. SameMeshes(h.data, c.data) /\ AreRenderData(c.data)
    BY <1>2, <1>3, <1>6, <2>2, ConsolidateAgrees DEF Agree
  <2>5. SameSights(h.data, c.data)
    BY <1>2, <1>3, <1>6, <2>2, ConsolidatedSights
  <2>6. LastOutput' = out
    BY <2>1 DEF LastOutput
  <2> HIDE DEF c, alone, out
  <2> DEFINE E == data'
  <2>7. DOMAIN E = DOMAIN h.data
    BY <2>1, <2>5 DEF SameSights
  <2>8. ASSUME NEW p \in DOMAIN h.data
        PROVE  /\ KeepsFlags(c.data[p], E[p])
               /\ E[p].visible = h.data[p].visible
               /\ E[p].renderTagActive = h.data[p].renderTagActive
    <3>1. /\ p \in DOMAIN c.data /\ IsRenderData(c.data[p])
          /\ c.data[p].visible = h.data[p].visible
          /\ c.data[p].renderTagActive = h.data[p].renderTagActive
      BY <2>4, <2>5 DEF SameSights, AreRenderData
    <3>2. E[p] = UpdateRenderGeometry(c.data[p]) \/ E[p] = c.data[p]
      BY <2>1, <3>1
    <3> HIDE DEF E
    <3> QED
      BY <3>1, <3>2, UpdateRenderGeometryKeeps, LoadedSights, KeepsFlagsReflexive
  <2> HIDE DEF E
  <2>9. ASSUME NEW k \in out.consolidated, k \in SubsetKeys(E, k[1])
        PROVE  SubsetAt(E, k).inConsolidation /\ E[k[1]].visible
    <3>1. k[1] \in DOMAIN h.data /\ E[k[1]].visible
      BY <1>7, <2>3, <2>8
    <3>2. KeepsFlags(c.data[k[1]], E[k[1]])
      BY <2>8, <3>1
    <3>3. PICK i \in DOMAIN E[k[1]].shadedSubsets : k = <<k[1], i>>
      BY <2>9 DEF SubsetKeys
    <3>4. i \in DOMAIN c.data[k[1]].shadedSubsets /\ i = k[2]
      BY <3>2, <3>3 DEF KeepsFlags
    <3>5. SubsetAt(c.data, k).inConsolidation
      BY <2>3, <3>3, <3>4 DEF AllFlagged, SubsetKeys
    <3> QED
      BY <3>1, <3>2, <3>4, <3>5 DEF KeepsFlags, SubsetAt
  <2>10. ShownIn(E, out)
    BY <2>9 DEF ShownIn
  <2>11. InactiveAreDirty(E, h.hydra)
    BY <1>5, <2>7, <2>8 DEF InactiveAreDirty
  <2> QED
    BY <1>1, <2>6, <2>10, <2>11 DEF E, ShowInv, ShownIn, InactiveAreDirty
<1> QED
  BY <1>1, <1>8, <1>9

\* Edits only add bits, and prims without subsets.
LEMMA EditsShow ==
    ASSUME EngineInv, ShowInv, (\E p \in DOMAIN scene : EditMesh(p)) \/ EditStage
    PROVE  ShowInv'
<1>1. UNCHANGED <<cache, lastVpRenderTime>>
  BY EditsLeaveTheCache
<1>2. LastOutput' = LastOutput
  BY <1>1 DEF LastOutput
<1>3. /\ DOMAIN hydra = DOMAIN data /\ DOMAIN data = DOMAIN scene
      /\ \A p \in DOMAIN data : ~data[p].renderTagActive => "DirtyTopology" \in hydra[p]
  BY DEF ShowInv, InactiveAreDirty, EngineInv, OrderInv
<1>4. ASSUME UNCHANGED data, DOMAIN hydra' = DOMAIN hydra,
             \A p \in DOMAIN hydra : hydra[p] \subseteq hydra'[p]
      PROVE  ShowInv'
  BY <1>2, <1>3, <1>4 DEF ShowInv, ShownIn, InactiveAreDirty, SubsetKeys, SubsetAt
<1>5. ASSUME NEW p, NEW bits, MarkRprimDirty(p, bits), UNCHANGED data
      PROVE  ShowInv'
  <2>1. DOMAIN hydra' = DOMAIN hydra /\ \A q \in DOMAIN hydra : hydra[q] \subseteq hydra'[q]
    BY <1>5 DEF MarkRprimDirty
  <2> QED
    BY <1>4, <1>5, <2>1
<1>6. ASSUME NEW p \in DOMAIN scene, EditMesh(p) PROVE ShowInv'
  <2>1. CASE DestroyRprim(p)
    <3>1. /\ hydra' = [q \in DOMAIN scene \ {p} |-> hydra[q]]
          /\ data' = [q \in DOMAIN scene \ {p} |-> data[q]]
      BY <2>1 DEF DestroyRprim
    <3>2. /\ DOMAIN data' = DOMAIN hydra' /\ DOMAIN data' \subseteq DOMAIN data
          /\ \A q \in DOMAIN data' : data'[q] = data[q] /\ hydra'[q] = hydra[q]
      BY <1>3, <3>1
    <3> QED
      BY <1>2, <1>3, <3>2 DEF ShowInv, ShownIn, InactiveAreDirty, SubsetKeys, SubsetAt
  <2>2. CASE \E a \in Animations : SetPoints(p, a)
    BY <1>5, <2>2 DEF SetPoints, EditPrim
  <2>3. CASE \E visible \in BOOLEAN : SetVisible(p, visible)
    BY <1>5, <2>3 DEF SetVisible, EditPrim
  <2>4. CASE \E c \in Colors : SetDisplayColor(p, c)
    BY <1>5, <2>4 DEF SetDisplayColor, EditPrim
  <2>5. CASE \E b \in Bindings : SetBinding(p, b)
    BY <1>5, <2>5 DEF SetBinding, EditPrim
  <2>6. CASE \E tag \in RenderTags : SetRenderTag(p, tag)
    BY <1>4, <2>6 DEF SetRenderTag
  <2>7. CASE EditInstances(p)
    BY <1>5, <2>7 DEF EditInstances
  <2> QED
    BY <1>6, <2>1, <2>2, <2>3, <2>4, <2>5, <2>6, <2>7 DEF EditMesh
<1>7. ASSUME NEW p \in Paths, CreateRprim(p) PROVE ShowInv'
  <2>1. /\ p \notin DOMAIN data
        /\ hydra' = With(hydra, p, HydraBits) /\ data' = With(data, p, NewRenderData)
    BY <1>3, <1>7 DEF CreateRprim
  <2>2. /\ DOMAIN data' = DOMAIN data \cup {p} /\ DOMAIN hydra' = DOMAIN data \cup {p}
        /\ \A q \in DOMAIN data : data'[q] = data[q] /\ hydra'[q] = hydra[q]
        /\ data'[p] = NewRenderData /\ hydra'[p] = HydraBits
    BY <1>3, <2>1 DEF With
  <2>3. NewRenderData.shadedSubsets = << >> /\ "DirtyTopology" \in HydraBits
    BY DEF NewRenderData, HydraBits
  <2>4. SubsetKeys(data, p)' = {}
    BY <2>2, <2>3 DEF SubsetKeys
  <2> QED
    BY <1>2, <1>3, <2>2, <2>3, <2>4 DEF ShowInv, ShownIn, InactiveAreDirty, SubsetKeys, SubsetAt
<1>8. ASSUME NEW paths \in Selections, SetSelection(paths) PROVE ShowInv'
  <2>1. UNCHANGED data /\ MarkSelectionDirty(paths)
    BY <1>8 DEF SetSelection
  <2>2. DOMAIN hydra' = DOMAIN hydra /\ \A q \in DOMAIN hydra : hydra[q] \subseteq hydra'[q]
    BY <2>1 DEF MarkSelectionDirty
  <2> QED
    BY <1>4, <2>1, <2>2
<1>9. ASSUME NEW mode \in DisplayModes, SetDisplayMode(mode) PROVE ShowInv'
  <2>1. /\ UNCHANGED data
        /\ hydra' = [p \in DOMAIN hydra |-> hydra[p] \cup {"DirtyPrimvar", "DirtyMaterialId"}]
    BY <1>9 DEF SetDisplayMode
  <2>2. DOMAIN hydra' = DOMAIN hydra /\ \A q \in DOMAIN hydra : hydra[q] \subseteq hydra'[q]
    BY <2>1
  <2> QED
    BY <1>4, <2>1, <2>2
<1> QED
  BY <1>6, <1>7, <1>8, <1>9 DEF EditStage

\* Every step keeps it.
LEMMA NextShows == EngineInv /\ Limits(LastOutput) /\ ShowInv /\ [Next]_vars => ShowInv'
<1> SUFFICES ASSUME EngineInv, Limits(LastOutput), ShowInv, [Next]_vars PROVE ShowInv'
  OBVIOUS
<1>1. CASE (\E p \in DOMAIN scene : EditMesh(p)) \/ EditStage
  BY <1>1, EditsShow
<1>2. CASE \E camera \in Cameras : Render(camera)
  BY <1>2, RenderShows
<1>3. CASE \E t \in Times, tags \in RenderTagSets : RenderToMesh(t, tags)
  <2>1. PICK t \in Times, tags \in RenderTagSets : RenderToMesh(t, tags)
    BY <1>3
  <2> DEFINE h == HydraRender(t, tags)
  <2>2. /\ data' = h.data /\ hydra' = h.hydra
        /\ cache' = h.cache /\ lastVpRenderTime' = lastVpRenderTime
    BY <2>1 DEF RenderToMesh
  <2>3. /\ InactiveAreDirty(h.data, h.hydra)
        /\ ShownIn(h.data, Outputs(h.cache, lastVpRenderTime))
    BY HydraTrace DEF ShowInv
  <2> HIDE DEF h
  <2>4. ShownIn(data', LastOutput') /\ InactiveAreDirty(data', hydra')
    BY <2>2, <2>3 DEF LastOutput
  <2> QED
    BY <2>4 DEF ShowInv, ShownIn, InactiveAreDirty
<1>4. CASE UNCHANGED vars
  BY <1>4 DEF vars, engineVars, ShowInv, ShownIn, InactiveAreDirty, LastOutput, SubsetKeys,
              SubsetAt
<1> QED
  BY <1>1, <1>2, <1>3, <1>4 DEF Next

\* The consolidated meshes of an output are the groups of the cache.
LEMMA GroupsOfOutput ==
    ASSUME NEW c, NEW t
    PROVE  /\ \A g \in Outputs(c, t).geoms : KeysOf(g) \in Groups(c)
           /\ OnlyAt(t, c) => \A group \in Groups(c) : \E g \in Outputs(c, t).geoms : group = KeysOf(g)
<1>1. Groups(c) = UNION {{KeysOf(g) : g \in c[u].geoms} : u \in DOMAIN c}
  BY DEF Groups, KeysOf
<1>2. ASSUME NEW g \in Outputs(c, t).geoms PROVE KeysOf(g) \in Groups(c)
  <2>1. t \in DOMAIN c /\ g \in c[t].geoms
    BY DEF Outputs, NewOutput
  <2> QED
    BY <1>1, <2>1
<1>3. ASSUME OnlyAt(t, c), NEW group \in Groups(c)
      PROVE  \E g \in Outputs(c, t).geoms : group = KeysOf(g)
  <2>1. PICK u \in DOMAIN c : \E g \in c[u].geoms : group = KeysOf(g)
    BY <1>1
  <2>2. u = t
    BY <1>3, <2>1 DEF OnlyAt
  <2> QED
    BY <2>1, <2>2 DEF Outputs
<1> QED
  BY <1>2, <1>3

\* Where nothing but selection bits is dirty, no time has passed, and the flagged
\* subsets of the list are those merged, UpdateConsolidation keeps all geometries
\* but those of gizmos.
LEMMA UpdateKeepsGroups ==
    ASSUME NEW D, AreRenderData(D), NEW c, NEW t, AreOutputs(c), OnlyAt(t, c),
           NEW list, IsList(list, D), NEW cfg, NEW lost,
           \A p \in ToSet(list) : \A k \in FlaggedOf(D, p) :
             SubsetAt(D, k).dirtyBits \subseteq {"DirtySelectionHighlight"},
           UNION {FlaggedOf(D, p) : p \in ToSet(list)} = Outputs(c, t).consolidated
    PROVE  \A group \in Groups(c) \ GizmoGroups(c) :
             \E g \in Outputs(UpdateConsolidation(list, D, c, cfg, t, t, lost).cache, t).geoms :
               group = KeysOf(g)
<1> DEFINE r == UpdateConsolidation(list, D, c, cfg, t, t, lost)
           out == Outputs(c, t)
           subsets == SubsetsOf(list, D)
           T == {k \in ToSet(subsets) : SubsetAt(D, k).inConsolidation}
<1>1. \A group \in Groups(c) \ GizmoGroups(c) :
        \E g \in out.geoms : group = KeysOf(g) /\ \A k \in KeysOf(g) : k[1] \notin Gizmos
  BY GroupsOfOutput DEF GizmoGroups
<1>2. /\ ToSet(Flagged(list, D)) = out.consolidated
      /\ Len(Flagged(list, D)) = Cardinality(out.consolidated)
  <2>1. Flagged(list, D) = Sift(subsets, T)
    BY DEF Flagged
  <2>2. \A p \in ToSet(list) : D[p].shadedSubsets \in Seq(SubsetRecords)
    BY DEF AreRenderData, IsRenderData, IsList
  <2>3. /\ subsets \in Seq(Paths \X Nat)
        /\ ToSet(subsets) = UNION {SubsetKeys(D, p) : p \in ToSet(list)}
        /\ IsInjective(subsets)
    BY <2>2, SubsetsOfProperties DEF IsList
  <2> HIDE DEF subsets, T
  <2>4. /\ Sift(subsets, T) \in Seq(Paths \X Nat)
        /\ ToSet(Sift(subsets, T)) = ToSet(subsets) \cap T
        /\ IsInjective(Sift(subsets, T))
    BY <2>3, SiftProperties
  <2>5. ToSet(subsets) \cap T = UNION {FlaggedOf(D, p) : p \in ToSet(list)}
    BY <2>3 DEF T, FlaggedOf
  <2> QED
    BY <2>1, <2>4, <2>5, LengthOfInjective
<1>3. \A k \in ToSet(Flagged(list, D)) :
        SubsetAt(D, k).dirtyBits \subseteq {"DirtySelectionHighlight"}
  BY <1>2
<1>4. ~MustBreak(list, D, out, cfg.strategy, t # t)
  BY <1>2, <1>3 DEF MustBreak, BreakingBits
<1>5. CASE out.geoms = {}
  BY <1>1, <1>5
<1>6. CASE out.geoms # {}
  <2> DEFINE dirty == \E k \in ToSet(Flagged(list, D)) : GizmoSelectionDirty(D, k)
             kept == IF dirty THEN UnconsolidateGizmos(list, D, out)
                     ELSE [data |-> D, out |-> out]
             UpdatedGeom(g) ==
               LET inputs == InputsFor(g, list, D, cfg.mode)
               IN UpdateVertexBuffers(g, inputs, D, lost \cap OutsideLockedRange(g, inputs))
             updated == [kept.out EXCEPT !.geoms = {UpdatedGeom(g) : g \in kept.out.geoms}]
  <2>1. r.cache = MovedTo(c, t, t, updated)
    BY <1>4, <1>6 DEF UpdateConsolidation
  <2>2. IsOutput(out)
    BY OutputsAreOutputs
  <2> HIDE DEF r, out, dirty
  <2>3. ASSUME NEW g \in out.geoms, \A k \in KeysOf(g) : k[1] \notin Gizmos
        PROVE  g \in kept.out.geoms
    <3>1. CASE ~dirty
      BY <3>1
    <3>2. CASE dirty
      <4>1. kept.out.geoms
              = {x \in out.geoms : \A n \in DOMAIN x.inputs :
                   x.inputs[n].subset \notin
                     {k \in out.consolidated : k[1] \in ToSet(list) \cap Gizmos}}
        BY <3>2 DEF UnconsolidateGizmos
      <4> QED
        BY <2>3, <4>1 DEF KeysOf
    <3> QED
      BY <3>1, <3>2
  <2>4. "geoms" \in DOMAIN kept.out
    <3>1. CASE ~dirty
      BY <2>2, <3>1 DEF IsOutput
    <3>2. CASE dirty
      BY <3>2 DEF UnconsolidateGizmos
    <3> QED
      BY <3>1, <3>2
  <2> HIDE DEF kept
  <2>5. \A g \in out.geoms : KeysOf(UpdatedGeom(g)) = KeysOf(g)
    BY <2>2, UpdatedGeomKeepsInputs DEF IsOutput
  <2> HIDE DEF UpdatedGeom
  <2>6. updated.geoms = {UpdatedGeom(g) : g \in kept.out.geoms}
    BY <2>4
  <2> HIDE DEF updated
  <2>7. Outputs(r.cache, t) = updated
    BY <2>1 DEF MovedTo, CachedAt, Outputs
  <2>8. ASSUME NEW group \in Groups(c) \ GizmoGroups(c)
        PROVE  \E g \in Outputs(r.cache, t).geoms : group = KeysOf(g)
    <3>1. PICK g \in out.geoms : group = KeysOf(g) /\ \A k \in KeysOf(g) : k[1] \notin Gizmos
      BY <1>1
    <3>2. g \in kept.out.geoms
      BY <2>3, <3>1
    <3> QED
      BY <2>5, <2>6, <2>7, <3>1, <3>2
  <2> QED
    BY <2>8 DEF r
<1> QED
  BY <1>5, <1>6

\* What is flagged after hydra's part of such a frame is what the output holds, and it
\* is listed.
LEMMA FlaggedAreMerged ==
    ASSUME EngineInv, ShowInv, OnlySelectionDirty,
           NEW D, AreRenderData(D), DOMAIN D = DOMAIN data,
           \A p \in DOMAIN data : /\ OnlySelected(data[p], D[p])
                                  /\ D[p].renderTagActive = data[p].renderTagActive
    PROVE  LET list == GetMeshRenderData(D)
           IN /\ \A p \in ToSet(list) : \A k \in FlaggedOf(D, p) :
                   SubsetAt(D, k).dirtyBits \subseteq {"DirtySelectionHighlight"}
              /\ UNION {FlaggedOf(D, p) : p \in ToSet(list)} = LastOutput.consolidated
<1> DEFINE list == GetMeshRenderData(D)
           T == {p \in DOMAIN D : D[p].renderTagActive /\ D[p].visible
                                    /\ D[p].shadedSubsets # << >>}
           out == LastOutput
<1>1. ToSet(list) = ToSet(order) \cap T /\ ToSet(order) = DOMAIN data
  <2>1. list = Sift(order, T)
    BY DEF GetMeshRenderData
  <2> HIDE DEF T
  <2>2. ToSet(Sift(order, T)) = ToSet(order) \cap T
    BY SiftProperties DEF EngineInv, OrderInv
  <2> QED
    BY <2>1, <2>2 DEF EngineInv, OrderInv
<1>2. \A p \in DOMAIN data : data[p].renderTagActive
  BY DEF ShowInv, InactiveAreDirty, OnlySelectionDirty, OnlyDirty
<1>3. ASSUME NEW p \in DOMAIN data, NEW i \in DOMAIN data[p].shadedSubsets
      PROVE  data[p].shadedSubsets[i].dirtyBits = {}
  <2>1. <<p, i>> \in SubsetKeys(data, p)
    BY DEF SubsetKeys
  <2>2. <<p, i>> \in LiveKeys
    BY <2>1 DEF LiveKeys
  <2> QED
    BY <2>2 DEF OnlySelectionDirty, SubsetAt
<1>4. \A p \in DOMAIN data : FlaggedOf(D, p) = FlaggedOf(data, p)
  <2> SUFFICES ASSUME NEW p \in DOMAIN data, NEW k
               PROVE  k \in FlaggedOf(D, p) <=> k \in FlaggedOf(data, p)
    OBVIOUS
  <2>1. OnlySelected(data[p], D[p])
    OBVIOUS
  <2> QED
    BY <2>1, FlagsByIndex DEF OnlySelected
<1>5. ASSUME NEW p \in DOMAIN data, NEW k \in FlaggedOf(D, p)
      PROVE  SubsetAt(D, k).dirtyBits \subseteq {"DirtySelectionHighlight"}
  <2>1. PICK i \in DOMAIN D[p].shadedSubsets : k = <<p, i>>
    BY FlagsByIndex
  <2>2. OnlySelected(data[p], D[p])
    OBVIOUS
  <2>3. i \in DOMAIN data[p].shadedSubsets
    BY <2>1, <2>2 DEF OnlySelected
  <2> QED
    BY <1>3, <2>1, <2>2, <2>3 DEF OnlySelected, SubsetAt
<1>6. ASSUME NEW k \in out.consolidated
      PROVE  k[1] \in ToSet(list) /\ k \in FlaggedOf(D, k[1])
  <2>1. PICK p \in DOMAIN data : k \in SubsetKeys(data, p)
    BY DEF OnlySelectionDirty, LiveKeys
  <2>2. PICK i \in DOMAIN data[p].shadedSubsets : k = <<p, i>>
    BY <2>1, FlagsByIndex
  <2>3. k[1] = p /\ k[2] = i
    BY <2>2
  <2>4. data[p].shadedSubsets[i].dirtyBits = {}
    BY <1>3, <2>2
  <2>5. data[p].shadedSubsets[i].inConsolidation /\ data[p].visible
    BY <2>1, <2>3, <2>4 DEF ShowInv, ShownIn, SubsetAt
  <2>6. k \in FlaggedOf(data, p)
    BY <2>2, <2>5, FlagsByIndex
  <2>7. D[p].visible /\ i \in DOMAIN D[p].shadedSubsets
    BY <2>2, <2>5 DEF OnlySelected
  <2>8. p \in T
    <3>1. D[p].shadedSubsets # << >>
      BY <2>7
    <3> QED
      BY <1>2, <2>7, <3>1
  <2> QED
    BY <1>1, <1>4, <2>3, <2>6, <2>8
<1>7. ASSUME NEW p \in DOMAIN data, NEW k \in FlaggedOf(D, p)
      PROVE  k \in out.consolidated
  <2>1. Backed(data, p, out) /\ k \in FlaggedOf(data, p)
    BY <1>4 DEF EngineInv, DataInv, Agree, AreBacked, LastOutput
  <2>2. CASE FlaggedOf(data, p) \subseteq out.consolidated
    BY <2>1, <2>2
  <2>3. CASE /\ Len(data[p].shadedSubsets) <= 1
             /\ \E l \in out.consolidated : l[1] = p
    <3>1. PICK l \in out.consolidated : l[1] = p
      BY <2>3
    <3>2. l \in FlaggedOf(data, p)
      BY <1>4, <1>6, <3>1
    <3>3. DOMAIN data[p].shadedSubsets \subseteq {1}
      <4>1. data[p].shadedSubsets \in Seq(SubsetRecords)
        BY DEF EngineInv, DataInv, Agree, AreRenderData, IsRenderData
      <4> QED
        BY <2>3, <4>1
    <3>4. k = l
      BY <2>1, <3>2, <3>3, FlagsByIndex
    <3> QED
      BY <3>1, <3>4
  <2> QED
    BY <2>1, <2>2, <2>3 DEF Backed
<1> HIDE DEF list, T, out
<1>8. ToSet(list) \subseteq DOMAIN data
  BY <1>1
<1>9. \A p \in ToSet(list) : \A k \in FlaggedOf(D, p) :
        SubsetAt(D, k).dirtyBits \subseteq {"DirtySelectionHighlight"}
  BY <1>5, <1>8
<1>10. UNION {FlaggedOf(D, p) : p \in ToSet(list)} = out.consolidated
  BY <1>6, <1>7, <1>8
<1> QED
  BY <1>9, <1>10 DEF list, out

\* A frame after nothing but the selection has changed.
LEMMA RenderKeepsGroups ==
    ASSUME EngineInv, ShowInv, OnlySelectionDirty, SameView, SameTime,
           NEW camera, Render(camera)
    PROVE  Groups(cache) \ GizmoGroups(cache) \subseteq Groups(cache')
<1> DEFINE h == HydraRender(camera.time, camera.tags)
           list == GetMeshRenderData(h.data)
<1>1. /\ renderTags' = camera.tags /\ sceneTime' = camera.time
      /\ \/ RenderNothing(h, camera)
         \/ \E setting, elapsed, lost :
              RenderList(h, list, ConfigOf(setting), camera, elapsed, lost)
  BY DEF Render
<1>2. camera.tags = renderTags /\ ~authoredTagsChanged /\ config' = config
  BY <1>1 DEF SameView
<1>3. h.cache = cache \/ camera.tags # renderTags
  BY DEF HydraRender, PrepareBatch
<1>4. /\ DOMAIN h.data = DOMAIN data /\ AreRenderData(h.data)
      /\ Agree(h.data, h.cache, lastVpRenderTime)
  BY HydraAgrees DEF Agree
<1>5. camera.time = sceneTime => \A p \in DOMAIN data :
        /\ OnlySelected(data[p], h.data[p])
        /\ h.data[p].renderTagActive = data[p].renderTagActive
  BY <1>2, HydraTrace DEF ShowInv, OnlySelectionDirty
<1> HIDE DEF h
<1>6. IsList(list, h.data)
  BY <1>4, ListOfMeshes
<1>7. CASE RenderNothing(h, camera)
  <2>1. cache' = h.cache
    BY <1>7 DEF RenderNothing
  <2> QED
    BY <1>2, <1>3, <2>1
<1>8. ASSUME NEW setting, NEW elapsed, NEW lost,
             RenderList(h, list, ConfigOf(setting), camera, elapsed, lost)
      PROVE  Groups(cache) \ GizmoGroups(cache) \subseteq Groups(cache')
  <2> DEFINE cfg == ConfigOf(setting)
             t == camera.time
             u == UpdateConsolidation(list, h.data, cache, cfg, t, t, lost)
             made == BuildConsolidation(list, u.data, u.cache, cfg.mode, t)
             c == Consolidate(list, h.data, cache, cfg, t, elapsed, lost)
  <2>1. cache' = c.cache /\ lastVpRenderTime' = t /\ config' = cfg
    BY <1>2, <1>3, <1>8 DEF RenderList
  <2>2. t = sceneTime /\ t = lastVpRenderTime /\ cfg = config
    BY <1>1, <1>2, <2>1 DEF SameTime
  <2>3. /\ \A p \in ToSet(list) : \A k \in FlaggedOf(h.data, p) :
             SubsetAt(h.data, k).dirtyBits \subseteq {"DirtySelectionHighlight"}
        /\ UNION {FlaggedOf(h.data, p) : p \in ToSet(list)} = LastOutput.consolidated
    BY <1>4, <1>5, <2>2, FlaggedAreMerged
  <2>4. /\ Agree(h.data, cache, t) /\ AreOutputs(cache) /\ OnlyAt(t, cache)
        /\ LastOutput = Outputs(cache, t)
    BY <1>2, <1>3, <1>4, <2>2 DEF EngineInv, OneConsolidation, OnlyAt, Agree, LastOutput
  <2>5. Updated(list, h.data, cache, cfg, t, lost) = u
    BY <2>2 DEF Updated
  <2>6. c.cache = u.cache \/ c.cache = made.cache
    BY <2>5 DEF Consolidate
  <2> HIDE DEF cfg, t, list
  <2>7. \A group \in Groups(cache) \ GizmoGroups(cache) :
          \E g \in Outputs(u.cache, t).geoms : group = KeysOf(g)
    BY <1>4, <1>6, <2>3, <2>4, UpdateKeepsGroups
  <2>8. Outputs(u.cache, t).geoms \subseteq Outputs(made.cache, t).geoms
    BY BuildAdds
  <2> HIDE DEF u, made, c
  <2>9. \A group \in Groups(cache) \ GizmoGroups(cache) :
          \E g \in Outputs(c.cache, t).geoms : group = KeysOf(g)
    BY <2>6, <2>7, <2>8
  <2> QED
    BY <2>1, <2>9, GroupsOfOutput
<1> QED
  BY <1>1, <1>7, <1>8

\* Edits and syncs leave the cache, or look after other bits.
LEMMA NextKeepsGroups ==
    EngineInv /\ ShowInv /\ [Next]_vars
      => (OnlySelectionDirty /\ SameView /\ SameTime
            => Groups(cache) \ GizmoGroups(cache) \subseteq Groups(cache'))
<1> SUFFICES ASSUME EngineInv, ShowInv, [Next]_vars, OnlySelectionDirty, SameView, SameTime
             PROVE  Groups(cache) \ GizmoGroups(cache) \subseteq Groups(cache')
  OBVIOUS
<1>1. CASE cache' = cache
  BY <1>1
<1>2. CASE (\E p \in DOMAIN scene : EditMesh(p)) \/ EditStage
  BY <1>1, <1>2, EditsLeaveTheCache
<1>3. CASE \E camera \in Cameras : Render(camera)
  BY <1>3, RenderKeepsGroups
<1>4. CASE \E t \in Times, tags \in RenderTagSets : RenderToMesh(t, tags)
  <2>1. PICK t \in Times, tags \in RenderTagSets : RenderToMesh(t, tags)
    BY <1>4
  <2>2. cache' = HydraRender(t, tags).cache /\ tags = renderTags
    BY <2>1 DEF RenderToMesh, SameView
  <2>3. HydraRender(t, tags).cache = cache
    BY <2>2 DEF HydraRender, PrepareBatch
  <2> QED
    BY <1>1, <2>2, <2>3
<1>5. CASE UNCHANGED vars
  BY <1>1, <1>5 DEF vars, engineVars
<1> QED
  BY <1>2, <1>3, <1>4, <1>5 DEF Next

\* A frame drawn at the same time after nothing but the selection has changed keeps the
\* consolidated meshes but those of gizmos: the flagged subsets of the list are those of
\* the output, and no selection bit breaks them (UpdateConsolidation).
THEOREM SelectionLeavesConsolidation ==
    ASSUME StableSubsets
    PROVE  Spec => SelectionKeepsConsolidation
<1> DEFINE Inv == EngineInv /\ Limits(LastOutput) /\ ShowInv
           Kept == OnlySelectionDirty /\ SameView /\ SameTime
                     => Groups(cache) \ GizmoGroups(cache) \subseteq Groups(cache')
<1>1. Init => Inv
  <2>1. Init => LastOutput.geoms = {}
    BY DEF Init, LastOutput, Outputs, NewOutput
  <2> QED
    BY <2>1, InitHolds, InitShows DEF Limits
<1>2. Inv /\ [Next]_vars => Inv'
  BY NextKeeps, NextLimits, NextShows DEF Limits
<1>3. Inv /\ [Next]_vars => [Kept]_vars
  BY NextKeepsGroups
<1> QED
  BY <1>1, <1>2, <1>3, PTL DEF Spec, SelectionKeepsConsolidation

-----------------------------------------------------------------------------
(* Types, whatever the edits. *)

\* The data are those of the same meshes, and nothing is cached for another time.
Typed(D, c, E, e, t) ==
    /\ AreRenderData(E) /\ DOMAIN E = DOMAIN D
    /\ DOMAIN e \subseteq DOMAIN c \cup {t}

\* What the consolidator does to subsets leaves them subsets.
LEMMA MappedTypes ==
    ASSUME NEW D, AreRenderData(D), NEW keys
    PROVE  LET Flag(s) == [s EXCEPT !.inConsolidation = TRUE]
               Same(E) == AreRenderData(E) /\ DOMAIN E = DOMAIN D
           IN /\ Same(MapSubsets(D, keys, Released))
              /\ Same(MapSubsets(D, keys, Flag))
              /\ Same(MapSubsets(D, keys, Clean))
<1> DEFINE Flag(s) == [s EXCEPT !.inConsolidation = TRUE]
           E == MapSubsets(D, keys, Flag)
<1>1. /\ SameMeshes(D, MapSubsets(D, keys, Released))
      /\ SameMeshes(D, E)
      /\ SameMeshes(D, MapSubsets(D, keys, Clean))
  BY ReleasedSubsets, FlaggedSubsets, CleanedSubsets
<1> HIDE DEF E
<1>2. \A F : SameMeshes(D, F) => AreRenderData(F) /\ DOMAIN F = DOMAIN D
  BY SameAreRenderData DEF SameMeshes
<1> QED
  BY <1>1, <1>2 DEF E

\* Reset and UpdateConsolidation.
LEMMA UpdatedTypes ==
    ASSUME NEW D, AreRenderData(D), NEW c, NEW list, NEW cfg, NEW t, NEW lost
    PROVE  /\ Typed(D, c, Reset(D, c).data, Reset(D, c).cache, t)
           /\ LET now == Updated(list, D, c, cfg, t, lost)
              IN Typed(D, c, now.data, now.cache, t)
<1> DEFINE u == UpdateConsolidation(list, D, c, cfg, lastVpRenderTime, t, lost)
           gizmos == UNION {SubsetKeys(D, p) : p \in ToSet(list) \cap Gizmos}
           offered == UNION {ToSet(c[v].source) : v \in DOMAIN c}
           HandedBack(keys) == MapSubsets(D, keys, Released)
<1>1. Reset(D, c).data = HandedBack(offered) /\ DOMAIN Reset(D, c).cache = {}
  BY DEF Reset
<1>2. \A out : UnconsolidateGizmos(list, D, out).data = HandedBack(gizmos)
  BY DEF UnconsolidateGizmos
<1>3. \/ u.data = D /\ u.cache = c
      \/ u = Reset(D, c)
      \/ \E out, new : /\ u.data = D \/ u.data = UnconsolidateGizmos(list, D, out).data
                       /\ u.cache = MovedTo(c, lastVpRenderTime, t, new)
  BY DEF UpdateConsolidation
<1>4. \A new : DOMAIN MovedTo(c, lastVpRenderTime, t, new) \subseteq DOMAIN c \cup {t}
  BY DEF MovedTo, CachedAt
<1> HIDE DEF u, gizmos, offered
<1>5. \A keys : AreRenderData(HandedBack(keys)) /\ DOMAIN HandedBack(keys) = DOMAIN D
  BY MappedTypes
<1> HIDE DEF HandedBack
<1>6. Typed(D, c, Reset(D, c).data, Reset(D, c).cache, t)
  BY <1>1, <1>5 DEF Typed
<1>7. Typed(D, c, u.data, u.cache, t)
  <2>1. CASE u.data = D /\ u.cache = c
    BY <2>1 DEF Typed
  <2>2. CASE u = Reset(D, c)
    BY <1>6, <2>2
  <2>3. ASSUME NEW out, NEW new, u.data = D \/ u.data = UnconsolidateGizmos(list, D, out).data,
               u.cache = MovedTo(c, lastVpRenderTime, t, new)
        PROVE  Typed(D, c, u.data, u.cache, t)
    <3>1. AreRenderData(u.data) /\ DOMAIN u.data = DOMAIN D
      BY <1>2, <1>5, <2>3
    <3> QED
      BY <1>4, <2>3, <3>1 DEF Typed
  <2> QED
    BY <1>3, <2>1, <2>2, <2>3
<1> QED
  BY <1>6, <1>7 DEF Updated, u

\* Consolidate.
LEMMA ConsolidateTypes ==
    ASSUME NEW D, AreRenderData(D), NEW c, NEW list, NEW cfg, NEW t, NEW elapsed, NEW lost
    PROVE  LET r == Consolidate(list, D, c, cfg, t, elapsed, lost)
           IN Typed(D, c, r.data, r.cache, t)
<1> DEFINE now == Updated(list, D, c, cfg, t, lost)
           made == BuildConsolidation(list, now.data, now.cache, cfg.mode, t)
           r == Consolidate(list, D, c, cfg, t, elapsed, lost)
           Cleaned(d, keys) == MapSubsets(d, keys, Clean)
<1>1. \/ r.data = now.data /\ r.cache = now.cache
      \/ \E keys : r.data = Cleaned(now.data, keys) /\ r.cache = now.cache
      \/ \E keys : r.data = Cleaned(made.data, keys) /\ r.cache = made.cache
  <2> DEFINE builds == /\ cfg.strategy # "Off"
                       /\ IsStatic(cfg, t, elapsed) \/ cfg.strategy = "Dynamic"
                       /\ ~(t \in DOMAIN now.cache
                              /\ IsSameSourceData(now.cache[t], list, now.data))
             built == IF builds THEN made ELSE now
             outs == {built.cache[u] : u \in {t} \cap DOMAIN built.cache}
             keys == UNION {out.consolidated : out \in outs}
  <2>1. r = IF cfg.strategy = "Off"
            THEN [data |-> now.data, cache |-> now.cache, outs |-> {}]
            ELSE [data |-> Cleaned(built.data, keys), cache |-> built.cache, outs |-> outs]
    BY DEF Consolidate
  <2>2. built = made \/ built = now
    OBVIOUS
  <2> HIDE DEF built, outs, keys, now, made, r, Cleaned
  <2> QED
    BY <2>1, <2>2
<1> DEFINE Flag(s) == [s EXCEPT !.inConsolidation = TRUE]
<1>2. Typed(D, c, now.data, now.cache, t)
  BY UpdatedTypes
<1>3. \E keys : made.data = MapSubsets(now.data, keys, Flag)
  BY DEF BuildConsolidation
<1>4. DOMAIN made.cache \subseteq DOMAIN now.cache \cup {t}
  BY DEF BuildConsolidation, CachedAt
<1> HIDE DEF now, r, made
<1>5. Typed(D, c, made.data, made.cache, t)
  <2> DEFINE Marked(keys) == MapSubsets(now.data, keys, Flag)
  <2>1. \A keys : AreRenderData(Marked(keys)) /\ DOMAIN Marked(keys) = DOMAIN now.data
    BY <1>2, MappedTypes DEF Typed
  <2> HIDE DEF Marked
  <2>2. \E keys : made.data = Marked(keys)
    BY <1>3 DEF Marked
  <2> QED
    BY <1>2, <1>4, <2>1, <2>2 DEF Typed
<1>6. ASSUME NEW E, NEW e, Typed(D, c, E, e, t), NEW keys
      PROVE  Typed(D, c, Cleaned(E, keys), e, t)
  <2>1. AreRenderData(Cleaned(E, keys)) /\ DOMAIN Cleaned(E, keys) = DOMAIN E
    BY <1>6, MappedTypes DEF Typed
  <2> HIDE DEF Cleaned
  <2> QED
    BY <1>6, <2>1 DEF Typed
<1> HIDE DEF Cleaned
<1>7. Typed(D, c, r.data, r.cache, t)
  BY <1>1, <1>2, <1>5, <1>6
<1> QED
  BY <1>7 DEF r

-----------------------------------------------------------------------------
SceneTypes ==
    /\ DOMAIN scene \subseteq Paths
    /\ \A p \in DOMAIN scene : "binding" \in DOMAIN scene[p] /\ IsBinding(scene[p].binding)

\* The bits hydra keeps of every rprim.
AreBits(h) == DOMAIN h = DOMAIN scene /\ \A p \in DOMAIN scene : h[p] \subseteq HydraBits

MeshTypes == SceneTypes /\ OrderInv /\ AreBits(hydra) /\ AreRenderData(data)

ViewTypes ==
    /\ selection \subseteq Paths
    /\ displayMode \in {"USDPreviewSurface", "USDDisplayColor", "WireColor"}

FrameTypes ==
    /\ DOMAIN cache \subseteq Times
    /\ lastVpRenderTime \in Times /\ sceneTime \in Times
    /\ config.strategy \in Strategies

TypeInv == MeshTypes /\ ViewTypes /\ FrameTypes

\* A sync leaves bits of hydra's.
LEMMA SyncedBits ==
    ASSUME NEW d, NEW bits, bits \subseteq HydraBits, NEW prim, NEW selected, NEW mode, NEW t
    PROVE  Sync(d, bits, prim, selected, mode, t).bits \subseteq HydraBits
<1> DEFINE all == PropagateDirtyBits(bits)
<1>1. all \subseteq HydraBits
  BY DEF PropagateDirtyBits, HydraBits
<1>2. \/ Sync(d, bits, prim, selected, mode, t).bits = bits
      \/ Sync(d, bits, prim, selected, mode, t).bits = all \ {"DirtyTopology"}
      \/ Sync(d, bits, prim, selected, mode, t).bits = {}
  BY DEF Sync
<1> HIDE DEF all
<1> QED
  BY <1>1, <1>2

\* Hydra's part of a frame.
LEMMA HydraTypes ==
    ASSUME MeshTypes, NEW t, NEW tags
    PROVE  LET h == HydraRender(t, tags)
           IN /\ AreRenderData(h.data) /\ DOMAIN h.data = DOMAIN data
              /\ AreBits(h.hydra)
              /\ DOMAIN h.cache \subseteq DOMAIN cache
<1> DEFINE prepared == PrepareBatch(tags)
           flipped == ApplyActiveRenderTags(prepared.data, tags)
           active == [p \in DOMAIN data |->
                        IF p \in flipped
                        THEN [prepared.data[p] EXCEPT !.renderTagActive = ~@]
                        ELSE prepared.data[p]]
           marked == [p \in DOMAIN hydra |-> IF p \in flipped THEN HydraBits ELSE hydra[p]]
           bits == SetTime(marked, t)
           synced == RenderBatch(active, bits, t, tags)
           h == HydraRender(t, tags)
<1>1. /\ h.data = [p \in DOMAIN synced |-> synced[p].data]
      /\ h.hydra = [p \in DOMAIN synced |-> synced[p].bits]
      /\ h.cache = prepared.cache
  BY DEF HydraRender
<1>2. DOMAIN data = DOMAIN scene /\ AreRenderData(data) /\ AreBits(hydra)
  BY DEF MeshTypes, OrderInv
<1>3. /\ AreRenderData(prepared.data) /\ DOMAIN prepared.data = DOMAIN data
      /\ DOMAIN prepared.cache \subseteq DOMAIN cache
  <2>1. prepared = [data |-> data, cache |-> cache] \/ prepared = Reset(data, cache)
    BY DEF PrepareBatch
  <2>2. Typed(data, cache, Reset(data, cache).data, Reset(data, cache).cache, t)
    BY <1>2, UpdatedTypes
  <2>3. DOMAIN Reset(data, cache).cache = {}
    BY DEF Reset
  <2> HIDE DEF prepared
  <2> QED
    BY <1>2, <2>1, <2>2, <2>3 DEF Typed
<1>4. DOMAIN synced = DOMAIN data /\ DOMAIN active = DOMAIN data
  BY DEF RenderBatch
<1>5. \A p \in DOMAIN data : bits[p] \subseteq HydraBits
  <2>1. \A p \in DOMAIN data : marked[p] \subseteq HydraBits
    BY <1>2 DEF AreBits
  <2>2. DOMAIN marked = DOMAIN data
    BY <1>2 DEF AreBits
  <2> HIDE DEF marked
  <2>3. {"DirtyPoints"} \subseteq HydraBits
    BY DEF HydraBits
  <2> QED
    BY <2>1, <2>2, <2>3 DEF SetTime
<1> HIDE DEF prepared, h
<1>6. ASSUME NEW p \in DOMAIN data
      PROVE  IsRenderData(active[p])
  <2>1. IsRenderData(prepared.data[p])
    BY <1>3 DEF AreRenderData
  <2>2. CASE p \notin flipped
    BY <2>1, <2>2
  <2>3. CASE p \in flipped
    <3>1. active[p] = [prepared.data[p] EXCEPT !.renderTagActive = ~@]
      BY <2>3
    <3> HIDE DEF active, flipped
    <3>2. /\ DOMAIN active[p] = DOMAIN prepared.data[p]
          /\ active[p].shadedSubsets = prepared.data[p].shadedSubsets
      BY <2>1, <3>1 DEF IsRenderData
    <3> QED
      BY <2>1, <3>2 DEF IsRenderData
  <2> QED
    BY <2>2, <2>3
<1> HIDE DEF active, bits, flipped, marked
<1>7. ASSUME NEW p \in DOMAIN data
      PROVE  IsRenderData(synced[p].data) /\ synced[p].bits \subseteq HydraBits
  <2>1. IsRenderData(active[p]) /\ IsBinding(scene[p].binding) /\ IsFiniteSet(Faces)
    BY <1>2, <1>6, SceneAssumption DEF SceneAssumption, MeshTypes, SceneTypes
  <2>2. CASE HasTagIn(p, tags) /\ bits[p] # {}
    <3>1. synced[p] = Sync(active[p], bits[p], scene[p], p \in selection, displayMode, t)
      BY <1>4, <2>2 DEF RenderBatch
    <3>2. synced[p].bits \subseteq HydraBits
      BY <1>5, <3>1, SyncedBits
    <3>3. \/ KeepsFlags(active[p], synced[p].data)
          \/ RebuiltFor(active[p], synced[p].data, scene[p].binding)
      BY <2>1, <3>1, SyncKeepsOrRebuilds
    <3> QED
      BY <3>2, <3>3 DEF KeepsFlags, RebuiltFor
  <2>3. CASE ~(HasTagIn(p, tags) /\ bits[p] # {})
    <3>1. synced[p].data = active[p] /\ synced[p].bits = bits[p]
      BY <1>4, <2>3 DEF RenderBatch
    <3> QED
      BY <1>5, <2>1, <3>1
  <2> QED
    BY <2>2, <2>3
<1> HIDE DEF synced
<1>8. /\ DOMAIN h.data = DOMAIN data /\ DOMAIN h.hydra = DOMAIN data
      /\ \A p \in DOMAIN data : h.data[p] = synced[p].data /\ h.hydra[p] = synced[p].bits
  BY <1>1, <1>4
<1>9. /\ AreRenderData(h.data) /\ DOMAIN h.data = DOMAIN data
      /\ AreBits(h.hydra)
      /\ DOMAIN h.cache \subseteq DOMAIN cache
  BY <1>1, <1>2, <1>3, <1>7, <1>8 DEF AreRenderData, AreBits
<1> QED
  BY <1>9 DEF h

\* When the scene and the vector stay, and hydra only marks bits of its own.
LEMMA MeshTypesKept ==
    ASSUME MeshTypes, UNCHANGED <<scene, order>>, AreBits(hydra'),
           AreRenderData(data'), DOMAIN data' = DOMAIN data
    PROVE  MeshTypes'
  BY DEF MeshTypes, SceneTypes, OrderInv, AreBits, AreRenderData

\* A frame and RenderToMesh keep the types.
LEMMA RenderTypes ==
    ASSUME TypeInv, NEW camera \in Cameras, Render(camera)
    PROVE  TypeInv'
<1> DEFINE h == HydraRender(camera.time, camera.tags)
           list == GetMeshRenderData(h.data)
<1>1. /\ UNCHANGED <<scene, selection, displayMode, order>>
      /\ hydra' = h.hydra /\ sceneTime' = camera.time
      /\ \/ RenderNothing(h, camera)
         \/ \E setting \in Configs : \E elapsed, lost :
              RenderList(h, list, ConfigOf(setting), camera, elapsed, lost)
  BY DEF Render, sceneVars
<1>2. /\ AreRenderData(h.data) /\ DOMAIN h.data = DOMAIN data /\ AreBits(h.hydra)
      /\ DOMAIN h.cache \subseteq DOMAIN cache
  BY HydraTypes DEF TypeInv
<1>3. camera.time \in Times
  BY DEF Cameras
<1> HIDE DEF h, list
<1>4. /\ AreRenderData(data') /\ DOMAIN data' = DOMAIN data
      /\ DOMAIN cache' \subseteq Times /\ lastVpRenderTime' \in Times
      /\ config'.strategy \in Strategies
  <2>1. CASE RenderNothing(h, camera)
    BY <1>2, <2>1 DEF RenderNothing, TypeInv, FrameTypes
  <2>2. ASSUME NEW setting \in Configs, NEW elapsed, NEW lost,
               RenderList(h, list, ConfigOf(setting), camera, elapsed, lost)
        PROVE  /\ AreRenderData(data') /\ DOMAIN data' = DOMAIN data
               /\ DOMAIN cache' \subseteq Times /\ lastVpRenderTime' \in Times
               /\ config'.strategy \in Strategies
    <3> DEFINE cfg == ConfigOf(setting)
               c == Consolidate(list, h.data, h.cache, cfg, camera.time, elapsed, lost)
               alone == DrawnAlone(list, c.data, c.outs, camera.view)
    <3>1. /\ cache' = c.cache
          /\ data' = [p \in DOMAIN c.data |->
                        IF p \in alone THEN UpdateRenderGeometry(c.data[p]) ELSE c.data[p]]
          /\ config' = cfg /\ lastVpRenderTime' = camera.time
      BY <2>2 DEF RenderList
    <3>2. cfg.strategy \in Strategies
      BY EngineAssumption DEF EngineAssumption, ConfigOf
    <3> HIDE DEF cfg
    <3>3. Typed(h.data, h.cache, c.data, c.cache, camera.time)
      BY <1>2, ConsolidateTypes
    <3> HIDE DEF c, alone
    <3>4. \A p \in DOMAIN c.data : IsRenderData(UpdateRenderGeometry(c.data[p]))
      BY <3>3, UpdateRenderGeometryKeeps DEF Typed, AreRenderData, KeepsFlags
    <3>5. AreRenderData(data') /\ DOMAIN data' = DOMAIN data
      BY <1>2, <3>1, <3>3, <3>4 DEF Typed, AreRenderData
    <3> QED
      BY <1>2, <1>3, <3>1, <3>2, <3>3, <3>5 DEF Typed, TypeInv, FrameTypes
  <2> QED
    BY <1>1, <2>1, <2>2
<1>5. MeshTypes'
  BY <1>1, <1>2, <1>4, MeshTypesKept DEF TypeInv
<1>6. ViewTypes' /\ FrameTypes'
  BY <1>1, <1>3, <1>4 DEF TypeInv, ViewTypes, FrameTypes
<1> QED
  BY <1>5, <1>6 DEF TypeInv

LEMMA RenderToMeshTypes ==
    ASSUME TypeInv, NEW t \in Times, NEW tags, RenderToMesh(t, tags)
    PROVE  TypeInv'
<1> DEFINE h == HydraRender(t, tags)
<1>1. /\ UNCHANGED <<scene, selection, displayMode, order, config, lastVpRenderTime>>
      /\ data' = h.data /\ hydra' = h.hydra /\ cache' = h.cache /\ sceneTime' = t
  BY DEF RenderToMesh, sceneVars
<1>2. /\ AreRenderData(h.data) /\ DOMAIN h.data = DOMAIN data /\ AreBits(h.hydra)
      /\ DOMAIN h.cache \subseteq DOMAIN cache
  BY HydraTypes DEF TypeInv
<1> HIDE DEF h
<1>3. MeshTypes'
  BY <1>1, <1>2, MeshTypesKept DEF TypeInv
<1>4. ViewTypes' /\ FrameTypes'
  BY <1>1, <1>2 DEF TypeInv, ViewTypes, FrameTypes
<1> QED
  BY <1>3, <1>4 DEF TypeInv

\* Hydra's bits are set, never made.
LEMMA MarkedBits ==
    ASSUME AreBits(hydra), NEW p \in DOMAIN scene, NEW bits, bits \subseteq HydraBits,
           MarkRprimDirty(p, bits)
    PROVE  AreBits(hydra')
  BY DEF AreBits, MarkRprimDirty

\* What edits leave.
LEMMA EngineLeft ==
    ASSUME TypeInv, UNCHANGED <<selection, displayMode, sceneTime, cache, config, lastVpRenderTime>>
    PROVE  ViewTypes' /\ FrameTypes'
  BY DEF TypeInv, ViewTypes, FrameTypes

\* An attribute is set.
LEMMA EditPrimTypes ==
    ASSUME TypeInv, NEW p \in DOMAIN scene, NEW field, NEW value, NEW bits,
           field = "binding" => IsBinding(value), bits \subseteq HydraBits,
           EditPrim(p, field, value, bits)
    PROVE  TypeInv'
<1>1. /\ scene' = [scene EXCEPT ![p] = [@ EXCEPT ![field] = value]]
      /\ MarkRprimDirty(p, bits)
      /\ UNCHANGED <<order, data>>
      /\ UNCHANGED <<selection, displayMode, sceneTime, cache, config, lastVpRenderTime>>
  BY DEF EditPrim, engineVars
<1>2. AreBits(hydra') /\ DOMAIN scene' = DOMAIN scene
  BY <1>1, MarkedBits DEF TypeInv, MeshTypes
<1>3. ASSUME NEW q \in DOMAIN scene
      PROVE  "binding" \in DOMAIN scene'[q] /\ IsBinding(scene'[q].binding)
  <2>1. "binding" \in DOMAIN scene[q] /\ IsBinding(scene[q].binding)
    BY DEF TypeInv, MeshTypes, SceneTypes
  <2>2. \/ scene'[q] = scene[q]
        \/ scene'[q] = [scene[q] EXCEPT ![field] = value]
    BY <1>1
  <2> QED
    BY <2>1, <2>2
<1>4. MeshTypes'
  BY <1>1, <1>2, <1>3 DEF TypeInv, MeshTypes, SceneTypes, OrderInv, AreBits, AreRenderData
<1> QED
  BY <1>1, <1>4, EngineLeft DEF TypeInv

\* An edit of a mesh keeps the types.
LEMMA EditMeshTypes ==
    ASSUME TypeInv, NEW p \in DOMAIN scene, EditMesh(p)
    PROVE  TypeInv'
<1>1. /\ {"DirtyPoints"} \subseteq HydraBits /\ {"DirtyVisibility"} \subseteq HydraBits
      /\ {"DirtyPrimvar"} \subseteq HydraBits /\ {"DirtyTopology"} \subseteq HydraBits
      /\ {"DirtyInstanceIndex"} \subseteq HydraBits
  BY DEF HydraBits
<1>2. ASSUME NEW a \in Animations, SetPoints(p, a) PROVE TypeInv'
  BY <1>1, <1>2, EditPrimTypes DEF SetPoints
<1>3. ASSUME NEW visible \in BOOLEAN, SetVisible(p, visible) PROVE TypeInv'
  BY <1>1, <1>3, EditPrimTypes DEF SetVisible
<1>4. ASSUME NEW c \in Colors, SetDisplayColor(p, c) PROVE TypeInv'
  BY <1>1, <1>4, EditPrimTypes DEF SetDisplayColor
<1>5. ASSUME NEW b \in Bindings, SetBinding(p, b) PROVE TypeInv'
  <2>1. IsBinding(b)
    BY SceneAssumption DEF SceneAssumption
  <2> QED
    BY <1>1, <1>5, <2>1, EditPrimTypes DEF SetBinding
<1>6. ASSUME NEW tag \in RenderTags, SetRenderTag(p, tag) PROVE TypeInv'
  <2>1. /\ scene' = [scene EXCEPT ![p].tag = tag]
        /\ UNCHANGED <<hydra, order, data>>
        /\ UNCHANGED <<selection, displayMode, sceneTime, cache, config, lastVpRenderTime>>
    BY <1>6 DEF SetRenderTag
  <2>2. DOMAIN scene' = DOMAIN scene
    BY <2>1
  <2>3. ASSUME NEW q \in DOMAIN scene
        PROVE  "binding" \in DOMAIN scene'[q] /\ IsBinding(scene'[q].binding)
    BY <2>1 DEF TypeInv, MeshTypes, SceneTypes
  <2>4. MeshTypes'
    BY <2>1, <2>2, <2>3 DEF TypeInv, MeshTypes, SceneTypes, OrderInv, AreBits, AreRenderData
  <2> QED
    BY <2>1, <2>4, EngineLeft DEF TypeInv
<1>7. CASE EditInstances(p)
  <2>1. /\ UNCHANGED <<scene, order, data>> /\ MarkRprimDirty(p, {"DirtyInstanceIndex"})
        /\ UNCHANGED <<selection, displayMode, sceneTime, cache, config, lastVpRenderTime>>
    BY <1>7 DEF EditInstances, sceneVars, engineVars
  <2>2. AreBits(hydra')
    BY <1>1, <2>1, MarkedBits DEF TypeInv, MeshTypes
  <2>3. MeshTypes'
    BY <2>1, <2>2, MeshTypesKept DEF TypeInv, MeshTypes
  <2> QED
    BY <2>1, <2>3, EngineLeft DEF TypeInv
<1>8. CASE DestroyRprim(p)
  <2>1. /\ scene' = [q \in DOMAIN scene \ {p} |-> scene[q]]
        /\ hydra' = [q \in DOMAIN scene \ {p} |-> hydra[q]]
        /\ data' = [q \in DOMAIN scene \ {p} |-> data[q]]
        /\ UNCHANGED <<selection, displayMode, sceneTime, cache, config, lastVpRenderTime>>
    BY <1>8 DEF DestroyRprim, engineVars
  <2>2. OrderInv'
    BY <1>8, DestroyOrders DEF TypeInv, MeshTypes
  <2>3. SceneTypes'
    BY <2>1 DEF TypeInv, MeshTypes, SceneTypes
  <2>4. AreBits(hydra)' /\ AreRenderData(data)'
    BY <2>1 DEF TypeInv, MeshTypes, OrderInv, AreBits, AreRenderData
  <2> QED
    BY <2>1, <2>2, <2>3, <2>4, EngineLeft DEF TypeInv, MeshTypes
<1> QED
  BY <1>2, <1>3, <1>4, <1>5, <1>6, <1>7, <1>8 DEF EditMesh

\* So does an edit of the stage.
LEMMA EditStageTypes ==
    ASSUME TypeInv, EditStage
    PROVE  TypeInv'
<1>1. ASSUME NEW p \in Paths, CreateRprim(p) PROVE TypeInv'
  <2>1. /\ scene' = With(scene, p, FirstPrim[p])
        /\ hydra' = With(hydra, p, HydraBits)
        /\ data' = With(data, p, NewRenderData)
        /\ UNCHANGED <<selection, displayMode, sceneTime, cache, config, lastVpRenderTime>>
    BY <1>1 DEF CreateRprim, engineVars
  <2>2. OrderInv'
    BY <1>1, CreateOrders DEF TypeInv, MeshTypes
  <2>3. SceneTypes'
    BY <2>1, SceneAssumption DEF SceneAssumption, TypeInv, MeshTypes, SceneTypes, With
  <2>4. IsRenderData(NewRenderData)
    BY DEF NewRenderData, IsRenderData
  <2>5. AreBits(hydra)' /\ AreRenderData(data)'
    BY <2>1, <2>4 DEF TypeInv, MeshTypes, OrderInv, AreBits, AreRenderData, With
  <2> QED
    BY <2>1, <2>2, <2>3, <2>5, EngineLeft DEF TypeInv, MeshTypes
<1>2. ASSUME NEW paths \in Selections, SetSelection(paths) PROVE TypeInv'
  <2>1. /\ selection' = paths /\ MarkSelectionDirty(paths)
        /\ UNCHANGED <<scene, order, data>>
        /\ UNCHANGED <<displayMode, sceneTime, cache, config, lastVpRenderTime>>
    BY <1>2 DEF SetSelection, engineVars
  <2>2. AreBits(hydra')
    BY <2>1 DEF TypeInv, MeshTypes, AreBits, MarkSelectionDirty, HydraBits
  <2>3. MeshTypes'
    BY <2>1, <2>2, MeshTypesKept DEF TypeInv, MeshTypes
  <2> QED
    BY EngineAssumption, <2>1, <2>3 DEF EngineAssumption, TypeInv, ViewTypes, FrameTypes
<1>3. ASSUME NEW mode \in DisplayModes, SetDisplayMode(mode) PROVE TypeInv'
  <2>1. /\ displayMode' = mode
        /\ hydra' = [p \in DOMAIN hydra |-> hydra[p] \cup {"DirtyPrimvar", "DirtyMaterialId"}]
        /\ UNCHANGED <<scene, order, data>>
        /\ UNCHANGED <<selection, sceneTime, cache, config, lastVpRenderTime>>
    BY <1>3 DEF SetDisplayMode, engineVars
  <2>2. AreBits(hydra')
    BY <2>1 DEF TypeInv, MeshTypes, AreBits, HydraBits
  <2>3. MeshTypes'
    BY <2>1, <2>2, MeshTypesKept DEF TypeInv, MeshTypes
  <2> QED
    BY EngineAssumption, <2>1, <2>3 DEF EngineAssumption, TypeInv, ViewTypes, FrameTypes
<1> QED
  BY <1>1, <1>2, <1>3 DEF EditStage

\* The first state.
LEMMA InitTypes == Init => TypeInv
<1> SUFFICES ASSUME Init PROVE TypeInv
  OBVIOUS
<1>1. EngineInv
  BY InitHolds
<1>2. DOMAIN scene = Paths /\ hydra = [p \in Paths |-> HydraBits]
  BY EngineAssumption DEF Init, EngineAssumption
<1>3. MeshTypes
  BY <1>1, <1>2 DEF MeshTypes, EngineInv, SceneInv, SceneTypes, DataInv, Agree, AreBits
<1>4. ViewTypes
  BY DEF Init, ViewTypes
<1>5. FrameTypes
  <2>1. cache = << >> /\ DOMAIN << >> = {}
    BY DEF Init
  <2>2. config.strategy = "Off"
    BY DEF Init
  <2> QED
    BY EngineAssumption, <2>1, <2>2 DEF Init, EngineAssumption, FrameTypes, Strategies
<1> QED
  BY <1>3, <1>4, <1>5 DEF TypeInv

LEMMA NextTypes == TypeInv /\ [Next]_vars => TypeInv'
<1> SUFFICES ASSUME TypeInv, [Next]_vars PROVE TypeInv'
  OBVIOUS
<1>1. CASE \E p \in DOMAIN scene : EditMesh(p)
  BY <1>1, EditMeshTypes
<1>2. CASE EditStage
  BY <1>2, EditStageTypes
<1>3. CASE \E camera \in Cameras : Render(camera)
  BY <1>3, RenderTypes
<1>4. CASE \E t \in Times, tags \in RenderTagSets : RenderToMesh(t, tags)
  BY <1>4, RenderToMeshTypes
<1>5. CASE UNCHANGED vars
  <2>1. UNCHANGED <<scene, hydra, order, data>>
    BY <1>5 DEF vars, sceneVars
  <2>2. UNCHANGED <<selection, displayMode, sceneTime, cache, config, lastVpRenderTime>>
    BY <1>5 DEF vars, sceneVars, engineVars
  <2>3. MeshTypes'
    BY <2>1, MeshTypesKept DEF TypeInv, MeshTypes
  <2> QED
    BY <2>2, <2>3, EngineLeft DEF TypeInv
<1> QED
  BY <1>1, <1>2, <1>3, <1>4, <1>5 DEF Next

LEMMA InvTypes == TypeInv => TypeOK
<1> SUFFICES ASSUME TypeInv PROVE TypeOK
  OBVIOUS
<1>1. Len(order) = Cardinality(DOMAIN scene)
  BY LengthOfInjective DEF TypeInv, MeshTypes, OrderInv
<1>2. ASSUME NEW p \in DOMAIN scene, NEW k \in SubsetKeys(data, p)
      PROVE  SubsetAt(data, k).dirtyBits \subseteq AllDirty
  <2>1. IsRenderData(data[p])
    BY DEF TypeInv, MeshTypes, OrderInv, AreRenderData
  <2>2. PICK i \in DOMAIN data[p].shadedSubsets : k = <<p, i>>
    BY DEF SubsetKeys
  <2>3. data[p].shadedSubsets[i] \in SubsetRecords
    BY <2>1 DEF IsRenderData
  <2>4. SubsetAt(data, k) = data[p].shadedSubsets[i]
    BY <2>2 DEF SubsetAt
  <2> QED
    BY <2>3, <2>4 DEF SubsetRecords
<1>3. {ToSet(order), DOMAIN hydra, DOMAIN data} = {DOMAIN scene}
  BY DEF TypeInv, MeshTypes, OrderInv, AreBits
<1> QED
  BY <1>1, <1>2, <1>3 DEF TypeOK, TypeInv, MeshTypes, SceneTypes, AreBits, ViewTypes, FrameTypes

\* The vector has every mesh once, and so have hydra and the render data; the bits of
\* every subset are those of the change tracker; outputs are cached for times there are.
\* This needs no hypothesis about edits (HdMaxRenderDelegate::CreateRprim, DestroyRprim,
\* HdMaxMesh::Sync, HdMaxEngine::Render).
THEOREM TypesAreRight == Spec => []TypeOK
<1>1. Spec => []TypeInv
  BY InitTypes, NextTypes, PTL DEF Spec
<1> QED
  BY <1>1, InvTypes, PTL
=============================================================================
