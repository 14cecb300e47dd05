-------------------------- MODULE SceneExportProofs --------------------------
(***************************************************************************)
(* Theorems about SceneExport, for any scene and any options: the pass     *)
(* that exports comes to the prims that the preview found, these are the   *)
(* prims of one node each, the transforms of nodes apply in order, and in  *)
(* the end every object is written once, where all its instances find it.  *)
(***************************************************************************)
EXTENDS SceneExport, FiniteSetTheorems, SequenceTheorems, WellFoundedInduction, TLAPS

Prims == Seq(Names)
Items == [node : Nodes, parent : Prims, generator : Nodes \union {SceneRoot}]
Contexts == [node : Nodes, parent : Prims, name : Names]

ClassesOK(b) ==
    /\ DOMAIN b.of \subseteq Nodes /\ \A n \in DOMAIN b.of : b.of[n] \in Prims
    /\ IsFiniteSet(b.names) /\ b.names \subseteq Names

Types ==
    /\ scene \in Scenes
    /\ stack \in Seq(Items)
    /\ names = [g \in Nodes \union {SceneRoot} |-> names[g]]
    /\ \A g \in Nodes \union {SceneRoot} : IsFiniteSet(names[g])
    /\ ClassesOK(classes)
    /\ todo \in Seq(Contexts)
    /\ pass = "preview" => stage \in Seq(Prims)

-----------------------------------------------------------------------------
(* Names *)

\* A set of numbers that is not empty has a least one.
LEMMA LeastNumber ==
    ASSUME NEW T, T \subseteq Nat, T # {}
    PROVE  \E x \in T : \A y \in T : x <= y
<1> DEFINE R == OpToRel(<, Nat)
<1>1. IsWellFoundedOn(R, Nat)
  BY NatLessThanWellFounded
<1> HIDE DEF R
<1>2. PICK x \in T : \A y \in T : ~ (<<y, x>> \in R)
  BY <1>1, WFMin
<1>3. ASSUME NEW y \in T, y < x
      PROVE  <<y, x>> \in R
  BY <1>3 DEF R, OpToRel
<1>4. \A y \in T : ~ (y < x) /\ y \in Nat /\ x \in Nat
  BY <1>2, <1>3
<1> QED BY <1>4

\* Two words make a name.
LEMMA TwoWords ==
    ASSUME NEW v \in Words, NEW w \in Words
    PROVE  /\ <<<<v, 0>>, <<w, 0>>>> \in Seq(Words \X Nat) /\ Len(<<<<v, 0>>, <<w, 0>>>>) = 2
           /\ <<<<v, 0>>, <<w, 0>>>> # <<>>
<1>1. PICK a, b : a = <<v, 0>> /\ b = <<w, 0>>
  OBVIOUS
<1>2. a \in Words \X Nat /\ b \in Words \X Nat
  BY <1>1
<1>3. <<a, b>> \in Seq(Words \X Nat) /\ Len(<<a, b>>) = 2 /\ <<a, b>> # <<>>
  BY <1>2
<1> QED BY <1>1, <1>3

\* So do those of the prefix of classes.
LEMMA PrefixWords ==
    ClassPrefix \in Seq(Words \X Nat) /\ Len(ClassPrefix) = 2 /\ ClassPrefix # <<>>
<1>1. "_empty" \in Words /\ "class" \in Words
  BY WordsAssumption DEF WordsAssumption
<1> QED BY <1>1, TwoWords, Zenon DEF ClassPrefix

\* A name has a last word, with a number, and may be extended.
LEMMA NameParts ==
    ASSUME NEW x \in Names
    PROVE  /\ x \in Seq(Words \X Nat) /\ Len(x) \in Nat /\ Len(x) > 0
           /\ Last(x) = x[Len(x)] /\ Last(x)[1] \in Words /\ Last(x)[2] \in Nat
           /\ Last(x) = <<Last(x)[1], Last(x)[2]>>
           /\ \A kind \in Kinds : Append(x, <<ObjectPrimSuffix[kind], 0>>) \in Names
           /\ ClassName(x) \in Names
<1>1. x \in Seq(Words \X Nat) /\ x # <<>>
  BY DEF Names
<1>2. Len(x) \in Nat /\ Len(x) > 0 /\ x[Len(x)] \in Words \X Nat
  BY <1>1
<1>3. Last(x) = x[Len(x)]
  BY DEF Last
<1>4. ASSUME NEW kind \in Kinds
      PROVE  Append(x, <<ObjectPrimSuffix[kind], 0>>) \in Names
  <2>1. PICK w : w = <<ObjectPrimSuffix[kind], 0>>
    OBVIOUS
  <2>2. w \in Words \X Nat
    <3>1. ObjectPrimSuffix[kind] \in Words
      BY WordsAssumption DEF WordsAssumption
    <3> QED BY <2>1, <3>1
  <2>3. Append(x, w) \in Seq(Words \X Nat) /\ Append(x, w) # <<>>
    BY <1>1, <2>2
  <2> QED BY <2>1, <2>3 DEF Names
<1>5. ClassName(x) \in Names
  <2>1. PICK prefix : prefix = ClassPrefix
    OBVIOUS
  <2>2. prefix \in Seq(Words \X Nat) /\ prefix # <<>>
    BY <2>1, PrefixWords
  <2>3. prefix \o x \in Seq(Words \X Nat) /\ prefix \o x # <<>>
    BY <1>1, <2>2, ConcatProperties, ConcatEmptySeq
  <2> QED BY <2>1, <2>3 DEF ClassName, Names
<1> QED BY <1>1, <1>2, <1>3, <1>4, <1>5

\* Numbering a name changes the number of its last word.
LEMMA NumberedName ==
    ASSUME NEW name \in Names, NEW k \in Nat
    PROVE  /\ Numbered(name, k) \in Names /\ IsNumbered(Numbered(name, k), name)
           /\ Len(Numbered(name, k)) = Len(name)
           /\ \A i \in 1..Len(name) - 1 : Numbered(name, k)[i] = name[i]
           /\ Numbered(name, k)[Len(name)] = <<Last(name)[1], Last(name)[2] + k>>
           /\ Numbered(name, 0) = name
<1> DEFINE L == Len(name)
           word == <<Last(name)[1], Last(name)[2] + k>>
           x == [name EXCEPT ![L] = word]
<1>1. /\ name \in Seq(Words \X Nat) /\ L \in Nat /\ L > 0 /\ DOMAIN name = 1..L
      /\ Last(name) = name[L] /\ Last(name)[1] \in Words /\ Last(name)[2] \in Nat
      /\ Last(name) = <<Last(name)[1], Last(name)[2]>>
  BY NameParts
<1>2. Numbered(name, k) = x
  BY <1>1 DEF Numbered
<1>3. word \in Words \X Nat /\ word[2] = Last(name)[2] + k
  BY <1>1
<1>4. /\ x \in Seq(Words \X Nat) /\ Len(x) = L /\ x[L] = word
      /\ \A i \in 1..L - 1 : x[i] = name[i]
  <2> HIDE DEF word
  <2> QED BY <1>1, <1>3
<1>5. x \in Names
  <2>1. x # <<>>
    BY <1>1, <1>4
  <2> QED BY <1>4, <2>1 DEF Names
<1>6. IsNumbered(x, name)
  <2>1. Last(x)[2] = Last(name)[2] + k
    <3>1. Last(x) = x[Len(x)]
      BY DEF Last
    <3> QED BY <3>1, <1>3, <1>4
  <2>2. k \in 0..Last(x)[2]
    BY <1>1, <2>1
  <2> QED BY <1>2, <2>2 DEF IsNumbered
<1>7. Numbered(name, 0) = name
  <2>1. <<Last(name)[1], Last(name)[2] + 0>> = name[L]
    BY <1>1
  <2>2. Numbered(name, 0) = [name EXCEPT ![L] = name[L]]
    BY <1>1, <2>1 DEF Numbered
  <2>3. PICK w : w = name[L]
    OBVIOUS
  <2>4. [name EXCEPT ![L] = w] = name
    BY <1>1, <2>3
  <2> QED BY <2>2, <2>3, <2>4
<1> HIDE DEF x
<1> QED BY <1>2, <1>4, <1>5, <1>6, <1>7

\* The numbered name of a node is that of a class only if the node's is.
LEMMA NumberedClassName ==
    ASSUME NEW x \in Names, NEW name \in Names, IsNumbered(x, name), IsClassName(x)
    PROVE  IsClassName(name)
<1>1. PICK k \in 0..Last(x)[2] : x = Numbered(name, k)
  BY DEF IsNumbered
<1>2. k \in Nat
  BY <1>1, NameParts
<1>3. Len(x) = Len(name) /\ \A i \in 1..Len(name) - 1 : x[i] = name[i]
  BY <1>1, <1>2, NumberedName
<1>4. Len(name) > 2 /\ Len(name) \in Nat /\ SubSeq(x, 1, 2) = ClassPrefix
  BY <1>3, NameParts DEF IsClassName
<1>5. x \in Seq(Words \X Nat) /\ name \in Seq(Words \X Nat)
  BY NameParts
<1>6. \A i \in 1..2 : x[i] = name[i]
  BY <1>3, <1>4
<1>7. SubSeq(name, 1, 2) = SubSeq(x, 1, 2)
  <2>1. PICK s, r : s = SubSeq(name, 1, 2) /\ r = SubSeq(x, 1, 2)
    OBVIOUS
  <2>2. /\ s \in Seq(Words \X Nat) /\ r \in Seq(Words \X Nat) /\ Len(s) = 2 /\ Len(r) = 2
        /\ \A i \in 1..2 : s[i] = name[i] /\ r[i] = x[i]
    BY <1>3, <1>4, <1>5, <2>1, SubSeqProperties
  <2> QED BY <1>6, <2>1, <2>2, SeqEqual
<1> QED BY <1>4, <1>7 DEF IsClassName

\* A class has a class name.
LEMMA ClassNames ==
    ASSUME NEW x \in Names
    PROVE  /\ IsClassName(ClassName(x))
           /\ \A y \in Names : ClassName(x) = ClassName(y) => x = y
<1>1. PICK prefix : prefix = ClassPrefix
  OBVIOUS
<1>2. prefix \in Seq(Words \X Nat) /\ Len(prefix) = 2
  BY <1>1, PrefixWords
<1>3. \A z \in Names : z \in Seq(Words \X Nat) /\ Len(z) \in Nat /\ Len(z) > 0
  BY NameParts
<1>4. Len(prefix \o x) > 2 /\ SubSeq(prefix \o x, 1, 2) = prefix
  <2>1. PICK c, s : c = prefix \o x /\ s = SubSeq(prefix \o x, 1, 2)
    OBVIOUS
  <2>2. /\ c \in Seq(Words \X Nat) /\ Len(c) = 2 + Len(x)
        /\ \A i \in 1..2 : c[i] = prefix[i]
    <3>1. x \in Seq(Words \X Nat) /\ Len(x) \in Nat
      BY <1>3
    <3>2. /\ prefix \o x \in Seq(Words \X Nat)
          /\ Len(prefix \o x) = Len(prefix) + Len(x)
          /\ \A i \in 1..Len(prefix) + Len(x) :
                (prefix \o x)[i] = IF i <= Len(prefix) THEN prefix[i] ELSE x[i - Len(prefix)]
      BY <1>2, <3>1, ConcatProperties
    <3> QED BY <1>2, <2>1, <3>1, <3>2
  <2>3. Len(c) > 2
    BY <1>3, <2>2
  <2>4. /\ s \in Seq(Words \X Nat) /\ Len(s) = 2
        /\ \A i \in 1..2 : s[i] = c[i]
    BY <1>3, <2>1, <2>2, <2>3, SubSeqProperties
  <2> QED BY <1>2, <2>1, <2>2, <2>3, <2>4, SeqEqual
<1>5. IsClassName(ClassName(x))
  BY <1>1, <1>4 DEF IsClassName, ClassName
<1>6. ASSUME NEW y \in Names, ClassName(x) = ClassName(y)
      PROVE  x = y
  <2>1. prefix \o x = prefix \o y
    BY <1>1, <1>6 DEF ClassName
  <2> QED BY <1>2, <1>3, <2>1, ConcatSimplifications
<1> QED BY <1>5, <1>6

\* UniqueNameGenerator::GetName gives a name that is free, the one asked for
\* but for its number.
LEMMA UniqueNameIsFree ==
    ASSUME NEW name \in Names, NEW used, IsFiniteSet(used)
    PROVE  /\ UniqueName(name, used) \in Names \ used
           /\ IsNumbered(UniqueName(name, used), name)
<1> DEFINE c == Cardinality(used)
           free == {k \in 0..c : Numbered(name, k) \notin used}
           k0 == CHOOSE k \in 0..c : /\ Numbered(name, k) \notin used
                                    /\ \A j \in 0..k - 1 : Numbered(name, j) \in used
<1>1. c \in Nat
  BY FS_CardinalityType
<1>2. free # {}
  <2> SUFFICES ASSUME \A k \in 0..c : Numbered(name, k) \in used
               PROVE  FALSE
    OBVIOUS
  <2> DEFINE f == [k \in 0..c |-> Numbered(name, k)]
  <2>1. f \in [0..c -> used]
    OBVIOUS
  <2>2. IsFiniteSet(0..c) /\ Cardinality(0..c) = c + 1
    BY <1>1, FS_Interval
  <2>3. \E x, y \in 0..c : x # y /\ f[x] = f[y]
    <3> HIDE DEF f
    <3> QED BY <1>1, <2>1, <2>2, FS_PigeonHole
  <2>4. \A x, y \in 0..c : f[x] = f[y] => x = y
    <3>1. \A x \in 0..c : f[x][Len(name)][2] = Last(name)[2] + x
      BY <1>1, NumberedName
    <3> QED BY <3>1, <1>1, NameParts
  <2> QED BY <2>3, <2>4
<1>3. PICK k \in free : \A j \in free : k <= j
  <2>1. free \subseteq Nat
    BY <1>1
  <2> HIDE DEF free
  <2> QED BY <1>2, <2>1, LeastNumber
<1>4. /\ k \in 0..c /\ Numbered(name, k) \notin used
      /\ \A j \in 0..k - 1 : Numbered(name, j) \in used
  BY <1>1, <1>3
<1>5. k0 \in 0..c /\ Numbered(name, k0) \notin used
  <2> HIDE DEF c
  <2> QED BY <1>4
<1>6. UniqueName(name, used) = Numbered(name, k0)
  BY DEF UniqueName
<1>7. k0 \in Nat
  <2> HIDE DEF k0
  <2> QED BY <1>1, <1>5
<1>8. Numbered(name, k0) \in Names /\ IsNumbered(Numbered(name, k0), name)
  <2> HIDE DEF k0
  <2> QED BY <1>7, NumberedName
<1> HIDE DEF k0
<1> QED BY <1>5, <1>6, <1>8

-----------------------------------------------------------------------------
(* The walk *)

\* A scene is typed.
LEMMA SceneIsTyped ==
    ASSUME scene \in Scenes
    PROVE  SceneTypeOK(scene)
BY ScenesAssumption

\* a numbers the elements of A, a set of numbers up to L, from 1 to c.
Rises(A, a, c, L) ==
    /\ c \in Nat /\ \A i \in 1..L : a[i] \in 0..c
    /\ \A i \in A : a[i] # 0
    /\ \A i, j \in A : i < j => a[i] < a[j]

\* The place of an element among those of a set of numbers grows with it.
LEMMA PlaceAmong ==
    ASSUME NEW L \in Nat, NEW A \in SUBSET (1..L)
    PROVE  Rises(A, [i \in 1..L |-> Cardinality(A \intersect 1..i)], Cardinality(A), L)
<1>1. IsFiniteSet(A) /\ Cardinality(A) \in Nat
  <2>1. IsFiniteSet(1..L)
    BY FS_Interval
  <2>2. IsFiniteSet(A)
    BY <2>1, FS_Subset
  <2> QED BY <2>2, FS_CardinalityType
<1>2. ASSUME NEW i \in 1..L
      PROVE  /\ IsFiniteSet(A \intersect 1..i)
             /\ Cardinality(A \intersect 1..i) \in 0..Cardinality(A)
  <2>1. A \intersect 1..i \in SUBSET A
    OBVIOUS
  <2>2. IsFiniteSet(A \intersect 1..i) /\ Cardinality(A \intersect 1..i) <= Cardinality(A)
    BY <1>1, <2>1, FS_Subset
  <2>3. Cardinality(A \intersect 1..i) \in Nat
    BY <2>2, FS_CardinalityType
  <2> QED BY <1>1, <2>2, <2>3
<1>3. ASSUME NEW i \in A
      PROVE  Cardinality(A \intersect 1..i) # 0
  <2>1. i \in A \intersect 1..i
    OBVIOUS
  <2>2. i \in 1..L
    OBVIOUS
  <2> QED BY <1>2, <2>1, <2>2, FS_EmptySet
<1>4. ASSUME NEW i \in A, NEW j \in A, i < j
      PROVE  Cardinality(A \intersect 1..i) < Cardinality(A \intersect 1..j)
  <2>1. /\ A \intersect 1..i \in SUBSET (A \intersect 1..j)
        /\ j \in A \intersect 1..j /\ j \notin A \intersect 1..i
    BY <1>4
  <2>2. A \intersect 1..i # A \intersect 1..j
    BY <2>1
  <2>3. i \in 1..L /\ j \in 1..L
    OBVIOUS
  <2>4. /\ Cardinality(A \intersect 1..i) <= Cardinality(A \intersect 1..j)
        /\ Cardinality(A \intersect 1..i) # Cardinality(A \intersect 1..j)
    BY <1>2, <2>1, <2>2, <2>3, FS_Subset
  <2> QED BY <1>2, <2>3, <2>4
<1> DEFINE a == [i \in 1..L |-> Cardinality(A \intersect 1..i)]
<1>5. \A i \in A : a[i] = Cardinality(A \intersect 1..i)
  OBVIOUS
<1>6. \A i \in 1..L : a[i] \in 0..Cardinality(A)
  BY <1>2
<1>7. /\ \A i \in A : a[i] # 0
      /\ \A i, j \in A : i < j => a[i] < a[j]
  <2> HIDE DEF a
  <2> QED BY <1>3, <1>4, <1>5
<1> HIDE DEF a
<1>8. Rises(A, a, Cardinality(A), L)
  BY <1>1, <1>6, <1>7 DEF Rises
<1> QED BY <1>8 DEF a

\* Where the numbers up to L go when those of A come first.
InTwoRuns(place, A, L) ==
    /\ L \in Nat /\ A \subseteq 1..L
    /\ place = [i \in 1..L |->
                IF i \in A THEN Cardinality(A \intersect 1..i)
                ELSE Cardinality(A) + Cardinality(((1..L) \ A) \intersect 1..i)]

\* A function from a finite set into less than the set is not injective.
LEMMA NotIntoLess ==
    ASSUME NEW S, IsFiniteSet(S), NEW k \in S, NEW f \in [S -> S \ {k}]
    PROVE  \E x, y \in S : x # y /\ f[x] = f[y]
<1> DEFINE T == S \ {k}
<1>1. IsFiniteSet(T) /\ Cardinality(T) = Cardinality(S) - 1
  BY FS_RemoveElement
<1>2. Cardinality(S) \in Nat
  BY FS_CardinalityType
<1>3. Cardinality(T) < Cardinality(S)
  <2> HIDE DEF T
  <2> QED BY <1>1, <1>2
<1> HIDE DEF T
<1>4. f \in [S -> T]
  BY DEF T
<1> QED BY <1>1, <1>3, <1>4, FS_PigeonHole

\* Every place is taken.
LEMMA EveryPlaceIsTaken ==
    ASSUME NEW L, NEW A, NEW Place, InTwoRuns(Place, A, L)
    PROVE  \A k \in 1..L : \E i \in 1..L : Place[i] = k
<1>1. PICK B : B = (1..L) \ A
  OBVIOUS
<1>2. /\ L \in Nat /\ A \in SUBSET (1..L)
      /\ Place = [i \in 1..L |->
                IF i \in A THEN Cardinality(A \intersect 1..i)
                ELSE Cardinality(A) + Cardinality(B \intersect 1..i)]
  BY <1>1 DEF InTwoRuns
<1>3. IsFiniteSet(1..L) /\ Cardinality(1..L) = L
  BY <1>2, FS_Interval
<1>4. IsFiniteSet(A) /\ IsFiniteSet(B) /\ B \in SUBSET (1..L)
  BY <1>1, <1>2, <1>3, FS_Subset
<1>5. Cardinality(A) \in Nat /\ Cardinality(B) \in Nat
  BY <1>4, FS_CardinalityType
<1>6. Cardinality(A) + Cardinality(B) = L
  <2>1. A \union B = 1..L /\ A \intersect B = {}
    BY <1>1, <1>2
  <2>2. Cardinality({}) = 0
    BY FS_EmptySet
  <2>3. Cardinality(1..L) = Cardinality(A) + Cardinality(B) - 0
    BY <1>4, <2>1, <2>2, FS_Union
  <2> QED BY <1>3, <1>5, <2>3
<1> DEFINE a == [i \in 1..L |-> Cardinality(A \intersect 1..i)]
           b == [i \in 1..L |-> Cardinality(B \intersect 1..i)]
           ca == Cardinality(A)
           cb == Cardinality(B)
<1>7. Rises(A, a, ca, L)
  BY <1>2, PlaceAmong
<1>8. Rises(B, b, cb, L)
  BY <1>2, <1>4, PlaceAmong
<1>9. \A i \in 1..L : Place[i] = IF i \in A THEN a[i] ELSE ca + b[i]
  BY <1>2
<1>10. ca \in Nat /\ cb \in Nat /\ ca + cb = L
  BY <1>5, <1>6
<1>11. Place = [i \in 1..L |-> Place[i]]
  BY <1>2
<1> HIDE DEF a, b, ca, cb
<1>12. /\ \A i \in 1..L : Place[i] \in 1..L
       /\ \A i, j \in 1..L : i # j => Place[i] # Place[j]
  <2>1. /\ ca \in Nat /\ cb \in Nat
        /\ \A i \in 1..L : a[i] \in Nat /\ b[i] \in Nat /\ a[i] <= ca /\ b[i] <= cb
        /\ \A i \in 1..L : (i \in A => a[i] # 0) /\ (i \in B => b[i] # 0)
        /\ \A i, j \in 1..L : i < j /\ i \in A /\ j \in A => a[i] < a[j]
        /\ \A i, j \in 1..L : i < j /\ i \in B /\ j \in B => b[i] < b[j]
    BY <1>1, <1>2, <1>7, <1>8, <1>10 DEF Rises
  <2>2. ASSUME NEW i \in 1..L
        PROVE  Place[i] \in 1..L
    <3>1. CASE i \in A
      <4>1. a[i] # 0 /\ Place[i] = a[i]
        BY <3>1, <2>1, <1>9
      <4> QED BY <4>1, <2>1, <1>2, <1>10
    <3>2. CASE i \in B
      <4>1. b[i] # 0 /\ Place[i] = ca + b[i]
        BY <3>2, <2>1, <1>1, <1>9
      <4> QED BY <4>1, <2>1, <1>2, <1>10
    <3> QED BY <3>1, <3>2, <1>1
  <2>3. ASSUME NEW i \in 1..L, NEW j \in 1..L, i < j
        PROVE  Place[i] # Place[j]
    <3>1. CASE i \in A /\ j \in A
      <4>1. a[i] < a[j] /\ Place[i] = a[i] /\ Place[j] = a[j]
        BY <3>1, <2>1, <2>3, <1>1, <1>2, <1>9
      <4> QED BY <4>1, <2>1, <1>2, <1>10
    <3>2. CASE i \in B /\ j \in B
      <4>1. b[i] < b[j] /\ Place[i] = ca + b[i] /\ Place[j] = ca + b[j]
        BY <3>2, <2>1, <2>3, <1>1, <1>2, <1>9
      <4> QED BY <4>1, <2>1, <1>2, <1>10
    <3>3. CASE i \in A /\ j \in B
      <4>1. b[j] # 0 /\ Place[i] = a[i] /\ Place[j] = ca + b[j]
        BY <3>3, <2>1, <1>1, <1>2, <1>9
      <4> QED BY <4>1, <2>1, <1>2, <1>10
    <3>4. CASE i \in B /\ j \in A
      <4>1. b[i] # 0 /\ Place[i] = ca + b[i] /\ Place[j] = a[j]
        BY <3>4, <2>1, <1>1, <1>2, <1>9
      <4> QED BY <4>1, <2>1, <1>2, <1>10
    <3> QED BY <3>1, <3>2, <3>3, <3>4, <1>1
  <2>4. ASSUME NEW i \in 1..L, NEW j \in 1..L, i # j
        PROVE  Place[i] # Place[j]
    <3>1. i < j \/ j < i
      BY <2>4, <1>2
    <3> QED BY <3>1, <2>3
  <2> QED BY <2>2, <2>4
<1> SUFFICES ASSUME NEW k \in 1..L, \A i \in 1..L : Place[i] # k
             PROVE  FALSE
  OBVIOUS
<1>13. Place \in [1..L -> (1..L) \ {k}]
  BY <1>11, <1>12
<1> DEFINE S == 1..L
<1>14. /\ IsFiniteSet(S) /\ k \in S /\ Place \in [S -> S \ {k}]
       /\ \A i, j \in S : i # j => Place[i] # Place[j]
  BY <1>3, <1>12, <1>13
<1> HIDE DEF S
<1>15. \E i, j \in S : i # j /\ Place[i] = Place[j]
  BY <1>14, NotIntoLess
<1> QED BY <1>14, <1>15

\* pushNodeChildrensToExportStack pushes the children of the node, each once.
LEMMA PushedItems ==
    ASSUME scene \in Scenes, NEW n \in Nodes \union {SceneRoot}, NEW path \in Prims
    PROVE  /\ PushedChildren(n, path) \in Seq(Items)
           /\ \A k \in 1..Len(PushedChildren(n, path)) :
                /\ PushedChildren(n, path)[k].node \in ChildNodes(n)
                /\ PushedChildren(n, path)[k].parent = path
                /\ PushedChildren(n, path)[k].generator = Generator(n)
           /\ \A k, l \in 1..Len(PushedChildren(n, path)) :
                PushedChildren(n, path)[k].node = PushedChildren(n, path)[l].node => k = l
           /\ \A c \in ChildNodes(n) :
                \E k \in 1..Len(PushedChildren(n, path)) : PushedChildren(n, path)[k].node = c
<1> DEFINE children == scene.children[n]
           L == Len(children)
           firsts == {i \in DOMAIN children : \A j \in 1..i - 1 :
                        scene.name[children[j]] # scene.name[children[i]]}
           others == DOMAIN children \ firsts
           Position(i) == IF i \in firsts THEN Cardinality(firsts \intersect 1..i)
                          ELSE Cardinality(firsts) + Cardinality(others \intersect 1..i)
           at(k) == CHOOSE i \in DOMAIN children : Position(i) = k
           Item(i) == [node |-> children[i], parent |-> path, generator |-> Generator(n)]
           items == [k \in DOMAIN children |-> Item(at(k))]
<1>1. children \in Seq(Nodes) /\ L \in Nat /\ DOMAIN children = 1..L
  BY SceneIsTyped DEF SceneTypeOK
<1>2. \A i, j \in 1..L : children[i] = children[j] => i = j
  <2>1. IsTree(scene.children) /\ n \in DOMAIN scene.children
    BY SceneIsTyped DEF SceneTypeOK
  <2> QED BY <1>1, <2>1 DEF IsTree
<1>3. firsts \subseteq 1..L /\ others = (1..L) \ firsts
  BY <1>1
<1>4. \A k \in 1..L : \E i \in 1..L : Position(i) = k
  <2> HIDE DEF firsts, others
  <2> DEFINE place == [i \in 1..L |-> Position(i)]
  <2>1. \A k \in 1..L : \E i \in 1..L : place[i] = k
    <3>1. InTwoRuns(place, firsts, L)
      BY <1>1, <1>3 DEF InTwoRuns
    <3> HIDE DEF place, L
    <3> QED BY <3>1, EveryPlaceIsTaken
  <2> QED BY <2>1
<1>5. \A k \in 1..L : at(k) \in 1..L /\ Position(at(k)) = k
  <2> HIDE DEF Position
  <2> QED BY <1>1, <1>4
<1>6. PushedChildren(n, path) = items
  BY DEF PushedChildren
<1>7. Generator(n) \in Nodes \union {SceneRoot}
  BY DEF Generator
<1> HIDE DEF at, Position
<1>8. \A k \in 1..L : children[at(k)] \in Nodes /\ children[at(k)] \in ChildNodes(n)
  BY <1>1, <1>5 DEF ChildNodes, Range
<1>9. items \in Seq(Items) /\ Len(items) = L
  BY <1>1, <1>7, <1>8 DEF Items
<1>10. \A k \in 1..L : items[k].node = children[at(k)]
  BY <1>1
<1>11. ASSUME NEW k \in 1..L, NEW l \in 1..L, items[k].node = items[l].node
       PROVE  k = l
  <2> HIDE DEF items
  <2>1. children[at(k)] = children[at(l)]
    BY <1>10, <1>11
  <2>2. at(k) = at(l)
    BY <1>2, <1>5, <2>1
  <2> QED BY <1>5, <2>2
<1>12. \A k \in 1..L : items[k].parent = path /\ items[k].generator = Generator(n)
  BY <1>1
<1>13. ASSUME NEW c \in ChildNodes(n)
       PROVE  \E k \in 1..L : items[k].node = c
  <2>1. PICK i \in 1..L : children[i] = c
    BY <1>1 DEF ChildNodes, Range
  <2>2. ASSUME \A k \in 1..L : at(k) # i
        PROVE  FALSE
    <3>1. PICK S, g : S = 1..L /\ g = [k \in S |-> at(k)]
      OBVIOUS
    <3>2. g \in [S -> S \ {i}] /\ IsFiniteSet(S) /\ i \in S
      <4>1. IsFiniteSet(1..L)
        BY <1>1, FS_Interval
      <4>2. \A k \in S : at(k) \in S \ {i}
        BY <1>5, <2>2, <3>1
      <4> QED BY <3>1, <4>1, <4>2
    <3>3. \E x, y \in S : x # y /\ g[x] = g[y]
      BY ONLY <3>2, NotIntoLess
    <3>4. PICK x \in S, y \in S : x # y /\ g[x] = g[y]
      BY <3>3
    <3>5. at(x) = at(y)
      BY <3>1, <3>4
    <3>6. Position(at(x)) = x /\ Position(at(y)) = y
      BY <1>5, <3>1
    <3> QED BY <3>4, <3>5, <3>6
  <2> QED BY <2>1, <2>2, <1>10
<1> HIDE DEF items
<1> QED BY <1>6, <1>8, <1>9, <1>10, <1>11, <1>12, <1>13

-----------------------------------------------------------------------------
(* The prims of a node *)

\* Paths are made of the root's, and of names.
LEMMA PathTypes ==
    ASSUME scene \in Scenes
    PROVE  /\ RootPath \in Prims
           /\ \A path \in Prims, x \in Names :
                Append(path, x) \in Prims /\ Append(path, ClassName(x)) \in Prims
           /\ \A path \in Prims, c \in Contexts :
                ObjectName(c) \in Names /\ Append(path, ObjectName(c)) \in Prims
<1>1. RootPath \in Prims
  BY SceneIsTyped DEF SceneTypeOK, RootPath, Prims
<1>2. ASSUME NEW path \in Prims, NEW x \in Names
      PROVE  Append(path, x) \in Prims /\ Append(path, ClassName(x)) \in Prims
  BY NameParts, AppendProperties DEF Prims
<1>3. ASSUME NEW path \in Prims, NEW c \in Contexts
      PROVE  ObjectName(c) \in Names /\ Append(path, ObjectName(c)) \in Prims
  <2>1. c.name \in Names /\ scene.kind[c.node] \in Kinds
    BY SceneIsTyped DEF SceneTypeOK, Contexts
  <2>2. ObjectName(c) \in Names
    BY <2>1, NameParts DEF ObjectName
  <2> QED BY <2>2, AppendProperties DEF Prims
<1> QED BY <1>1, <1>2, <1>3

\* One or two elements make a sequence.
LEMMA ShortSeqs ==
    ASSUME NEW S, NEW x \in S, NEW y \in S
    PROVE  <<x>> \in Seq(S) /\ <<x, y>> \in Seq(S)
OBVIOUS

\* What ProcessNode makes of a node is paths, and an addition to the classes.
LEMMA ProcessNodeType ==
    ASSUME scene \in Scenes, NEW b, ClassesOK(b), NEW context \in Contexts
    PROVE  /\ ProcessNode(b, context).prims \in Seq(Prims)
           /\ ClassesOK(ProcessNode(b, context).classes)
<1> DEFINE n == context.node
           nothing == [prims |-> <<>>, object |-> NoPath, instance |-> NoPath, classes |-> b]
           xformPath == Append(context.parent, context.name)
<1>1. /\ n \in Nodes /\ context.parent \in Prims /\ context.name \in Names
      /\ xformPath \in Prims /\ Append(xformPath, ObjectName(context)) \in Prims
  <2>1. n \in Nodes /\ context.parent \in Prims /\ context.name \in Names
    BY DEF Contexts
  <2> QED BY <2>1, PathTypes
<1>2. /\ WriteInstancePrims(b, context, nothing).prims \in Seq(Prims)
      /\ ClassesOK(WriteInstancePrims(b, context, nothing).classes)
  <2> DEFINE className == UniqueName(context.name, b.names)
             classPath == Append(RootPath, ClassName(className))
             instancePath ==
                IF NeedsXform(n, TRUE) THEN Append(xformPath, ObjectName(context))
                ELSE IF ReuseParentPrimForInstancing(context) THEN context.parent
                ELSE xformPath
             ownPrims == IF NeedsXform(n, TRUE) THEN <<xformPath, instancePath>>
                         ELSE <<instancePath>>
             prototype == Append(classPath, context.name)
             of == [x \in DOMAIN b.of \union Instances(n) |->
                        IF x \in DOMAIN b.of THEN b.of[x] ELSE classPath]
  <2>1. className \in Names /\ classPath \in Prims /\ prototype \in Prims
    BY <1>1, UniqueNameIsFree, PathTypes DEF ClassesOK
  <2>2. instancePath \in Prims
    BY <1>1
  <2> HIDE DEF className, classPath, prototype, xformPath, instancePath
  <2>3. ownPrims \in Seq(Prims)
    <3>1. xformPath \in Prims
      BY <1>1
    <3> QED BY <2>2, <3>1, ShortSeqs
  <2>4. ownPrims \o <<classPath, prototype>> \in Seq(Prims)
    <3>1. <<classPath, prototype>> \in Seq(Prims)
      BY <2>1
    <3> HIDE DEF ownPrims
    <3> QED BY <2>3, <3>1, ConcatProperties
  <2>5. ClassesOK([of |-> of, names |-> b.names \union {className}])
    <3>1. Instances(n) \subseteq Nodes
      BY DEF Instances
    <3>2. IsFiniteSet(b.names \union {className})
      BY FS_AddElement DEF ClassesOK
    <3> QED BY <2>1, <3>1, <3>2 DEF ClassesOK
  <2>6. CASE n \notin DOMAIN b.of
    <3>1. /\ WriteInstancePrims(b, context, nothing).prims
                = ownPrims \o <<classPath, prototype>>
          /\ WriteInstancePrims(b, context, nothing).classes
                = [of |-> of, names |-> b.names \union {className}]
      BY <2>6 DEF WriteInstancePrims, className, classPath, prototype, xformPath, instancePath
    <3> QED BY <2>4, <2>5, <3>1
  <2>7. CASE n \in DOMAIN b.of
    <3>1. /\ WriteInstancePrims(b, context, nothing).prims = ownPrims
          /\ WriteInstancePrims(b, context, nothing).classes = b
      BY <2>7 DEF WriteInstancePrims, className, classPath, prototype, xformPath, instancePath
    <3> QED BY <2>3, <3>1
  <2> QED BY <2>6, <2>7
<1>3. /\ WriteObjectPrims(context, nothing).prims \in Seq(Prims)
      /\ WriteObjectPrims(context, nothing).classes = b
  <2>1. /\ <<xformPath, Append(xformPath, ObjectName(context))>> \in Seq(Prims)
        /\ <<xformPath>> \in Seq(Prims)
    BY <1>1, ShortSeqs
  <2>2. WriteObjectPrims(context, nothing).prims \in
            {<<xformPath, Append(xformPath, ObjectName(context))>>, <<xformPath>>}
    BY DEF WriteObjectPrims
  <2>3. WriteObjectPrims(context, nothing).classes = b
    BY DEF WriteObjectPrims
  <2> QED BY <2>1, <2>2, <2>3
<1>4. nothing.prims \in Seq(Prims) /\ nothing.classes = b /\ <<xformPath>> \in Seq(Prims)
  BY <1>1
<1> QED BY <1>2, <1>3, <1>4 DEF ProcessNode

-----------------------------------------------------------------------------
(* The types *)

\* What PreviewNode works on: the node on top of the stack.
Item == Head(stack)
TopName == UniqueName(Identifier(scene, Item.node), names[Item.generator])
TopContext == [node |-> Item.node, parent |-> Item.parent, name |-> TopName]
TopMade == ProcessNode(classes, TopContext)
TopIsPlaced == InContent(Item.node) /\ TopMade.prims # <<>>
TopPlace == IF TopIsPlaced THEN TopMade.prims[1] ELSE RootPath

\* The step of the preview, in these words.
LEMMA PreviewNodeSteps ==
    ASSUME PreviewNode
    PROVE  /\ pass = "preview" /\ stack # <<>>
           /\ IF InContent(Item.node)
              THEN todo' = Append(todo, TopContext) /\ classes' = TopMade.classes
              ELSE todo' = todo /\ classes' = classes
           /\ defs' = IF TopIsPlaced THEN Inserted(defs, Item.node, TopMade.prims) ELSE defs
           /\ stack' = PushedChildren(Item.node, TopPlace) \o Tail(stack)
           /\ names' = [g \in DOMAIN names |->
                            names[g]
                            \union (IF g = Item.generator THEN {TopName} ELSE {})
                            \union (IF g = Generator(Item.node)
                                    THEN ExistingNames(TopPlace) ELSE {})]
           /\ scene' = scene /\ pass' = pass /\ stage' = stage /\ exported' = exported
BY DEF PreviewNode, Item, TopName, TopContext, TopMade, TopIsPlaced, TopPlace, results

\* The values of a function on a finite set are finitely many.
LEMMA FiniteImage ==
    ASSUME NEW S, IsFiniteSet(S), NEW f, NEW T, T = {f[x] : x \in S}
    PROVE  IsFiniteSet(T)
<1> DEFINE h == [x \in S |-> f[x]]
<1>1. h \in [S -> T] /\ \A t \in T : \E x \in S : h[x] = t
  OBVIOUS
<1> HIDE DEF h
<1>2. h \in Surjection(S, T)
  BY <1>1 DEF Surjection
<1> QED BY <1>2, FS_Surjection

\* The names that a path has below it are finitely many.
LEMMA ExistingNamesFinite ==
    ASSUME stage \in Seq(Prims), NEW path
    PROVE  IsFiniteSet(ExistingNames(path))
<1> DEFINE paths == {q \in ToSet(stage) : q # NoPath /\ Front(q) = path}
           last == [q \in paths |-> Last(q)]
<1>1. IsFiniteSet(DOMAIN stage)
  <2>1. DOMAIN stage = 1..Len(stage) /\ Len(stage) \in Nat
    OBVIOUS
  <2> QED BY <2>1, FS_Interval
<1>2. IsFiniteSet(ToSet(stage))
  <2>1. ToSet(stage) = {stage[i] : i \in DOMAIN stage}
    BY DEF ToSet
  <2> QED BY <1>1, <2>1, FiniteImage
<1>3. IsFiniteSet(paths)
  BY <1>2, FS_Subset
<1>4. {Last(q) : q \in paths} = {last[q] : q \in paths}
  OBVIOUS
<1>5. IsFiniteSet({Last(q) : q \in paths})
  <2> DEFINE T == {Last(q) : q \in paths}
  <2>1. T = {last[q] : q \in paths}
    BY <1>4
  <2> HIDE DEF paths, last, T
  <2>2. IsFiniteSet(T)
    BY <1>3, <2>1, FiniteImage
  <2> QED BY <2>2 DEF T
<1> QED BY <1>5, FS_EmptySet DEF ExistingNames

\* What is on top of the stack is typed.
LEMMA TopTypes ==
    ASSUME Types, stack # <<>>
    PROVE  /\ Item \in Items /\ TopContext \in Contexts
           /\ TopName \in Names \ names[Item.generator]
           /\ IsNumbered(TopName, Identifier(scene, Item.node))
           /\ TopMade.prims \in Seq(Prims) /\ ClassesOK(TopMade.classes)
           /\ TopPlace \in Prims
<1>1. Item \in Items /\ scene \in Scenes
  BY DEF Types, Item
<1>2. /\ Item.node \in Nodes /\ Item.parent \in Prims
      /\ Item.generator \in Nodes \union {SceneRoot}
  BY <1>1 DEF Items
<1>3. Identifier(scene, Item.node) \in Names
  BY <1>1, <1>2, SceneIsTyped, NodesAssumption DEF SceneTypeOK, NodesAssumption, Identifier
<1>4. /\ TopName \in Names \ names[Item.generator]
      /\ IsNumbered(TopName, Identifier(scene, Item.node))
  <2>1. IsFiniteSet(names[Item.generator])
    BY <1>2 DEF Types
  <2> QED BY <1>3, <2>1, UniqueNameIsFree DEF TopName
<1>5. TopContext \in Contexts
  BY <1>2, <1>4 DEF TopContext, Contexts
<1>6. TopMade.prims \in Seq(Prims) /\ ClassesOK(TopMade.classes)
  BY <1>1, <1>5, ProcessNodeType DEF TopMade, Types
<1>7. TopPlace \in Prims
  <2>1. RootPath \in Prims
    BY <1>1, PathTypes
  <2>2. TopMade.prims # <<>> => TopMade.prims[1] \in Prims
    BY <1>6
  <2> QED BY <2>1, <2>2 DEF TopPlace, TopIsPlaced
<1> QED BY <1>1, <1>4, <1>5, <1>6, <1>7

\* The scene, the stack and what is to do, the names and the classes keep
\* their types.
LEMMA TypesInit ==
    ASSUME Init
    PROVE  Types
<1>1. scene \in Scenes /\ RootPath \in Prims /\ scene.existing \in Seq(Prims)
  <2>1. scene \in Scenes
    BY DEF Init
  <2> QED BY <2>1, SceneIsTyped, PathTypes DEF SceneTypeOK, Prims
<1>2. stage \in Seq(Prims)
  <2>1. <<RootPath>> \in Seq(Prims) /\ <<>> \in Seq(Prims)
    BY <1>1, ShortSeqs
  <2>2. PICK e, f : e = scene.existing /\ f \in {<<>>, <<RootPath>>} /\ stage = e \o f
    BY DEF Init
  <2>3. e \in Seq(Prims) /\ f \in Seq(Prims)
    BY <1>1, <2>1, <2>2
  <2> QED BY <2>2, <2>3, ConcatProperties
<1>3. stack \in Seq(Items)
  BY <1>1, PushedItems DEF Init
<1>4. /\ names = [g \in Nodes \union {SceneRoot} |-> names[g]]
      /\ \A g \in Nodes \union {SceneRoot} : IsFiniteSet(names[g])
  BY <1>2, ExistingNamesFinite, FS_EmptySet DEF Init
<1>5. ClassesOK(classes) /\ todo \in Seq(Contexts)
  BY FS_EmptySet DEF Init, ClassesOK, NoClasses, EmptyMap
<1> QED BY <1>1, <1>2, <1>3, <1>4, <1>5 DEF Types

\* A step of the preview keeps the types.
LEMMA TypesPreviewNode ==
    ASSUME Types, PreviewNode
    PROVE  Types'
<1>1. stack # <<>> /\ pass = "preview"
  BY PreviewNodeSteps
<1>2. /\ Item \in Items /\ TopContext \in Contexts /\ ClassesOK(TopMade.classes)
      /\ TopPlace \in Prims /\ Item.node \in Nodes
  BY <1>1, TopTypes DEF Items
<1>3. stack' \in Seq(Items)
  <2>1. PushedChildren(Item.node, TopPlace) \in Seq(Items)
    BY <1>2, PushedItems DEF Types
  <2>2. Tail(stack) \in Seq(Items)
    BY <1>1 DEF Types
  <2>3. stack' = PushedChildren(Item.node, TopPlace) \o Tail(stack)
    BY PreviewNodeSteps
  <2> QED BY <2>1, <2>2, <2>3, ConcatProperties
<1>4. todo' \in Seq(Contexts) /\ ClassesOK(classes)'
  <2>1. Append(todo, TopContext) \in Seq(Contexts)
    BY <1>2 DEF Types
  <2> QED BY <1>2, <2>1, PreviewNodeSteps DEF Types, ClassesOK
<1>5. /\ names' = [g \in Nodes \union {SceneRoot} |-> names'[g]]
      /\ \A g \in Nodes \union {SceneRoot} : IsFiniteSet(names'[g])
  <2>1. DOMAIN names = Nodes \union {SceneRoot}
    BY DEF Types
  <2>2. ASSUME NEW g \in Nodes \union {SceneRoot}
        PROVE  IsFiniteSet(names'[g])
    <3> DEFINE A == IF g = Item.generator THEN {TopName} ELSE {}
               B == IF g = Generator(Item.node) THEN ExistingNames(TopPlace) ELSE {}
    <3>1. IsFiniteSet(names[g]) /\ IsFiniteSet(A)
      BY FS_Singleton, FS_EmptySet DEF Types
    <3>2. IsFiniteSet(B)
      BY <1>1, ExistingNamesFinite, FS_EmptySet DEF Types
    <3>3. names'[g] = names[g] \union A \union B
      BY <2>1, PreviewNodeSteps
    <3> HIDE DEF A, B
    <3>4. IsFiniteSet(names[g] \union A)
      BY <3>1, FS_Union
    <3> QED BY <3>2, <3>3, <3>4, FS_Union
  <2>3. names' = [g \in Nodes \union {SceneRoot} |-> names'[g]]
    BY <2>1, PreviewNodeSteps
  <2> QED BY <2>2, <2>3
<1>6. scene' \in Scenes /\ stage' \in Seq(Prims)
  BY <1>1, PreviewNodeSteps DEF Types
<1> QED BY <1>3, <1>4, <1>5, <1>6 DEF Types

\* The types are kept by every step.
LEMMA TypesInvariant == Spec => []Types
<1>1. ASSUME Types, [Next]_vars
      PROVE  Types'
  <2>1. CASE PreviewNode
    BY <1>1, <2>1, TypesPreviewNode
  <2>2. CASE CreatePrims
    BY <1>1, <2>2, FS_EmptySet DEF CreatePrims, PrepareExportPass, Types, ClassesOK, NoClasses, EmptyMap
  <2>3. CASE ExportNode
    <3>1. Head(todo) \in Contexts /\ todo' \in Seq(Contexts)
      BY <1>1, <2>3 DEF ExportNode, Types
    <3>2. ClassesOK(ProcessNode(classes, Head(todo)).classes)
      BY <1>1, <3>1, ProcessNodeType DEF Types
    <3>3. classes' = ProcessNode(classes, Head(todo)).classes
      BY <2>3 DEF ExportNode
    <3>4. /\ pass' = "export" /\ scene' = scene /\ stack' = stack /\ names' = names
      BY <2>3 DEF ExportNode
    <3> QED BY <3>1, <3>2, <3>3, <3>4, <1>1 DEF Types, ClassesOK
  <2>4. CASE Cancel
    BY <1>1, <2>4 DEF Cancel, results, Types, ClassesOK
  <2>5. CASE Finish
    BY <1>1, <2>5 DEF Finish, results, Types, ClassesOK
  <2>6. CASE UNCHANGED vars
    BY <1>1, <2>6 DEF vars, results, Types, ClassesOK
  <2> QED BY <1>1, <2>1, <2>2, <2>3, <2>4, <2>5, <2>6 DEF Next
<1> QED BY <1>1, TypesInit, PTL DEF Spec

-----------------------------------------------------------------------------
(* The walk goes through every node once *)

\* D are the nodes that were popped: none of them is on the stack, and what
\* was popped or is on the stack is a child of one of them, or of the root.
Walk ==
    \E D \in SUBSET Nodes :
        /\ \A i \in 1..Len(stack) :
                /\ stack[i].node \notin D
                /\ \E p \in D \union {SceneRoot} : stack[i].node \in ChildNodes(p)
        /\ \A i, j \in 1..Len(stack) : stack[i].node = stack[j].node => i = j
        /\ \A x \in D : \E p \in D \union {SceneRoot} : x \in ChildNodes(p)
        /\ \A i \in 1..Len(todo) : todo[i].node \in D
        /\ DOMAIN defs \subseteq D

NodesOnce == \A i, j \in 1..Len(todo) : todo[i].node = todo[j].node => i = j

\* A node is the child of one node.
LEMMA OneParent ==
    ASSUME scene \in Scenes, NEW m \in Nodes \union {SceneRoot},
           NEW n \in Nodes \union {SceneRoot}, NEW c \in ChildNodes(m), c \in ChildNodes(n)
    PROVE  m = n
<1>1. IsTree(scene.children) /\ DOMAIN scene.children = Nodes \union {SceneRoot}
  BY SceneIsTyped DEF SceneTypeOK
<1>2. PICK i \in DOMAIN scene.children[m] : scene.children[m][i] = c
  BY DEF ChildNodes, Range
<1>3. PICK j \in DOMAIN scene.children[n] : scene.children[n][j] = c
  BY DEF ChildNodes, Range
<1> QED BY <1>1, <1>2, <1>3 DEF IsTree

\* The elements of a sequence after Append, Tail and \o.
LEMMA SeqElements ==
    ASSUME NEW S, NEW s \in Seq(S), NEW t \in Seq(S), NEW x \in S
    PROVE  /\ Len(Append(s, x)) = Len(s) + 1 /\ Append(s, x)[Len(s) + 1] = x
           /\ \A i \in 1..Len(s) : Append(s, x)[i] = s[i]
           /\ Len(s \o t) = Len(s) + Len(t)
           /\ \A i \in 1..Len(s) + Len(t) : (s \o t)[i] = IF i <= Len(s) THEN s[i] ELSE t[i - Len(s)]
           /\ s # <<>> => /\ Len(s) > 0 /\ Len(Tail(s)) = Len(s) - 1 /\ Head(s) = s[1]
                          /\ \A i \in 1..Len(s) - 1 : Tail(s)[i] = s[i + 1]
<1>1. /\ Len(Append(s, x)) = Len(s) + 1 /\ Append(s, x)[Len(s) + 1] = x
      /\ \A i \in 1..Len(s) : Append(s, x)[i] = s[i]
  BY AppendProperties
<1>2. /\ Len(s \o t) = Len(s) + Len(t)
      /\ \A i \in 1..Len(s) + Len(t) : (s \o t)[i] = IF i <= Len(s) THEN s[i] ELSE t[i - Len(s)]
  BY ConcatProperties
<1>3. ASSUME s # <<>>
      PROVE  /\ Len(s) > 0 /\ Len(Tail(s)) = Len(s) - 1 /\ Head(s) = s[1]
             /\ \A i \in 1..Len(s) - 1 : Tail(s)[i] = s[i + 1]
  BY <1>3, HeadTailProperties, EmptySeq
<1> QED BY <1>1, <1>2, <1>3

\* The walk starts with the children of the root.
LEMMA WalkInit ==
    ASSUME Init
    PROVE  Walk /\ NodesOnce
<1>1. /\ scene \in Scenes /\ RootPath \in Prims
      /\ stack = PushedChildren(SceneRoot, RootPath) /\ todo = <<>> /\ defs = EmptyMap
  BY PathTypes DEF Init
<1>2. /\ \A i \in 1..Len(stack) : stack[i].node \in ChildNodes(SceneRoot)
      /\ \A i, j \in 1..Len(stack) : stack[i].node = stack[j].node => i = j
  BY <1>1, PushedItems
<1>3. DOMAIN defs = {} /\ Len(todo) = 0
  BY <1>1 DEF EmptyMap
<1>4. \A i \in 1..Len(todo) : FALSE
  BY <1>3
<1> QED BY <1>2, <1>3, <1>4 DEF Walk, NodesOnce

\* The node on top of the stack is popped, and what it pushes is new.
LEMMA WalkPreviewNode ==
    ASSUME Types, Walk, NodesOnce, PreviewNode
    PROVE  Walk' /\ NodesOnce' /\ Item.node \notin DOMAIN defs
           /\ \A i \in 1..Len(todo) : todo[i].node # Item.node
<1> DEFINE n == Item.node
           kids == PushedChildren(n, TopPlace)
           rest == Tail(stack)
<1>1. /\ scene \in Scenes /\ stack \in Seq(Items) /\ stack # <<>> /\ todo \in Seq(Contexts)
      /\ n \in Nodes /\ TopPlace \in Prims /\ TopContext \in Contexts
  BY PreviewNodeSteps, TopTypes DEF Types, Items
<1>2. PICK D \in SUBSET Nodes :
        /\ \A i \in 1..Len(stack) :
                /\ stack[i].node \notin D
                /\ \E p \in D \union {SceneRoot} : stack[i].node \in ChildNodes(p)
        /\ \A i, j \in 1..Len(stack) : stack[i].node = stack[j].node => i = j
        /\ \A x \in D : \E p \in D \union {SceneRoot} : x \in ChildNodes(p)
        /\ \A i \in 1..Len(todo) : todo[i].node \in D
        /\ DOMAIN defs \subseteq D
  BY DEF Walk
<1>3. /\ Len(stack) > 0 /\ n = stack[1].node /\ Len(rest) = Len(stack) - 1
      /\ \A i \in 1..Len(stack) - 1 : rest[i] = stack[i + 1]
      /\ rest \in Seq(Items) /\ Len(stack) \in Nat
  BY <1>1, SeqElements DEF Item
<1>4. n \notin D /\ n # SceneRoot /\ \E p \in D \union {SceneRoot} : n \in ChildNodes(p)
  BY <1>1, <1>2, <1>3, SceneRootAssumption
<1>5. /\ kids \in Seq(Items)
      /\ \A k \in 1..Len(kids) : kids[k].node \in ChildNodes(n)
      /\ \A k, l \in 1..Len(kids) : kids[k].node = kids[l].node => k = l
  BY <1>1, PushedItems
<1>6. ASSUME NEW c \in ChildNodes(n)
      PROVE  /\ c \notin D \union {n}
             /\ \A i \in 1..Len(stack) : stack[i].node # c
  <2>1. ASSUME NEW p \in D \union {SceneRoot}, c \in ChildNodes(p)
        PROVE  FALSE
    BY <2>1, <1>1, <1>4, OneParent
  <2> QED BY <2>1, <1>2, <1>4
<1>7. /\ stack' = kids \o rest /\ Len(stack') = Len(kids) + Len(rest) /\ Len(kids) \in Nat
      /\ \A i \in 1..Len(stack') : stack'[i] = IF i <= Len(kids) THEN kids[i] ELSE rest[i - Len(kids)]
  <2>1. stack' = kids \o rest
    BY PreviewNodeSteps
  <2> HIDE DEF kids, rest
  <2>2. Len(kids) \in Nat /\ Len(rest) \in Nat
    BY <1>3, <1>5
  <2>3. /\ Len(kids \o rest) = Len(kids) + Len(rest)
        /\ \A i \in 1..Len(kids) + Len(rest) :
                (kids \o rest)[i] = IF i <= Len(kids) THEN kids[i] ELSE rest[i - Len(kids)]
    <3>1. kids \in Seq(Items) /\ rest \in Seq(Items)
      BY <1>3, <1>5
    <3> QED BY <3>1, ConcatProperties
  <2> QED BY <2>1, <2>2, <2>3
<1> DEFINE D2 == D \union {n}
<1>8. ASSUME NEW i \in 1..Len(stack')
      PROVE  \/ /\ i \in 1..Len(kids)
                /\ stack'[i].node = kids[i].node
             \/ /\ i > Len(kids)
                /\ i - Len(kids) + 1 \in 2..Len(stack)
                /\ stack'[i].node = stack[i - Len(kids) + 1].node
  <2> HIDE DEF kids, rest
  <2>1. CASE i <= Len(kids)
    BY <2>1, <1>7
  <2>2. CASE i > Len(kids)
    <3>1. i - Len(kids) \in 1..Len(stack) - 1
      BY <2>2, <1>3, <1>7
    <3>2. rest[i - Len(kids)] = stack[i - Len(kids) + 1]
      BY <3>1, <1>3
    <3>3. stack'[i] = rest[i - Len(kids)]
      BY <2>2, <1>7
    <3>4. i - Len(kids) + 1 \in 2..Len(stack)
      BY <3>1, <1>3, <1>7
    <3> QED BY <2>2, <3>2, <3>3, <3>4
  <2> QED BY <2>1, <2>2, <1>7
<1>9. ASSUME NEW i \in 1..Len(stack')
      PROVE  /\ stack'[i].node \notin D2
             /\ \E p \in D2 \union {SceneRoot} : stack'[i].node \in ChildNodes(p)
  <2> HIDE DEF kids, rest
  <2>1. CASE i \in 1..Len(kids) /\ stack'[i].node = kids[i].node
    BY <2>1, <1>5, <1>6
  <2>2. CASE /\ i - Len(kids) + 1 \in 2..Len(stack)
             /\ stack'[i].node = stack[i - Len(kids) + 1].node
    <3>1. PICK k \in 2..Len(stack) : stack'[i].node = stack[k].node
      BY <2>2
    <3>2. k \in 1..Len(stack) /\ 1 \in 1..Len(stack) /\ k # 1
      BY <1>3
    <3>3. stack[k].node \notin D /\ \E p \in D \union {SceneRoot} : stack[k].node \in ChildNodes(p)
      BY <3>2, <1>2
    <3>4. stack[k].node # n
      BY <3>2, <1>2, <1>3
    <3> QED BY <3>1, <3>3, <3>4
  <2> QED BY <2>1, <2>2, <1>8
<1>10. ASSUME NEW i \in 1..Len(stack'), NEW j \in 1..Len(stack'), stack'[i].node = stack'[j].node
       PROVE  i = j
  <2> HIDE DEF kids, rest
  <2>1. CASE i \in 1..Len(kids) /\ j \in 1..Len(kids)
    BY <2>1, <1>5, <1>7, <1>8, <1>10
  <2>2. CASE i > Len(kids) /\ j > Len(kids)
    <3> DEFINE k == i - Len(kids) + 1
               l == j - Len(kids) + 1
    <3>1. k \in 2..Len(stack) /\ l \in 2..Len(stack) /\ stack[k].node = stack[l].node
      BY <2>2, <1>7, <1>8, <1>10
    <3>2. k \in 1..Len(stack) /\ l \in 1..Len(stack)
      BY <3>1
    <3>3. k = l
      <4> HIDE DEF k, l
      <4> QED BY <3>1, <3>2, <1>2
    <3> QED BY <3>3, <1>7
  <2>3. ASSUME NEW x \in 1..Len(stack'), NEW y \in 1..Len(stack'),
               x \in 1..Len(kids), y > Len(kids), stack'[x].node = stack'[y].node
        PROVE  FALSE
    <3>1. stack'[x].node \in ChildNodes(n)
      BY <2>3, <1>5, <1>7, <1>8
    <3>2. PICK k \in 2..Len(stack) : stack'[y].node = stack[k].node
      <4>1. ~ (y \in 1..Len(kids))
        BY <2>3, <1>7
      <4>2. /\ y - Len(kids) + 1 \in 2..Len(stack)
            /\ stack'[y].node = stack[y - Len(kids) + 1].node
        BY <4>1, <1>8
      <4> QED BY <4>2
    <3>3. k \in 1..Len(stack)
      BY <3>2
    <3> QED BY <2>3, <3>1, <3>2, <3>3, <1>6
  <2>4. i \in Nat /\ j \in Nat
    BY <1>7
  <2> QED BY <2>1, <2>2, <2>3, <2>4, <1>7, <1>10
<1>11. \A x \in D2 : \E p \in D2 \union {SceneRoot} : x \in ChildNodes(p)
  BY <1>2, <1>4
<1>12. /\ \A i \in 1..Len(todo') : todo'[i].node \in D2
       /\ NodesOnce'
       /\ \A i \in 1..Len(todo) : todo[i].node # n
  <2>1. \A i \in 1..Len(todo) : todo[i].node # n
    BY <1>2, <1>4
  <2>2. CASE todo' = todo
    BY <2>1, <2>2, <1>2 DEF NodesOnce
  <2>3. CASE todo' = Append(todo, TopContext)
    <3>1. /\ Len(todo') = Len(todo) + 1 /\ todo'[Len(todo) + 1].node = n
          /\ \A i \in 1..Len(todo) : todo'[i] = todo[i]
          /\ Len(todo) \in Nat
      BY <2>3, <1>1, SeqElements DEF TopContext
    <3>2. \A i \in 1..Len(todo') : i \in 1..Len(todo) \/ i = Len(todo) + 1
      BY <3>1
    <3> QED BY <3>1, <3>2, <2>1, <1>2 DEF NodesOnce
  <2> QED BY <2>1, <2>2, <2>3, PreviewNodeSteps
<1>13. DOMAIN defs' \subseteq D2 /\ n \notin DOMAIN defs
  <2>1. DOMAIN defs' \subseteq DOMAIN defs \union {n}
    BY PreviewNodeSteps DEF Inserted
  <2> QED BY <2>1, <1>2, <1>4
<1>14. D2 \in SUBSET Nodes
  BY <1>1
<1>15. \A p : ChildNodes(p)' = ChildNodes(p)
  BY PreviewNodeSteps DEF ChildNodes
<1>16. Walk'
  <2> HIDE DEF D2
  <2> QED BY <1>9, <1>10, <1>11, <1>12, <1>13, <1>14, <1>15 DEF Walk
<1> QED BY <1>12, <1>13, <1>16

-----------------------------------------------------------------------------
(* The export pass does what the preview did *)

\* What ProcessNode does depends on the scene, and on nothing else that changes.
LEMMA ProcessNodeIsFixed ==
    ASSUME scene' = scene
    PROVE  \A b, context : ProcessNode(b, context)' = ProcessNode(b, context)
<1>1. \A n : /\ ChildNodes(n)' = ChildNodes(n)
             /\ InContent(n)' = InContent(n)
             /\ HasWriter(n)' = HasWriter(n)
             /\ Instances(n)' = Instances(n)
  BY DEF ChildNodes, InContent, HasWriter, Instances
<1>2. \A n : /\ ParentNode(n)' = ParentNode(n)
             /\ HasExportableDescendants(n)' = HasExportableDescendants(n)
             /\ CanBeInstanced(n)' = CanBeInstanced(n)
             /\ \A i : NeedsXform(n, i)' = NeedsXform(n, i)
  BY <1>1 DEF ParentNode, HasExportableDescendants, CanBeInstanced, NeedsXform
<1>3. /\ RootPath' = RootPath
      /\ \A context : /\ ReuseParentPrimForInstancing(context)' = ReuseParentPrimForInstancing(context)
                      /\ ObjectName(context)' = ObjectName(context)
  BY <1>2 DEF ReuseParentPrimForInstancing, RootPath, ObjectName
<1>4. \A b, context, made :
            /\ WriteInstancePrims(b, context, made)' = WriteInstancePrims(b, context, made)
            /\ WriteObjectPrims(context, made)' = WriteObjectPrims(context, made)
  <2>1. ASSUME NEW context, NEW made
        PROVE  WriteObjectPrims(context, made)' = WriteObjectPrims(context, made)
    BY <1>2, <1>3 DEF WriteObjectPrims
  <2>2. ASSUME NEW b, NEW context, NEW made
        PROVE  WriteInstancePrims(b, context, made)' = WriteInstancePrims(b, context, made)
    <3>1. /\ NeedsXform(context.node, TRUE)' = NeedsXform(context.node, TRUE)
          /\ Instances(context.node)' = Instances(context.node)
          /\ ReuseParentPrimForInstancing(context)' = ReuseParentPrimForInstancing(context)
          /\ RootPath' = RootPath /\ ObjectName(context)' = ObjectName(context)
      BY <1>1, <1>2, <1>3
    <3> QED BY <3>1 DEF WriteInstancePrims
  <2> QED BY <2>1, <2>2
<1> QED BY <1>1, <1>2, <1>4 DEF ProcessNode

\* From the classes before, the node of the context comes to the prims that
\* are in d for it, and to the classes after.
Follows(d, before, after, context) ==
    LET made == ProcessNode(before, context)
    IN  /\ after = made.classes
        /\ IF made.prims = <<>> THEN context.node \notin DOMAIN d
           ELSE context.node \in DOMAIN d /\ d[context.node] = made.prims

\* Processing the nodes of the items one after the other leads from the
\* classes first to the classes last, and to the prims that are in d.
Leads(items, d, first, last) ==
    \E trace : /\ trace[0] = first /\ trace[Len(items)] = last
               /\ \A i \in 1..Len(items) : Follows(d, trace[i - 1], trace[i], items[i])

\* The preview did that, and the export is doing it again.
Replays ==
    \E items, d, first, last :
        /\ items = todo /\ d = defs /\ Leads(items, d, first, last)
        /\ pass = "preview" => first = NoClasses /\ last = classes
        /\ pass # "preview" => first = classes

\* What was exported is what the preview noted, and the rest is to do.
Agrees ==
    /\ \A n \in DOMAIN exported : n \in DOMAIN defs /\ exported[n] = defs[n]
    /\ \A n \in DOMAIN defs : n \in DOMAIN exported \/ \E i \in 1..Len(todo) : todo[i].node = n
    /\ pass = "done" => todo = <<>>

ReplayInv == Types /\ Walk /\ NodesOnce /\ Replays /\ Agrees

\* Where nodes lead depends on the scene, and on nothing else that changes.
LEMMA LeadsIsFixed ==
    ASSUME scene' = scene, NEW items, NEW d, NEW first, NEW last, Leads(items, d, first, last)
    PROVE  Leads(items, d, first, last)'
<1>1. \A before, after, context :
            Follows(d, before, after, context)' <=> Follows(d, before, after, context)
  BY ProcessNodeIsFixed DEF Follows
<1> QED BY <1>1 DEF Leads

\* One more node.
LEMMA LeadsToNext ==
    ASSUME NEW items \in Seq(Contexts), NEW d, NEW first, NEW last,
           Leads(items, d, first, last),
           NEW context \in Contexts, NEW made, made = ProcessNode(last, context),
           context.node \notin DOMAIN d,
           \A i \in 1..Len(items) : items[i].node # context.node
    PROVE  Leads(Append(items, context),
                 IF made.prims # <<>> THEN Inserted(d, context.node, made.prims) ELSE d,
                 first, made.classes)
<1> DEFINE d2 == IF made.prims # <<>> THEN Inserted(d, context.node, made.prims) ELSE d
           more == Append(items, context)
<1>1. /\ \A n : n # context.node => (n \in DOMAIN d2 <=> n \in DOMAIN d)
      /\ \A n \in DOMAIN d : d2[n] = d[n]
      /\ context.node \in DOMAIN d2 <=> made.prims # <<>>
      /\ made.prims # <<>> => d2[context.node] = made.prims
  BY DEF Inserted
<1>2. PICK trace : /\ trace[0] = first /\ trace[Len(items)] = last
                   /\ \A i \in 1..Len(items) : Follows(d, trace[i - 1], trace[i], items[i])
  BY DEF Leads
<1>3. /\ Len(more) = Len(items) + 1 /\ more[Len(items) + 1] = context
      /\ \A i \in 1..Len(items) : more[i] = items[i]
      /\ Len(items) \in Nat
  BY SeqElements
<1> DEFINE next == [i \in 0..Len(items) + 1 |-> IF i <= Len(items) THEN trace[i] ELSE made.classes]
<1>4. /\ \A i \in 0..Len(items) : next[i] = trace[i]
      /\ next[Len(items) + 1] = made.classes
  BY <1>3
<1> HIDE DEF d2, more, next
<1>5. ASSUME NEW i \in 1..Len(more)
      PROVE  Follows(d2, next[i - 1], next[i], more[i])
  <2>1. CASE i = Len(items) + 1
    <3>1. next[i - 1] = last /\ next[i] = made.classes /\ more[i] = context
      BY <2>1, <1>2, <1>3, <1>4
    <3> QED BY <3>1, <1>1 DEF Follows
  <2>2. CASE i # Len(items) + 1
    <3>1. i \in 1..Len(items) /\ i - 1 \in 0..Len(items) /\ i \in 0..Len(items)
      BY <2>2, <1>3
    <3>2. Follows(d, trace[i - 1], trace[i], items[i]) /\ items[i].node # context.node
      BY <3>1, <1>2
    <3>3. Follows(d2, trace[i - 1], trace[i], items[i])
      BY <3>2, <1>1 DEF Follows
    <3>4. next[i - 1] = trace[i - 1] /\ next[i] = trace[i] /\ more[i] = items[i]
      BY <3>1, <1>3, <1>4
    <3> QED BY <3>3, <3>4
  <2> QED BY <2>1, <2>2
<1>6. next[0] = first /\ next[Len(more)] = made.classes
  BY <1>2, <1>3, <1>4
<1>7. Leads(more, d2, first, made.classes)
  BY <1>5, <1>6 DEF Leads
<1> QED BY <1>7 DEF d2, more

\* The first of the nodes.
LEMMA LeadsFromHead ==
    ASSUME NEW items \in Seq(Contexts), items # <<>>, NEW d, NEW first, NEW last,
           Leads(items, d, first, last),
           NEW made, made = ProcessNode(first, Head(items))
    PROVE  /\ Follows(d, first, made.classes, Head(items))
           /\ Leads(Tail(items), d, made.classes, last)
<1>1. PICK trace : /\ trace[0] = first /\ trace[Len(items)] = last
                   /\ \A i \in 1..Len(items) : Follows(d, trace[i - 1], trace[i], items[i])
  BY DEF Leads
<1>2. /\ Len(items) > 0 /\ Len(items) \in Nat /\ Len(Tail(items)) = Len(items) - 1
      /\ Head(items) = items[1]
      /\ \A i \in 1..Len(items) - 1 : Tail(items)[i] = items[i + 1]
  BY SeqElements
<1>3. Follows(d, first, trace[1], Head(items)) /\ trace[1] = made.classes
  <2>1. Follows(d, trace[1 - 1], trace[1], items[1]) /\ 1 - 1 = 0
    BY <1>1, <1>2
  <2> QED BY <2>1, <1>1, <1>2 DEF Follows
<1> DEFINE next == [i \in 0..Len(items) - 1 |-> trace[i + 1]]
           less == Tail(items)
<1>4. \A i \in 0..Len(items) - 1 : next[i] = trace[i + 1]
  OBVIOUS
<1>5. Len(less) = Len(items) - 1 /\ \A i \in 1..Len(less) : less[i] = items[i + 1]
  BY <1>2
<1> HIDE DEF next, less
<1>6. next[0] = made.classes /\ next[Len(less)] = last
  <2>1. 0 \in 0..Len(items) - 1 /\ Len(less) \in 0..Len(items) - 1 /\ Len(less) + 1 = Len(items)
    BY <1>2, <1>5
  <2>2. next[0] = trace[0 + 1] /\ next[Len(less)] = trace[Len(less) + 1]
    BY <2>1, <1>4
  <2> QED BY <2>1, <2>2, <1>1, <1>3
<1>7. ASSUME NEW i \in 1..Len(less)
      PROVE  Follows(d, next[i - 1], next[i], less[i])
  <2>1. /\ i + 1 \in 1..Len(items) /\ i - 1 \in 0..Len(items) - 1 /\ i \in 0..Len(items) - 1
        /\ (i + 1) - 1 = i /\ (i - 1) + 1 = i
    BY <1>2, <1>5
  <2>2. Follows(d, trace[(i + 1) - 1], trace[i + 1], items[i + 1])
    BY <2>1, <1>1
  <2>3. next[i - 1] = trace[(i - 1) + 1] /\ next[i] = trace[i + 1] /\ less[i] = items[i + 1]
    BY <2>1, <1>4, <1>5
  <2> QED BY <2>1, <2>2, <2>3
<1>8. Leads(less, d, made.classes, last)
  BY <1>6, <1>7 DEF Leads
<1> QED BY <1>3, <1>8 DEF less

\* At first nothing is to be replayed.
LEMMA ReplayInit ==
    ASSUME Init
    PROVE  ReplayInv
<1>1. Types /\ Walk /\ NodesOnce
  BY TypesInit, WalkInit
<1>2. /\ pass = "preview" /\ todo = <<>> /\ Len(todo) = 0 /\ classes = NoClasses
      /\ DOMAIN defs = {} /\ DOMAIN exported = {}
  BY DEF Init, EmptyMap
<1>3. Replays
  <2> DEFINE trace == [i \in {0} |-> NoClasses]
  <2>1. trace[0] = NoClasses /\ trace[Len(todo)] = NoClasses
    BY <1>2
  <2>2. \A i \in 1..Len(todo) : FALSE
    BY <1>2
  <2> HIDE DEF trace
  <2>3. Leads(todo, defs, NoClasses, NoClasses)
    BY <2>1, <2>2 DEF Leads
  <2> QED BY <2>3, <1>2 DEF Replays
<1>4. Agrees
  BY <1>2 DEF Agrees
<1> QED BY <1>1, <1>3, <1>4 DEF ReplayInv

\* A node that is previewed is one more that the export pass will come to.
LEMMA ReplayPreviewNode ==
    ASSUME ReplayInv, PreviewNode
    PROVE  ReplayInv'
<1> DEFINE n == Item.node
<1>1. /\ Types' /\ Walk' /\ NodesOnce' /\ n \notin DOMAIN defs
      /\ \A i \in 1..Len(todo) : todo[i].node # n
  BY TypesPreviewNode, WalkPreviewNode DEF ReplayInv
<1>2. /\ pass = "preview" /\ pass' = "preview" /\ scene' = scene /\ exported' = exported
      /\ todo \in Seq(Contexts) /\ TopContext \in Contexts /\ TopContext.node = n
      /\ defs' = IF TopIsPlaced THEN Inserted(defs, n, TopMade.prims) ELSE defs
  BY PreviewNodeSteps, TopTypes DEF ReplayInv, Types, TopContext
<1>3. Leads(todo, defs, NoClasses, classes)
  BY <1>2 DEF ReplayInv, Replays
<1>4. /\ Leads(todo', defs', NoClasses, classes')
      /\ \A i \in 1..Len(todo) : i \in 1..Len(todo') /\ todo'[i] = todo[i]
      /\ DOMAIN defs' \subseteq DOMAIN defs \union {n}
      /\ \A m \in DOMAIN defs : m \in DOMAIN defs' /\ defs'[m] = defs[m]
      /\ n \in DOMAIN defs' => \E i \in 1..Len(todo') : todo'[i].node = n
  <2>1. CASE InContent(n)
    <3>1. /\ todo' = Append(todo, TopContext) /\ classes' = TopMade.classes
          /\ defs' = IF TopMade.prims # <<>> THEN Inserted(defs, n, TopMade.prims) ELSE defs
      BY <1>2, <2>1, PreviewNodeSteps DEF TopIsPlaced
    <3>2. TopMade = ProcessNode(classes, TopContext)
      BY DEF TopMade
    <3>3. Leads(todo', defs', NoClasses, classes')
      BY <1>1, <1>2, <1>3, <3>1, <3>2, LeadsToNext
    <3>4. /\ Len(todo') = Len(todo) + 1 /\ todo'[Len(todo) + 1] = TopContext
          /\ \A i \in 1..Len(todo) : todo'[i] = todo[i]
          /\ Len(todo) \in Nat
      BY <1>2, <3>1, SeqElements
    <3>5. Len(todo) + 1 \in 1..Len(todo') /\ \A i \in 1..Len(todo) : i \in 1..Len(todo')
      BY <3>4
    <3>6. /\ DOMAIN defs' \subseteq DOMAIN defs \union {n}
          /\ \A m \in DOMAIN defs : m \in DOMAIN defs' /\ defs'[m] = defs[m]
      BY <1>1, <3>1 DEF Inserted
    <3> QED BY <1>2, <3>3, <3>4, <3>5, <3>6
  <2>2. CASE ~InContent(n)
    <3>1. todo' = todo /\ classes' = classes /\ defs' = defs
      BY <1>2, <2>2, PreviewNodeSteps DEF TopIsPlaced
    <3> QED BY <1>1, <1>3, <3>1
  <2> QED BY <2>1, <2>2
<1>5. Replays'
  <2>1. PICK items, d, first, last : items = todo' /\ d = defs' /\ first = NoClasses /\ last = classes'
    OBVIOUS
  <2>2. Leads(items, d, first, last)'
    BY <1>2, <1>4, <2>1, LeadsIsFixed
  <2> QED BY <1>2, <2>1, <2>2 DEF Replays
<1>6. Agrees'
  <2>1. Agrees
    BY DEF ReplayInv
  <2> QED BY <1>2, <1>4, <2>1 DEF Agrees
<1> QED BY <1>1, <1>5, <1>6 DEF ReplayInv

\* The export pass starts from where the preview started.
LEMMA ReplayCreatePrims ==
    ASSUME ReplayInv, CreatePrims, Types'
    PROVE  ReplayInv'
<1>1. /\ pass = "preview" /\ pass' = "export" /\ scene' = scene /\ stack' = stack
      /\ classes' = NoClasses /\ todo' = todo /\ defs' = defs /\ exported' = exported
  BY DEF CreatePrims, PrepareExportPass
<1>2. \A p : ChildNodes(p)' = ChildNodes(p)
  BY <1>1 DEF ChildNodes
<1>3. Walk' /\ NodesOnce'
  BY <1>1, <1>2 DEF ReplayInv, Walk, NodesOnce
<1>4. Replays'
  <2>1. PICK items, d, first, last :
            /\ items = todo /\ d = defs /\ Leads(items, d, first, last) /\ first = NoClasses
    BY <1>1 DEF ReplayInv, Replays
  <2>2. Leads(items, d, first, last)'
    BY <1>1, <2>1, LeadsIsFixed
  <2> QED BY <1>1, <2>1, <2>2 DEF Replays
<1>5. Agrees'
  BY <1>1 DEF ReplayInv, Agrees
<1> QED BY <1>3, <1>4, <1>5 DEF ReplayInv

\* A node is exported to the prims that were noted for it, and the rest follows.
LEMMA ReplayExportNode ==
    ASSUME ReplayInv, ExportNode, Types'
    PROVE  ReplayInv'
<1> DEFINE context == Head(todo)
           n == context.node
           made == ProcessNode(classes, context)
<1>1. /\ pass = "export" /\ pass' = "export" /\ todo # <<>> /\ scene' = scene /\ stack' = stack
      /\ todo' = Tail(todo) /\ defs' = defs /\ classes' = made.classes
      /\ exported' = IF made.prims = <<>> THEN exported
                     ELSE Inserted(exported, n, made.prims)
  BY DEF ExportNode
<1>2. /\ todo \in Seq(Contexts) /\ Len(todo) \in Nat /\ Len(todo) > 0
      /\ Len(todo') = Len(todo) - 1 /\ context = todo[1]
      /\ \A i \in 1..Len(todo) - 1 : todo'[i] = todo[i + 1]
  BY <1>1, SeqElements DEF ReplayInv, Types
<1> HIDE DEF context
<1>3. \A i \in 1..Len(todo') : i + 1 \in 1..Len(todo) /\ todo'[i] = todo[i + 1]
  BY <1>2
<1>4. Walk' /\ NodesOnce'
  <2>1. \A p : ChildNodes(p)' = ChildNodes(p)
    BY <1>1 DEF ChildNodes
  <2>2. NodesOnce'
    <3> SUFFICES ASSUME NEW i \in 1..Len(todo'), NEW j \in 1..Len(todo'),
                        todo'[i].node = todo'[j].node
                 PROVE  i = j
      BY DEF NodesOnce
    <3>1. i + 1 = j + 1
      BY <1>3 DEF ReplayInv, NodesOnce
    <3> QED BY <3>1
  <2> QED BY <1>1, <1>3, <2>1, <2>2 DEF ReplayInv, Walk
<1>5. PICK items, d, first, last :
            /\ items = todo /\ d = defs /\ Leads(items, d, first, last) /\ first = classes
  BY <1>1 DEF ReplayInv, Replays
<1>6. Follows(d, first, made.classes, Head(items)) /\ Leads(Tail(items), d, made.classes, last)
  BY <1>1, <1>2, <1>5, LeadsFromHead DEF context
<1>7. Replays'
  <2>1. PICK rest, second : rest = Tail(items) /\ second = made.classes
    OBVIOUS
  <2>2. Leads(rest, d, second, last)'
    BY <1>1, <1>6, <2>1, LeadsIsFixed
  <2> QED BY <1>1, <1>5, <2>1, <2>2 DEF Replays
<1>8. IF made.prims = <<>> THEN n \notin DOMAIN defs
      ELSE n \in DOMAIN defs /\ defs[n] = made.prims
  BY <1>5, <1>6 DEF Follows, context
<1>9. Agrees'
  <2>1. Agrees
    BY DEF ReplayInv
  <2>2. \A m \in DOMAIN exported' : m \in DOMAIN defs' /\ exported'[m] = defs'[m]
    BY <1>1, <1>8, <2>1 DEF Agrees, Inserted
  <2>3. ASSUME NEW m \in DOMAIN defs'
        PROVE  m \in DOMAIN exported' \/ \E i \in 1..Len(todo') : todo'[i].node = m
    <3>1. CASE m \in DOMAIN exported
      BY <3>1, <1>1 DEF Inserted
    <3>2. CASE m = n
      BY <3>2, <2>3, <1>1, <1>8 DEF Inserted
    <3>3. ASSUME NEW i \in 1..Len(todo), todo[i].node = m, m # n
          PROVE  \E j \in 1..Len(todo') : todo'[j].node = m
      <4>1. i # 1
        BY <3>3, <1>2
      <4>2. i - 1 \in 1..Len(todo') /\ (i - 1) + 1 = i
        BY <4>1, <1>2
      <4> QED BY <4>2, <3>3, <1>3
    <3> QED BY <3>1, <3>2, <3>3, <2>3, <2>1, <1>1 DEF Agrees
  <2> QED BY <1>1, <2>2, <2>3 DEF Agrees
<1> QED BY <1>4, <1>7, <1>9 DEF ReplayInv

\* Every step keeps the invariant of the two passes.
LEMMA ReplayStep ==
    ASSUME ReplayInv, [Next]_vars, Types'
    PROVE  ReplayInv'
<1>1. CASE PreviewNode
  BY <1>1, ReplayPreviewNode
<1>2. CASE CreatePrims
  BY <1>2, ReplayCreatePrims
<1>3. CASE ExportNode
  BY <1>3, ReplayExportNode
<1>4. CASE Cancel \/ Finish \/ UNCHANGED vars
  <2>1. /\ scene' = scene /\ stack' = stack /\ classes' = classes /\ todo' = todo
        /\ defs' = defs /\ exported' = exported
        /\ pass' # "preview" <=> pass # "preview"
        /\ pass' = "done" => pass = "done" \/ todo = <<>>
    BY <1>4 DEF Cancel, Finish, vars, results
  <2>2. \A p : ChildNodes(p)' = ChildNodes(p)
    BY <2>1 DEF ChildNodes
  <2>3. Walk' /\ NodesOnce' /\ Agrees'
    BY <2>1, <2>2 DEF ReplayInv, Walk, NodesOnce, Agrees
  <2>4. PICK items, d, first, last :
            /\ items = todo /\ d = defs /\ Leads(items, d, first, last)
            /\ pass = "preview" => first = NoClasses /\ last = classes
            /\ pass # "preview" => first = classes
    BY DEF ReplayInv, Replays
  <2>5. Leads(items, d, first, last)'
    BY <2>1, <2>4, LeadsIsFixed
  <2>6. Replays'
    BY <2>1, <2>4, <2>5 DEF Replays
  <2> QED BY <2>3, <2>6 DEF ReplayInv
<1> QED BY <1>1, <1>2, <1>3, <1>4 DEF Next

\* The invariant of the two passes holds throughout.
LEMMA ReplayInvariant == Spec => []ReplayInv
<1>1. ASSUME ReplayInv, Types', [Next]_vars
      PROVE  ReplayInv'
  BY <1>1, ReplayStep
<1> QED BY <1>1, ReplayInit, TypesInvariant, PTL DEF Spec

\* The export pass asks for the prims that the preview found, node by node,
\* and when it is done it has asked for all of them.
THEOREM PassesComeToTheSame == Spec => []PassesAgree
<1>1. ReplayInv => PassesAgree
  <2> SUFFICES ASSUME ReplayInv
               PROVE  PassesAgree
    OBVIOUS
  <2>1. \A n \in DOMAIN exported : n \in DOMAIN defs /\ exported[n] = defs[n]
    BY DEF ReplayInv, Agrees
  <2>2. ASSUME pass = "done"
        PROVE  DOMAIN exported = DOMAIN defs
    <3>1. Len(todo) = 0
      BY <2>2 DEF ReplayInv, Agrees
    <3>2. \A n \in DOMAIN defs : n \in DOMAIN exported
      BY <3>1 DEF ReplayInv, Agrees
    <3> QED BY <3>2, <2>1
  <2> QED BY <2>1, <2>2 DEF PassesAgree
<1> QED BY <1>1, ReplayInvariant, PTL

-----------------------------------------------------------------------------
(* The paths that a node may come to *)

XformPath(context) == Append(context.parent, context.name)
ObjectPath(context) == Append(XformPath(context), ObjectName(context))
ClassPath(name) == Append(RootPath, ClassName(name))
ClassPrims(name) == {ClassPath(name)} \union {Append(ClassPath(name), x) : x \in Names}

WillHavePrims(n) == InContent(n) /\ (HasWriter(n) \/ HasExportableDescendants(n))

\* The only child of a helper is exported to the prim of the helper.
SharesPrim(context) ==
    LET helper == ParentNode(context.node)
    IN  /\ helper # SceneRoot /\ scene.kind[helper] = "pointHelper"
        /\ Len(scene.children[helper]) <= 1 /\ ChildNodes(context.node) = {}

\* The paths that are not of classes: these are named right below the root.
NodePaths ==
    {path \in Prims : Len(path) > Len(RootPath) => ~IsClassName(path[Len(RootPath) + 1])}

\* Paths depend on the scene, and on nothing else that changes.
LEMMA PathsAreFixed ==
    ASSUME scene' = scene
    PROVE  NodePaths' = NodePaths /\ \A c : ObjectPath(c)' = ObjectPath(c)
<1>1. RootPath' = RootPath
  BY DEF RootPath
<1>2. NodePaths' = NodePaths
  BY <1>1 DEF NodePaths
<1>3. \A c : ObjectPath(c)' = ObjectPath(c)
  BY DEF ObjectPath, ObjectName, XformPath
<1> QED BY <1>2, <1>3

\* A node is called as in the scene, but for a number.
HasNodeName(context) == IsNumbered(context.name, Identifier(scene, context.node))

\* A node goes to such a path.
GoesToNodePath(context) ==
    /\ context.parent \in NodePaths /\ Len(context.parent) >= Len(RootPath)
    /\ ~IsClassName(context.name)

\* The prims that ProcessNode may name, with new classes of these names.
HasShape(context, prims, new) ==
    /\ \/ prims[1] = XformPath(context)
       \/ prims[1] = context.parent /\ HasWriter(context.node) /\ SharesPrim(context)
    /\ \A path \in Range(prims) :
            \/ path = prims[1] \/ path = ObjectPath(context)
            \/ \E name \in new : path \in ClassPrims(name)

\* A node has prims when one of its children has, if it is part of the content.
LEMMA ParentHasPrims ==
    ASSUME NEW p \in Nodes, InContent(p), NEW c \in ChildNodes(p), WillHavePrims(c)
    PROVE  WillHavePrims(p)
<1> SUFFICES ASSUME NEW S \in SUBSET Nodes, p \in S,
                    \A x \in S : \A d \in ChildNodes(x) : InContent(d) => d \in S
             PROVE  \E x \in S : InContent(x) /\ HasWriter(x)
  BY DEF WillHavePrims, HasExportableDescendants
<1>1. c \in S /\ InContent(c)
  BY DEF WillHavePrims
<1>2. CASE HasWriter(c)
  BY <1>1, <1>2
<1>3. CASE HasExportableDescendants(c)
  BY <1>1, <1>3 DEF HasExportableDescendants
<1> QED BY <1>2, <1>3 DEF WillHavePrims

\* One or two elements, as a sequence.
LEMMA ShortRanges ==
    ASSUME NEW x, NEW y
    PROVE  /\ Range(<<x>>) = {x} /\ Range(<<x, y>>) = {x, y}
           /\ <<x>>[1] = x /\ <<x, y>>[1] = x
BY DEF Range

\* A sequence and two more elements.
LEMMA PairElements ==
    ASSUME NEW S, NEW s \in Seq(S), s # <<>>, NEW x \in S, NEW y \in S
    PROVE  /\ (s \o <<x, y>>)[1] = s[1] /\ s \o <<x, y>> # <<>>
           /\ Range(s \o <<x, y>>) \subseteq Range(s) \union {x, y}
<1>1. Range(<<x, y>>) = {x, y}
  BY ShortRanges
<1>2. PICK t : t = <<x, y>>
  OBVIOUS
<1>3. t \in Seq(S) /\ Len(t) = 2 /\ Range(t) = {x, y} /\ DOMAIN t = 1..2
  BY <1>1, <1>2, ShortSeqs
<1>4. /\ s \o t \in Seq(S) /\ Len(s \o t) = Len(s) + Len(t)
      /\ \A i \in 1..Len(s) + Len(t) : (s \o t)[i] = IF i <= Len(s) THEN s[i] ELSE t[i - Len(s)]
  BY <1>3, ConcatProperties
<1>5. Len(s) \in Nat /\ Len(s) > 0 /\ DOMAIN s = 1..Len(s)
  BY EmptySeq
<1>6. (s \o t)[1] = s[1] /\ s \o t # <<>>
  BY <1>3, <1>4, <1>5
<1>7. ASSUME NEW i \in 1..Len(s) + Len(t)
      PROVE  (s \o t)[i] \in Range(s) \union {x, y}
  <2>1. CASE i <= Len(s)
    <3>1. (s \o t)[i] = s[i] /\ i \in DOMAIN s
      BY <2>1, <1>3, <1>4, <1>5
    <3> QED BY <3>1 DEF Range
  <2>2. CASE i > Len(s)
    <3>1. (s \o t)[i] = t[i - Len(s)] /\ i - Len(s) \in DOMAIN t
      BY <2>2, <1>3, <1>4, <1>5
    <3> QED BY <3>1, <1>3 DEF Range
  <2>3. i <= Len(s) \/ i > Len(s)
    BY <1>3, <1>5
  <2> QED BY ONLY <2>1, <2>2, <2>3
<1>8. DOMAIN (s \o t) = 1..Len(s) + Len(t)
  BY <1>4
<1>9. Range(s \o t) \subseteq Range(s) \union {x, y}
  BY <1>7, <1>8 DEF Range
<1> QED BY <1>2, <1>6, <1>9

\* What ProcessNode comes to: prims or none, and which.
LEMMA ProcessNodeShape ==
    ASSUME scene \in Scenes, NEW b, ClassesOK(b), NEW context \in Contexts,
           InContent(context.node), NEW made, made = ProcessNode(b, context)
    PROVE  /\ made.prims # <<>> <=> WillHavePrims(context.node)
           /\ b.names \subseteq made.classes.names
           /\ made.prims # <<>> => HasShape(context, made.prims, made.classes.names \ b.names)
<1> DEFINE n == context.node
           nothing == [prims |-> <<>>, object |-> NoPath, instance |-> NoPath, classes |-> b]
           xformPath == XformPath(context)
           objectPath == ObjectPath(context)
<1>1. /\ n \in Nodes /\ context.parent \in Prims /\ context.name \in Names
      /\ xformPath \in Prims /\ objectPath \in Prims
  <2>1. n \in Nodes /\ context.parent \in Prims /\ context.name \in Names
    BY DEF Contexts
  <2> QED BY <2>1, PathTypes DEF XformPath, ObjectPath
<1>2. CASE HasWriter(n) /\ (n \in DOMAIN b.of \/ CanBeInstanced(n))
  <2> DEFINE className == UniqueName(context.name, b.names)
             classPath == ClassPath(className)
             split == NeedsXform(n, TRUE)
             instancePath == IF split THEN objectPath
                             ELSE IF ReuseParentPrimForInstancing(context) THEN context.parent
                             ELSE xformPath
             ownPrims == IF split THEN <<xformPath, instancePath>> ELSE <<instancePath>>
             prototype == Append(classPath, context.name)
  <2>1. made = WriteInstancePrims(b, context, nothing)
    BY <1>2 DEF ProcessNode
  <2>2. /\ className \in Names \ b.names /\ classPath \in Prims /\ prototype \in Prims
        /\ classPath \in ClassPrims(className) /\ prototype \in ClassPrims(className)
    <3>1. className \in Names \ b.names
      BY <1>1, UniqueNameIsFree DEF ClassesOK
    <3> QED BY <1>1, <3>1, PathTypes DEF ClassPath, ClassPrims
  <2>3. IF n \notin DOMAIN b.of
        THEN /\ made.prims = ownPrims \o <<classPath, prototype>>
             /\ made.classes.names = b.names \union {className}
        ELSE made.prims = ownPrims /\ made.classes = b
    <3>1. CASE n \notin DOMAIN b.of
      <4>1. made.prims = ownPrims \o <<classPath, prototype>>
        BY <2>1, <3>1 DEF WriteInstancePrims, ClassPath, XformPath, ObjectPath
      <4>2. made.classes.names = b.names \union {className}
        BY <2>1, <3>1 DEF WriteInstancePrims
      <4> QED BY <3>1, <4>1, <4>2
    <3>2. CASE n \in DOMAIN b.of
      BY <2>1, <3>2 DEF WriteInstancePrims, ClassPath, XformPath, ObjectPath
    <3> QED BY <3>1, <3>2
  <2>4. ~split /\ ReuseParentPrimForInstancing(context) => HasWriter(n) /\ SharesPrim(context)
    BY <1>2 DEF NeedsXform, ReuseParentPrimForInstancing, SharesPrim
  <2> HIDE DEF className, classPath, prototype, xformPath, objectPath
  <2>5. instancePath \in Prims
    BY <1>1
  <2>6. /\ ownPrims \in Seq(Prims) /\ ownPrims # <<>>
        /\ ownPrims[1] = IF split THEN xformPath ELSE instancePath
        /\ Range(ownPrims) \subseteq {ownPrims[1], objectPath}
    <3>1. /\ <<xformPath, instancePath>> \in Seq(Prims) /\ <<instancePath>> \in Seq(Prims)
          /\ <<xformPath, instancePath>> # <<>> /\ <<instancePath>> # <<>>
      BY <1>1, <2>5, ShortSeqs
    <3>2. /\ Range(<<instancePath>>) = {instancePath} /\ <<instancePath>>[1] = instancePath
          /\ Range(<<xformPath, instancePath>>) = {xformPath, instancePath}
          /\ <<xformPath, instancePath>>[1] = xformPath
      BY ShortRanges
    <3> QED BY <3>1, <3>2
  <2>7. /\ ownPrims[1] = xformPath
           \/ (ownPrims[1] = context.parent /\ HasWriter(n) /\ SharesPrim(context))
    BY <2>4, <2>6
  <2> HIDE DEF ownPrims
  <2>8. CASE n \notin DOMAIN b.of
    <3>1. /\ made.prims # <<>> /\ made.prims[1] = ownPrims[1]
          /\ Range(made.prims) \subseteq Range(ownPrims) \union {classPath, prototype}
      <4>1. ownPrims \in Seq(Prims) /\ ownPrims # <<>> /\ classPath \in Prims /\ prototype \in Prims
        BY <2>2, <2>6
      <4>2. PICK t : t = ownPrims \o <<classPath, prototype>>
        OBVIOUS
      <4>3. t[1] = ownPrims[1] /\ t # <<>> /\ Range(t) \subseteq Range(ownPrims) \union {classPath, prototype}
        BY <4>1, <4>2, PairElements
      <4> QED BY <2>3, <2>8, <4>2, <4>3
    <3>2. className \in made.classes.names \ b.names /\ b.names \subseteq made.classes.names
      BY <2>2, <2>3, <2>8
    <3>3. HasShape(context, made.prims, made.classes.names \ b.names)
      BY <2>2, <2>6, <2>7, <3>1, <3>2 DEF HasShape, xformPath, objectPath
    <3> QED BY <1>2, <3>1, <3>2, <3>3 DEF WillHavePrims
  <2>9. CASE n \in DOMAIN b.of
    <3>1. HasShape(context, made.prims, {})
      BY <2>3, <2>6, <2>7, <2>9 DEF HasShape, xformPath, objectPath
    <3>2. made.classes.names \ b.names = {}
      BY <2>3, <2>9
    <3> QED BY <1>2, <2>3, <2>6, <2>9, <3>1, <3>2 DEF WillHavePrims
  <2> QED BY <2>8, <2>9
<1>3. CASE HasWriter(n) /\ ~(n \in DOMAIN b.of \/ CanBeInstanced(n))
  <2>1. made = WriteObjectPrims(context, nothing)
    BY <1>3 DEF ProcessNode
  <2>2. /\ made.prims \in {<<xformPath, objectPath>>, <<xformPath>>}
        /\ made.classes = b
    BY <2>1 DEF WriteObjectPrims, XformPath, ObjectPath
  <2> HIDE DEF xformPath, objectPath
  <2>3. /\ made.prims # <<>> /\ made.prims[1] = xformPath
        /\ Range(made.prims) \subseteq {xformPath, objectPath}
    BY <2>2 DEF Range
  <2>4. HasShape(context, made.prims, made.classes.names \ b.names)
    BY <2>3 DEF HasShape, xformPath, objectPath
  <2> QED BY <1>3, <2>2, <2>3, <2>4 DEF WillHavePrims
<1>4. CASE ~HasWriter(n) /\ HasExportableDescendants(n)
  <2>1. made.prims = <<xformPath>> /\ made.classes = b
    BY <1>4 DEF ProcessNode, XformPath
  <2> HIDE DEF xformPath
  <2>2. made.prims # <<>> /\ made.prims[1] = xformPath /\ Range(made.prims) = {xformPath}
    BY <2>1 DEF Range
  <2>3. HasShape(context, made.prims, made.classes.names \ b.names)
    BY <2>2 DEF HasShape, xformPath
  <2> QED BY <1>4, <2>1, <2>2, <2>3 DEF WillHavePrims
<1>5. CASE ~HasWriter(n) /\ ~HasExportableDescendants(n)
  BY <1>5 DEF ProcessNode, WillHavePrims
<1> QED BY <1>2, <1>3, <1>4, <1>5

-----------------------------------------------------------------------------
(* What the preview knows.  K stands for the stack, q for the items to do,  *)
(* N for the names, C for the names of classes and d for the noted prims.   *)

InTodo(n, q) == \E i \in 1..Len(q) : q[i].node = n
PlaceOf(p, d) == IF p \in DOMAIN d THEN d[p][1] ELSE RootPath
GeneratorOf(n) == Generator(ParentNode(n))

\* A node is below the place of its parent, which was previewed before.
IsBelowParent(n, path, q, d) ==
    LET p == ParentNode(n)
    IN  /\ p \in Nodes \union {SceneRoot} /\ n \in ChildNodes(p)
        /\ p = SceneRoot \/ ~InContent(p) \/ InTodo(p, q)
        /\ path = PlaceOf(p, d)

ItemKnown(item, q, N, d) ==
    /\ IsBelowParent(item.node, item.parent, q, d)
    /\ item.generator = GeneratorOf(item.node)
    /\ ExistingNames(item.parent) \subseteq N[item.generator]

PrimsKnown(c, prims, C) ==
    /\ prims \in Seq(Prims) /\ prims # <<>> /\ HasShape(c, prims, C)
    /\ prims[1] \in NodePaths /\ Len(prims[1]) > Len(RootPath)
    /\ AllowPrimOverwrites \/ Range(prims) \intersect Range(scene.existing) = {}

ContextKnown(c, q, N, C, d) ==
    /\ IsBelowParent(c.node, c.parent, q, d) /\ InContent(c.node)
    /\ c.name \in N[GeneratorOf(c.node)] /\ HasNodeName(c)
    /\ c.node \in DOMAIN d <=> WillHavePrims(c.node)
    /\ c.node \in DOMAIN d => PrimsKnown(c, d[c.node], C)

PreviewKnows(K, q, N, C, d) ==
    /\ \A i \in 1..Len(K) : ItemKnown(K[i], q, N, d)
    /\ \A i \in 1..Len(q) : ContextKnown(q[i], q, N, C, d)
    /\ \A i, j \in 1..Len(q) :
            i # j /\ GeneratorOf(q[i].node) = GeneratorOf(q[j].node) => q[i].name # q[j].name
    /\ \A n \in DOMAIN d : InTodo(n, q)
    /\ \A i, j \in 1..Len(q) :
            i # j /\ q[i].node \in DOMAIN d /\ q[j].node \in DOMAIN d =>
                q[i].parent # q[j].parent \/ q[i].name # q[j].name
    /\ \A m, n \in DOMAIN d : m # n => \A name \in Names :
            \/ ClassPrims(name) \intersect Range(d[m]) = {}
            \/ ClassPrims(name) \intersect Range(d[n]) = {}

\* NodesHavePrimsOfTheirOwn, of the prims in d.
PrimsOfTheirOwn(d) ==
    \A m, n \in DOMAIN d :
        /\ AllowPrimOverwrites \/ Range(d[n]) \intersect Range(scene.existing) = {}
        /\ m # n => \A path \in Range(d[m]) \intersect Range(d[n]) :
                        \/ ParentNode(m) = n /\ path = d[n][1] /\ ChildNodes(n) = {m}
                        \/ ParentNode(n) = m /\ path = d[m][1] /\ ChildNodes(m) = {n}

\* The first element of a sequence is one of it.
LEMMA FirstInRange ==
    ASSUME NEW S, NEW s \in Seq(S), s # <<>>
    PROVE  s[1] \in Range(s) /\ s[1] \in S
BY EmptySeq DEF Range

\* The place of a parent is the path of a node, longer than the root's if the
\* parent has prims.
LEMMA ParentPlace ==
    ASSUME scene \in Scenes, NEW K, NEW q \in Seq(Contexts), NEW N, NEW C, NEW d,
           PreviewKnows(K, q, N, C, d), NEW p
    PROVE  /\ PlaceOf(p, d) \in NodePaths /\ Len(PlaceOf(p, d)) \in Nat
           /\ Len(RootPath) \in Nat /\ Len(PlaceOf(p, d)) >= Len(RootPath)
           /\ p \in DOMAIN d => /\ Len(PlaceOf(p, d)) > Len(RootPath) /\ InContent(p)
                                /\ p \in Nodes
                                /\ \E i \in 1..Len(q) : q[i].node = p /\ PrimsKnown(q[i], d[p], C)
<1>1. RootPath \in NodePaths /\ Len(RootPath) \in Nat
  <2>1. RootPath \in Prims /\ Len(RootPath) \in Nat
    BY PathTypes DEF Prims
  <2> QED BY <2>1 DEF NodePaths
<1>2. CASE p \notin DOMAIN d
  BY <1>1, <1>2 DEF PlaceOf
<1>3. CASE p \in DOMAIN d
  <2>1. PICK i \in 1..Len(q) : q[i].node = p
    BY <1>3 DEF PreviewKnows, InTodo
  <2>2. ContextKnown(q[i], q, N, C, d) /\ q[i] \in Contexts
    BY <2>1 DEF PreviewKnows
  <2>3. PrimsKnown(q[i], d[p], C) /\ InContent(p) /\ p \in Nodes
    BY <1>3, <2>1, <2>2 DEF ContextKnown, Contexts
  <2>4. d[p][1] \in NodePaths /\ Len(d[p][1]) > Len(RootPath) /\ Len(d[p][1]) \in Nat
    <3>1. d[p][1] \in NodePaths /\ Len(d[p][1]) > Len(RootPath)
      BY <2>3 DEF PrimsKnown
    <3> QED BY <3>1 DEF NodePaths, Prims
  <2> QED BY <1>1, <1>3, <2>1, <2>3, <2>4 DEF PlaceOf
<1> QED BY <1>2, <1>3

\* The parent of a node with prims: it is the root or left out, or has prims.
LEMMA ParentOfPlaced ==
    ASSUME scene \in Scenes, NEW K, NEW q \in Seq(Contexts), NEW N, NEW C, NEW d,
           PreviewKnows(K, q, N, C, d),
           NEW n, NEW path, IsBelowParent(n, path, q, d), WillHavePrims(n),
           NEW p, p = ParentNode(n)
    PROVE  \/ /\ p = SceneRoot \/ ~InContent(p)
              /\ GeneratorOf(n) = SceneRoot /\ path = RootPath
           \/ /\ p \in DOMAIN d /\ InContent(p) /\ p # SceneRoot
              /\ GeneratorOf(n) = p /\ path = d[p][1] /\ Len(path) > Len(RootPath)
<1>1. p \in Nodes \union {SceneRoot} /\ n \in ChildNodes(p) /\ path = PlaceOf(p, d)
  BY DEF IsBelowParent
<1>2. CASE p = SceneRoot \/ ~InContent(p)
  <2>1. p \notin DOMAIN d
    BY <1>2, ParentPlace, SceneRootAssumption
  <2> QED BY <1>1, <1>2, <2>1 DEF GeneratorOf, Generator, PlaceOf, InContent
<1>3. CASE p # SceneRoot /\ InContent(p)
  <2>1. PICK i \in 1..Len(q) : q[i].node = p
    BY <1>3 DEF IsBelowParent, InTodo
  <2>2. WillHavePrims(p)
    BY <1>1, <1>3, ParentHasPrims
  <2>3. ContextKnown(q[i], q, N, C, d)
    BY <2>1 DEF PreviewKnows
  <2>4. p \in DOMAIN d
    BY <2>1, <2>2, <2>3 DEF ContextKnown
  <2> QED BY <1>1, <1>3, <2>4, ParentPlace DEF GeneratorOf, Generator, PlaceOf, InContent
<1> QED BY <1>2, <1>3

\* Two contexts with the same path have the same parent's path and name.
LEMMA XformPathInjective ==
    ASSUME scene \in Scenes, NEW a \in Contexts, NEW b \in Contexts
    PROVE  /\ XformPath(a) = XformPath(b) => a.parent = b.parent /\ a.name = b.name
           /\ ObjectPath(a) = ObjectPath(b) => XformPath(a) = XformPath(b)
<1>1. /\ a.parent \in Prims /\ b.parent \in Prims
      /\ a.name \in Names /\ b.name \in Names
      /\ ObjectName(a) \in Names /\ ObjectName(b) \in Names
  BY PathTypes DEF Contexts
<1>2. XformPath(a) \in Prims /\ XformPath(b) \in Prims
  BY <1>1, AppendProperties DEF XformPath, Prims
<1>3. XformPath(a) = XformPath(b) => a.parent = b.parent /\ a.name = b.name
  BY <1>1, AppendInjective DEF XformPath, Prims
<1>4. ObjectPath(a) = ObjectPath(b) => XformPath(a) = XformPath(b)
  <2> HIDE DEF XformPath
  <2> QED BY <1>1, <1>2, AppendInjective DEF ObjectPath, Prims
<1> QED BY <1>3, <1>4

\* The place of a node that has children is its own, and of no other node
\* that has children.
LEMMA PlaceOfParents ==
    ASSUME scene \in Scenes, NEW K, NEW q \in Seq(Contexts), NEW N, NEW C, NEW d,
           PreviewKnows(K, q, N, C, d),
           NEW m \in DOMAIN d, ChildNodes(m) # {}
    PROVE  /\ \E i \in 1..Len(q) : q[i].node = m /\ d[m][1] = XformPath(q[i])
           /\ \A n \in DOMAIN d : ChildNodes(n) # {} /\ d[m][1] = d[n][1] => m = n
<1>1. ASSUME NEW n \in DOMAIN d, ChildNodes(n) # {}
      PROVE  \E i \in 1..Len(q) : q[i].node = n /\ d[n][1] = XformPath(q[i])
  <2>1. PICK i \in 1..Len(q) : q[i].node = n /\ PrimsKnown(q[i], d[n], C)
    BY ParentPlace
  <2> QED BY <1>1, <2>1 DEF PrimsKnown, HasShape, SharesPrim
<1>2. ASSUME NEW n \in DOMAIN d, ChildNodes(n) # {}, d[m][1] = d[n][1]
      PROVE  m = n
  <2>1. PICK i \in 1..Len(q) : q[i].node = m /\ d[m][1] = XformPath(q[i])
    BY <1>1
  <2>2. PICK j \in 1..Len(q) : q[j].node = n /\ d[n][1] = XformPath(q[j])
    BY <1>1, <1>2
  <2>3. q[i].parent = q[j].parent /\ q[i].name = q[j].name
    <3>1. q[i] \in Contexts /\ q[j] \in Contexts /\ scene \in Scenes
      OBVIOUS
    <3>2. XformPath(q[i]) = XformPath(q[j])
      BY ONLY <1>2, <2>1, <2>2
    <3> QED BY ONLY <3>1, <3>2, XformPathInjective
  <2> QED BY <2>1, <2>2, <2>3 DEF PreviewKnows
<1> QED BY <1>1, <1>2

\* A node that is to share the prim of its helper, and one that does.
GoesToHelper(c, q, d) ==
    /\ IsBelowParent(c.node, c.parent, q, d) /\ InContent(c.node)
    /\ HasWriter(c.node) /\ SharesPrim(c)

IsWithHelper(c, d) ==
    LET h == ParentNode(c.node)
    IN  /\ h \in DOMAIN d /\ ChildNodes(h) = {c.node} /\ ChildNodes(c.node) = {}
        /\ c.parent = d[h][1] /\ Len(c.parent) > Len(RootPath)

\* A node that shares the prim of its helper is the helper's only child.
LEMMA SharesWithParent ==
    ASSUME scene \in Scenes, OrdinaryScenes, NEW K, NEW q \in Seq(Contexts), NEW N, NEW C, NEW d,
           PreviewKnows(K, q, N, C, d),
           NEW c \in Contexts, GoesToHelper(c, q, d)
    PROVE  IsWithHelper(c, d)
<1> USE DEF GoesToHelper
<1>1. PICK h : h = ParentNode(c.node)
  OBVIOUS
<1>2. h \in Nodes \union {SceneRoot} /\ c.node \in ChildNodes(h) /\ c.node \in Nodes
  BY <1>1 DEF IsBelowParent, Contexts
<1>3. /\ h # SceneRoot /\ scene.kind[h] = "pointHelper" /\ Len(scene.children[h]) <= 1
      /\ ChildNodes(c.node) = {}
  BY <1>1 DEF SharesPrim
<1>4. scene.children[h] \in Seq(Nodes) /\ h \in Nodes
  BY <1>2, <1>3, SceneIsTyped DEF SceneTypeOK
<1>5. scene.children[h] = <<c.node>> /\ ChildNodes(h) = {c.node}
  <2>1. PICK i \in 1..Len(scene.children[h]) : scene.children[h][i] = c.node
    BY <1>2, <1>4 DEF ChildNodes, Range
  <2>2. Len(scene.children[h]) = 1 /\ i = 1
    <3>1. PICK L \in Nat : L = Len(scene.children[h])
      BY <1>4
    <3>2. L <= 1 /\ i \in 1..L
      BY <1>3, <3>1
    <3>3. L = 1 /\ i = 1
      BY <3>2
    <3> QED BY <3>1, <3>3
  <2>3. scene.children[h] = <<c.node>>
    BY <1>4, <2>1, <2>2
  <2> QED BY <2>3, ShortRanges DEF ChildNodes
<1>6. InContent(h)
  BY <1>2, <1>3, <1>4, <1>5 DEF OrdinaryScenes, IsOrdinary, InContent
<1>7. WillHavePrims(c.node)
  BY DEF WillHavePrims
<1>8. /\ h \in DOMAIN d /\ c.parent = d[h][1] /\ Len(c.parent) > Len(RootPath)
  BY <1>1, <1>3, <1>6, <1>7, ParentOfPlaced
<1> QED BY <1>1, <1>3, <1>5, <1>8 DEF IsWithHelper

\* A node gets a path that no node before it has.
LEMMA PathIsNew ==
    ASSUME scene \in Scenes, NEW K, NEW q \in Seq(Contexts), NEW N, NEW C, NEW d,
           PreviewKnows(K, q, N, C, d),
           NEW c \in Contexts, IsBelowParent(c.node, c.parent, q, d), InContent(c.node),
           WillHavePrims(c.node), c.name \notin N[GeneratorOf(c.node)],
           NEW j \in 1..Len(q), q[j].node \in DOMAIN d
    PROVE  q[j].parent # c.parent \/ q[j].name # c.name
<1> SUFFICES ASSUME q[j].parent = c.parent, q[j].name = c.name
             PROVE  FALSE
  OBVIOUS
<1> DEFINE m == q[j].node
           n == c.node
<1>1. ContextKnown(q[j], q, N, C, d)
  BY DEF PreviewKnows
<1>2. IsBelowParent(m, c.parent, q, d) /\ WillHavePrims(m)
  BY <1>1 DEF ContextKnown
<1>3. GeneratorOf(m) # GeneratorOf(n)
  BY <1>1 DEF ContextKnown
<1>4. PICK p, r : p = ParentNode(m) /\ r = ParentNode(n)
  OBVIOUS
<1>5. /\ \/ GeneratorOf(m) = SceneRoot /\ c.parent = RootPath
         \/ /\ p \in DOMAIN d /\ GeneratorOf(m) = p
            /\ c.parent = d[p][1] /\ Len(c.parent) > Len(RootPath)
      /\ \/ GeneratorOf(n) = SceneRoot /\ c.parent = RootPath
         \/ /\ r \in DOMAIN d /\ GeneratorOf(n) = r
            /\ c.parent = d[r][1] /\ Len(c.parent) > Len(RootPath)
  BY <1>2, <1>4, ParentOfPlaced
<1>6. /\ p \in DOMAIN d /\ GeneratorOf(m) = p /\ c.parent = d[p][1]
      /\ r \in DOMAIN d /\ GeneratorOf(n) = r /\ c.parent = d[r][1]
  <2>1. Len(RootPath) \in Nat
    BY ParentPlace
  <2>2. ~ (Len(RootPath) > Len(RootPath))
    BY <2>1
  <2> QED BY <1>3, <1>5, <2>2
<1>7. ChildNodes(p) # {} /\ ChildNodes(r) # {}
  BY <1>2, <1>4 DEF IsBelowParent
<1>8. d[p][1] = d[r][1]
  BY <1>6
<1>9. p = r
  BY ONLY <1>6, <1>7, <1>8, PlaceOfParents, scene \in Scenes, PreviewKnows(K, q, N, C, d), q \in Seq(Contexts)
<1> QED BY <1>3, <1>6, <1>9

\* A path of a node and one more name is not of a class, either, if that is
\* not its name.
LEMMA LongerNodePath ==
    ASSUME scene \in Scenes, NEW path \in NodePaths, NEW x \in Names,
           NEW longer, longer = Append(path, x), Len(path) >= Len(RootPath),
           Len(path) > Len(RootPath) \/ ~IsClassName(x)
    PROVE  longer \in NodePaths /\ Len(longer) > Len(RootPath)
<1>1. Len(RootPath) \in Nat /\ path \in Prims /\ Len(path) \in Nat
  BY PathTypes DEF Prims, NodePaths
<1>2. /\ longer \in Prims /\ Len(longer) = Len(path) + 1 /\ longer[Len(path) + 1] = x
      /\ \A i \in 1..Len(path) : longer[i] = path[i]
  BY <1>1, AppendProperties DEF Prims
<1>3. ~IsClassName(longer[Len(RootPath) + 1])
  <2>1. CASE Len(path) = Len(RootPath)
    <3>1. ~IsClassName(x)
      BY <1>1, <2>1
    <3> QED BY <1>2, <2>1, <3>1
  <2>2. CASE Len(path) > Len(RootPath)
    <3>1. longer[Len(RootPath) + 1] = path[Len(RootPath) + 1]
      BY <1>1, <1>2, <2>2
    <3>2. ~IsClassName(path[Len(RootPath) + 1])
      BY <2>2 DEF NodePaths
    <3> QED BY <3>1, <3>2
  <2> QED BY <1>1, <2>1, <2>2
<1>4. longer \in NodePaths
  BY <1>2, <1>3, Zenon DEF NodePaths
<1> QED BY <1>1, <1>2, <1>4

\* The paths of a node and its object are not of classes, and longer than
\* the root's.
LEMMA PathsOfNodes ==
    ASSUME scene \in Scenes, NEW c \in Contexts, GoesToNodePath(c)
    PROVE  /\ XformPath(c) \in NodePaths /\ Len(XformPath(c)) > Len(RootPath)
           /\ ObjectPath(c) \in NodePaths /\ Len(ObjectPath(c)) > Len(RootPath)
<1>1. Len(RootPath) \in Nat
  BY PathTypes DEF Prims
<1>2. c.parent \in NodePaths /\ c.name \in Names /\ ObjectName(c) \in Names
  BY PathTypes DEF Contexts, GoesToNodePath
<1>3. XformPath(c) \in NodePaths /\ Len(XformPath(c)) > Len(RootPath)
  BY <1>2, LongerNodePath DEF XformPath, GoesToNodePath
<1>4. Len(XformPath(c)) \in Nat
  BY <1>3 DEF NodePaths, Prims
<1>5. ObjectPath(c) \in NodePaths /\ Len(ObjectPath(c)) > Len(RootPath)
  <2>1. PICK path, x : path = XformPath(c) /\ x = ObjectName(c)
    OBVIOUS
  <2>2. PICK longer : longer = Append(path, x)
    OBVIOUS
  <2>3. Len(path) >= Len(RootPath)
    BY <1>1, <1>3, <1>4, <2>1
  <2>4. longer \in NodePaths /\ Len(longer) > Len(RootPath)
    BY <1>2, <1>3, <2>1, <2>2, <2>3, LongerNodePath
  <2> QED BY <2>1, <2>2, <2>4 DEF ObjectPath
<1> QED BY <1>3, <1>5

\* The prims of a class have its name, right below the root.
LEMMA ClassPrimParts ==
    ASSUME scene \in Scenes, NEW k \in Names, NEW path \in ClassPrims(k)
    PROVE  /\ path \in Prims /\ Len(path) \in Nat /\ Len(path) > Len(RootPath)
           /\ Len(RootPath) \in Nat /\ path[Len(RootPath) + 1] = ClassName(k)
<1>1. RootPath \in Prims /\ ClassName(k) \in Names /\ Len(RootPath) \in Nat
  BY PathTypes, NameParts DEF Prims
<1>2. /\ ClassPath(k) \in Prims /\ Len(ClassPath(k)) = Len(RootPath) + 1
      /\ ClassPath(k)[Len(RootPath) + 1] = ClassName(k)
  BY <1>1, AppendProperties DEF ClassPath, Prims
<1>3. CASE path = ClassPath(k)
  BY <1>1, <1>2, <1>3
<1>4. ASSUME NEW x \in Names, path = Append(ClassPath(k), x)
      PROVE  /\ path \in Prims /\ Len(path) = Len(RootPath) + 2
             /\ path[Len(RootPath) + 1] = ClassName(k)
  <2>1. /\ Len(path) = Len(ClassPath(k)) + 1 /\ path \in Prims
        /\ \A j \in 1..Len(ClassPath(k)) : path[j] = ClassPath(k)[j]
    BY <1>2, <1>4, AppendProperties DEF Prims
  <2> QED BY <1>1, <1>2, <2>1
<1> QED BY <1>1, <1>3, <1>4 DEF ClassPrims

\* The prims of classes differ from those of nodes, and from one class to
\* another.
LEMMA ClassPrimKinds ==
    ASSUME scene \in Scenes, NEW k \in Names, NEW l \in Names, NEW path \in ClassPrims(k)
    PROVE  /\ path \in ClassPrims(l) => k = l
           /\ path \notin NodePaths
<1>1. /\ Len(path) > Len(RootPath) /\ path[Len(RootPath) + 1] = ClassName(k)
      /\ path \in ClassPrims(l) => path[Len(RootPath) + 1] = ClassName(l)
  BY ClassPrimParts
<1> QED BY <1>1, ClassNames DEF NodePaths

\* Prims of classes among those of a node are of its new classes.
LEMMA ClassPrimsAmong ==
    ASSUME scene \in Scenes, NEW c \in Contexts, GoesToNodePath(c),
           NEW prims, NEW new, new \subseteq Names, HasShape(c, prims, new),
           prims[1] \in NodePaths,
           NEW k \in Names, NEW path \in Range(prims), path \in ClassPrims(k)
    PROVE  k \in new
<1>1. path # prims[1] /\ path # ObjectPath(c)
  BY ClassPrimKinds, PathsOfNodes
<1>2. PICK l \in new : path \in ClassPrims(l)
  BY <1>1 DEF HasShape
<1> QED BY <1>2, ClassPrimKinds

\* In an ordinary scene, the name of a node is not that of a class.
LEMMA NodeNameIsOrdinary ==
    ASSUME scene \in Scenes, OrdinaryScenes, NEW c \in Contexts, HasNodeName(c)
    PROVE  ~IsClassName(c.name)
<1>1. c.node \in Nodes /\ c.name \in Names
  BY DEF Contexts
<1>2. Identifier(scene, c.node) \in Names
  BY <1>1, SceneIsTyped, NodesAssumption DEF SceneTypeOK, NodesAssumption, Identifier
<1>3. ~IsClassName(Identifier(scene, c.node))
  BY <1>1 DEF OrdinaryScenes, IsOrdinary
<1> QED BY <1>1, <1>2, <1>3, NumberedClassName DEF HasNodeName

\* What was previewed goes to the path of a node.
LEMMA ToNodePath ==
    ASSUME scene \in Scenes, OrdinaryScenes, NEW K, NEW q \in Seq(Contexts), NEW N, NEW C, NEW d,
           PreviewKnows(K, q, N, C, d),
           NEW c \in Contexts, IsBelowParent(c.node, c.parent, q, d), HasNodeName(c)
    PROVE  GoesToNodePath(c)
<1>1. PICK p : p = ParentNode(c.node)
  OBVIOUS
<1>2. c.parent = PlaceOf(p, d)
  BY <1>1 DEF IsBelowParent
<1>3. PlaceOf(p, d) \in NodePaths /\ Len(PlaceOf(p, d)) >= Len(RootPath)
  BY ParentPlace
<1> QED BY <1>2, <1>3, NodeNameIsOrdinary DEF GoesToNodePath

\* The name of a child of a node is not that of the node's object.
LEMMA NotNamedLikeObject ==
    ASSUME scene \in Scenes, OrdinaryScenes, NEW a \in Contexts, NEW b \in Contexts,
           HasNodeName(a), HasNodeName(b), b.node \in ChildNodes(a.node)
    PROVE  b.name # ObjectName(a)
<1> SUFFICES ASSUME b.name = ObjectName(a)
             PROVE  FALSE
  OBVIOUS
<1>1. PICK word : word = <<ObjectPrimSuffix[scene.kind[a.node]], 0>>
  OBVIOUS
<1>2. PICK id : id = Identifier(scene, b.node)
  OBVIOUS
<1>3. a.node \in Nodes /\ b.node \in Nodes /\ a.name \in Names /\ b.name \in Names
  BY DEF Contexts
<1>4. id \in Names
  BY <1>2, <1>3, SceneIsTyped, NodesAssumption DEF SceneTypeOK, NodesAssumption, Identifier
<1>5. PICK k \in 0..Last(b.name)[2] : b.name = Numbered(id, k)
  BY <1>2 DEF HasNodeName, IsNumbered
<1>6. a.name \in Seq(Words \X Nat) /\ Len(a.name) \in Nat /\ Len(a.name) > 0
  BY <1>3, NameParts
<1>7. word \in Words \X Nat /\ word[2] = 0
  <2>1. scene.kind[a.node] \in Kinds
    BY <1>3, SceneIsTyped DEF SceneTypeOK
  <2>2. ObjectPrimSuffix[scene.kind[a.node]] \in Words
    BY <2>1, WordsAssumption DEF WordsAssumption
  <2> QED BY <1>1, <2>2
<1>8. b.name = Append(a.name, word)
  BY <1>1 DEF ObjectName
<1>9. /\ Len(b.name) = Len(a.name) + 1 /\ Last(b.name) = word /\ Front(b.name) = a.name
  <2>1. PICK x : x = a.name
    OBVIOUS
  <2>2. Len(Append(x, word)) = Len(x) + 1 /\ Last(Append(x, word)) = word /\ Front(Append(x, word)) = x
    BY <1>6, <1>7, <2>1, AppendProperties DEF Front, Last
  <2> QED BY <1>8, <2>1, <2>2
<1>10. k = 0
  BY <1>5, <1>7, <1>9
<1>11. b.name = id
  BY <1>4, <1>5, <1>10, NumberedName
<1>12. IsObjectNamesake(scene, a.node, b.node)
  <2>1. b.node \in Range(scene.children[a.node])
    BY DEF ChildNodes
  <2>2. IsNumbered(a.name, Identifier(scene, a.node))
    BY DEF HasNodeName
  <2>3. Len(id) > 1 /\ Last(id) = <<ObjectPrimSuffix[scene.kind[a.node]], 0>> /\ Front(id) = a.name
    BY <1>1, <1>6, <1>9, <1>11
  <2> QED BY <1>2, <2>1, <2>2, <2>3 DEF IsObjectNamesake
<1> QED BY <1>3, <1>12 DEF OrdinaryScenes, IsOrdinary

\* A node has the path of its name as its first prim.
HasPathOfName(n, q, d) == \E i \in 1..Len(q) : q[i].node = n /\ d[n][1] = XformPath(q[i])

\* The first prim of a node: its own, or the one of the helper it is the only
\* child of.
LEMMA FirstPrims ==
    ASSUME scene \in Scenes, OrdinaryScenes, NEW K, NEW q \in Seq(Contexts), NEW N, NEW C, NEW d,
           PreviewKnows(K, q, N, C, d), NEW n \in DOMAIN d
    PROVE  \/ HasPathOfName(n, q, d)
           \/ \E h \in DOMAIN d :
                /\ h = ParentNode(n) /\ ChildNodes(h) = {n} /\ d[n][1] = d[h][1]
                /\ HasPathOfName(h, q, d)
<1>1. PICK i \in 1..Len(q) : q[i].node = n /\ PrimsKnown(q[i], d[n], C)
  BY ParentPlace
<1>2. q[i] \in Contexts /\ ContextKnown(q[i], q, N, C, d)
  BY DEF PreviewKnows
<1>3. CASE d[n][1] = XformPath(q[i])
  BY <1>1, <1>3 DEF HasPathOfName
<1>4. CASE d[n][1] # XformPath(q[i])
  <2>1. d[n][1] = q[i].parent /\ HasWriter(n) /\ SharesPrim(q[i])
    BY <1>1, <1>4 DEF PrimsKnown, HasShape
  <2>2. IsBelowParent(n, q[i].parent, q, d) /\ InContent(n)
    BY <1>1, <1>2 DEF ContextKnown
  <2>3. PICK h : h = ParentNode(n)
    OBVIOUS
  <2>4. h \in DOMAIN d /\ ChildNodes(h) = {n} /\ q[i].parent = d[h][1]
    <3>1. PICK c \in Contexts : c = q[i]
      BY <1>2
    <3>2. GoesToHelper(c, q, d)
      BY <1>1, <2>1, <2>2, <3>1 DEF GoesToHelper
    <3>3. IsWithHelper(c, d)
      BY <3>2, SharesWithParent
    <3> QED BY <1>1, <2>3, <3>1, <3>3 DEF IsWithHelper
  <2>5. HasPathOfName(h, q, d)
    <3>1. ChildNodes(h) # {} /\ h \in DOMAIN d
      BY <2>4
    <3> QED BY <3>1, PlaceOfParents DEF HasPathOfName
  <2> QED BY <2>1, <2>3, <2>4, <2>5
<1> QED BY <1>3, <1>4

\* When two nodes have the same first prim, one is the helper of the other.
LEMMA SameFirstPrim ==
    ASSUME scene \in Scenes, OrdinaryScenes, NEW K, NEW q \in Seq(Contexts), NEW N, NEW C, NEW d,
           PreviewKnows(K, q, N, C, d),
           NEW m \in DOMAIN d, NEW n \in DOMAIN d, m # n, d[m][1] = d[n][1]
    PROVE  \/ ParentNode(m) = n /\ ChildNodes(n) = {m}
           \/ ParentNode(n) = m /\ ChildNodes(m) = {n}
<1>1. ASSUME NEW i \in 1..Len(q), NEW j \in 1..Len(q), q[i].node \in DOMAIN d, q[j].node \in DOMAIN d,
             XformPath(q[i]) = XformPath(q[j])
      PROVE  q[i].node = q[j].node
  <2>1. q[i] \in Contexts /\ q[j] \in Contexts
    OBVIOUS
  <2>2. q[i].parent = q[j].parent /\ q[i].name = q[j].name
    BY <1>1, <2>1, XformPathInjective
  <2> QED BY <1>1, <2>2 DEF PreviewKnows
<1> DEFINE Own(x) == HasPathOfName(x, q, d)
           Shares(x, h) == /\ h \in DOMAIN d /\ h = ParentNode(x) /\ ChildNodes(h) = {x}
                           /\ d[x][1] = d[h][1] /\ Own(h)
<1>2. ASSUME NEW x \in DOMAIN d, NEW y \in DOMAIN d, Own(x), Own(y), d[x][1] = d[y][1]
      PROVE  x = y
  <2>1. PICK i \in 1..Len(q) : q[i].node = x /\ d[x][1] = XformPath(q[i])
    BY <1>2 DEF HasPathOfName
  <2>2. PICK j \in 1..Len(q) : q[j].node = y /\ d[y][1] = XformPath(q[j])
    BY <1>2 DEF HasPathOfName
  <2>3. XformPath(q[i]) = XformPath(q[j])
    BY ONLY <1>2, <2>1, <2>2
  <2> QED BY <1>1, <2>1, <2>2, <2>3
<1>3. (Own(m) \/ \E h : Shares(m, h)) /\ (Own(n) \/ \E h : Shares(n, h))
  <2>1. ASSUME NEW x \in DOMAIN d
        PROVE  Own(x) \/ \E h : Shares(x, h)
    <3>1. \/ Own(x)
          \/ \E h \in DOMAIN d : /\ h = ParentNode(x) /\ ChildNodes(h) = {x} /\ d[x][1] = d[h][1]
                                /\ Own(h)
      BY FirstPrims
    <3> QED BY <3>1
  <2> QED BY <2>1
<1> HIDE DEF Own
<1>4. CASE Own(m) /\ Own(n)
  BY <1>2, <1>4
<1>5. ASSUME NEW h, Shares(m, h), Own(n)
      PROVE  ParentNode(m) = n /\ ChildNodes(n) = {m}
  <2>1. h = n
    BY <1>2, <1>5
  <2> QED BY <1>5, <2>1
<1>6. ASSUME NEW h, Shares(n, h), Own(m)
      PROVE  ParentNode(n) = m /\ ChildNodes(m) = {n}
  <2>1. h = m
    BY <1>2, <1>6
  <2> QED BY <1>6, <2>1
<1>7. ASSUME NEW g, Shares(m, g), NEW h, Shares(n, h)
      PROVE  FALSE
  <2>1. g = h
    BY <1>2, <1>7
  <2> QED BY <1>7, <2>1
<1> QED BY <1>3, <1>4, <1>5, <1>6, <1>7

\* The first prim of a node is not the prim of another's object.
LEMMA ObjectPathIsFree ==
    ASSUME scene \in Scenes, OrdinaryScenes, NEW K, NEW q \in Seq(Contexts), NEW N, NEW C, NEW d,
           PreviewKnows(K, q, N, C, d),
           NEW n \in DOMAIN d, NEW j \in 1..Len(q), q[j].node \in DOMAIN d
    PROVE  d[n][1] # ObjectPath(q[j])
<1> SUFFICES ASSUME d[n][1] = ObjectPath(q[j])
             PROVE  FALSE
  OBVIOUS
<1>1. PICK m \in DOMAIN d : HasPathOfName(m, q, d) /\ d[m][1] = d[n][1]
  BY FirstPrims
<1>2. PICK i \in 1..Len(q) : q[i].node = m /\ d[m][1] = XformPath(q[i])
  BY <1>1 DEF HasPathOfName
<1>3. /\ q[i] \in Contexts /\ ContextKnown(q[i], q, N, C, d)
      /\ q[j] \in Contexts /\ ContextKnown(q[j], q, N, C, d)
  BY DEF PreviewKnows
<1>4. /\ IsBelowParent(q[i].node, q[i].parent, q, d) /\ WillHavePrims(q[i].node)
      /\ HasNodeName(q[i]) /\ HasNodeName(q[j])
      /\ IsBelowParent(q[j].node, q[j].parent, q, d)
  BY <1>1, <1>2, <1>3 DEF ContextKnown
<1>5. q[i].parent = XformPath(q[j]) /\ q[i].name = ObjectName(q[j])
  <2>1. Append(q[i].parent, q[i].name) = Append(XformPath(q[j]), ObjectName(q[j]))
    BY <1>1, <1>2 DEF XformPath, ObjectPath
  <2>2. /\ q[i].parent \in Prims /\ q[i].name \in Names
        /\ XformPath(q[j]) \in Prims /\ ObjectName(q[j]) \in Names
    BY <1>3, PathTypes DEF Contexts, XformPath
  <2> QED BY <2>1, <2>2, AppendInjective DEF Prims
<1>6. Len(XformPath(q[j])) > Len(RootPath) /\ Len(RootPath) \in Nat
  <2>1. PICK c \in Contexts : c = q[j]
    BY <1>3
  <2>2. GoesToNodePath(c)
    BY <1>4, <2>1, ToNodePath
  <2> QED BY <2>1, <2>2, PathsOfNodes, PathTypes DEF Prims
<1>7. PICK p : p = ParentNode(q[i].node)
  OBVIOUS
<1>8. p \in DOMAIN d /\ q[i].parent = d[p][1] /\ q[i].node \in ChildNodes(p)
  <2>1. q[i].node \in ChildNodes(p)
    BY <1>4, <1>7 DEF IsBelowParent
  <2>2. q[i].parent # RootPath
    BY <1>5, <1>6
  <2>3. PICK x, path : x = q[i].node /\ path = q[i].parent
    OBVIOUS
  <2>4. p \in DOMAIN d /\ path = d[p][1]
    BY <1>4, <1>7, <2>2, <2>3, ParentOfPlaced
  <2> QED BY <2>1, <2>3, <2>4
<1>9. PICK l \in 1..Len(q) : q[l].node = p /\ d[p][1] = XformPath(q[l])
  <2>1. ChildNodes(p) # {}
    BY <1>8
  <2> QED BY <1>8, <2>1, PlaceOfParents
<1>10. q[l].parent = q[j].parent /\ q[l].name = q[j].name
  <2>1. XformPath(q[l]) = XformPath(q[j])
    BY <1>5, <1>8, <1>9
  <2>2. q[l] \in Contexts
    OBVIOUS
  <2> QED BY <1>3, <2>1, <2>2, XformPathInjective
<1>11. p = q[j].node
  BY <1>8, <1>9, <1>10 DEF PreviewKnows
<1>12. PICK a \in Contexts, b \in Contexts : a = q[j] /\ b = q[i]
  BY <1>3
<1> QED BY <1>4, <1>5, <1>8, <1>11, <1>12, NotNamedLikeObject

\* What the preview knows says that the nodes have prims of their own.
LEMMA KnownPrimsDiffer ==
    ASSUME scene \in Scenes, OrdinaryScenes, NEW K, NEW q \in Seq(Contexts), NEW N,
           NEW C, C \subseteq Names, NEW d, PreviewKnows(K, q, N, C, d)
    PROVE  PrimsOfTheirOwn(d)
<1>1. ASSUME NEW n \in DOMAIN d
      PROVE  AllowPrimOverwrites \/ Range(d[n]) \intersect Range(scene.existing) = {}
  BY <1>1, ParentPlace DEF PrimsKnown
<1>2. ASSUME NEW m \in DOMAIN d, NEW n \in DOMAIN d, m # n,
             NEW path \in Range(d[m]) \intersect Range(d[n])
      PROVE  path = d[m][1] /\ path = d[n][1]
  <2>1. PICK i \in 1..Len(q) : q[i].node = m /\ PrimsKnown(q[i], d[m], C)
    BY ParentPlace
  <2>2. PICK j \in 1..Len(q) : q[j].node = n /\ PrimsKnown(q[j], d[n], C)
    BY ParentPlace
  <2>3. q[i] \in Contexts /\ q[j] \in Contexts
    OBVIOUS
  <2>4. i # j /\ XformPath(q[i]) # XformPath(q[j])
    <3>1. i # j
      BY <1>2, <2>1, <2>2
    <3>2. q[i].parent # q[j].parent \/ q[i].name # q[j].name
      BY <2>1, <2>2, <3>1 DEF PreviewKnows
    <3> QED BY <2>3, <3>1, <3>2, XformPathInjective
  <2>5. /\ path = d[m][1] \/ path = ObjectPath(q[i]) \/ \E k \in Names : path \in ClassPrims(k)
        /\ path = d[n][1] \/ path = ObjectPath(q[j]) \/ \E k \in Names : path \in ClassPrims(k)
    BY <2>1, <2>2 DEF PrimsKnown, HasShape
  <2>6. \A k \in Names : path \notin ClassPrims(k)
    BY <1>2 DEF PreviewKnows
  <2>7. ObjectPath(q[i]) # ObjectPath(q[j])
    BY <2>3, <2>4, XformPathInjective
  <2>8. d[m][1] # ObjectPath(q[j]) /\ d[n][1] # ObjectPath(q[i])
    BY <2>1, <2>2, ObjectPathIsFree
  <2> QED BY <2>5, <2>6, <2>7, <2>8
<1>3. ASSUME NEW m \in DOMAIN d, NEW n \in DOMAIN d, m # n,
             NEW path \in Range(d[m]) \intersect Range(d[n])
      PROVE  \/ ParentNode(m) = n /\ path = d[n][1] /\ ChildNodes(n) = {m}
             \/ ParentNode(n) = m /\ path = d[m][1] /\ ChildNodes(m) = {n}
  <2>1. path = d[m][1] /\ path = d[n][1]
    BY <1>2, <1>3
  <2>2. d[m][1] = d[n][1]
    BY <2>1
  <2>3. \/ ParentNode(m) = n /\ ChildNodes(n) = {m}
        \/ ParentNode(n) = m /\ ChildNodes(m) = {n}
    BY <1>3, <2>2, SameFirstPrim
  <2> QED BY <2>1, <2>3
<1> QED BY <1>1, <1>3 DEF PrimsOfTheirOwn

\* What ProcessNode names for a node of a new name is as it should be.
LEMMA NewPrimsKnown ==
    ASSUME scene \in Scenes, OrdinaryScenes, NEW K, NEW q \in Seq(Contexts), NEW N, NEW d,
           NEW b, ClassesOK(b), PreviewKnows(K, q, N, b.names, d),
           NEW c \in Contexts, IsBelowParent(c.node, c.parent, q, d), InContent(c.node),
           WillHavePrims(c.node), NEW used, c.name \notin used, HasNodeName(c),
           ExistingNames(c.parent) \subseteq used, Range(scene.existing) \subseteq ToSet(stage),
           NEW made, made = ProcessNode(b, c)
    PROVE  PrimsKnown(c, made.prims, made.classes.names)
<1> DEFINE prims == made.prims
           new == made.classes.names \ b.names
<1>1. /\ prims \in Seq(Prims) /\ prims # <<>> /\ HasShape(c, prims, new)
      /\ made.classes.names \subseteq Names
  BY ProcessNodeType, ProcessNodeShape DEF ClassesOK
<1> HIDE DEF prims
<1>2. /\ c.parent \in NodePaths /\ Len(c.parent) \in Nat /\ Len(RootPath) \in Nat
      /\ Len(c.parent) >= Len(RootPath) /\ c.name \in Names /\ c.parent \in Prims
      /\ GoesToNodePath(c)
  <2>1. PICK p : p = ParentNode(c.node)
    OBVIOUS
  <2>2. c.parent = PlaceOf(p, d)
    BY <2>1 DEF IsBelowParent
  <2>3. /\ PlaceOf(p, d) \in NodePaths /\ Len(PlaceOf(p, d)) \in Nat
        /\ Len(RootPath) \in Nat /\ Len(PlaceOf(p, d)) >= Len(RootPath)
    <3> HIDE DEF prims
    <3> QED BY ParentPlace
  <2>4. c.name \in Names /\ c.parent \in Prims
    BY DEF Contexts
  <2>5. GoesToNodePath(c)
    <3> HIDE DEF prims
    <3> QED BY ToNodePath
  <2> QED BY <2>2, <2>3, <2>4, <2>5
<1>3. XformPath(c) \in NodePaths /\ Len(XformPath(c)) > Len(RootPath)
      /\ XformPath(c) # <<>> /\ Front(XformPath(c)) = c.parent /\ Last(XformPath(c)) = c.name
  <2>1. c.parent \in Seq(Names) /\ Append(c.parent, c.name) # <<>>
    BY <1>2, AppendProperties DEF Prims
  <2>2. Front(Append(c.parent, c.name)) = c.parent /\ Last(Append(c.parent, c.name)) = c.name
    BY <1>2, <2>1, AppendProperties DEF Front, Last
  <2> QED BY <1>2, <2>1, <2>2, PathsOfNodes DEF XformPath
<1>4. ASSUME prims[1] # XformPath(c)
      PROVE  prims[1] = c.parent /\ IsWithHelper(c, d)
  <2>1. prims[1] = c.parent /\ GoesToHelper(c, q, d)
    BY <1>1, <1>4 DEF HasShape, GoesToHelper
  <2> QED BY <2>1, SharesWithParent
<1>5. prims[1] \in NodePaths /\ Len(prims[1]) > Len(RootPath)
  BY <1>2, <1>3, <1>4 DEF IsWithHelper
<1>6. ASSUME ~AllowPrimOverwrites, NEW path \in Range(prims), path \in Range(scene.existing)
      PROVE  FALSE
  <2>1. XformPath(c) \notin Range(scene.existing)
    <3> SUFFICES ASSUME XformPath(c) \in ToSet(stage)
                 PROVE  FALSE
      OBVIOUS
    <3>1. XformPath(c) \in {q1 \in ToSet(stage) : q1 # NoPath /\ Front(q1) = c.parent}
      BY <1>3 DEF NoPath
    <3>2. Last(XformPath(c)) \in ExistingNames(c.parent)
      BY <3>1, <1>6 DEF ExistingNames
    <3> QED BY <3>2, <1>3
  <2>2. CASE path = XformPath(c)
    BY <2>1, <2>2, <1>6
  <2>3. CASE path = prims[1] /\ prims[1] # XformPath(c)
    <3>1. PICK h : h = ParentNode(c.node)
      OBVIOUS
    <3>2. h \in DOMAIN d /\ path = d[h][1]
      BY <1>4, <2>3, <3>1 DEF IsWithHelper
    <3>3. d[h] \in Seq(Prims) /\ d[h] # <<>> /\ Range(d[h]) \intersect Range(scene.existing) = {}
      <4>1. PICK i \in 1..Len(q) : q[i].node = h /\ PrimsKnown(q[i], d[h], b.names)
        BY <3>2, ParentPlace
      <4> QED BY <1>6, <4>1 DEF PrimsKnown
    <3>4. d[h][1] \in Range(d[h])
      BY <3>3, FirstInRange
    <3> QED BY <1>6, <3>2, <3>3, <3>4
  <2>4. IsOrdinary(scene)
    BY DEF OrdinaryScenes
  <2>5. CASE path = ObjectPath(c)
    <3>1. XformPath(c) \in Prims /\ ObjectName(c) \in Names
      BY <1>2, PathTypes DEF XformPath
    <3>2. /\ Len(ObjectPath(c)) = Len(XformPath(c)) + 1 /\ Front(ObjectPath(c)) = XformPath(c)
      <4>1. PICK x, y : x = XformPath(c) /\ y = ObjectName(c)
        OBVIOUS
      <4>2. Len(Append(x, y)) = Len(x) + 1 /\ Front(Append(x, y)) = x
        BY <3>1, <4>1, AppendProperties DEF Front, Prims
      <4> QED BY <4>1, <4>2 DEF ObjectPath
    <3>3. Len(ObjectPath(c)) > 1
      BY <1>2, <1>3, <3>2
    <3>4. Front(ObjectPath(c)) \in Range(scene.existing)
      BY <1>6, <2>4, <2>5, <3>3 DEF IsOrdinary
    <3> QED BY <2>1, <3>2, <3>4
  <2>6. ASSUME NEW k \in Names, path \in ClassPrims(k)
        PROVE  FALSE
    <3>1. PICK i : i = Len(RootPath) + 1
      OBVIOUS
    <3>2. i \in DOMAIN path /\ path[i] = ClassName(k)
      BY <2>6, <3>1, ClassPrimParts DEF Prims
    <3>3. IsClassName(ClassName(k))
      BY ClassNames
    <3> QED BY <1>6, <2>4, <3>2, <3>3 DEF IsOrdinary
  <2>7. new \subseteq Names
    BY <1>1
  <2> QED BY <1>1, <1>6, <2>2, <2>3, <2>5, <2>6, <2>7 DEF HasShape
<1>7. HasShape(c, prims, made.classes.names)
  BY <1>1 DEF HasShape
<1>8. PrimsKnown(c, prims, made.classes.names)
  BY <1>1, <1>5, <1>6, <1>7 DEF PrimsKnown
<1> QED BY <1>8 DEF prims

\* The items to do and the noted prims after c was previewed.
AfterTodo(q, c) == Append(q, c)
AfterDefs(d, c, prims) == IF prims # <<>> THEN Inserted(d, c.node, prims) ELSE d

\* What was to do or noted is so afterwards.
LEMMA AfterKeeps ==
    ASSUME NEW q \in Seq(Contexts), NEW c \in Contexts, NEW d, c.node \notin DOMAIN d, NEW prims,
           NEW q2, q2 = AfterTodo(q, c), NEW d2, d2 = AfterDefs(d, c, prims)
    PROVE  /\ q2 \in Seq(Contexts) /\ Len(q2) = Len(q) + 1 /\ Len(q) \in Nat
           /\ q2[Len(q) + 1] = c /\ \A i \in 1..Len(q) : q2[i] = q[i]
           /\ \A x : InTodo(x, q2) <=> InTodo(x, q) \/ x = c.node
           /\ \A x : x # c.node => /\ x \in DOMAIN d2 <=> x \in DOMAIN d
                                   /\ x \in DOMAIN d => d2[x] = d[x]
                                   /\ PlaceOf(x, d2) = PlaceOf(x, d)
           /\ c.node \in DOMAIN d2 <=> prims # <<>>
           /\ prims # <<>> => d2[c.node] = prims
<1>1. /\ q2 \in Seq(Contexts) /\ Len(q2) = Len(q) + 1 /\ Len(q) \in Nat
      /\ q2[Len(q) + 1] = c /\ \A i \in 1..Len(q) : q2[i] = q[i]
  BY AppendProperties DEF AfterTodo
<1>2. ASSUME NEW x
      PROVE  InTodo(x, q2) <=> InTodo(x, q) \/ x = c.node
  <2>1. ASSUME NEW i \in 1..Len(q2), q2[i].node = x
        PROVE  InTodo(x, q) \/ x = c.node
    <3>1. i \in 1..Len(q) \/ i = Len(q) + 1
      BY <1>1
    <3> QED BY <1>1, <2>1, <3>1 DEF InTodo
  <2>2. ASSUME NEW i \in 1..Len(q), q[i].node = x
        PROVE  InTodo(x, q2)
    <3>1. i \in 1..Len(q2)
      BY <1>1
    <3> QED BY <1>1, <2>2, <3>1 DEF InTodo
  <2>3. Len(q) + 1 \in 1..Len(q2)
    BY <1>1
  <2>4. InTodo(c.node, q2)
    BY <1>1, <2>3 DEF InTodo
  <2> QED BY <2>1, <2>2, <2>4 DEF InTodo
<1>3. CASE prims # <<>>
  <2>1. d2 = [x \in DOMAIN d \union {c.node} |-> IF x = c.node THEN prims ELSE d[x]]
    BY <1>3 DEF AfterDefs, Inserted
  <2> QED BY <1>1, <1>2, <1>3, <2>1 DEF PlaceOf
<1>4. CASE prims = <<>>
  BY <1>1, <1>2, <1>4 DEF AfterDefs, PlaceOf
<1> QED BY <1>3, <1>4

\* A node that was previewed stays below its parent.
LEMMA StaysBelow ==
    ASSUME scene \in Scenes, NEW q \in Seq(Contexts), NEW c \in Contexts, InContent(c.node),
           ~InTodo(c.node, q), NEW d, c.node \notin DOMAIN d, NEW prims,
           NEW q2, q2 = AfterTodo(q, c), NEW d2, d2 = AfterDefs(d, c, prims),
           NEW x, NEW path, IsBelowParent(x, path, q, d)
    PROVE  IsBelowParent(x, path, q2, d2)
<1>1. PICK p : p = ParentNode(x)
  OBVIOUS
<1>2. /\ p \in Nodes \union {SceneRoot} /\ x \in ChildNodes(p)
      /\ p = SceneRoot \/ ~InContent(p) \/ InTodo(p, q)
      /\ path = PlaceOf(p, d)
  BY <1>1 DEF IsBelowParent
<1>3. p # c.node
  BY <1>2, SceneRootAssumption DEF Contexts
<1>4. path = PlaceOf(p, d2) /\ (InTodo(p, q) => InTodo(p, q2))
  BY <1>2, <1>3, AfterKeeps
<1> QED BY <1>1, <1>2, <1>4 DEF IsBelowParent

NamesKept(N, N2) == \A g \in Nodes \union {SceneRoot} : N[g] \subseteq N2[g]

\* With more names of classes, prims are as they should be all the same.
LEMMA MoreClasses ==
    ASSUME NEW c, NEW prims, NEW C, NEW C2, C \subseteq C2, PrimsKnown(c, prims, C)
    PROVE  PrimsKnown(c, prims, C2)
<1>1. HasShape(c, prims, C2)
  BY DEF PrimsKnown, HasShape
<1> QED BY <1>1 DEF PrimsKnown

\* What is known of a node that was previewed stays so.
LEMMA ContextStaysKnown ==
    ASSUME scene \in Scenes, NEW q \in Seq(Contexts), NEW N, NEW N2, NamesKept(N, N2),
           NEW C, NEW C2, C \subseteq C2,
           NEW c \in Contexts, InContent(c.node), ~InTodo(c.node, q),
           NEW d, c.node \notin DOMAIN d, NEW prims,
           NEW q2, q2 = AfterTodo(q, c), NEW d2, d2 = AfterDefs(d, c, prims),
           NEW i \in 1..Len(q), ContextKnown(q[i], q, N, C, d)
    PROVE  ContextKnown(q2[i], q2, N2, C2, d2)
<1>1. q2[i] = q[i] /\ q[i].node # c.node
  BY AfterKeeps DEF InTodo
<1>2. PICK x : x = q[i]
  OBVIOUS
<1>3. /\ IsBelowParent(x.node, x.parent, q, d) /\ InContent(x.node)
      /\ x.name \in N[GeneratorOf(x.node)] /\ HasNodeName(x)
      /\ x.node \in DOMAIN d <=> WillHavePrims(x.node)
      /\ x.node \in DOMAIN d => PrimsKnown(x, d[x.node], C)
  BY <1>2 DEF ContextKnown
<1>4. IsBelowParent(x.node, x.parent, q2, d2)
  BY <1>3, StaysBelow
<1>5. x.name \in N2[GeneratorOf(x.node)]
  <2>1. GeneratorOf(x.node) \in Nodes \union {SceneRoot}
    BY <1>3 DEF IsBelowParent, GeneratorOf, Generator
  <2> QED BY <1>3, <2>1 DEF NamesKept
<1>6. /\ x.node \in DOMAIN d2 <=> x.node \in DOMAIN d
      /\ x.node \in DOMAIN d => d2[x.node] = d[x.node]
  BY <1>1, <1>2, AfterKeeps
<1>7. x.node \in DOMAIN d => PrimsKnown(x, d[x.node], C2)
  BY <1>3, MoreClasses
<1>8. ContextKnown(x, q2, N2, C2, d2)
  BY <1>3, <1>4, <1>5, <1>6, <1>7 DEF ContextKnown
<1> QED BY <1>1, <1>2, <1>8

\* What the preview knows is so after a node of the content.
LEMMA PreviewKnowsMore ==
    ASSUME scene \in Scenes, OrdinaryScenes, Range(scene.existing) \subseteq ToSet(stage),
           NEW K, NEW q \in Seq(Contexts), NEW N, NEW N2, NamesKept(N, N2),
           NEW b, ClassesOK(b), NEW d, PreviewKnows(K, q, N, b.names, d),
           NEW c \in Contexts, IsBelowParent(c.node, c.parent, q, d), InContent(c.node),
           ~InTodo(c.node, q), HasNodeName(c),
           c.name \notin N[GeneratorOf(c.node)], c.name \in N2[GeneratorOf(c.node)],
           ExistingNames(c.parent) \subseteq N[GeneratorOf(c.node)],
           NEW made, made = ProcessNode(b, c),
           NEW q2, q2 = AfterTodo(q, c), NEW d2, d2 = AfterDefs(d, c, made.prims)
    PROVE  PreviewKnows(<<>>, q2, N2, made.classes.names, d2)
<1> DEFINE C == b.names
           C2 == made.classes.names
           prims == made.prims
<1>1. c.node \notin DOMAIN d
  BY DEF PreviewKnows
<1>2. /\ prims # <<>> <=> WillHavePrims(c.node)
      /\ C \subseteq C2 /\ C \subseteq Names /\ C2 \subseteq Names
      /\ prims # <<>> => HasShape(c, prims, C2 \ C)
  BY ProcessNodeShape, ProcessNodeType DEF ClassesOK
<1>3. prims # <<>> => PrimsKnown(c, prims, C2)
  <2> SUFFICES ASSUME prims # <<>>
               PROVE  PrimsKnown(c, prims, C2)
    OBVIOUS
  <2>1. WillHavePrims(c.node)
    BY <1>2
  <2>2. PICK used : used = N[GeneratorOf(c.node)]
    OBVIOUS
  <2> HIDE DEF C2, prims
  <2>3. PrimsKnown(c, made.prims, made.classes.names)
    BY <2>1, <2>2, NewPrimsKnown
  <2> QED BY <2>3 DEF C2, prims
<1> HIDE DEF C, C2, prims
<1>4. d2 = AfterDefs(d, c, prims) /\ PreviewKnows(K, q, N, C, d)
  BY DEF C, prims
<1> HIDE DEF PreviewKnows
<1>5. /\ q2 \in Seq(Contexts) /\ Len(q2) = Len(q) + 1 /\ Len(q) \in Nat
      /\ q2[Len(q) + 1] = c /\ \A i \in 1..Len(q) : q2[i] = q[i]
      /\ \A x : InTodo(x, q2) <=> InTodo(x, q) \/ x = c.node
      /\ \A x : x # c.node => /\ x \in DOMAIN d2 <=> x \in DOMAIN d
                              /\ x \in DOMAIN d => d2[x] = d[x]
      /\ c.node \in DOMAIN d2 <=> prims # <<>>
      /\ prims # <<>> => d2[c.node] = prims
  BY <1>1, <1>4, AfterKeeps
<1>6. \A i \in 1..Len(q2) : i \in 1..Len(q) \/ i = Len(q) + 1
  BY <1>5
<1>7. \A i \in 1..Len(q) : q[i].node # c.node
  BY DEF InTodo
<1>8. ASSUME NEW i \in 1..Len(q2)
      PROVE  ContextKnown(q2[i], q2, N2, C2, d2)
  <2>1. CASE i \in 1..Len(q)
    <3>1. ContextKnown(q[i], q, N, C, d)
      BY <1>4, <2>1 DEF PreviewKnows
    <3> QED BY <1>1, <1>2, <1>4, <2>1, <3>1, ContextStaysKnown
  <2>2. CASE i = Len(q) + 1
    <3>1. IsBelowParent(c.node, c.parent, q2, d2)
      BY <1>1, <1>4, StaysBelow
    <3>2. ContextKnown(c, q2, N2, C2, d2)
      BY <1>2, <1>3, <1>5, <3>1 DEF ContextKnown
    <3> QED BY <1>5, <2>2, <3>2
  <2> QED BY <1>6, <2>1, <2>2
<1>9. ASSUME NEW i \in 1..Len(q2), NEW j \in 1..Len(q2), i # j,
             GeneratorOf(q2[i].node) = GeneratorOf(q2[j].node)
      PROVE  q2[i].name # q2[j].name
  <2>1. \A k \in 1..Len(q) : GeneratorOf(q[k].node) = GeneratorOf(c.node) => q[k].name # c.name
    <3> SUFFICES ASSUME NEW k \in 1..Len(q), GeneratorOf(q[k].node) = GeneratorOf(c.node)
                 PROVE  q[k].name # c.name
      OBVIOUS
    <3>1. q[k].name \in N[GeneratorOf(q[k].node)]
      BY <1>4 DEF PreviewKnows, ContextKnown
    <3> QED BY <3>1
  <2>2. CASE i \in 1..Len(q) /\ j \in 1..Len(q)
    BY <1>4, <1>5, <1>9, <2>2 DEF PreviewKnows
  <2>3. CASE i \in 1..Len(q) /\ j = Len(q) + 1
    BY <1>5, <1>9, <2>1, <2>3
  <2>4. CASE i = Len(q) + 1 /\ j \in 1..Len(q)
    BY <1>5, <1>9, <2>1, <2>4
  <2> QED BY <1>6, <1>9, <2>2, <2>3, <2>4
<1>10. ASSUME NEW n \in DOMAIN d2
       PROVE  InTodo(n, q2)
  BY <1>4, <1>5 DEF PreviewKnows
<1>11. ASSUME NEW i \in 1..Len(q2), NEW j \in 1..Len(q2), i # j,
              q2[i].node \in DOMAIN d2, q2[j].node \in DOMAIN d2
       PROVE  q2[i].parent # q2[j].parent \/ q2[i].name # q2[j].name
  <2>1. ASSUME NEW k \in 1..Len(q), q[k].node \in DOMAIN d, WillHavePrims(c.node)
        PROVE  q[k].parent # c.parent \/ q[k].name # c.name
    BY <1>4, <2>1, PathIsNew
  <2>2. CASE i \in 1..Len(q) /\ j \in 1..Len(q)
    BY <1>4, <1>5, <1>7, <1>11, <2>2 DEF PreviewKnows
  <2>3. CASE i \in 1..Len(q) /\ j = Len(q) + 1
    BY <1>2, <1>5, <1>7, <1>11, <2>1, <2>3
  <2>4. CASE i = Len(q) + 1 /\ j \in 1..Len(q)
    BY <1>2, <1>5, <1>7, <1>11, <2>1, <2>4
  <2> QED BY <1>6, <1>11, <2>2, <2>3, <2>4
<1>12. ASSUME NEW m \in DOMAIN d, prims # <<>>, NEW name \in Names
       PROVE  \/ ClassPrims(name) \intersect Range(d[m]) = {}
              \/ ClassPrims(name) \intersect Range(prims) = {}
  <2> SUFFICES ASSUME NEW x \in Range(d[m]), NEW y \in Range(prims),
                      x \in ClassPrims(name), y \in ClassPrims(name)
               PROVE  FALSE
    OBVIOUS
  <2>1. PICK i \in 1..Len(q) : q[i].node = m /\ PrimsKnown(q[i], d[m], C)
    <3>1. \E i \in 1..Len(q) : q[i].node = m /\ PrimsKnown(q[i], d[m], C)
      BY ONLY m \in DOMAIN d, <1>4, ParentPlace, scene \in Scenes, q \in Seq(Contexts)
    <3> QED BY <3>1
  <2>2. PICK a \in Contexts : a = q[i] /\ GoesToNodePath(a)
    <3>1. PICK a \in Contexts : a = q[i]
      OBVIOUS
    <3>2. IsBelowParent(a.node, a.parent, q, d) /\ HasNodeName(a)
      BY <1>4, <3>1 DEF PreviewKnows, ContextKnown
    <3>3. GoesToNodePath(a)
      BY <1>4, <3>2, ToNodePath
    <3> QED BY <3>1, <3>3
  <2>3. name \in C
    BY <1>2, <2>1, <2>2, ClassPrimsAmong DEF PrimsKnown
  <2>4. name \in C2 \ C
    <3>1. PICK new : new = C2 \ C
      OBVIOUS
    <3>2. new \subseteq Names /\ HasShape(c, prims, new) /\ prims[1] \in NodePaths
      BY <1>2, <1>3, <1>12, <3>1 DEF PrimsKnown
    <3>3. GoesToNodePath(c)
      BY <1>4, ToNodePath
    <3>4. name \in new
      BY <3>2, <3>3, ClassPrimsAmong
    <3> QED BY <3>1, <3>4
  <2> QED BY <2>3, <2>4
<1>13. ASSUME NEW m \in DOMAIN d2, NEW n \in DOMAIN d2, m # n, NEW name \in Names
       PROVE  \/ ClassPrims(name) \intersect Range(d2[m]) = {}
              \/ ClassPrims(name) \intersect Range(d2[n]) = {}
  <2>1. CASE m # c.node /\ n # c.node
    BY <1>4, <1>5, <1>13, <2>1 DEF PreviewKnows
  <2>2. CASE m = c.node
    BY <1>5, <1>12, <1>13, <2>2
  <2>3. CASE n = c.node
    BY <1>5, <1>12, <1>13, <2>3
  <2> QED BY <2>1, <2>2, <2>3
<1>14. \A i \in 1..Len(<<>>) : ItemKnown(<<>>[i], q2, N2, d2)
  OBVIOUS
<1>15. PreviewKnows(<<>>, q2, N2, C2, d2)
  BY <1>8, <1>9, <1>10, <1>11, <1>13, <1>14 DEF PreviewKnows
<1> QED BY <1>15 DEF C2

BelowKept(q, d, q2, d2) ==
    \A x, path : IsBelowParent(x, path, q, d) => IsBelowParent(x, path, q2, d2)

\* The items on the stack are as they should be after the top is popped and
\* its children are pushed.
LEMMA StackStaysKnown ==
    ASSUME scene \in Scenes, NEW K \in Seq(Items), K # <<>>, NEW q, NEW N, NEW d,
           \A i \in 1..Len(K) : ItemKnown(K[i], q, N, d),
           NEW q2, NEW d2, BelowKept(q, d, q2, d2), NEW N2, NamesKept(N, N2),
           NEW n \in Nodes, InContent(n) => InTodo(n, q2),
           NEW place \in Prims, place = PlaceOf(n, d2),
           ExistingNames(place) \subseteq N2[Generator(n)],
           NEW K2, K2 = PushedChildren(n, place) \o Tail(K)
    PROVE  \A i \in 1..Len(K2) : ItemKnown(K2[i], q2, N2, d2)
<1>1. PICK P : P = PushedChildren(n, place)
  OBVIOUS
<1>2. /\ P \in Seq(Items) /\ Tail(K) \in Seq(Items)
      /\ \A k \in 1..Len(P) : /\ P[k].node \in ChildNodes(n) /\ P[k].parent = place
                              /\ P[k].generator = Generator(n)
  BY <1>1, PushedItems
<1>3. /\ Len(P \o Tail(K)) = Len(P) + Len(Tail(K)) /\ Len(P) \in Nat /\ Len(K) \in Nat
      /\ \A i \in 1..Len(P) + Len(Tail(K)) :
            (P \o Tail(K))[i] = IF i <= Len(P) THEN P[i] ELSE Tail(K)[i - Len(P)]
  BY <1>2, ConcatProperties
<1>4. /\ Len(K) > 0 /\ Len(Tail(K)) = Len(K) - 1
      /\ \A i \in 1..Len(K) - 1 : Tail(K)[i] = K[i + 1]
  BY HeadTailProperties, EmptySeq
<1>5. K2 = P \o Tail(K)
  BY <1>1
<1>6. ASSUME NEW k \in 1..Len(P)
      PROVE  ItemKnown(P[k], q2, N2, d2)
  <2>1. PICK x, item : item = P[k] /\ x = item.node
    OBVIOUS
  <2>2. x \in ChildNodes(n) /\ item.parent = place /\ item.generator = Generator(n)
    BY <1>2, <2>1
  <2>3. ParentNode(x) = n
    BY <2>2, OneParent DEF ParentNode
  <2>4. IsBelowParent(x, place, q2, d2)
    BY <2>2, <2>3 DEF IsBelowParent
  <2>5. ItemKnown(item, q2, N2, d2)
    BY <2>1, <2>2, <2>3, <2>4 DEF ItemKnown, GeneratorOf
  <2> QED BY <2>1, <2>5
<1>7. ASSUME NEW k \in 1..Len(K)
      PROVE  ItemKnown(K[k], q2, N2, d2)
  <2>1. PICK item : item = K[k]
    OBVIOUS
  <2>2. ItemKnown(item, q, N, d) /\ item \in Items
    BY <2>1
  <2>3. IsBelowParent(item.node, item.parent, q2, d2)
    BY <2>2 DEF BelowKept, ItemKnown
  <2>4. ExistingNames(item.parent) \subseteq N2[item.generator]
    BY <2>2 DEF NamesKept, ItemKnown, Items
  <2>5. ItemKnown(item, q2, N2, d2)
    BY <2>2, <2>3, <2>4 DEF ItemKnown
  <2> QED BY <2>1, <2>5
<1>8. ASSUME NEW i \in 1..Len(K2)
      PROVE  ItemKnown(K2[i], q2, N2, d2)
  <2>1. i \in 1..Len(P) + Len(Tail(K))
    BY <1>3, <1>5
  <2>2. CASE i <= Len(P)
    <3>1. K2[i] = P[i] /\ i \in 1..Len(P)
      BY <1>3, <1>5, <2>1, <2>2
    <3> QED BY <1>6, <3>1
  <2>3. CASE i > Len(P)
    <3>1. PICK k : k = i - Len(P)
      OBVIOUS
    <3>2. i \in Nat /\ k \in 1..Len(Tail(K)) /\ K2[i] = Tail(K)[k]
      BY <1>2, <1>3, <1>4, <1>5, <2>1, <2>3, <3>1
    <3>3. k + 1 \in 1..Len(K) /\ k \in 1..Len(K) - 1
      BY <1>3, <1>4, <3>2
    <3>4. Tail(K)[k] = K[k + 1]
      BY <1>4, <3>3
    <3> QED BY <1>7, <3>2, <3>3, <3>4
  <2> QED BY <1>3, <2>1, <2>2, <2>3
<1> QED BY <1>8

\* What is known depends on the scene and on the stage, and on nothing else
\* that changes.
LEMMA PreviewKnowsIsFixed ==
    ASSUME scene' = scene, stage' = stage, NEW K, NEW q, NEW N, NEW C, NEW d,
           PreviewKnows(K, q, N, C, d)
    PROVE  PreviewKnows(K, q, N, C, d)'
<1>1. \A n : /\ ChildNodes(n)' = ChildNodes(n) /\ InContent(n)' = InContent(n)
             /\ HasWriter(n)' = HasWriter(n) /\ Generator(n)' = Generator(n)
  BY DEF ChildNodes, InContent, HasWriter, Generator
<1>2. \A n : /\ ParentNode(n)' = ParentNode(n)
             /\ HasExportableDescendants(n)' = HasExportableDescendants(n)
  BY <1>1 DEF ParentNode, HasExportableDescendants
<1>3. /\ RootPath' = RootPath /\ NodePaths' = NodePaths
      /\ \A path : ExistingNames(path)' = ExistingNames(path)
      /\ \A p, e : PlaceOf(p, e)' = PlaceOf(p, e)
  BY DEF RootPath, NodePaths, ExistingNames, PlaceOf
<1>4. /\ \A n : WillHavePrims(n)' = WillHavePrims(n) /\ GeneratorOf(n)' = GeneratorOf(n)
      /\ \A c : SharesPrim(c)' = SharesPrim(c)
      /\ \A c : ObjectName(c)' = ObjectName(c) /\ HasNodeName(c)' = HasNodeName(c)
      /\ \A name : ClassPrims(name)' = ClassPrims(name)
  BY <1>1, <1>2, <1>3 DEF WillHavePrims, GeneratorOf, SharesPrim, ObjectName, HasNodeName,
                          Identifier, ClassPrims, ClassPath
<1>5. \A c, prims, new : HasShape(c, prims, new)' <=> HasShape(c, prims, new)
  BY <1>1, <1>4 DEF HasShape, XformPath, ObjectPath
<1>6. \A n, path, r, e : IsBelowParent(n, path, r, e)' <=> IsBelowParent(n, path, r, e)
  BY <1>1, <1>2, <1>3 DEF IsBelowParent
<1>7. /\ \A item, r, M, e : ItemKnown(item, r, M, e)' <=> ItemKnown(item, r, M, e)
      /\ \A c, prims, new : PrimsKnown(c, prims, new)' <=> PrimsKnown(c, prims, new)
  BY <1>3, <1>4, <1>5, <1>6 DEF ItemKnown, PrimsKnown
<1>8. \A c, r, M, new, e : ContextKnown(c, r, M, new, e)' <=> ContextKnown(c, r, M, new, e)
  BY <1>1, <1>4, <1>6, <1>7 DEF ContextKnown
<1> QED BY <1>4, <1>7, <1>8 DEF PreviewKnows

\* With more names given and another stack, what is known of the nodes that
\* were previewed stays so.
LEMMA NodesStayKnown ==
    ASSUME NEW K, NEW q, NEW N, NEW N2, NamesKept(N, N2), NEW C, NEW d,
           PreviewKnows(K, q, N, C, d)
    PROVE  PreviewKnows(<<>>, q, N2, C, d)
<1>1. ASSUME NEW i \in 1..Len(q)
      PROVE  ContextKnown(q[i], q, N2, C, d)
  <2>1. PICK x : x = q[i]
    OBVIOUS
  <2>2. ContextKnown(x, q, N, C, d)
    BY <2>1 DEF PreviewKnows
  <2>3. GeneratorOf(x.node) \in Nodes \union {SceneRoot}
    BY <2>2 DEF ContextKnown, IsBelowParent, GeneratorOf, Generator
  <2>4. x.name \in N2[GeneratorOf(x.node)]
    BY <2>2, <2>3 DEF ContextKnown, NamesKept
  <2> QED BY <2>1, <2>2, <2>4 DEF ContextKnown
<1>2. \A i \in 1..Len(<<>>) : ItemKnown(<<>>[i], q, N2, d)
  OBVIOUS
<1> QED BY <1>1, <1>2 DEF PreviewKnows

\* What is known of a stack and of what was previewed with another.
LEMMA StackAndNodes ==
    ASSUME NEW K, NEW L, NEW q, NEW N, NEW C, NEW d, PreviewKnows(L, q, N, C, d),
           \A i \in 1..Len(K) : ItemKnown(K[i], q, N, d)
    PROVE  PreviewKnows(K, q, N, C, d)
BY DEF PreviewKnows

-----------------------------------------------------------------------------
(* The nodes have prims of their own *)

\* During the preview, all that is known of it.
Knows ==
    /\ pass = "preview" =>
        /\ Range(scene.existing) \subseteq ToSet(stage)
        /\ \E K, q, N, C, d :
            /\ K = stack /\ q = todo /\ N = names /\ C = classes.names /\ d = defs
            /\ PreviewKnows(K, q, N, C, d)
    /\ NodesHavePrimsOfTheirOwn

\* A step of the preview keeps what is known.
LEMMA KnowsPreviewNode ==
    ASSUME OrdinaryScenes, ReplayInv, Knows, PreviewNode
    PROVE  \E K, q, N, C, d :
                /\ K = stack' /\ q = todo' /\ N = names' /\ C = classes'.names /\ d = defs'
                /\ PreviewKnows(K, q, N, C, d)
<1>1. /\ pass = "preview" /\ stack # <<>>
      /\ IF InContent(Item.node)
         THEN todo' = Append(todo, TopContext) /\ classes' = TopMade.classes
         ELSE todo' = todo /\ classes' = classes
      /\ defs' = IF TopIsPlaced THEN Inserted(defs, Item.node, TopMade.prims) ELSE defs
      /\ stack' = PushedChildren(Item.node, TopPlace) \o Tail(stack)
      /\ names' = [g \in DOMAIN names |->
                        names[g]
                        \union (IF g = Item.generator THEN {TopName} ELSE {})
                        \union (IF g = Generator(Item.node)
                                THEN ExistingNames(TopPlace) ELSE {})]
  BY PreviewNodeSteps
<1>2. /\ Types /\ scene \in Scenes /\ stack \in Seq(Items) /\ todo \in Seq(Contexts)
      /\ ClassesOK(classes) /\ DOMAIN names = Nodes \union {SceneRoot}
  BY DEF ReplayInv, Types
<1>3. /\ Item \in Items /\ TopContext \in Contexts /\ TopPlace \in Prims
      /\ TopName \notin names[Item.generator]
      /\ IsNumbered(TopName, Identifier(scene, Item.node))
  BY <1>1, <1>2, TopTypes
<1>4. /\ Item.node \in Nodes /\ Item.generator \in Nodes \union {SceneRoot}
      /\ Generator(Item.node) \in Nodes \union {SceneRoot}
  BY <1>3 DEF Items, Generator
<1>5. HasNodeName(TopContext)
  BY <1>3 DEF HasNodeName, TopContext
<1>6. ~InTodo(Item.node, todo) /\ Item.node \notin DOMAIN defs
  <2>1. Item = stack[1] /\ 1 \in 1..Len(stack)
    BY <1>1, <1>2, EmptySeq, HeadTailProperties DEF Item
  <2> QED BY <2>1 DEF ReplayInv, Walk, InTodo
<1>7. PICK K, q, N, C, d :
        /\ K = stack /\ q = todo /\ N = names /\ C = classes.names /\ d = defs
        /\ PreviewKnows(K, q, N, C, d)
  BY <1>1 DEF Knows
<1>8. PICK N2, K2 : N2 = names' /\ K2 = stack'
  OBVIOUS
<1>9. PICK c, made, n, place : c = TopContext /\ made = TopMade /\ n = Item.node /\ place = TopPlace
  OBVIOUS
<1>10. PICK b : b = classes
  OBVIOUS
<1>11. /\ q \in Seq(Contexts) /\ K \in Seq(Items) /\ K # <<>> /\ ClassesOK(b)
       /\ PreviewKnows(K, q, N, b.names, d) /\ c \in Contexts /\ c.node = n /\ n \in Nodes
       /\ place \in Prims /\ made = ProcessNode(b, c)
       /\ ~InTodo(n, q) /\ n \notin DOMAIN d /\ HasNodeName(c)
       /\ Range(scene.existing) \subseteq ToSet(stage)
  BY <1>1, <1>2, <1>3, <1>4, <1>5, <1>6, <1>7, <1>9, <1>10 DEF Knows, TopContext, TopMade
<1>12. /\ NamesKept(N, N2)
       /\ c.name \in N2[Item.generator]
       /\ ExistingNames(place) \subseteq N2[Generator(n)]
  <2>1. \A g \in Nodes \union {SceneRoot} : N2[g] = 
            names[g]
            \union (IF g = Item.generator THEN {TopName} ELSE {})
            \union (IF g = Generator(Item.node) THEN ExistingNames(TopPlace) ELSE {})
    BY <1>1, <1>2, <1>8
  <2>2. c.name = TopName
    BY <1>9 DEF TopContext
  <2> QED BY <1>4, <1>7, <1>9, <2>1, <2>2 DEF NamesKept
<1>13. /\ IsBelowParent(c.node, c.parent, q, d)
       /\ Item.generator = GeneratorOf(c.node)
       /\ ExistingNames(c.parent) \subseteq N[GeneratorOf(c.node)]
       /\ c.name \notin N[GeneratorOf(c.node)]
  <2>1. K[1] = Item /\ 1 \in 1..Len(K)
    BY <1>1, <1>2, <1>7, EmptySeq, HeadTailProperties DEF Item
  <2>2. ItemKnown(Item, q, N, d)
    BY <1>7, <2>1 DEF PreviewKnows
  <2>3. c.node = Item.node /\ c.parent = Item.parent /\ c.name = TopName
    BY <1>9 DEF TopContext
  <2> QED BY <1>3, <1>7, <2>2, <2>3 DEF ItemKnown
<1>14. \A i \in 1..Len(K) : ItemKnown(K[i], q, N, d)
  BY <1>7 DEF PreviewKnows
<1>15. K2 = PushedChildren(n, place) \o Tail(K)
  BY <1>1, <1>7, <1>8, <1>9
<1>16. ASSUME InContent(n)
       PROVE  \E q2, C2, d2 : /\ q2 = todo' /\ C2 = classes'.names /\ d2 = defs'
                              /\ PreviewKnows(K2, q2, N2, C2, d2)
  <2>1. PICK q2, d2, C2 : /\ q2 = AfterTodo(q, c) /\ d2 = AfterDefs(d, c, made.prims)
                          /\ C2 = made.classes.names
    OBVIOUS
  <2>2. q2 = todo' /\ d2 = defs' /\ C2 = classes'.names
    BY <1>1, <1>7, <1>9, <1>16, <2>1 DEF AfterTodo, AfterDefs, TopIsPlaced, TopContext
  <2>3. PreviewKnows(<<>>, q2, N2, C2, d2)
    BY <1>11, <1>12, <1>13, <1>16, <2>1, PreviewKnowsMore, <1>2
  <2>4. BelowKept(q, d, q2, d2)
    <3>1. /\ q \in Seq(Contexts) /\ c \in Contexts /\ scene \in Scenes
          /\ InContent(c.node) /\ ~InTodo(c.node, q) /\ c.node \notin DOMAIN d
      BY <1>2, <1>11, <1>16
    <3>2. PICK prims : prims = made.prims
      OBVIOUS
    <3>3. q2 = AfterTodo(q, c) /\ d2 = AfterDefs(d, c, prims)
      BY <2>1, <3>2
    <3>4. ASSUME NEW x, NEW path, IsBelowParent(x, path, q, d)
          PROVE  IsBelowParent(x, path, q2, d2)
      BY <3>1, <3>3, <3>4, StaysBelow
    <3> QED BY <3>4 DEF BelowKept
  <2>5. InTodo(n, q2) /\ place = PlaceOf(n, d2)
    <3>1. /\ InTodo(n, q2)
          /\ n \in DOMAIN d2 <=> made.prims # <<>>
          /\ made.prims # <<>> => d2[n] = made.prims
      BY <1>11, <2>1, AfterKeeps
    <3> QED BY <3>1, <1>9, <1>16 DEF PlaceOf, TopPlace, TopIsPlaced
  <2>6. \A i \in 1..Len(K2) : ItemKnown(K2[i], q2, N2, d2)
    BY <1>2, <1>11, <1>12, <1>14, <1>15, <2>4, <2>5, StackStaysKnown
  <2>7. PreviewKnows(K2, q2, N2, C2, d2)
    BY <2>3, <2>6, StackAndNodes
  <2> QED BY <2>2, <2>7
<1>17. ASSUME ~InContent(n)
       PROVE  \E q2, C2, d2 : /\ q2 = todo' /\ C2 = classes'.names /\ d2 = defs'
                              /\ PreviewKnows(K2, q2, N2, C2, d2)
  <2>1. q = todo' /\ d = defs' /\ C = classes'.names
    BY <1>1, <1>7, <1>9, <1>17 DEF TopIsPlaced
  <2>2. PreviewKnows(<<>>, q, N2, C, d)
    BY <1>7, <1>12, NodesStayKnown
  <2>3. BelowKept(q, d, q, d)
    BY DEF BelowKept
  <2>4. place = PlaceOf(n, d)
    BY <1>9, <1>11, <1>17 DEF PlaceOf, TopPlace, TopIsPlaced
  <2>5. \A i \in 1..Len(K2) : ItemKnown(K2[i], q, N2, d)
    BY <1>2, <1>11, <1>12, <1>14, <1>15, <1>17, <2>3, <2>4, StackStaysKnown
  <2>6. PreviewKnows(K2, q, N2, C, d)
    BY <2>2, <2>5, StackAndNodes
  <2> QED BY <2>1, <2>6
<1> QED BY <1>8, <1>16, <1>17

\* At first nothing is noted, and the children of the root are on the stack.
LEMMA KnowsInit ==
    ASSUME Init
    PROVE  Knows
<1>1. /\ scene \in Scenes /\ RootPath \in Prims /\ todo = <<>> /\ defs = EmptyMap
      /\ stack = PushedChildren(SceneRoot, RootPath)
      /\ names[SceneRoot] = ExistingNames(RootPath)
  BY PathTypes DEF Init
<1>2. PICK K, q, N, C, d : /\ K = stack /\ q = todo /\ N = names /\ C = classes.names /\ d = defs
  OBVIOUS
<1>3. q = <<>> /\ DOMAIN d = {}
  BY <1>1, <1>2 DEF EmptyMap
<1>4. ASSUME NEW i \in 1..Len(K)
      PROVE  ItemKnown(K[i], q, N, d)
  <2>1. PICK x, item : item = K[i] /\ x = item.node
    OBVIOUS
  <2>2. x \in ChildNodes(SceneRoot) /\ item.parent = RootPath /\ item.generator = Generator(SceneRoot)
    BY <1>1, <1>2, <2>1, PushedItems
  <2>3. ParentNode(x) = SceneRoot
    BY <1>1, <2>2, OneParent DEF ParentNode
  <2>4. Generator(SceneRoot) = SceneRoot
    BY DEF Generator
  <2>5. IsBelowParent(x, RootPath, q, d)
    BY <1>3, <2>2, <2>3 DEF IsBelowParent, PlaceOf
  <2>6. ItemKnown(item, q, N, d)
    BY <1>1, <1>2, <2>1, <2>2, <2>3, <2>4, <2>5 DEF ItemKnown, GeneratorOf
  <2> QED BY <2>1, <2>6
<1>5. PreviewKnows(K, q, N, C, d)
  BY <1>3, <1>4 DEF PreviewKnows
<1>6. Range(scene.existing) \subseteq ToSet(stage)
  <2>1. PICK e, f : /\ e = scene.existing
                    /\ f = IF RootPath = NoPath \/ RootPath \in Range(scene.existing)
                           THEN <<>> ELSE <<RootPath>>
    OBVIOUS
  <2>2. e \in Seq(Prims) /\ f \in Seq(Prims) /\ stage = e \o f
    <3>1. e \in Seq(Prims)
      BY <1>1, <2>1, SceneIsTyped DEF SceneTypeOK, Prims
    <3>2. <<RootPath>> \in Seq(Prims) /\ <<>> \in Seq(Prims)
      BY <1>1, ShortSeqs
    <3> QED BY <2>1, <3>1, <3>2 DEF Init
  <2>3. /\ Len(e \o f) = Len(e) + Len(f) /\ Len(e) \in Nat /\ Len(f) \in Nat
        /\ \A i \in 1..Len(e) + Len(f) : (e \o f)[i] = IF i <= Len(e) THEN e[i] ELSE f[i - Len(e)]
    BY <2>2, ConcatProperties
  <2>4. ASSUME NEW i \in 1..Len(e)
        PROVE  e[i] \in ToSet(stage)
    <3>1. i \in 1..Len(stage) /\ stage[i] = e[i]
      BY <2>2, <2>3
    <3> QED BY <3>1 DEF ToSet
  <2>5. DOMAIN e = 1..Len(e)
    BY <2>2
  <2> QED BY <2>1, <2>4, <2>5 DEF Range
<1>7. NodesHavePrimsOfTheirOwn
  BY <1>2, <1>3 DEF NodesHavePrimsOfTheirOwn
<1> QED BY <1>2, <1>5, <1>6, <1>7 DEF Knows

\* What the preview noted is not changed afterwards.
LEMMA PrimsStayTheirOwn ==
    ASSUME NodesHavePrimsOfTheirOwn, scene' = scene, defs' = defs
    PROVE  NodesHavePrimsOfTheirOwn'
<1>1. \A n : ChildNodes(n)' = ChildNodes(n)
  BY DEF ChildNodes
<1>2. \A n : ParentNode(n)' = ParentNode(n)
  BY <1>1 DEF ParentNode
<1> QED BY <1>1, <1>2 DEF NodesHavePrimsOfTheirOwn

\* Every step keeps what is known.
LEMMA KnowsStep ==
    ASSUME OrdinaryScenes, ReplayInv, Knows, [Next]_vars
    PROVE  Knows'
<1>1. CASE PreviewNode
  <2>1. scene' = scene /\ stage' = stage /\ scene \in Scenes
    BY <1>1, PreviewNodeSteps DEF ReplayInv, Types
  <2>2. PICK K, q, N, C, d :
            /\ K = stack' /\ q = todo' /\ N = names' /\ C = classes'.names /\ d = defs'
            /\ PreviewKnows(K, q, N, C, d)
    BY <1>1, KnowsPreviewNode
  <2>3. PreviewKnows(K, q, N, C, d)'
    BY <2>1, <2>2, PreviewKnowsIsFixed
  <2>4. PrimsOfTheirOwn(d)
    <3>1. q \in Seq(Contexts) /\ C \subseteq Names
      <4>1. Types'
        BY <1>1, TypesPreviewNode DEF ReplayInv
      <4> QED BY <2>2, <4>1 DEF Types, ClassesOK
    <3> QED BY <2>1, <2>2, <3>1, KnownPrimsDiffer
  <2>5. NodesHavePrimsOfTheirOwn'
    <3>1. \A n : ChildNodes(n)' = ChildNodes(n)
      BY <2>1 DEF ChildNodes
    <3>2. \A n : ParentNode(n)' = ParentNode(n)
      BY <3>1 DEF ParentNode
    <3> QED BY <2>1, <2>2, <2>4, <3>1, <3>2 DEF NodesHavePrimsOfTheirOwn, PrimsOfTheirOwn
  <2>6. pass = "preview"
    BY <1>1, PreviewNodeSteps
  <2>7. (Range(scene.existing) \subseteq ToSet(stage))'
    BY <2>1, <2>6 DEF Knows
  <2> QED BY <2>2, <2>3, <2>5, <2>7 DEF Knows
<1>2. CASE CreatePrims \/ ExportNode \/ Cancel \/ Finish
  <2>1. scene' = scene /\ defs' = defs /\ pass' # "preview"
    BY <1>2 DEF CreatePrims, ExportNode, Cancel, Finish
  <2>2. NodesHavePrimsOfTheirOwn'
    BY <2>1, PrimsStayTheirOwn DEF Knows
  <2> QED BY <2>1, <2>2 DEF Knows
<1>3. CASE UNCHANGED vars
  <2>1. /\ scene' = scene /\ stage' = stage /\ pass' = pass /\ stack' = stack /\ todo' = todo
        /\ names' = names /\ classes' = classes /\ defs' = defs
    BY <1>3 DEF vars, results
  <2>2. NodesHavePrimsOfTheirOwn'
    BY <2>1, PrimsStayTheirOwn DEF Knows
  <2>3. ASSUME pass = "preview"
        PROVE  (\E K, q, N, C, d :
                    /\ K = stack /\ q = todo /\ N = names /\ C = classes.names /\ d = defs
                    /\ PreviewKnows(K, q, N, C, d))'
    <3>1. PICK K, q, N, C, d :
            /\ K = stack /\ q = todo /\ N = names /\ C = classes.names /\ d = defs
            /\ PreviewKnows(K, q, N, C, d)
      BY <2>3 DEF Knows
    <3>2. PreviewKnows(K, q, N, C, d)'
      BY <2>1, <3>1, PreviewKnowsIsFixed
    <3> QED BY <2>1, <3>1, <3>2
  <2>4. (Range(scene.existing) \subseteq ToSet(stage))' \/ pass # "preview"
    BY <2>1 DEF Knows
  <2> QED BY <2>1, <2>2, <2>3, <2>4 DEF Knows
<1> QED BY <1>1, <1>2, <1>3 DEF Next

\* In an ordinary scene, where no point helper is left out with its only child
\* exported, no child is called like its parent's object prim and nothing like
\* a class (IsOrdinary), no prim of the nodes stands for two of them, except
\* for the one that a helper shares with its only child, and none was on the
\* stage before.
THEOREM PrimsAreOfOneNode ==
    ASSUME OrdinaryScenes
    PROVE  Spec => []NodesHavePrimsOfTheirOwn
<1>1. Init => Knows
  BY KnowsInit
<1>2. ASSUME ReplayInv, Knows, [Next]_vars
      PROVE  Knows'
  BY <1>2, KnowsStep
<1>3. Knows => NodesHavePrimsOfTheirOwn
  BY DEF Knows
<1> QED BY <1>1, <1>2, <1>3, ReplayInvariant, PTL DEF Spec

-----------------------------------------------------------------------------
(* Sequences of sequences, flattened *)

\* f[i] is what the first i sequences of s are, up to the n-th.
Flattens(f, s, n) == f[1] = s[1] /\ \A i \in 2..n : f[i] = f[i - 1] \o s[i]

\* There is such a function, for sequences of any length.
LEMMA FlatteningExists ==
    ASSUME NEW S, NEW s \in Seq(Seq(S)), NEW n \in 1..Len(s)
    PROVE  \E f \in [1..n -> Seq(S)] : Flattens(f, s, n)
<1> DEFINE Fails(m) == ~ \E f \in [1..m -> Seq(S)] : Flattens(f, s, m)
           T == {m \in 1..Len(s) : Fails(m)}
<1>1. ASSUME T # {}
      PROVE  FALSE
  <2>1. T \subseteq Nat
    OBVIOUS
  <2>2. PICK m \in T : \A k \in T : m <= k
    <3> HIDE DEF T
    <3> QED BY <1>1, <2>1, LeastNumber
  <2>3. CASE m = 1
    <3>1. [i \in 1..1 |-> s[1]] \in [1..1 -> Seq(S)]
      OBVIOUS
    <3>2. Flattens([i \in 1..1 |-> s[1]], s, 1)
      BY DEF Flattens
    <3> QED BY <2>3, <3>1, <3>2
  <2>4. CASE m # 1
    <3>1. m - 1 \in 1..Len(s) /\ m \in 1..Len(s)
      BY <2>4
    <3>2. PICK f \in [1..m - 1 -> Seq(S)] : Flattens(f, s, m - 1)
      <4>1. m - 1 \notin T
        <5> HIDE DEF T
        <5> QED BY <2>2, <3>1
      <4> QED BY <3>1, <4>1
    <3> HIDE DEF T, Fails
    <3> DEFINE g == [i \in 1..m |-> IF i = m THEN f[m - 1] \o s[m] ELSE f[i]]
    <3>3. s[m] \in Seq(S) /\ f[m - 1] \in Seq(S)
      BY <3>1
    <3>4. f[m - 1] \o s[m] \in Seq(S)
      BY <3>3, ConcatProperties
    <3>5. g \in [1..m -> Seq(S)]
      BY <3>1, <3>4
    <3>6. m \in 1..m /\ \A i \in 1..m - 1 : i \in 1..m /\ i # m
      BY <3>1
    <3>7. /\ g[m] = f[m - 1] \o s[m]
          /\ \A i \in 1..m - 1 : g[i] = f[i]
      BY <3>6
    <3> HIDE DEF g
    <3>8. Flattens(g, s, m)
      <4>1. g[1] = s[1]
        BY <3>1, <3>2, <3>7 DEF Flattens
      <4>2. ASSUME NEW i \in 2..m
            PROVE  g[i] = g[i - 1] \o s[i]
        <5>1. i - 1 \in 1..m - 1 /\ (i = m \/ i \in 2..m - 1)
          BY <3>1
        <5>2. g[i - 1] = f[i - 1]
          BY <3>7, <5>1
        <5>3. CASE i = m
          BY <3>7, <5>2, <5>3
        <5>4. CASE i \in 2..m - 1
          <6>1. \A j \in 2..m - 1 : f[j] = f[j - 1] \o s[j]
            BY <3>2 DEF Flattens
          <6>2. f[i] = f[i - 1] \o s[i]
            BY <5>4, <6>1
          <6>3. i \in 1..m - 1
            BY <3>1, <5>4
          <6> QED BY <3>7, <5>2, <6>2, <6>3
        <5> QED BY <5>1, <5>3, <5>4
      <4> QED BY <4>1, <4>2 DEF Flattens
    <3> QED BY <3>5, <3>8 DEF T, Fails
  <2> QED BY <2>3, <2>4
<1>2. n \notin T
  BY <1>1
<1> QED BY <1>2

\* Two such functions agree.
LEMMA FlatteningIsUnique ==
    ASSUME NEW s, NEW n \in Nat, NEW f, NEW g, Flattens(f, s, n), Flattens(g, s, n),
           NEW i \in 1..n
    PROVE  f[i] = g[i]
<1> DEFINE T == {k \in 1..n : f[k] # g[k]}
<1>1. ASSUME T # {}
      PROVE  FALSE
  <2>1. T \subseteq Nat
    OBVIOUS
  <2>2. PICK k \in T : \A l \in T : k <= l
    <3> HIDE DEF T
    <3> QED BY <1>1, <2>1, LeastNumber
  <2>3. k # 1
    BY DEF Flattens
  <2>4. k \in 2..n /\ k - 1 \in 1..n /\ f[k] # g[k]
    BY <2>3
  <2>5. k - 1 \notin T
    <3> HIDE DEF T
    <3> QED BY <2>2, <2>4
  <2>6. f[k - 1] = g[k - 1]
    BY <2>4, <2>5
  <2> QED BY <2>4, <2>6 DEF Flattens
<1> QED BY <1>1

\* It is the one that FlattenSeq chooses.
LEMMA FlattenedBy ==
    ASSUME NEW S, NEW s \in Seq(Seq(S)), s # <<>>
    PROVE  \E f \in [1..Len(s) -> Seq(S)] : Flattens(f, s, Len(s)) /\ FlattenSeq(s) = f[Len(s)]
<1> DEFINE L == Len(s)
           Step(g) == [i \in 1..L |-> IF i = 1 THEN s[i] ELSE g[i - 1] \o s[i]]
           flatten == CHOOSE g : g = Step(g)
<1>1. L \in Nat /\ L # 0
  BY EmptySeq
<1>2. FlattenSeq(s) = flatten[L]
  BY <1>1 DEF FlattenSeq
<1> HIDE DEF L
<1>3. PICK f \in [1..L -> Seq(S)] : Flattens(f, s, L)
  BY <1>1, FlatteningExists DEF L
<1>4. f = Step(f)
  <2>1. ASSUME NEW i \in 1..L
        PROVE  f[i] = IF i = 1 THEN s[i] ELSE f[i - 1] \o s[i]
    <3>1. i = 1 \/ i \in 2..L
      BY <1>1
    <3> QED BY <1>3, <3>1 DEF Flattens
  <2> QED BY <1>3, <2>1
<1>5. flatten = Step(flatten)
  BY <1>4
<1> HIDE DEF flatten
<1>6. Flattens(flatten, s, L)
  <2>1. \A i \in 1..L : flatten[i] = IF i = 1 THEN s[i] ELSE flatten[i - 1] \o s[i]
    BY <1>5
  <2>2. 1 \in 1..L /\ \A i \in 2..L : i \in 1..L /\ i # 1
    BY <1>1
  <2> QED BY <2>1, <2>2 DEF Flattens
<1>7. flatten[L] = f[L]
  BY <1>1, <1>3, <1>6, FlatteningIsUnique
<1> QED BY <1>2, <1>3, <1>7 DEF L

\* Flattening one more sequence appends it.
LEMMA FlattenAppend ==
    ASSUME NEW S, NEW s \in Seq(Seq(S)), NEW x \in Seq(S)
    PROVE  FlattenSeq(Append(s, x)) = FlattenSeq(s) \o x /\ FlattenSeq(s) \in Seq(S)
<1> DEFINE t == Append(s, x)
<1>1. /\ t \in Seq(Seq(S)) /\ t # <<>> /\ Len(t) = Len(s) + 1 /\ t[Len(s) + 1] = x
      /\ Len(s) \in Nat /\ \A i \in 1..Len(s) : t[i] = s[i]
  BY AppendProperties
<1> HIDE DEF t
<1>2. PICK g \in [1..Len(t) -> Seq(S)] : Flattens(g, t, Len(t)) /\ FlattenSeq(t) = g[Len(t)]
  BY <1>1, FlattenedBy
<1>3. CASE s = <<>>
  <2>1. Len(s) = 0
    BY <1>3
  <2>2. FlattenSeq(s) = <<>>
    BY <1>3, <2>1 DEF FlattenSeq
  <2>3. FlattenSeq(t) = x
    BY <1>1, <1>2, <2>1 DEF Flattens
  <2> QED BY <2>2, <2>3, ConcatEmptySeq, EmptySeq DEF t
<1>4. CASE s # <<>>
  <2>1. PICK f \in [1..Len(s) -> Seq(S)] : Flattens(f, s, Len(s)) /\ FlattenSeq(s) = f[Len(s)]
    BY <1>4, FlattenedBy
  <2>2. Len(s) # 0
    BY <1>4, EmptySeq
  <2>3. Flattens(g, s, Len(s))
    <3>1. 1 \in 1..Len(s) /\ \A i \in 2..Len(s) : i \in 1..Len(s) /\ i \in 2..Len(t)
      BY <1>1, <2>2
    <3>2. \A i \in 1..Len(s) : t[i] = s[i]
      BY <1>1
    <3>3. g[1] = t[1] /\ \A i \in 2..Len(t) : g[i] = g[i - 1] \o t[i]
      BY <1>2 DEF Flattens
    <3> QED BY <3>1, <3>2, <3>3 DEF Flattens
  <2>4. g[Len(s)] = f[Len(s)]
    BY <1>1, <2>1, <2>2, <2>3, FlatteningIsUnique
  <2>5. g[Len(s) + 1] = g[Len(s)] \o x
    <3>1. Len(s) + 1 \in 2..Len(t) /\ (Len(s) + 1) - 1 = Len(s)
      BY <1>1, <2>2
    <3> QED BY <1>1, <1>2, <3>1 DEF Flattens
  <2> QED BY <1>1, <1>2, <2>1, <2>2, <2>4, <2>5 DEF t
<1> QED BY <1>3, <1>4

\* What is in the flattened sequence is in one of those it is made of.
LEMMA FlattenElements ==
    ASSUME NEW S, NEW s \in Seq(Seq(S))
    PROVE  /\ FlattenSeq(s) \in Seq(S)
           /\ \A i \in 1..Len(FlattenSeq(s)) :
                \E k \in 1..Len(s) : FlattenSeq(s)[i] \in {s[k][j] : j \in 1..Len(s[k])}
<1>1. CASE s = <<>>
  <2>1. FlattenSeq(s) = <<>> /\ Len(<<>>) = 0
    BY <1>1 DEF FlattenSeq
  <2> QED BY <2>1, EmptySeq
<1>2. CASE s # <<>>
  <2> DEFINE In(y, k) == y \in {s[k][j] : j \in 1..Len(s[k])}
  <2>1. PICK f \in [1..Len(s) -> Seq(S)] : Flattens(f, s, Len(s)) /\ FlattenSeq(s) = f[Len(s)]
    BY <1>2, FlattenedBy
  <2>2. Len(s) \in Nat /\ Len(s) # 0
    BY <1>2, EmptySeq
  <2> DEFINE Fails(m) == ~ \A i \in 1..Len(f[m]) : \E k \in 1..Len(s) : In(f[m][i], k)
             T == {m \in 1..Len(s) : Fails(m)}
  <2>3. ASSUME T # {}
        PROVE  FALSE
    <3>1. T \subseteq Nat
      OBVIOUS
    <3>2. PICK m \in T : \A k \in T : m <= k
      <4> HIDE DEF T
      <4> QED BY <2>3, <3>1, LeastNumber
    <3>3. PICK i : i \in 1..Len(f[m]) /\ \A k \in 1..Len(s) : ~In(f[m][i], k)
      BY <3>2
    <3>4. CASE m = 1
      BY <2>1, <2>2, <3>3, <3>4 DEF Flattens
    <3>5. CASE m # 1
      <4>1. m \in 2..Len(s) /\ m - 1 \in 1..Len(s)
        BY <3>5
      <4>2. \A j \in 1..Len(f[m - 1]) : \E k \in 1..Len(s) : In(f[m - 1][j], k)
        <5>1. m - 1 \notin T
          <6> HIDE DEF T
          <6> QED BY <3>2, <4>1
        <5> QED BY <4>1, <5>1
      <4> HIDE DEF T, Fails
      <4>3. f[m] = f[m - 1] \o s[m]
        <5>1. \A j \in 2..Len(s) : f[j] = f[j - 1] \o s[j]
          BY <2>1 DEF Flattens
        <5> QED BY <4>1, <5>1
      <4>4. f[m - 1] \in Seq(S) /\ s[m] \in Seq(S)
        <5>1. f[m - 1] \in Seq(S)
          BY <4>1
        <5>2. m \in 1..Len(s)
          BY <4>1
        <5> QED BY <5>1, <5>2
      <4>5. /\ Len(f[m]) = Len(f[m - 1]) + Len(s[m])
            /\ f[m][i] = IF i <= Len(f[m - 1]) THEN f[m - 1][i] ELSE s[m][i - Len(f[m - 1])]
        BY <3>3, <4>3, <4>4, ConcatProperties
      <4>6. Len(f[m - 1]) \in Nat /\ Len(s[m]) \in Nat
        BY <4>4
      <4> PICK a \in Nat, b \in Nat : a = Len(f[m - 1]) /\ b = Len(s[m])
        BY <4>6
      <4>7. i \in 1..a + b
        BY <3>3, <4>5
      <4>8. CASE i <= a
        <5>1. i \in 1..a
          BY <4>8, <4>7
        <5>2. \E k \in 1..Len(s) : In(f[m - 1][i], k)
          BY <4>2, <5>1
        <5> QED BY <3>3, <4>5, <4>8, <5>2
      <4>9. CASE i > a
        <5>1. i - a \in 1..b /\ ~(i <= a)
          BY ONLY <4>9, <4>7, a \in Nat, b \in Nat
        <5>2. f[m][i] = s[m][i - a]
          BY <4>5, <5>1
        <5>3. In(f[m][i], m)
          BY <5>1, <5>2
        <5> QED BY <3>3, <4>1, <5>3
      <4> QED BY <4>8, <4>9, <4>7
    <3> QED BY <3>4, <3>5
  <2>4. Len(s) \in 1..Len(s) /\ Len(s) \notin T
    <3> HIDE DEF T
    <3> QED BY <2>2, <2>3
  <2>5. ~Fails(Len(s))
    BY <2>4
  <2> QED BY <2>1, <2>2, <2>5
<1> QED BY <1>1, <1>2

-----------------------------------------------------------------------------
(* The transforms along a path *)

OpsAt(path) == IF path \in DOMAIN ops THEN ops[path] ELSE <<>>

\* One more name adds the transforms that are queued on the longer path.
LEMMA OpsAlongAppend ==
    ASSUME \A p \in DOMAIN ops : ops[p] \in Seq(Nodes),
           NEW S, NEW path \in Seq(S), NEW x \in S
    PROVE  /\ OpsAlong(path) \in Seq(Nodes) /\ OpsAt(Append(path, x)) \in Seq(Nodes)
           /\ OpsAlong(Append(path, x)) = OpsAlong(path) \o OpsAt(Append(path, x))
<1> DEFINE longer == Append(path, x)
           Along(t) == [k \in 1..Len(t) |-> OpsAt(SubSeq(t, 1, k))]
<1>1. /\ longer \in Seq(S) /\ Len(longer) = Len(path) + 1 /\ Len(path) \in Nat
      /\ longer[Len(path) + 1] = x /\ \A k \in 1..Len(path) : longer[k] = path[k]
  BY AppendProperties
<1>2. \A t : OpsAt(t) \in Seq(Nodes)
  BY EmptySeq DEF OpsAt
<1>3. ASSUME NEW t \in Seq(S)
      PROVE  /\ Along(t) \in Seq(Seq(Nodes)) /\ Len(Along(t)) = Len(t)
             /\ OpsAlong(t) = FlattenSeq(Along(t))
  <2>1. Along(t) \in Seq(Seq(Nodes)) /\ Len(Along(t)) = Len(t)
    BY <1>2
  <2> QED BY <2>1 DEF OpsAlong, OpsAt
<1> HIDE DEF longer
<1>4. ASSUME NEW k \in 1..Len(path)
      PROVE  SubSeq(longer, 1, k) = SubSeq(path, 1, k)
  BY <1>1
<1>5. SubSeq(longer, 1, Len(path) + 1) = longer
  BY <1>1
<1>6. Along(longer) = Append(Along(path), OpsAt(longer))
  <2>1. PICK s, t : s = Along(longer) /\ t = Append(Along(path), OpsAt(longer))
    OBVIOUS
  <2>2. s \in Seq(Seq(Nodes)) /\ Len(s) = Len(path) + 1
    BY <1>1, <1>3, <2>1
  <2>3. /\ t \in Seq(Seq(Nodes)) /\ Len(t) = Len(path) + 1
        /\ t[Len(path) + 1] = OpsAt(longer)
        /\ \A k \in 1..Len(path) : t[k] = Along(path)[k]
    <3>1. PICK u, y : u = Along(path) /\ y = OpsAt(longer)
      OBVIOUS
    <3>2. u \in Seq(Seq(Nodes)) /\ Len(u) = Len(path) /\ y \in Seq(Nodes)
      BY <1>2, <1>3, <3>1
    <3>3. /\ Append(u, y) \in Seq(Seq(Nodes)) /\ Len(Append(u, y)) = Len(path) + 1
          /\ Append(u, y)[Len(path) + 1] = y
          /\ \A k \in 1..Len(path) : Append(u, y)[k] = u[k]
      BY <3>2, AppendProperties
    <3> HIDE DEF Along
    <3> QED BY <2>1, <3>1, <3>3
  <2>4. ASSUME NEW k \in 1..Len(path) + 1
        PROVE  s[k] = t[k]
    <3>1. s[k] = OpsAt(SubSeq(longer, 1, k))
      BY <1>1, <2>1
    <3>2. CASE k = Len(path) + 1
      BY <1>5, <2>3, <3>1, <3>2
    <3>3. CASE k # Len(path) + 1
      <4>1. k \in 1..Len(path)
        BY <1>1, <3>3
      <4>2. Along(path)[k] = OpsAt(SubSeq(path, 1, k))
        BY <4>1
      <4> QED BY <1>4, <2>3, <3>1, <4>1, <4>2
    <3> QED BY <3>2, <3>3
  <2>5. s = t
    BY <2>2, <2>3, <2>4, SeqEqual
  <2> QED BY <2>1, <2>5
<1>7. /\ FlattenSeq(Append(Along(path), OpsAt(longer))) = FlattenSeq(Along(path)) \o OpsAt(longer)
      /\ FlattenSeq(Along(path)) \in Seq(Nodes)
  <2>1. Along(path) \in Seq(Seq(Nodes)) /\ OpsAt(longer) \in Seq(Nodes)
    BY <1>2, <1>3
  <2> HIDE DEF Along
  <2> QED BY <2>1, FlattenAppend
<1>8. OpsAlong(longer) = FlattenSeq(Along(longer)) /\ OpsAlong(path) = FlattenSeq(Along(path))
  BY <1>1, <1>3
<1> HIDE DEF Along
<1> QED BY <1>2, <1>6, <1>7, <1>8 DEF longer

\* What applies along a path is queued on the path or a shorter one.
LEMMA OpsAlongElements ==
    ASSUME \A p \in DOMAIN ops : ops[p] \in Seq(Nodes),
           NEW S, NEW path \in Seq(S), NEW i \in 1..Len(OpsAlong(path))
    PROVE  \E p \in DOMAIN ops : /\ Len(p) <= Len(path)
                                 /\ OpsAlong(path)[i] \in {ops[p][j] : j \in 1..Len(ops[p])}
<1> DEFINE along == [k \in 1..Len(path) |-> OpsAt(SubSeq(path, 1, k))]
<1>1. OpsAlong(path) = FlattenSeq(along)
  BY DEF OpsAlong, OpsAt
<1>2. \A t : OpsAt(t) \in Seq(Nodes)
  BY EmptySeq DEF OpsAt
<1>3. along \in Seq(Seq(Nodes)) /\ Len(along) = Len(path)
  BY <1>2
<1>4. \A k \in 1..Len(path) : along[k] = OpsAt(SubSeq(path, 1, k))
  OBVIOUS
<1> HIDE DEF along
<1>5. PICK k \in 1..Len(path) : OpsAlong(path)[i] \in {along[k][j] : j \in 1..Len(along[k])}
  BY <1>1, <1>3, FlattenElements
<1>6. PICK p : p = SubSeq(path, 1, k)
  OBVIOUS
<1>7. Len(p) = k /\ k <= Len(path)
  BY <1>6
<1>8. p \in DOMAIN ops
  <2>1. ASSUME p \notin DOMAIN ops
        PROVE  FALSE
    <3>1. along[k] = <<>>
      BY <1>4, <1>6, <2>1 DEF OpsAt
    <3>2. Len(along[k]) = 0
      BY <3>1
    <3>3. 1..Len(along[k]) = {}
      BY <3>2
    <3> QED BY <1>5, <3>3
  <2> QED BY <2>1
<1>9. along[k] = ops[p]
  BY <1>4, <1>6, <1>8 DEF OpsAt
<1> QED BY <1>5, <1>7, <1>8, <1>9

-----------------------------------------------------------------------------
(* Where the nodes are exported to *)

\* A node has its first prim below the one of its exported parent, or the
\* same, if it is its only child; without such a parent below the root.
IsPlaced(n, d) ==
    LET p == ParentNode(n)
    IN  /\ n \in Nodes /\ InContent(n) /\ n \in ChildNodes(p)
        /\ d[n][1] \in NodePaths /\ d[n][1] \in Seq(Names) /\ Len(d[n][1]) > Len(RootPath)
        /\ HasExportedParent(n) =>
            /\ p \in DOMAIN d
            /\ \/ \E name \in Names : d[n][1] = Append(d[p][1], name)
               \/ d[n][1] = d[p][1] /\ ChildNodes(p) = {n} /\ ChildNodes(n) = {}
        /\ ~HasExportedParent(n) => \E name \in Names : d[n][1] = Append(RootPath, name)

IsOnlyChildOf(c, p) == ParentNode(c) = p /\ ChildNodes(p) = {c}

\* All nodes are, and only such pairs share a first prim.
ArePlaced(d) ==
    /\ \A n \in DOMAIN d : IsPlaced(n, d)
    /\ \A m, n \in DOMAIN d :
            m # n /\ d[m][1] = d[n][1] => IsOnlyChildOf(m, n) \/ IsOnlyChildOf(n, m)

\* The preview places the nodes like that.
LEMMA PreviewPlaces ==
    ASSUME scene \in Scenes, OrdinaryScenes, NEW K, NEW q \in Seq(Contexts), NEW N, NEW C, NEW d,
           PreviewKnows(K, q, N, C, d)
    PROVE  ArePlaced(d)
<1>1. ASSUME NEW n \in DOMAIN d
      PROVE  IsPlaced(n, d)
  <2>1. PICK i \in 1..Len(q) : q[i].node = n /\ PrimsKnown(q[i], d[n], C)
    BY ParentPlace
  <2>2. PICK c \in Contexts : c = q[i]
    OBVIOUS
  <2>3. ContextKnown(c, q, N, C, d) /\ c.node = n /\ PrimsKnown(c, d[n], C)
    BY <2>1, <2>2 DEF PreviewKnows
  <2>4. /\ IsBelowParent(n, c.parent, q, d) /\ InContent(n) /\ WillHavePrims(n)
        /\ n \in Nodes /\ c.name \in Names
    BY <2>3 DEF ContextKnown, Contexts
  <2>5. PICK p : p = ParentNode(n)
    OBVIOUS
  <2>6. p \in Nodes \union {SceneRoot} /\ n \in ChildNodes(p)
    BY <2>4, <2>5 DEF IsBelowParent
  <2>7. \/ ~HasExportedParent(n) /\ c.parent = RootPath
        \/ HasExportedParent(n) /\ p \in DOMAIN d /\ c.parent = d[p][1]
    <3>1. \/ /\ p = SceneRoot \/ ~InContent(p)
             /\ c.parent = RootPath
          \/ p \in DOMAIN d /\ InContent(p) /\ p # SceneRoot /\ c.parent = d[p][1]
      BY <2>4, <2>5, ParentOfPlaced
    <3> QED BY <2>4, <2>5, <3>1 DEF HasExportedParent
  <2>8. d[n][1] \in NodePaths /\ d[n][1] \in Seq(Names) /\ Len(d[n][1]) > Len(RootPath)
    BY <2>3 DEF PrimsKnown, NodePaths, Prims
  <2>9. CASE d[n][1] = XformPath(c)
    <3>1. d[n][1] = Append(c.parent, c.name)
      BY <2>9 DEF XformPath
    <3> QED BY <2>4, <2>5, <2>6, <2>7, <2>8, <3>1 DEF IsPlaced
  <2>10. CASE d[n][1] # XformPath(c)
    <3>1. d[n][1] = c.parent /\ HasWriter(c.node) /\ SharesPrim(c)
      BY <2>3, <2>10 DEF PrimsKnown, HasShape
    <3>2. GoesToHelper(c, q, d)
      BY <2>3, <2>4, <3>1 DEF GoesToHelper
    <3>3. IsWithHelper(c, d)
      BY <3>2, SharesWithParent
    <3>4. /\ p \in DOMAIN d /\ ChildNodes(p) = {n} /\ ChildNodes(n) = {}
          /\ d[n][1] = d[p][1]
      BY <2>3, <2>5, <3>1, <3>3 DEF IsWithHelper
    <3>5. HasExportedParent(n)
      <4>1. InContent(p) /\ p \in Nodes
        BY <3>4, ParentPlace
      <4> QED BY <2>4, <2>5, <4>1, SceneRootAssumption DEF HasExportedParent
    <3> QED BY <2>4, <2>5, <2>6, <2>8, <3>4, <3>5 DEF IsPlaced
  <2> QED BY <2>9, <2>10
<1>2. ASSUME NEW m \in DOMAIN d, NEW n \in DOMAIN d, m # n, d[m][1] = d[n][1]
      PROVE  IsOnlyChildOf(m, n) \/ IsOnlyChildOf(n, m)
  BY <1>2, SameFirstPrim DEF IsOnlyChildOf
<1> QED BY <1>1, <1>2 DEF ArePlaced

\* Where they are depends on the scene, and on nothing else that changes.
LEMMA PlacesAreFixed ==
    ASSUME scene' = scene
    PROVE  /\ \A n : /\ ChildNodes(n)' = ChildNodes(n) /\ ParentNode(n)' = ParentNode(n)
                     /\ HasExportedParent(n)' = HasExportedParent(n)
           /\ \A d : ArePlaced(d)' = ArePlaced(d)
<1>1. \A n : ChildNodes(n)' = ChildNodes(n) /\ InContent(n)' = InContent(n)
  BY DEF ChildNodes, InContent
<1>2. \A n : ParentNode(n)' = ParentNode(n)
  BY <1>1 DEF ParentNode
<1>3. \A n : HasExportedParent(n)' = HasExportedParent(n)
  BY <1>1, <1>2 DEF HasExportedParent
<1>4. RootPath' = RootPath
  BY DEF RootPath
<1>5. \A n, d : IsPlaced(n, d)' = IsPlaced(n, d)
  BY <1>1, <1>2, <1>3, <1>4, PathsAreFixed DEF IsPlaced
<1>6. \A c, p : IsOnlyChildOf(c, p)' = IsOnlyChildOf(c, p)
  BY <1>1, <1>2 DEF IsOnlyChildOf
<1> QED BY <1>1, <1>2, <1>3, <1>5, <1>6 DEF ArePlaced

-----------------------------------------------------------------------------
(* The transforms that are queued on a prim.  E stands for the exported     *)
(* nodes, d for the noted prims and o for the queues.                       *)

\* They are those of the nodes whose first prim it is, the parent's first.
IsQueueOf(list, path, E, d) ==
    \/ \E n \in E : /\ list = <<n>> /\ d[n][1] = path
                    /\ \A m \in E : d[m][1] = path => m = n
    \/ \E n, c \in E : /\ list = <<n, c>> /\ c # n /\ IsOnlyChildOf(c, n)
                       /\ d[n][1] = path /\ d[c][1] = path
                       /\ \A m \in E : d[m][1] = path => m \in {n, c}

QueuesRight(E, d, o) ==
    /\ \A n \in E : d[n][1] \in DOMAIN o
    /\ \A path \in DOMAIN o : IsQueueOf(o[path], path, E, d)

ParentsIn(E) == \A n \in E : HasExportedParent(n) => ParentNode(n) \in E

\* A queue is a sequence of exported nodes that have the prim.
LEMMA QueueType ==
    ASSUME NEW E, NEW d, NEW path, NEW list, IsQueueOf(list, path, E, d)
    PROVE  list \in Seq(E) /\ \A j \in 1..Len(list) : d[list[j]][1] = path
<1>1. CASE \E n \in E : list = <<n>> /\ d[n][1] = path
  BY <1>1
<1>2. CASE \E n, c \in E : list = <<n, c>> /\ d[n][1] = path /\ d[c][1] = path
  <2>1. PICK n \in E, c \in E : list = <<n, c>> /\ d[n][1] = path /\ d[c][1] = path
    BY <1>2
  <2>2. /\ list \in Seq(E) /\ Len(list) = 2 /\ list[1] = n /\ list[2] = c
    BY <2>1
  <2>3. \A j \in 1..2 : j = 1 \/ j = 2
    OBVIOUS
  <2> QED BY <2>1, <2>2, <2>3
<1> QED BY <1>1, <1>2 DEF IsQueueOf

\* One element and another.
LEMMA PairAppended ==
    ASSUME NEW x, NEW y
    PROVE  Append(<<x>>, y) = <<x, y>>
<1> DEFINE S == {x, y}
<1>1. PICK s, t : s = <<x>> /\ t = <<x, y>>
  OBVIOUS
<1>2. /\ s \in Seq(S) /\ Len(s) = 1 /\ s[1] = x
      /\ t \in Seq(S) /\ Len(t) = 2 /\ t[1] = x /\ t[2] = y
  BY <1>1
<1>3. x \in S /\ y \in S
  OBVIOUS
<1> HIDE DEF S
<1>4. PICK u : u = Append(s, y)
  OBVIOUS
<1>5. /\ u \in Seq(S) /\ Len(u) = Len(s) + 1
      /\ \A i \in 1..Len(s) : u[i] = s[i]
      /\ u[Len(s) + 1] = y
  BY <1>2, <1>3, <1>4, AppendProperties
<1>6. Len(u) = 2 /\ u[1] = x /\ u[2] = y
  BY <1>2, <1>5
<1>7. \A i \in 1..2 : i = 1 \/ i = 2
  OBVIOUS
<1>8. u = t
  BY <1>2, <1>5, <1>6, <1>7, SeqEqual
<1> QED BY <1>1, <1>4, <1>8

\* The queues are right when one more node is exported, after its parent.
LEMMA QueuesStayRight ==
    ASSUME NEW d, ArePlaced(d), NEW E, E \subseteq DOMAIN d, ParentsIn(E),
           NEW o, QueuesRight(E, d, o), NEW n \in DOMAIN d, n \notin E,
           NEW root, root = d[n][1],
           NEW o2, o2 = [Inserted(o, root, <<>>) EXCEPT ![root] = Append(@, n)]
    PROVE  QueuesRight(E \union {n}, d, o2)
<1>1. /\ DOMAIN o2 = DOMAIN o \union {root}
      /\ \A path \in DOMAIN o : path # root => o2[path] = o[path]
      /\ root \in DOMAIN o => o2[root] = Append(o[root], n)
      /\ root \notin DOMAIN o => o2[root] = Append(<<>>, n)
  BY DEF Inserted
<1>2. \A m \in E \union {n} : d[m][1] \in DOMAIN o2
  BY <1>1 DEF QueuesRight
<1>3. ASSUME NEW path \in DOMAIN o, path # root
      PROVE  IsQueueOf(o2[path], path, E \union {n}, d)
  <2>1. IsQueueOf(o[path], path, E, d) /\ o2[path] = o[path]
    BY <1>1, <1>3 DEF QueuesRight
  <2> QED BY <1>3, <2>1 DEF IsQueueOf
<1>4. CASE root \notin DOMAIN o
  <2>1. o2[root] = <<n>>
    BY <1>1, <1>4
  <2>2. \A m \in E \union {n} : d[m][1] = root => m = n
    BY <1>4 DEF QueuesRight
  <2>3. IsQueueOf(o2[root], root, E \union {n}, d)
    BY <2>1, <2>2 DEF IsQueueOf
  <2> QED BY <1>1, <1>2, <1>3, <2>3 DEF QueuesRight
<1>5. ASSUME NEW m \in E, d[m][1] = root
      PROVE  IsOnlyChildOf(n, m)
  <2>1. IsOnlyChildOf(m, n) \/ IsOnlyChildOf(n, m)
    BY <1>5 DEF ArePlaced
  <2>2. ASSUME ParentNode(m) = n
        PROVE  FALSE
    <3>1. InContent(m) /\ InContent(n) /\ n \in Nodes /\ m \in DOMAIN d
      BY <1>5 DEF ArePlaced, IsPlaced
    <3>2. HasExportedParent(m)
      BY <2>2, <3>1, SceneRootAssumption DEF HasExportedParent
    <3> QED BY <2>2, <3>2, <1>5 DEF ParentsIn
  <2> QED BY <2>1, <2>2 DEF IsOnlyChildOf
<1>6. CASE root \in DOMAIN o
  <2>1. IsQueueOf(o[root], root, E, d)
    BY <1>6 DEF QueuesRight
  <2>2. ASSUME NEW m \in E, NEW c \in E, c # m, IsOnlyChildOf(c, m), d[m][1] = root
        PROVE  FALSE
    BY <2>2, <1>5 DEF IsOnlyChildOf
  <2>3. PICK m \in E : /\ o[root] = <<m>> /\ d[m][1] = root
                       /\ \A k \in E : d[k][1] = root => k = m
    BY <2>1, <2>2 DEF IsQueueOf
  <2>4. o2[root] = <<m, n>>
    <3>1. Append(<<m>>, n) = <<m, n>>
      BY PairAppended
    <3>2. o2[root] = Append(o[root], n)
      BY <1>1, <1>6
    <3> QED BY <2>3, <3>1, <3>2
  <2>5. IsOnlyChildOf(n, m) /\ n # m
    BY <1>5, <2>3
  <2>6. \A k \in E \union {n} : d[k][1] = root => k \in {m, n}
    BY <2>3
  <2>7. IsQueueOf(o2[root], root, E \union {n}, d)
    BY <2>3, <2>4, <2>5, <2>6 DEF IsQueueOf
  <2> QED BY <1>1, <1>2, <1>3, <2>7 DEF QueuesRight
<1> QED BY <1>4, <1>6

-----------------------------------------------------------------------------
(* Transforms are relative to the parent's *)

\* No node comes before its parent.
ParentsFirst(q) == \A i, j \in 1..Len(q) : q[j].node = ParentNode(q[i].node) => j < i

\* So with what is to do, and nothing of it is exported; the exported nodes and
\* the queues are as described.
Composed ==
    /\ ParentsFirst(todo)
    /\ \A i \in 1..Len(todo) : todo[i].node \notin DOMAIN exported
    /\ pass = "preview" => DOMAIN exported = {} /\ DOMAIN ops = {}
    /\ pass # "preview" => ArePlaced(defs)
    /\ ParentsIn(DOMAIN exported)
    /\ QueuesRight(DOMAIN exported, defs, ops)

\* The chain of a path is that of the path it extends, which none of the nodes
\* of the longer path is in, and the queue.
IsChain(longer, path, list) ==
    /\ OpsAlong(path) \in Seq(Nodes) /\ list \in Seq(Nodes)
    /\ OpsAlong(longer) \in Seq(Nodes)
    /\ Len(OpsAlong(longer)) = Len(OpsAlong(path)) + Len(list)
    /\ \A i \in 1..Len(OpsAlong(path)) :
            /\ OpsAlong(longer)[i] = OpsAlong(path)[i]
            /\ OpsAlong(path)[i] \in DOMAIN exported
            /\ defs[OpsAlong(path)[i]][1] # longer
    /\ \A j \in 1..Len(list) : OpsAlong(longer)[Len(OpsAlong(path)) + j] = list[j]

\* One more name makes such a chain.
LEMMA ChainOf ==
    ASSUME DOMAIN exported \subseteq DOMAIN defs, ArePlaced(defs),
           QueuesRight(DOMAIN exported, defs, ops),
           NEW path \in Seq(Names), NEW x \in Names, NEW longer, longer = Append(path, x),
           NEW list, list = OpsAt(longer)
    PROVE  IsChain(longer, path, list)
<1>1. \A n \in DOMAIN exported : n \in DOMAIN defs /\ n \in Nodes
  BY DEF ArePlaced, IsPlaced
<1>2. \A p \in DOMAIN ops : /\ ops[p] \in Seq(Nodes)
                            /\ \A j \in 1..Len(ops[p]) :
                                    ops[p][j] \in DOMAIN exported /\ defs[ops[p][j]][1] = p
  <2>1. ASSUME NEW p \in DOMAIN ops
        PROVE  /\ ops[p] \in Seq(DOMAIN exported)
               /\ \A j \in 1..Len(ops[p]) : defs[ops[p][j]][1] = p
    <3>1. IsQueueOf(ops[p], p, DOMAIN exported, defs)
      BY DEF QueuesRight
    <3> QED BY <3>1, QueueType
  <2>2. ASSUME NEW p \in DOMAIN ops
        PROVE  /\ ops[p] \in Seq(Nodes)
               /\ \A j \in 1..Len(ops[p]) : ops[p][j] \in DOMAIN exported
    BY <1>1, <2>1
  <2> QED BY <2>1, <2>2
<1>3. /\ OpsAlong(path) \in Seq(Nodes) /\ list \in Seq(Nodes)
      /\ OpsAlong(longer) = OpsAlong(path) \o list
  BY <1>2, OpsAlongAppend
<1>4. Len(longer) = Len(path) + 1 /\ Len(path) \in Nat
  BY AppendProperties
<1>5. ASSUME NEW i \in 1..Len(OpsAlong(path))
      PROVE  OpsAlong(path)[i] \in DOMAIN exported /\ defs[OpsAlong(path)[i]][1] # longer
  <2>1. PICK p \in DOMAIN ops : /\ Len(p) <= Len(path)
                                /\ OpsAlong(path)[i] \in {ops[p][j] : j \in 1..Len(ops[p])}
    BY <1>2, OpsAlongElements
  <2>2. OpsAlong(path)[i] \in DOMAIN exported /\ defs[OpsAlong(path)[i]][1] = p
    BY <1>2, <2>1
  <2>3. p # longer
    BY <1>4, <2>1
  <2> QED BY <2>2, <2>3
<1>6. PICK s : s = OpsAlong(path)
  OBVIOUS
<1>7. /\ s \o list \in Seq(Nodes) /\ Len(s \o list) = Len(s) + Len(list)
      /\ Len(s) \in Nat /\ Len(list) \in Nat
      /\ \A i \in 1..Len(s) + Len(list) : (s \o list)[i] = IF i <= Len(s) THEN s[i] ELSE list[i - Len(s)]
  BY <1>3, <1>6, ConcatProperties
<1>8. \A i \in 1..Len(s) : (s \o list)[i] = s[i]
  BY <1>7
<1>9. ASSUME NEW j \in 1..Len(list)
      PROVE  (s \o list)[Len(s) + j] = list[j]
  <2>1. /\ Len(s) + j \in 1..Len(s) + Len(list) /\ ~(Len(s) + j <= Len(s))
        /\ (Len(s) + j) - Len(s) = j
    BY <1>7
  <2> QED BY <1>7, <2>1
<1> QED BY <1>3, <1>5, <1>6, <1>7, <1>8, <1>9 DEF IsChain

\* Where a node is in the chain of transforms of its first prim, from where it
\* is in the queue of this prim.
LEMMA PositionOf ==
    ASSUME DOMAIN exported \subseteq DOMAIN defs, ArePlaced(defs),
           QueuesRight(DOMAIN exported, defs, ops),
           NEW path \in Seq(Names), NEW x \in Names, NEW longer, longer = Append(path, x),
           NEW n \in DOMAIN exported, defs[n][1] = longer,
           NEW list, list = OpsAt(longer), NEW k \in 1..Len(list), list[k] = n,
           \A j \in 1..Len(list) : list[j] = n => j = k,
           NEW chain, chain = OpsAlong(longer)
    PROVE  (CHOOSE i \in DOMAIN chain : chain[i] = n) = Len(OpsAlong(path)) + k
<1>1. PICK s, L, M : s = OpsAlong(path) /\ L = Len(s) /\ M = Len(list)
  OBVIOUS
<1>2. /\ L \in Nat /\ M \in Nat /\ chain \in Seq(Nodes) /\ Len(chain) = L + M
      /\ \A i \in 1..L : chain[i] = s[i] /\ s[i] # n
      /\ \A j \in 1..M : chain[L + j] = list[j]
  <2>1. IsChain(longer, path, list)
    BY ChainOf
  <2>2. /\ s \in Seq(Nodes) /\ list \in Seq(Nodes) /\ chain \in Seq(Nodes) /\ Len(chain) = L + M
        /\ \A i \in 1..L : chain[i] = s[i] /\ defs[s[i]][1] # longer
        /\ \A j \in 1..M : chain[L + j] = list[j]
    BY <1>1, <2>1 DEF IsChain
  <2>3. L \in Nat /\ M \in Nat
    BY <1>1, <2>2
  <2>4. \A i \in 1..L : s[i] # n
    BY <2>2
  <2> QED BY <2>2, <2>3, <2>4
<1>3. L + k \in DOMAIN chain /\ chain[L + k] = n
  <2>1. k \in 1..M
    BY <1>1
  <2>2. L + k \in 1..L + M
    BY <1>2, <2>1
  <2> QED BY <1>2, <2>1, <2>2
<1>4. ASSUME NEW i \in DOMAIN chain, chain[i] = n
      PROVE  i = L + k
  <2>1. i \in 1..L + M
    BY <1>2
  <2>2. ~(i \in 1..L)
    BY <1>2, <1>4
  <2>3. i - L \in 1..M /\ L + (i - L) = i
    BY <1>2, <2>1, <2>2
  <2>4. list[i - L] = n
    BY <1>2, <1>4, <2>3
  <2>5. i - L = k
    BY <1>1, <2>3, <2>4
  <2> QED BY <2>3, <2>5
<1> QED BY <1>1, <1>3, <1>4

\* A path that is not empty is a path and one more name.
LEMMA LastName ==
    ASSUME NEW path \in Seq(Names), Len(path) > 0
    PROVE  \E front \in Seq(Names), x \in Names : path = Append(front, x)
<1>1. path # <<>>
  BY EmptySeq
<1> QED BY <1>1, SequenceEmptyOrAppend

\* The queue of a prim, with those who are exported to it.
LEMMA QueueOf ==
    ASSUME QueuesRight(DOMAIN exported, defs, ops), NEW n \in DOMAIN exported,
           NEW path, path = defs[n][1]
    PROVE  \/ OpsAt(path) = <<n>> /\ \A m \in DOMAIN exported : defs[m][1] = path => m = n
           \/ \E c \in DOMAIN exported : /\ OpsAt(path) = <<n, c>> /\ c # n /\ IsOnlyChildOf(c, n)
                                         /\ defs[c][1] = path
           \/ \E a \in DOMAIN exported : /\ OpsAt(path) = <<a, n>> /\ a # n /\ IsOnlyChildOf(n, a)
                                         /\ defs[a][1] = path
<1>1. path \in DOMAIN ops /\ IsQueueOf(ops[path], path, DOMAIN exported, defs)
  BY DEF QueuesRight
<1>2. OpsAt(path) = ops[path]
  BY <1>1 DEF OpsAt
<1> QED BY <1>1, <1>2 DEF IsQueueOf

\* Before the first prim no transforms apply.
LEMMA NothingAtRoot ==
    ASSUME scene \in Scenes, DOMAIN exported \subseteq DOMAIN defs, ArePlaced(defs),
           QueuesRight(DOMAIN exported, defs, ops), NEW x \in Names
    PROVE  Len(OpsAlong(RootPath)) = 0
<1>1. RootPath \in Seq(Names) /\ Len(RootPath) \in Nat
  BY SceneIsTyped DEF SceneTypeOK, RootPath
<1>2. ASSUME NEW p \in DOMAIN ops
      PROVE  ops[p] \in Seq(Nodes) /\ Len(p) > Len(RootPath)
  <2>1. IsQueueOf(ops[p], p, DOMAIN exported, defs)
    BY DEF QueuesRight
  <2>2. \A n \in DOMAIN exported : n \in Nodes /\ Len(defs[n][1]) > Len(RootPath)
    BY DEF ArePlaced, IsPlaced
  <2>3. ops[p] \in Seq(DOMAIN exported)
    BY <2>1, QueueType
  <2>4. \E n \in DOMAIN exported : defs[n][1] = p
    BY <2>1 DEF IsQueueOf
  <2> QED BY <2>2, <2>3, <2>4
<1>3. ASSUME NEW i \in 1..Len(OpsAlong(RootPath))
      PROVE  FALSE
  <2>1. PICK p \in DOMAIN ops : Len(p) <= Len(RootPath)
    BY <1>1, <1>2, OpsAlongElements
  <2>2. PICK n \in DOMAIN exported : p = defs[n][1]
    BY DEF QueuesRight, IsQueueOf
  <2>3. Len(p) \in Nat
    BY <2>2 DEF ArePlaced, IsPlaced
  <2> QED BY <1>1, <1>2, <2>1, <2>3
<1>4. IsChain(Append(RootPath, x), RootPath, OpsAt(Append(RootPath, x)))
  BY <1>1, ChainOf
<1>5. Len(OpsAlong(RootPath)) \in Nat
  BY <1>4 DEF IsChain
<1> QED BY <1>3, <1>5

\* The last transform along the first prim of a node with children, other
\* than one that shares the prim, is the node's.
LEMMA LastIsOfParent ==
    ASSUME scene \in Scenes, DOMAIN exported \subseteq DOMAIN defs, ArePlaced(defs),
           QueuesRight(DOMAIN exported, defs, ops),
           NEW p \in DOMAIN exported, NEW n \in ChildNodes(p), defs[n][1] # defs[p][1],
           NEW path, path = defs[p][1]
    PROVE  Len(OpsAlong(path)) > 0 /\ OpsAlong(path)[Len(OpsAlong(path))] = p
<1>1. path \in Seq(Names) /\ Len(path) > 0
  <2>1. path \in Seq(Names) /\ Len(path) > Len(RootPath)
    BY DEF ArePlaced, IsPlaced
  <2>2. Len(RootPath) \in Nat
    BY SceneIsTyped DEF SceneTypeOK, RootPath
  <2> QED BY <2>1, <2>2
<1>2. PICK front \in Seq(Names), x \in Names : path = Append(front, x)
  BY <1>1, LastName
<1>3. PICK list, s, L : list = OpsAt(path) /\ s = OpsAlong(path) /\ L = Len(OpsAlong(front))
  OBVIOUS
<1>4. IsChain(path, front, list)
  BY <1>2, <1>3, ChainOf
<1>5. L \in Nat /\ Len(s) = L + Len(list) /\ \A j \in 1..Len(list) : s[L + j] = list[j]
  BY <1>3, <1>4 DEF IsChain
<1>6. (list = <<p>>) \/ \E a : list = <<a, p>>
  <2>1. ASSUME NEW c, IsOnlyChildOf(c, p), defs[c][1] = path
        PROVE  FALSE
    BY <2>1 DEF IsOnlyChildOf
  <2> QED BY <1>3, <2>1, QueueOf
<1>7. Len(list) \in 1..2 /\ list[Len(list)] = p
  <2>1. CASE list = <<p>>
    BY <2>1
  <2>2. CASE \E a : list = <<a, p>>
    <3>1. PICK a : list = <<a, p>>
      BY <2>2
    <3>2. Len(list) = 2 /\ list[2] = p
      BY <3>1
    <3> QED BY <3>2
  <2> QED BY <1>6, <2>1, <2>2
<1>8. Len(list) \in 1..Len(list) /\ Len(s) > 0
  <2>1. PICK M : M = Len(list)
    OBVIOUS
  <2>2. L \in Nat /\ M \in 1..2 /\ Len(s) = L + M
    BY <1>5, <1>7, <2>1
  <2>3. M \in 1..M /\ L + M > 0
    BY ONLY <2>2
  <2> QED BY <2>1, <2>2, <2>3
<1> QED BY <1>3, <1>5, <1>7, <1>8

\* Transforms compose where the queues are right.
LEMMA QueuesCompose ==
    ASSUME scene \in Scenes, Agrees, ParentsIn(DOMAIN exported), ArePlaced(defs),
           QueuesRight(DOMAIN exported, defs, ops)
    PROVE  TransformsCompose
<1>1. DOMAIN exported \subseteq DOMAIN defs /\ \A n \in DOMAIN exported : exported[n] = defs[n]
  BY DEF Agrees
<1> SUFFICES ASSUME NEW n \in DOMAIN exported,
                    NEW path, path = defs[n][1], NEW chain, chain = OpsAlong(path),
                    NEW at, at = CHOOSE i \in DOMAIN chain : chain[i] = n
             PROVE  IF HasExportedParent(n) THEN at > 1 /\ chain[at - 1] = ParentNode(n)
                    ELSE at = 1
  BY <1>1 DEF TransformsCompose
<1>2. PICK p : p = ParentNode(n)
  OBVIOUS
<1>3. IsPlaced(n, defs) /\ path \in Seq(Names)
  BY <1>1 DEF ArePlaced, IsPlaced
<1>4. n \in ChildNodes(p) /\ InContent(n)
  BY <1>2, <1>3 DEF IsPlaced
<1>5. ASSUME NEW front \in Seq(Names), NEW x \in Names, path = Append(front, x)
      PROVE  /\ IsChain(path, front, OpsAt(path)) /\ Len(OpsAlong(front)) \in Nat
             /\ \A k \in 1..Len(OpsAt(path)) :
                    OpsAt(path)[k] = n /\ (\A j \in 1..Len(OpsAt(path)) : OpsAt(path)[j] = n => j = k)
                        => at = Len(OpsAlong(front)) + k
  <2>1. IsChain(path, front, OpsAt(path))
    BY <1>1, <1>5, ChainOf
  <2> QED BY <1>1, <1>5, <2>1, PositionOf DEF IsChain
<1>6. ASSUME NEW front \in Seq(Names), NEW x \in Names, path = Append(front, x),
             OpsAt(path) = <<n>> \/ \E c : OpsAt(path) = <<n, c>> /\ c # n
      PROVE  at = Len(OpsAlong(front)) + 1
  <2>1. PICK list : list = OpsAt(path)
    OBVIOUS
  <2>2. 1 \in 1..Len(list) /\ list[1] = n /\ \A j \in 1..Len(list) : list[j] = n => j = 1
    BY <1>6, <2>1
  <2> QED BY <1>5, <1>6, <2>1, <2>2
<1>7. CASE ~HasExportedParent(n)
  <2>1. PICK x \in Names : path = Append(RootPath, x)
    BY <1>3, <1>7 DEF IsPlaced
  <2>2. RootPath \in Seq(Names)
    BY SceneIsTyped DEF SceneTypeOK, RootPath
  <2>3. Len(OpsAlong(RootPath)) = 0
    BY <1>1, NothingAtRoot
  <2>4. ASSUME NEW a \in DOMAIN exported, IsOnlyChildOf(n, a)
        PROVE  FALSE
    <3>1. a \in Nodes /\ InContent(a)
      BY <1>1 DEF ArePlaced, IsPlaced
    <3> QED BY <1>4, <1>7, <2>4, <3>1, SceneRootAssumption DEF HasExportedParent, IsOnlyChildOf
  <2>5. OpsAt(path) = <<n>> \/ \E c : OpsAt(path) = <<n, c>> /\ c # n
    BY <2>4, QueueOf
  <2>6. at = Len(OpsAlong(RootPath)) + 1
    BY <1>6, <2>1, <2>2, <2>5
  <2> QED BY <1>7, <2>3, <2>6
<1>8. CASE HasExportedParent(n)
  <2>1. p \in DOMAIN exported
    BY <1>2, <1>8 DEF ParentsIn
  <2>2. defs[p][1] \in Seq(Names) /\ Len(defs[p][1]) > Len(RootPath)
    BY <1>1, <2>1 DEF ArePlaced, IsPlaced
  <2>3. ASSUME NEW x \in Names, path = Append(defs[p][1], x)
        PROVE  at > 1 /\ chain[at - 1] = p
    <3>1. PICK front : front = defs[p][1]
      OBVIOUS
    <3>2. front \in Seq(Names) /\ path = Append(front, x) /\ path # front
      BY <2>2, <2>3, <3>1, AppendProperties
    <3>3. ASSUME NEW a \in DOMAIN exported, IsOnlyChildOf(n, a), defs[a][1] = path
          PROVE  FALSE
      BY <1>2, <3>1, <3>2, <3>3 DEF IsOnlyChildOf
    <3>4. OpsAt(path) = <<n>> \/ \E c : OpsAt(path) = <<n, c>> /\ c # n
      BY <3>3, QueueOf
    <3>5. at = Len(OpsAlong(front)) + 1
      BY <1>6, <3>2, <3>4
    <3>6. Len(OpsAlong(front)) > 0 /\ OpsAlong(front)[Len(OpsAlong(front))] = p
      BY <1>1, <1>4, <2>1, <3>1, <3>2, LastIsOfParent
    <3>7. /\ Len(OpsAlong(front)) \in Nat
          /\ \A i \in 1..Len(OpsAlong(front)) : chain[i] = OpsAlong(front)[i]
      BY <1>5, <3>2 DEF IsChain
    <3>8. PICK L : L = Len(OpsAlong(front))
      OBVIOUS
    <3>9. /\ L \in Nat /\ L > 0 /\ at = L + 1 /\ OpsAlong(front)[L] = p
          /\ \A i \in 1..L : chain[i] = OpsAlong(front)[i]
      BY <3>6, <3>7, <3>5, <3>8
    <3>10. at > 1 /\ at - 1 = L /\ L \in 1..L
      BY ONLY <3>9
    <3> QED BY ONLY <3>9, <3>10
  <2>4. ASSUME path = defs[p][1], ChildNodes(p) = {n}, ChildNodes(n) = {}
        PROVE  at > 1 /\ chain[at - 1] = p
    <3>1. p # n
      BY <1>4, <2>4
    <3>2. PICK front \in Seq(Names), x \in Names : path = Append(front, x)
      <4>1. Len(path) > 0
        <5>1. Len(RootPath) \in Nat
          BY SceneIsTyped DEF SceneTypeOK, RootPath
        <5> QED BY <2>2, <2>4, <5>1
      <4> QED BY <1>3, <4>1, LastName
    <3>3. PICK list, L : list = OpsAt(path) /\ L = Len(OpsAlong(front))
      OBVIOUS
    <3>4. list = <<p, n>>
      <4>1. ASSUME NEW c, IsOnlyChildOf(c, n)
            PROVE  FALSE
        BY <2>4, <4>1 DEF IsOnlyChildOf
      <4>2. ~ (\A m \in DOMAIN exported : defs[m][1] = path => m = n)
        BY <2>1, <2>4, <3>1
      <4>3. PICK a \in DOMAIN exported : list = <<a, n>> /\ IsOnlyChildOf(n, a)
        BY <3>3, <4>1, <4>2, QueueOf
      <4> QED BY <1>2, <4>3 DEF IsOnlyChildOf
    <3>5. Len(list) = 2 /\ list[1] = p /\ list[2] = n
      BY <3>4
    <3>6. at = L + 2
      <4>1. 2 \in 1..Len(list) /\ \A j \in 1..Len(list) : list[j] = n => j = 2
        BY <3>1, <3>5
      <4> QED BY <1>5, <3>2, <3>3, <3>5, <4>1
    <3>7. L \in Nat /\ chain[L + 1] = p
      <4>1. IsChain(path, front, list) /\ L \in Nat
        BY <1>5, <3>2, <3>3
      <4>2. \A j \in 1..Len(list) : chain[L + j] = list[j]
        BY <3>3, <4>1 DEF IsChain
      <4>3. 1 \in 1..Len(list)
        BY <3>5
      <4>4. chain[L + 1] = list[1]
        BY ONLY <4>1, <4>2, <4>3
      <4> QED BY <3>5, <4>1, <4>4
    <3>8. at - 1 = L + 1 /\ at > 1
      BY ONLY <3>6, <3>7
    <3> QED BY ONLY <3>7, <3>8
  <2>5. at > 1 /\ chain[at - 1] = p
    <3>1. \/ \E x \in Names : path = Append(defs[p][1], x)
          \/ path = defs[p][1] /\ ChildNodes(p) = {n} /\ ChildNodes(n) = {}
      BY <1>2, <1>3, <1>8 DEF IsPlaced
    <3> QED BY <2>3, <2>4, <3>1
  <2> QED BY <1>2, <1>8, <2>5
<1> QED BY <1>7, <1>8

\* What is queued depends on the scene, and on nothing else that changes.
LEMMA QueuesAreFixed ==
    ASSUME scene' = scene
    PROVE  /\ \A E, d, o : QueuesRight(E, d, o)' = QueuesRight(E, d, o)
           /\ \A E : ParentsIn(E)' = ParentsIn(E)
           /\ \A q : ParentsFirst(q)' = ParentsFirst(q)
<1>1. \A c, p : IsOnlyChildOf(c, p)' = IsOnlyChildOf(c, p)
  BY PlacesAreFixed DEF IsOnlyChildOf
<1>2. \A list, path, E, d : IsQueueOf(list, path, E, d)' = IsQueueOf(list, path, E, d)
  BY <1>1 DEF IsQueueOf
<1> QED BY <1>2, PlacesAreFixed DEF QueuesRight, ParentsIn, ParentsFirst

\* At first nothing is to do or exported.
LEMMA ComposedInit ==
    ASSUME Init
    PROVE  Composed
<1>1. todo = <<>> /\ pass = "preview" /\ exported = EmptyMap /\ ops = EmptyMap
  BY DEF Init
<1>2. Len(todo) = 0 /\ DOMAIN exported = {} /\ DOMAIN ops = {}
  BY <1>1 DEF EmptyMap
<1> QED BY <1>1, <1>2 DEF Composed, ParentsIn, QueuesRight, ParentsFirst

\* A node comes after its parent in the preview.
LEMMA ComposedPreviewNode ==
    ASSUME ReplayInv, Knows, Composed, PreviewNode
    PROVE  Composed'
<1>1. /\ pass = "preview" /\ pass' = pass /\ scene' = scene /\ stack # <<>>
      /\ IF InContent(Item.node) THEN todo' = Append(todo, TopContext) ELSE todo' = todo
      /\ exported' = exported /\ ops' = ops
  BY PreviewNodeSteps DEF PreviewNode, results
<1>2. stack \in Seq(Items) /\ todo \in Seq(Contexts) /\ scene \in Scenes
  BY DEF ReplayInv, Types
<1>3. PICK K, q, N, C, d :
        /\ K = stack /\ q = todo /\ N = names /\ C = classes.names /\ d = defs
        /\ PreviewKnows(K, q, N, C, d)
  BY <1>1 DEF Knows
<1>4. DOMAIN exported' = {} /\ DOMAIN ops' = {}
  BY <1>1 DEF Composed
<1>5. (ParentsIn(DOMAIN exported) /\ QueuesRight(DOMAIN exported, defs, ops))'
  BY <1>4 DEF ParentsIn, QueuesRight
<1>6. PICK q2 : q2 = todo'
  OBVIOUS
<1>7. ASSUME NEW i \in 1..Len(q2), NEW j \in 1..Len(q2), q2[j].node = ParentNode(q2[i].node)
      PROVE  j < i
  <2>1. CASE q2 = todo
    BY <1>7, <2>1 DEF Composed, ParentsFirst
  <2>2. CASE InContent(Item.node) /\ q2 = Append(todo, TopContext)
    <3>1. PICK c : c = TopContext
      OBVIOUS
    <3>2. /\ Item = stack[1] /\ 1 \in 1..Len(stack) /\ Item \in Items
      BY <1>1, <1>2, EmptySeq, HeadTailProperties DEF Item
    <3>3. /\ c \in Contexts /\ c.node = Item.node /\ c.node \in Nodes
      <4>1. TopContext \in Contexts
        BY <1>1, <1>2, TopTypes DEF ReplayInv
      <4> QED BY <3>1, <3>2, <4>1 DEF TopContext, Items
    <3>4. ~InTodo(c.node, todo)
      BY <3>2, <3>3 DEF ReplayInv, Walk, InTodo
    <3>5. /\ Len(q2) = Len(todo) + 1 /\ q2[Len(todo) + 1] = c /\ Len(todo) \in Nat
          /\ \A k \in 1..Len(todo) : q2[k] = todo[k]
      BY <1>2, <2>2, <3>1, <3>3, AppendProperties
    <3>6. ASSUME NEW n, NEW path, IsBelowParent(n, path, todo, d), ParentNode(n) = c.node
          PROVE  FALSE
      BY <2>2, <3>3, <3>4, <3>6, SceneRootAssumption DEF IsBelowParent
    <3>7. ItemKnown(Item, todo, N, d)
      BY <1>3, <3>2 DEF PreviewKnows
    <3>8. ParentNode(c.node) # c.node
      BY <3>3, <3>6, <3>7 DEF ItemKnown
    <3>9. ASSUME NEW k \in 1..Len(todo)
          PROVE  ParentNode(todo[k].node) # c.node
      <4>1. PICK x : x = todo[k]
        OBVIOUS
      <4>2. ContextKnown(x, todo, N, C, d)
        BY <1>3, <4>1 DEF PreviewKnows
      <4> QED BY <3>6, <4>1, <4>2 DEF ContextKnown
    <3>10. j # Len(todo) + 1
      <4>1. i \in 1..Len(todo) \/ i = Len(todo) + 1
        BY <3>5
      <4> QED BY <1>7, <3>5, <3>8, <3>9, <4>1
    <3>11. j \in 1..Len(todo)
      BY <3>5, <3>10
    <3>12. CASE i = Len(todo) + 1
      BY <3>5, <3>11, <3>12
    <3>13. CASE i \in 1..Len(todo)
      <4>1. todo[j].node = ParentNode(todo[i].node)
        BY <1>7, <3>5, <3>11, <3>13
      <4> QED BY <3>11, <3>13, <4>1 DEF Composed, ParentsFirst
    <3> QED BY <3>5, <3>12, <3>13
  <2> QED BY <1>1, <1>6, <2>1, <2>2
<1>8. ParentsFirst(q2)'
  <2>1. ParentsFirst(q2)
    BY <1>7 DEF ParentsFirst
  <2> QED BY <1>1, <2>1, QueuesAreFixed
<1>9. ParentsFirst(todo)'
  BY <1>6, <1>8
<1> QED BY <1>1, <1>4, <1>5, <1>9 DEF Composed

\* A node is exported after its parent, and its transform queued.
LEMMA ComposedExportNode ==
    ASSUME ReplayInv, ReplayInv', Composed, ExportNode
    PROVE  Composed'
<1> DEFINE context == Head(todo)
           made == ProcessNode(classes, context)
<1>1. PICK n, prims, root : n = context.node /\ prims = made.prims /\ root = prims[1]
  OBVIOUS
<1>2. /\ pass = "export" /\ pass' = "export" /\ todo # <<>> /\ scene' = scene /\ defs' = defs
      /\ todo' = Tail(todo)
      /\ prims = <<>> => exported' = exported /\ ops' = ops
      /\ prims # <<>> => /\ exported' = Inserted(exported, n, prims)
                         /\ ops' = [Inserted(ops, root, <<>>) EXCEPT ![root] = Append(@, n)]
  BY <1>1 DEF ExportNode
<1>3. /\ Len(todo) \in Nat /\ Len(todo) > 0 /\ Len(todo') = Len(todo) - 1 /\ n = todo[1].node
      /\ \A i \in 1..Len(todo) - 1 : todo'[i] = todo[i + 1]
  BY <1>1, <1>2, SeqElements DEF ReplayInv, Types
<1> HIDE DEF context, made
<1>4. \A i \in 1..Len(todo') : i + 1 \in 1..Len(todo) /\ todo'[i] = todo[i + 1]
  BY <1>3
<1>5. n \notin DOMAIN exported
  BY <1>3 DEF Composed
<1>6. ParentsFirst(todo)'
  <2>1. PICK q : q = todo'
    OBVIOUS
  <2>2. ParentsFirst(q)
    <3> SUFFICES ASSUME NEW i \in 1..Len(q), NEW j \in 1..Len(q),
                        q[j].node = ParentNode(q[i].node)
                 PROVE  j < i
      BY DEF ParentsFirst
    <3>1. /\ i + 1 \in 1..Len(todo) /\ q[i] = todo[i + 1]
          /\ j + 1 \in 1..Len(todo) /\ q[j] = todo[j + 1]
      BY <1>4, <2>1
    <3>2. j + 1 < i + 1
      BY <3>1 DEF Composed, ParentsFirst
    <3> QED BY <3>2
  <2>3. ParentsFirst(q)'
    BY <1>2, <2>2, QueuesAreFixed
  <2> QED BY <2>1, <2>3
<1>7. \A i \in 1..Len(todo') : todo'[i].node # n
  <2> SUFFICES ASSUME NEW i \in 1..Len(todo'), todo'[i].node = n
               PROVE  FALSE
    OBVIOUS
  <2>1. i + 1 = 1
    BY <1>3, <1>4 DEF ReplayInv, NodesOnce
  <2> QED BY <2>1
<1>8. ArePlaced(defs) /\ ArePlaced(defs)'
  BY <1>2, PlacesAreFixed DEF Composed
<1>9. CASE prims = <<>>
  <2>1. (ParentsIn(DOMAIN exported) /\ QueuesRight(DOMAIN exported, defs, ops))'
    <3>1. PICK E, o, d : E = DOMAIN exported' /\ o = ops' /\ d = defs
      OBVIOUS
    <3>2. ParentsIn(E) /\ QueuesRight(E, d, o)
      BY <1>2, <1>9, <3>1 DEF Composed
    <3>3. ParentsIn(E)' /\ QueuesRight(E, d, o)'
      BY <1>2, <3>2, QueuesAreFixed
    <3> QED BY <1>2, <3>1, <3>3
  <2>2. \A i \in 1..Len(todo') : todo'[i].node \notin DOMAIN exported'
    BY <1>2, <1>4, <1>9 DEF Composed
  <2> QED BY <1>2, <1>6, <1>8, <2>1, <2>2 DEF Composed
<1>10. CASE prims # <<>>
  <2>1. DOMAIN exported' = DOMAIN exported \union {n} /\ exported'[n] = prims
    BY <1>2, <1>5, <1>10 DEF Inserted
  <2>2. n \in DOMAIN defs /\ defs[n] = prims
    BY <1>2, <2>1 DEF ReplayInv, Agrees
  <2>3. DOMAIN exported \subseteq DOMAIN defs
    BY DEF ReplayInv, Agrees
  <2>4. QueuesRight(DOMAIN exported', defs, ops')
    <3>1. PICK o2 : o2 = ops'
      OBVIOUS
    <3>2. o2 = [Inserted(ops, root, <<>>) EXCEPT ![root] = Append(@, n)]
      BY <1>2, <1>10, <3>1
    <3>3. QueuesRight(DOMAIN exported \union {n}, defs, o2)
      BY <1>1, <1>5, <1>8, <2>2, <2>3, <3>2, QueuesStayRight DEF Composed
    <3> QED BY <2>1, <3>1, <3>3
  <2>5. ParentsIn(DOMAIN exported')
    <3>1. ASSUME HasExportedParent(n)
          PROVE  ParentNode(n) \in DOMAIN exported
      <4>1. ParentNode(n) \in DOMAIN defs
        BY <1>8, <2>2, <3>1 DEF ArePlaced, IsPlaced
      <4>2. ASSUME NEW j \in 1..Len(todo), todo[j].node = ParentNode(n)
            PROVE  FALSE
        <5>1. 1 \in 1..Len(todo)
          BY <1>3
        <5>2. j < 1
          BY <1>3, <4>2, <5>1 DEF Composed, ParentsFirst
        <5> QED BY <5>2
      <4> QED BY <4>1, <4>2 DEF ReplayInv, Agrees
    <3> QED BY <2>1, <3>1 DEF Composed, ParentsIn
  <2>6. (ParentsIn(DOMAIN exported) /\ QueuesRight(DOMAIN exported, defs, ops))'
    <3>1. PICK E, o : E = DOMAIN exported' /\ o = ops'
      OBVIOUS
    <3>2. ParentsIn(E)' /\ QueuesRight(E, defs, o)'
      <4>1. QueuesRight(E, defs, o) /\ ParentsIn(E)
        BY <2>4, <2>5, <3>1
      <4>2. PICK d : d = defs
        OBVIOUS
      <4>3. ParentsIn(E)' /\ QueuesRight(E, d, o)'
        BY <1>2, <4>1, <4>2, QueuesAreFixed
      <4> QED BY <1>2, <4>2, <4>3
    <3> QED BY <3>1, <3>2
  <2>7. \A i \in 1..Len(todo') : todo'[i].node \notin DOMAIN exported'
    BY <1>4, <1>7, <2>1 DEF Composed
  <2> QED BY <1>2, <1>6, <1>8, <2>6, <2>7 DEF Composed
<1> QED BY <1>9, <1>10

\* Every step keeps the queues right.
LEMMA ComposedStep ==
    ASSUME OrdinaryScenes, ReplayInv, ReplayInv', Knows, Composed, [Next]_vars
    PROVE  Composed'
<1>1. CASE PreviewNode
  BY <1>1, ComposedPreviewNode
<1>2. CASE ExportNode
  BY <1>2, ComposedExportNode
<1>3. CASE CreatePrims \/ Cancel \/ Finish \/ UNCHANGED vars
  <2>1. /\ scene' = scene /\ todo' = todo /\ defs' = defs /\ exported' = exported /\ ops' = ops
        /\ pass' = "preview" => pass = "preview"
    BY <1>3 DEF CreatePrims, Cancel, Finish, vars, results
  <2>2. (ParentsIn(DOMAIN exported) /\ QueuesRight(DOMAIN exported, defs, ops))'
    <3>1. PICK E, o, d : E = DOMAIN exported /\ o = ops /\ d = defs
      OBVIOUS
    <3>2. ParentsIn(E)' /\ QueuesRight(E, d, o)'
      BY <2>1, <3>1, QueuesAreFixed DEF Composed
    <3> QED BY <2>1, <3>1, <3>2
  <2>3. ParentsFirst(todo)'
    <3>1. PICK q : q = todo
      OBVIOUS
    <3>2. ParentsFirst(q)'
      BY <2>1, <3>1, QueuesAreFixed DEF Composed
    <3> QED BY <2>1, <3>1, <3>2
  <2>4. ASSUME pass' # "preview"
        PROVE  ArePlaced(defs)'
    <3>1. CASE pass # "preview"
      BY <2>1, <3>1, PlacesAreFixed DEF Composed
    <3>2. CASE pass = "preview"
      <4>1. PICK K, q, N, C, d :
                /\ K = stack /\ q = todo /\ N = names /\ C = classes.names /\ d = defs
                /\ PreviewKnows(K, q, N, C, d)
        BY <3>2 DEF Knows
      <4>2. q \in Seq(Contexts) /\ scene \in Scenes
        BY <4>1 DEF ReplayInv, Types
      <4>3. ArePlaced(d)
        BY <4>1, <4>2, PreviewPlaces
      <4>4. ArePlaced(d)'
        BY <2>1, <4>3, PlacesAreFixed
      <4> QED BY <2>1, <4>1, <4>4
    <3> QED BY <3>1, <3>2
  <2> QED BY <2>1, <2>2, <2>3, <2>4 DEF Composed
<1> QED BY <1>1, <1>2, <1>3 DEF Next

\* In an ordinary scene, too, the transform of an exported node applies right after its
\* exported parent's, and first if there is none; also when the only child of
\* a point helper has the prim of the helper, where the helper's comes first.
THEOREM TransformsApplyInOrder ==
    ASSUME OrdinaryScenes
    PROVE  Spec => []TransformsCompose
<1>1. Init => Knows /\ Composed
  BY KnowsInit, ComposedInit
<1>2. ASSUME ReplayInv, ReplayInv', Knows, Composed, [Next]_vars
      PROVE  Knows' /\ Composed'
  BY <1>2, KnowsStep, ComposedStep
<1>3. ASSUME ReplayInv, Composed
      PROVE  TransformsCompose
  <2>1. CASE DOMAIN exported = {}
    BY <2>1 DEF TransformsCompose
  <2>2. CASE DOMAIN exported # {}
    <3>1. ArePlaced(defs)
      BY <1>3, <2>2 DEF Composed
    <3> QED BY <1>3, <3>1, QueuesCompose DEF Composed, ReplayInv, Types
  <2> QED BY <2>1, <2>2
<1> QED BY <1>1, <1>2, <1>3, ReplayInvariant, PTL DEF Spec

-----------------------------------------------------------------------------
(* Where the elements of a flattened sequence come from *)

\* Those of s[k] are at the positions of F that blk says are of k, and blk goes up.
InBlocks(F, s, blk) ==
    /\ blk \in [1..Len(F) -> 1..Len(s)]
    /\ \A a \in 1..Len(F) : F[a] \in Range(s[blk[a]])
    /\ \A a, b \in 1..Len(F) : a < b => blk[a] <= blk[b]
    /\ \A k \in 1..Len(s) : \A x \in Range(s[k]) : \E a \in 1..Len(F) : blk[a] = k /\ F[a] = x

\* One more sequence makes one more block.
LEMMA BlocksAppend ==
    ASSUME NEW S, NEW s \in Seq(Seq(S)), NEW x \in Seq(S), NEW F \in Seq(S),
           NEW blk, InBlocks(F, s, blk)
    PROVE  \E blk2 : InBlocks(F \o x, Append(s, x), blk2)
<1>1. PICK G, t : G = F \o x /\ t = Append(s, x)
  OBVIOUS
<1>2. PICK n \in Nat, f \in Nat, l \in Nat : n = Len(s) /\ f = Len(F) /\ l = Len(x)
  OBVIOUS
<1>3. /\ Len(t) = n + 1 /\ t[n + 1] = x /\ \A k \in 1..n : t[k] = s[k]
      /\ t \in Seq(Seq(S))
  BY <1>1, <1>2, AppendProperties
<1>4. /\ Len(G) = f + l
      /\ \A a \in 1..f + l : G[a] = IF a <= f THEN F[a] ELSE x[a - f]
  BY <1>1, <1>2, ConcatProperties
<1>5. /\ blk \in [1..f -> 1..n]
      /\ \A a \in 1..f : F[a] \in Range(s[blk[a]])
      /\ \A a, b \in 1..f : a < b => blk[a] <= blk[b]
      /\ \A k \in 1..n : \A y \in Range(s[k]) : \E a \in 1..f : blk[a] = k /\ F[a] = y
  BY <1>2 DEF InBlocks
<1> DEFINE blk2 == [a \in 1..f + l |-> IF a <= f THEN blk[a] ELSE n + 1]
<1>6. /\ \A a \in 1..f : a \in 1..f + l /\ blk2[a] = blk[a] /\ blk[a] \in 1..n
      /\ \A a \in 1..f + l : a > f => blk2[a] = n + 1
      /\ \A a \in 1..f + l : a \in 1..f \/ (a > f /\ a - f \in 1..l)
  <2>1. \A a \in 1..f : a \in 1..f + l /\ a <= f
    BY ONLY f \in Nat, l \in Nat
  <2>2. \A a \in 1..f + l : a \in 1..f \/ (a > f /\ a - f \in 1..l)
    BY ONLY f \in Nat, l \in Nat
  <2>3. \A a \in 1..f + l : a > f => ~(a <= f)
    OBVIOUS
  <2> QED BY <1>5, <2>1, <2>2, <2>3
<1>7. \A k \in 1..n : k \in 1..n + 1
  OBVIOUS
<1>8. blk2 \in [1..f + l -> 1..n + 1]
  <2>1. n + 1 \in 1..n + 1
    OBVIOUS
  <2>2. \A a \in 1..f + l : blk2[a] \in 1..n + 1
    <3> HIDE DEF blk2
    <3> QED BY <1>6, <1>7, <2>1
  <2>3. blk2 = [a \in 1..f + l |-> blk2[a]]
    OBVIOUS
  <2> HIDE DEF blk2
  <2> QED BY <2>2, <2>3
<1> HIDE DEF blk2
<1>9. ASSUME NEW a \in 1..f + l
      PROVE  G[a] \in Range(t[blk2[a]])
  <2>1. CASE a \in 1..f
    <3>1. blk2[a] = blk[a] /\ G[a] = F[a] /\ blk[a] \in 1..n
      BY <2>1, <1>4, <1>6
    <3> QED BY <2>1, <3>1, <1>3, <1>5
  <2>2. CASE a > f /\ a - f \in 1..l
    <3>1. blk2[a] = n + 1 /\ G[a] = x[a - f] /\ a - f \in DOMAIN x
      BY <2>2, <1>2, <1>4, <1>6
    <3> QED BY <3>1, <1>3 DEF Range
  <2> QED BY <2>1, <2>2, <1>6
<1>10. ASSUME NEW a \in 1..f + l, NEW b \in 1..f + l, a < b
       PROVE  blk2[a] <= blk2[b]
  <2>1. CASE b \in 1..f
    <3>1. a \in 1..f
      BY <2>1, <1>10
    <3> QED BY <3>1, <2>1, <1>5, <1>6, <1>10
  <2>2. CASE b > f
    <3>1. blk2[b] = n + 1 /\ blk2[a] \in 1..n + 1
      BY <2>2, <1>6, <1>8
    <3> QED BY <3>1
  <2> QED BY <2>1, <2>2, <1>6
<1>11. ASSUME NEW k \in 1..n + 1, NEW y \in Range(t[k])
       PROVE  \E a \in 1..f + l : blk2[a] = k /\ G[a] = y
  <2>1. CASE k \in 1..n
    <3>1. y \in Range(s[k])
      BY <2>1, <1>3, <1>11
    <3>2. PICK a \in 1..f : blk[a] = k /\ F[a] = y
      BY <2>1, <3>1, <1>5
    <3>3. a \in 1..f + l /\ blk2[a] = k /\ G[a] = y
      BY <3>2, <1>4, <1>6
    <3> QED BY <3>3
  <2>2. CASE k = n + 1
    <3>1. PICK j \in DOMAIN x : y = x[j]
      BY <2>2, <1>3, <1>11 DEF Range
    <3>2. j \in 1..l
      BY <1>2
    <3>3. f + j \in 1..f + l /\ f + j > f /\ (f + j) - f = j
      BY <3>2
    <3>4. blk2[f + j] = n + 1 /\ G[f + j] = x[j]
      BY <3>3, <1>4, <1>6
    <3> QED BY <2>2, <3>1, <3>3, <3>4
  <2> QED BY <2>1, <2>2
<1>12. InBlocks(G, t, blk2)
  BY <1>3, <1>4, <1>8, <1>9, <1>10, <1>11 DEF InBlocks
<1> QED BY <1>1, <1>12

\* A flattened sequence is in blocks.
LEMMA FlattenBlocks ==
    ASSUME NEW S, NEW s \in Seq(Seq(S))
    PROVE  \E blk : InBlocks(FlattenSeq(s), s, blk)
<1> DEFINE Good(t) == \E blk : InBlocks(FlattenSeq(t), t, blk)
           T == {n \in Nat : \E t \in Seq(Seq(S)) : Len(t) = n /\ ~Good(t)}
<1>1. ASSUME T # {}
      PROVE  FALSE
  <2>1. PICK n \in T : \A k \in T : n <= k
    <3>1. T \subseteq Nat
      OBVIOUS
    <3> HIDE DEF T
    <3> QED BY <1>1, <3>1, LeastNumber
  <2>2. PICK t \in Seq(Seq(S)) : Len(t) = n /\ ~Good(t)
    OBVIOUS
  <2>3. CASE t = <<>>
    <3>1. PICK F : F = FlattenSeq(t)
      OBVIOUS
    <3>2. F = <<>> /\ Len(F) = 0 /\ Len(t) = 0
      BY <2>3, <3>1 DEF FlattenSeq
    <3> DEFINE blk == [a \in 1..0 |-> 0]
    <3>3. blk \in [1..0 -> 1..0] /\ \A a \in 1..0 : FALSE
      OBVIOUS
    <3> HIDE DEF blk
    <3>4. InBlocks(F, t, blk)
      BY <3>2, <3>3 DEF InBlocks
    <3> QED BY <2>2, <3>1, <3>4
  <2>4. CASE t # <<>>
    <3>1. PICK u \in Seq(Seq(S)), x \in Seq(S) : t = Append(u, x)
      BY <2>4, SequenceEmptyOrAppend
    <3>2. Len(t) = Len(u) + 1 /\ Len(u) \in Nat
      BY <3>1, AppendProperties
    <3>3. Len(u) \notin T
      <4> HIDE DEF T
      <4> QED BY <2>1, <2>2, <3>2
    <3>4. PICK blk : InBlocks(FlattenSeq(u), u, blk)
      BY <3>2, <3>3
    <3>5. FlattenSeq(t) = FlattenSeq(u) \o x /\ FlattenSeq(u) \in Seq(S)
      BY <3>1, FlattenAppend
    <3>6. \E b : InBlocks(FlattenSeq(u) \o x, Append(u, x), b)
      BY <3>4, <3>5, BlocksAppend
    <3> QED BY <2>2, <3>1, <3>5, <3>6
  <2> QED BY <2>3, <2>4
<1>2. Len(s) \in Nat /\ Len(s) \notin T
  <2> HIDE DEF T
  <2> QED BY <1>1
<1> QED BY <1>2
-----------------------------------------------------------------------------
(* The prims that are created *)

\* What WithPrims makes of the stage "before": the stage stays as it is at the
\* front; from[i] says which of the prims the i-th of the stage is, for the first
\* time among them.
Extends(more, before, prims, leftOut, from) ==
    /\ more \in Seq(Prims) /\ Len(before) <= Len(more)
    /\ \A i \in 1..Len(before) : more[i] = before[i]
    /\ \A i \in Len(before) + 1..Len(more) :
            /\ from[i] \in 1..Len(prims) /\ more[i] = prims[from[i]]
            /\ \A a \in 1..Len(prims) : prims[a] = more[i] => from[i] <= a
    /\ \A i, j \in Len(before) + 1..Len(more) : i < j => from[i] < from[j]
    /\ \A a \in 1..Len(prims) :
            prims[a] \in leftOut \/ \E i \in 1..Len(more) : more[i] = prims[a]

\* nth[k] is the k-th of a set of numbers, if there is one.
PicksNth(nth, A, L) ==
    /\ L \in Nat /\ A \subseteq 1..L
    /\ \A k \in 1..Cardinality(A) : (\E i \in A : Cardinality(A \intersect 1..i) = k) =>
            nth[k] \in A /\ Cardinality(A \intersect 1..nth[k]) = k

\* There is, nth grows with k, and all of them are one.
LEMMA NthOfSet ==
    ASSUME NEW L \in Nat, NEW A \in SUBSET (1..L), NEW nth, PicksNth(nth, A, L)
    PROVE  /\ Cardinality(A) \in Nat
           /\ \A k \in 1..Cardinality(A) : nth[k] \in A
           /\ \A k, l \in 1..Cardinality(A) : k < l => nth[k] < nth[l]
           /\ \A i \in A : \E k \in 1..Cardinality(A) : nth[k] = i
<1> DEFINE a == [i \in 1..L |-> Cardinality(A \intersect 1..i)]
           place == [i \in 1..L |->
                       IF i \in A THEN Cardinality(A \intersect 1..i)
                       ELSE Cardinality(A) + Cardinality(((1..L) \ A) \intersect 1..i)]
<1>1. PICK c : c = Cardinality(A)
  OBVIOUS
<1>2. Rises(A, a, c, L)
  BY <1>1, PlaceAmong
<1>3. \A i \in A : a[i] = Cardinality(A \intersect 1..i) /\ place[i] = a[i]
  OBVIOUS
<1>4. \A k \in 1..L : \E i \in 1..L : place[i] = k
  <2>1. InTwoRuns(place, A, L)
    BY DEF InTwoRuns
  <2> HIDE DEF place
  <2> QED BY <2>1, EveryPlaceIsTaken
<1>5. c \in Nat /\ c <= L
  <2>1. IsFiniteSet(1..L) /\ Cardinality(1..L) = L
    BY FS_Interval
  <2>2. Cardinality(A) <= Cardinality(1..L) /\ Cardinality(A) \in Nat
    BY <2>1, FS_Subset, FS_CardinalityType
  <2> QED BY <1>1, <2>1, <2>2
<1>6. ASSUME NEW k \in 1..c
      PROVE  \E i \in A : a[i] = k
  <2> HIDE DEF place, a
  <2>0. k \in 1..L
    BY <1>5
  <2>1. PICK i \in 1..L : place[i] = k
    BY <1>4, <2>0
  <2>2. CASE i \in A
    BY <2>1, <2>2, <1>3
  <2>3. CASE i \notin A
    <3>1. PICK B : B = (1..L) \ A
      OBVIOUS
    <3>2. place[i] = c + Cardinality(B \intersect 1..i)
      BY <1>1, <2>3, <3>1 DEF place
    <3>3. IsFiniteSet(B \intersect 1..i) /\ i \in B \intersect 1..i
      <4>1. IsFiniteSet(1..L)
        BY FS_Interval
      <4> QED BY <2>3, <3>1, <4>1, FS_Subset
    <3>4. Cardinality(B \intersect 1..i) \in Nat \ {0}
      BY <3>3, FS_CardinalityType, FS_EmptySet
    <3> QED BY <1>5, <2>1, <3>2, <3>4
  <2> QED BY <2>2, <2>3
<1>7. \A i \in A : a[i] \in 1..c /\ i \in 1..L
  <2> HIDE DEF a
  <2> QED BY <1>2, <1>5 DEF Rises
<1>8. ASSUME NEW k \in 1..c
      PROVE  nth[k] \in A /\ a[nth[k]] = k
  <2>1. \E i \in A : Cardinality(A \intersect 1..i) = k
    BY <1>3, <1>6
  <2>2. nth[k] \in A /\ Cardinality(A \intersect 1..nth[k]) = k
    BY <1>1, <2>1 DEF PicksNth
  <2> QED BY <2>2, <1>3
<1>9. \A i, j \in A : i < j => a[i] < a[j]
  BY <1>2 DEF Rises
<1> HIDE DEF a, place
<1>10. ASSUME NEW i \in A, NEW j \in A
       PROVE  /\ a[i] < a[j] => i < j
              /\ a[i] = a[j] => i = j
  <2>1. i \in 1..L /\ j \in 1..L /\ a[i] \in 1..c /\ a[j] \in 1..c
    BY <1>7
  <2>2. i < j \/ j < i \/ i = j
    BY <2>1
  <2>3. (i < j => a[i] < a[j]) /\ (j < i => a[j] < a[i])
    BY <1>9
  <2> QED BY <1>5, <2>1, <2>2, <2>3
<1>11. ASSUME NEW k \in 1..c, NEW l \in 1..c, k < l
       PROVE  nth[k] < nth[l]
  <2>1. nth[k] \in A /\ nth[l] \in A /\ a[nth[k]] < a[nth[l]]
    BY <1>8, <1>11
  <2> QED BY <2>1, <1>10
<1>12. ASSUME NEW i \in A
       PROVE  \E k \in 1..c : nth[k] = i
  <2>1. a[i] \in 1..c
    BY <1>7
  <2>2. nth[a[i]] \in A /\ a[nth[a[i]]] = a[i]
    BY <2>1, <1>8
  <2> QED BY <2>1, <2>2, <1>10
<1> QED BY <1>1, <1>5, <1>8, <1>11, <1>12

\* WithPrims adds the prims that are not left out, each once, in their order.
LEMMA WithPrimsExtends ==
    ASSUME stage \in Seq(Prims), NEW prims \in Seq(Prims), NEW leftOut
    PROVE  \E from : Extends(WithPrims(prims, leftOut), stage, prims, leftOut, from)
<1>1. PICK L \in Nat, n \in Nat : L = Len(prims) /\ n = Len(stage)
  OBVIOUS
<1> DEFINE new == {i \in DOMAIN prims :
                     /\ prims[i] \notin ToSet(stage) \union leftOut
                     /\ \A j \in 1..i - 1 : prims[j] # prims[i]}
           c == Cardinality(new)
           Nth(k) == CHOOSE i \in new : Cardinality(new \intersect 1..i) = k
           nth == [k \in 1..c |-> Nth(k)]
           added == [k \in 1..c |-> prims[Nth(k)]]
<1>2. new \in SUBSET (1..L)
  BY <1>1
<1>3. WithPrims(prims, leftOut) = stage \o added
  BY DEF WithPrims
<1>4. /\ c \in Nat
      /\ \A k \in 1..c : nth[k] \in new
      /\ \A k, l \in 1..c : k < l => nth[k] < nth[l]
      /\ \A i \in new : \E k \in 1..c : nth[k] = i
  <2>1. PICK A, f : A = new /\ f = nth
    OBVIOUS
  <2>2. A \in SUBSET (1..L) /\ c = Cardinality(A)
    BY <1>2, <2>1
  <2>3. \A k : (\E i \in A : Cardinality(A \intersect 1..i) = k) =>
                Nth(k) \in A /\ Cardinality(A \intersect 1..Nth(k)) = k
    <3> HIDE DEF new
    <3> QED BY <2>1
  <2> HIDE DEF new, c, Nth
  <2>4. \A k \in 1..c : f[k] = Nth(k)
    BY <2>1
  <2> HIDE DEF nth
  <2>5. PicksNth(f, A, L)
    BY <2>2, <2>3, <2>4 DEF PicksNth
  <2>6. /\ Cardinality(A) \in Nat
        /\ \A k \in 1..Cardinality(A) : f[k] \in A
        /\ \A k, l \in 1..Cardinality(A) : k < l => f[k] < f[l]
        /\ \A i \in A : \E k \in 1..Cardinality(A) : f[k] = i
    BY <2>2, <2>5, NthOfSet
  <2> QED BY <2>1, <2>2, <2>6
<1>5. \A i \in new : /\ i \in 1..L /\ prims[i] \in Prims
                      /\ \A a \in 1..L : prims[a] = prims[i] => i <= a
  <2> SUFFICES ASSUME NEW i \in new, NEW a \in 1..L, prims[a] = prims[i]
               PROVE  i \in 1..L /\ prims[i] \in Prims /\ i <= a
    BY <1>2
  <2>1. i \in 1..L /\ \A j \in 1..i - 1 : prims[j] # prims[i]
    BY <1>2
  <2>2. a \notin 1..i - 1
    BY <2>1
  <2> QED BY <2>1, <2>2, <1>1
<1>6. ASSUME NEW a \in 1..L, prims[a] \notin leftOut, prims[a] \notin ToSet(stage)
      PROVE  \E i \in new : prims[i] = prims[a]
  <2> DEFINE T == {i \in 1..L : prims[i] = prims[a]}
  <2>1. T \subseteq Nat /\ T # {}
    OBVIOUS
  <2>2. PICK i \in T : \A j \in T : i <= j
    <3> HIDE DEF T
    <3> QED BY <2>1, LeastNumber
  <2>3. \A j \in 1..i - 1 : prims[j] # prims[i]
    <3> SUFFICES ASSUME NEW j \in 1..i - 1, prims[j] = prims[i]
                 PROVE  FALSE
      OBVIOUS
    <3>1. j \in T /\ ~(i <= j)
      OBVIOUS
    <3> QED BY <2>2, <3>1
  <2>4. i \in new
    BY <1>1, <1>6, <2>3
  <2> QED BY <2>4
<1> HIDE DEF new, c, Nth
<1>7. added = [k \in 1..c |-> prims[nth[k]]]
  OBVIOUS
<1> HIDE DEF nth, added
<1>8. /\ \A k \in 1..c : added[k] = prims[nth[k]]
      /\ added \in Seq(Prims) /\ Len(added) = c
  <2>1. \A k \in 1..c : prims[nth[k]] \in Prims
    BY <1>4, <1>5
  <2> QED BY <1>4, <1>7, <2>1
<1>9. PICK more : more = stage \o added
  OBVIOUS
<1>10. /\ more \in Seq(Prims) /\ Len(more) = n + c
       /\ \A i \in 1..n + c : more[i] = IF i <= n THEN stage[i] ELSE added[i - n]
  <2>1. stage \in Seq(Prims) /\ added \in Seq(Prims)
    BY <1>8
  <2>2. /\ stage \o added \in Seq(Prims) /\ Len(stage \o added) = Len(stage) + Len(added)
        /\ \A i \in 1..Len(stage) + Len(added) :
             (stage \o added)[i] = IF i <= Len(stage) THEN stage[i] ELSE added[i - Len(stage)]
    BY <2>1, ConcatProperties
  <2> QED BY <1>1, <1>8, <1>9, <2>2
<1> DEFINE from == [i \in n + 1..n + c |-> nth[i - n]]
<1>11. \A i \in n + 1..n + c : /\ i \in 1..n + c /\ ~(i <= n) /\ i - n \in 1..c
                               /\ from[i] = nth[i - n]
  BY <1>4
<1> HIDE DEF from
<1>12. ASSUME NEW i \in n + 1..n + c
       PROVE  /\ from[i] \in 1..L /\ more[i] = prims[from[i]]
              /\ \A a \in 1..L : prims[a] = more[i] => from[i] <= a
  <2>1. from[i] \in new
    BY <1>4, <1>11
  <2>2. more[i] = added[i - n] /\ added[i - n] = prims[nth[i - n]]
    BY <1>8, <1>10, <1>11
  <2>3. more[i] = prims[from[i]]
    BY <1>11, <2>2
  <2> QED BY <2>1, <2>3, <1>5
<1>13. ASSUME NEW i \in n + 1..n + c, NEW j \in n + 1..n + c, i < j
       PROVE  from[i] < from[j]
  <2>1. i - n < j - n
    BY <1>13, <1>4
  <2> QED BY <2>1, <1>4, <1>11
<1>14. \A i \in 1..n : i \in 1..n + c /\ more[i] = stage[i]
  <2>1. \A i \in 1..n : i \in 1..n + c /\ i <= n
    BY <1>4
  <2> QED BY <2>1, <1>10
<1>15. ASSUME NEW a \in 1..L, prims[a] \notin leftOut
       PROVE  \E i \in 1..n + c : more[i] = prims[a]
  <2>1. CASE prims[a] \in ToSet(stage)
    <3>1. PICK i \in 1..n : stage[i] = prims[a]
      BY <1>1, <2>1 DEF ToSet
    <3> QED BY <3>1, <1>14
  <2>2. CASE prims[a] \notin ToSet(stage)
    <3>1. PICK k \in 1..c : prims[nth[k]] = prims[a]
      BY <1>4, <1>6, <1>15, <2>2
    <3>2. n + k \in 1..n + c /\ ~(n + k <= n) /\ (n + k) - n = k
      BY <1>4
    <3>3. more[n + k] = added[k]
      BY <1>10, <3>2
    <3> QED BY <3>1, <3>2, <3>3, <1>8
  <2> QED BY <2>1, <2>2
<1>16. n <= n + c
  BY <1>4
<1>17. Extends(more, stage, prims, leftOut, from)
  BY <1>1, <1>10, <1>12, <1>13, <1>14, <1>15, <1>16 DEF Extends
<1> QED BY <1>3, <1>9, <1>17

-----------------------------------------------------------------------------
(* Every node is come to *)

\* n is below m, or m itself: in whatever holds m and the children of all it holds.
IsBelow(n, m) ==
    \A S \in SUBSET Nodes : m \in S /\ (\A x \in S : ChildNodes(x) \subseteq S) => n \in S

\* The children of a node are nodes.
LEMMA ChildrenAreNodes ==
    ASSUME scene \in Scenes, NEW m \in Nodes \union {SceneRoot}
    PROVE  ChildNodes(m) \subseteq Nodes
<1>1. scene.children \in [Nodes \union {SceneRoot} -> Seq(Nodes)]
  BY SceneIsTyped DEF SceneTypeOK
<1>2. scene.children[m] \in Seq(Nodes)
  BY <1>1
<1> QED BY <1>2 DEF ChildNodes, Range

\* What is below one of the children of m, and whose children are as well.
LEMMA BelowChildren ==
    ASSUME scene \in Scenes, NEW m \in Nodes \union {SceneRoot}, NEW U,
           U = {x \in Nodes : \E c \in ChildNodes(m) : IsBelow(x, c)}
    PROVE  ChildNodes(m) \subseteq U /\ \A x \in U : ChildNodes(x) \subseteq U
<1>1. \A c \in ChildNodes(m) : c \in Nodes /\ IsBelow(c, c)
  BY ChildrenAreNodes DEF IsBelow
<1>2. ASSUME NEW x \in U, NEW y \in ChildNodes(x)
      PROVE  y \in U
  <2>1. PICK c \in ChildNodes(m) : IsBelow(x, c)
    OBVIOUS
  <2>2. y \in Nodes
    BY ChildrenAreNodes
  <2>3. IsBelow(y, c)
    BY <2>1 DEF IsBelow
  <2> QED BY <2>2, <2>3
<1> QED BY <1>1, <1>2

\* What is below m is m, or below one of its children.
LEMMA BelowOne ==
    ASSUME scene \in Scenes, NEW m \in Nodes, NEW n \in Nodes, IsBelow(n, m), n # m
    PROVE  \E c \in ChildNodes(m) : IsBelow(n, c)
<1>1. PICK U : U = {x \in Nodes : \E c \in ChildNodes(m) : IsBelow(x, c)}
  OBVIOUS
<1>2. ChildNodes(m) \subseteq U /\ \A x \in U : ChildNodes(x) \subseteq U
  BY <1>1, BelowChildren
<1>3. PICK S : S = U \union {m}
  OBVIOUS
<1>4. S \in SUBSET Nodes /\ m \in S /\ \A x \in S : ChildNodes(x) \subseteq S
  BY <1>1, <1>2, <1>3
<1>5. n \in S
  BY <1>4 DEF IsBelow
<1> QED BY <1>1, <1>3, <1>5

\* Every node is below a child of the root.
LEMMA BelowRoot ==
    ASSUME scene \in Scenes, NEW n \in Nodes
    PROVE  \E c \in ChildNodes(SceneRoot) : IsBelow(n, c)
<1>1. PICK U : U = {x \in Nodes : \E c \in ChildNodes(SceneRoot) : IsBelow(x, c)}
  OBVIOUS
<1>2. ChildNodes(SceneRoot) \subseteq U /\ \A x \in U : ChildNodes(x) \subseteq U
  BY <1>1, BelowChildren
<1>3. AllHangFromRoot(scene.children)
  BY SceneIsTyped DEF SceneTypeOK
<1>4. U \in SUBSET Nodes /\ \A x \in U \union {SceneRoot} : ChildNodes(x) \subseteq U
  BY <1>1, <1>2
<1>5. U = Nodes
  BY <1>3, <1>4 DEF AllHangFromRoot, ChildNodes
<1> QED BY <1>1, <1>5

\* Every node of the content is noted to be done, or below one on the stack.
Reached(K, q) ==
    \A n \in Nodes : InContent(n) =>
        InTodo(n, q) \/ \E i \in 1..Len(K) : IsBelow(n, K[i].node)

ReachesAll == \E K, q : K = stack /\ q = todo /\ (pass = "preview" => Reached(K, q))

\* What is reached depends on the scene.
LEMMA ReachedIsFixed ==
    ASSUME scene' = scene
    PROVE  /\ \A K, q : Reached(K, q)' = Reached(K, q)
           /\ \A n : InContent(n)' = InContent(n) /\ ChildNodes(n)' = ChildNodes(n)
<1>1. \A n : InContent(n)' = InContent(n) /\ ChildNodes(n)' = ChildNodes(n)
  BY DEF InContent, ChildNodes
<1>2. \A n, m : IsBelow(n, m)' = IsBelow(n, m)
  BY <1>1 DEF IsBelow
<1> QED BY <1>1, <1>2 DEF Reached, InTodo

\* At first every node is below the children of the root.
LEMMA ReachesInit ==
    ASSUME Init
    PROVE  ReachesAll
<1>1. /\ scene \in Scenes /\ RootPath \in Prims
      /\ stack = PushedChildren(SceneRoot, RootPath)
  BY PathTypes DEF Init
<1>2. \A c \in ChildNodes(SceneRoot) : \E k \in 1..Len(stack) : stack[k].node = c
  BY <1>1, PushedItems
<1>3. Reached(stack, todo)
  BY <1>1, <1>2, BelowRoot DEF Reached
<1> QED BY <1>3 DEF ReachesAll

\* The node on top of the stack is noted, if it is of the content, and what is below
\* it is below its children.
LEMMA ReachesPreviewNode ==
    ASSUME Types, ReachesAll, PreviewNode
    PROVE  ReachesAll'
<1>1. PICK K, q : K = stack' /\ q = todo'
  OBVIOUS
<1>2. /\ scene \in Scenes /\ stack \in Seq(Items) /\ todo \in Seq(Contexts) /\ stack # <<>>
      /\ scene' = scene /\ pass' = pass /\ pass = "preview"
      /\ IF InContent(Item.node) THEN q = Append(todo, TopContext) ELSE q = todo
      /\ K = PushedChildren(Item.node, TopPlace) \o Tail(stack)
  BY <1>1, PreviewNodeSteps DEF Types
<1>3. PICK n, place, c : n = Item.node /\ place = TopPlace /\ c = TopContext
  OBVIOUS
<1>4. n \in Nodes /\ place \in Prims /\ c \in Contexts /\ c.node = n
  BY <1>2, <1>3, TopTypes DEF Items, TopContext
<1>5. PICK kids : kids = PushedChildren(n, place)
  OBVIOUS
<1>6. /\ kids \in Seq(Items)
      /\ \A x \in ChildNodes(n) : \E k \in 1..Len(kids) : kids[k].node = x
  BY <1>2, <1>4, <1>5, PushedItems
<1>7. PICK rest : rest = Tail(stack)
  OBVIOUS
<1>8. /\ rest \in Seq(Items) /\ Len(rest) = Len(stack) - 1 /\ Len(stack) \in Nat
      /\ n = stack[1].node /\ \A i \in 1..Len(stack) - 1 : rest[i] = stack[i + 1]
  BY <1>2, <1>3, <1>7, HeadTailProperties, EmptySeq DEF Item
<1>9. /\ Len(K) = Len(kids) + Len(rest)
      /\ \A i \in 1..Len(kids) + Len(rest) :
            K[i] = IF i <= Len(kids) THEN kids[i] ELSE rest[i - Len(kids)]
  BY <1>2, <1>3, <1>5, <1>6, <1>7, <1>8, ConcatProperties
<1>10. PICK a \in Nat, b \in Nat : a = Len(kids) /\ b = Len(rest)
  BY <1>6, <1>8
<1>11. \A k \in 1..a : k \in 1..Len(K) /\ K[k] = kids[k]
  <2>1. \A k \in 1..a : k \in 1..a + b /\ k <= a
    BY ONLY a \in Nat, b \in Nat
  <2> QED BY <1>9, <1>10, <2>1
<1>12. \A k \in 1..b : a + k \in 1..Len(K) /\ K[a + k] = rest[k]
  <2>1. \A k \in 1..b : a + k \in 1..a + b /\ ~(a + k <= a) /\ (a + k) - a = k
    BY ONLY a \in Nat, b \in Nat
  <2> QED BY <1>9, <1>10, <2>1
<1>13. ASSUME NEW x \in Nodes, InContent(x)
       PROVE  InTodo(x, q) \/ \E i \in 1..Len(K) : IsBelow(x, K[i].node)
  <2>1. CASE InTodo(x, todo)
    <3>1. PICK i \in 1..Len(todo) : todo[i].node = x
      BY <2>1 DEF InTodo
    <3>2. i \in 1..Len(q) /\ q[i] = todo[i]
      <4>1. CASE q = todo
        BY <4>1
      <4>2. CASE q = Append(todo, c)
        BY <1>2, <1>4, <4>2, AppendProperties
      <4> QED BY <1>2, <1>3, <4>1, <4>2
    <3> QED BY <3>1, <3>2 DEF InTodo
  <2>2. ASSUME NEW i \in 1..Len(stack), IsBelow(x, stack[i].node)
        PROVE  InTodo(x, q) \/ \E j \in 1..Len(K) : IsBelow(x, K[j].node)
    <3>1. CASE i = 1 /\ x = n
      <4>1. q = Append(todo, c)
        BY <1>2, <1>3, <1>13, <3>1
      <4>2. Len(todo) + 1 \in 1..Len(q) /\ q[Len(todo) + 1] = c
        BY <1>2, <1>4, <4>1, AppendProperties
      <4> QED BY <1>4, <3>1, <4>2 DEF InTodo
    <3>2. CASE i = 1 /\ x # n
      <4>1. IsBelow(x, n)
        BY <1>8, <2>2, <3>2
      <4>2. PICK y \in ChildNodes(n) : IsBelow(x, y)
        BY <1>2, <1>4, <3>2, <4>1, BelowOne
      <4>3. PICK k \in 1..a : kids[k].node = y
        BY <1>6, <1>10
      <4> QED BY <1>11, <4>2, <4>3
    <3>3. CASE i # 1
      <4>1. i - 1 \in 1..b /\ (i - 1) + 1 = i
        BY <1>8, <1>10, <3>3
      <4>2. rest[i - 1] = stack[i]
        BY <1>8, <1>10, <4>1
      <4> QED BY <1>12, <2>2, <4>1, <4>2
    <3> QED BY <3>1, <3>2, <3>3
  <2>3. InTodo(x, todo) \/ \E i \in 1..Len(stack) : IsBelow(x, stack[i].node)
    BY <1>2, <1>13 DEF ReachesAll, Reached
  <2> QED BY <2>1, <2>2, <2>3
<1>14. Reached(K, q)
  BY <1>13 DEF Reached
<1>15. Reached(K, q)'
  BY <1>2, <1>14, ReachedIsFixed
<1> QED BY <1>1, <1>15 DEF ReachesAll

-----------------------------------------------------------------------------
(* What ProcessNode makes: the object of a node, or an instance and, for    *)
(* the first of those who share the object, the class                      *)

\* The prims of an instance's own: it is the last of them, and may be the
\* prim of a point helper.
InstancePrims(c, own) ==
    IF NeedsXform(c.node, TRUE) THEN own = <<XformPath(c), ObjectPath(c)>>
    ELSE \/ own = <<XformPath(c)>>
         \/ /\ own = <<c.parent>> /\ ParentNode(c.node) # SceneRoot
            /\ scene.kind[ParentNode(c.node)] = "pointHelper"

MakesNothing(b, made) ==
    made.object = NoPath /\ made.instance = NoPath /\ made.classes = b

MakesObject(b, c, made) ==
    /\ made.object \in Range(made.prims) /\ made.object # NoPath
    /\ Range(made.prims) \subseteq {XformPath(c), ObjectPath(c)}
    /\ made.instance = NoPath /\ made.classes = b

MakesInstance(b, c, own, made) ==
    /\ InstancePrims(c, own) /\ made.prims = own /\ made.instance = own[Len(own)]
    /\ made.object = NoPath /\ made.classes = b

MakesClass(b, c, own, k, made) ==
    /\ InstancePrims(c, own) /\ made.instance = own[Len(own)]
    /\ k \in Names \ b.names
    /\ made.prims = own \o <<ClassPath(k), Append(ClassPath(k), c.name)>>
    /\ made.object = Append(ClassPath(k), c.name)
    /\ made.classes.of = [x \in DOMAIN b.of \union Instances(c.node) |->
                            IF x \in DOMAIN b.of THEN b.of[x] ELSE ClassPath(k)]

\* Nodes with a class can be instanced, and share it with all who share the object.
ClassesRight(b) ==
    \A n \in DOMAIN b.of :
        /\ n \in Nodes /\ CanBeInstanced(n)
        /\ \A m \in Instances(n) : m \in DOMAIN b.of /\ b.of[m] = b.of[n]

Makes(b, c, made) ==
    IF HasWriter(c.node)
    THEN IF CanBeInstanced(c.node)
         THEN \E own : IF c.node \in DOMAIN b.of THEN MakesInstance(b, c, own, made)
                       ELSE \E k : MakesClass(b, c, own, k, made)
         ELSE MakesObject(b, c, made)
    ELSE MakesNothing(b, made)

\* A path and one more name is not the empty path.
LEMMA AppendIsSome ==
    ASSUME NEW S, NEW s \in Seq(S), NEW x \in S
    PROVE  Append(s, x) # NoPath
BY AppendProperties, EmptySeq DEF NoPath

\* That is what it makes.
LEMMA ProcessNodeMakes ==
    ASSUME scene \in Scenes, NEW b, ClassesOK(b), ClassesRight(b), NEW c \in Contexts,
           NEW made, made = ProcessNode(b, c)
    PROVE  Makes(b, c, made)
<1> DEFINE n == c.node
           nothing == [prims |-> <<>>, object |-> NoPath, instance |-> NoPath, classes |-> b]
           X == XformPath(c)
           O == ObjectPath(c)
<1>1. /\ n \in Nodes /\ c.parent \in Prims /\ c.name \in Names /\ X \in Prims /\ O \in Prims
      /\ X # NoPath /\ O # NoPath
  <2>1. n \in Nodes /\ c.parent \in Prims /\ c.name \in Names
    BY DEF Contexts
  <2>2. X \in Prims /\ O \in Prims
    BY <2>1, PathTypes DEF XformPath, ObjectPath
  <2>3. c.name \in Names /\ ObjectName(c) \in Names
    BY <2>1, PathTypes
  <2>4. X # NoPath /\ O # NoPath
    BY <2>1, <2>2, <2>3, AppendIsSome DEF XformPath, ObjectPath, Prims
  <2> QED BY <2>1, <2>2, <2>4
<1>2. n \in DOMAIN b.of => CanBeInstanced(n)
  BY DEF ClassesRight
<1>3. CASE HasWriter(n) /\ CanBeInstanced(n)
  <2> DEFINE k == UniqueName(c.name, b.names)
             split == NeedsXform(n, TRUE)
             instancePath == IF split THEN O
                             ELSE IF ReuseParentPrimForInstancing(c) THEN c.parent
                             ELSE X
             own == IF split THEN <<X, instancePath>> ELSE <<instancePath>>
             prototype == Append(ClassPath(k), c.name)
             of == [x \in DOMAIN b.of \union Instances(n) |->
                        IF x \in DOMAIN b.of THEN b.of[x] ELSE ClassPath(k)]
  <2>1. made = WriteInstancePrims(b, c, nothing)
    BY <1>3 DEF ProcessNode
  <2>2. k \in Names \ b.names
    BY <1>1, UniqueNameIsFree DEF ClassesOK
  <2>3. ReuseParentPrimForInstancing(c) => /\ ParentNode(n) # SceneRoot
                                           /\ scene.kind[ParentNode(n)] = "pointHelper"
    BY DEF ReuseParentPrimForInstancing
  <2>4. IF n \notin DOMAIN b.of
        THEN /\ made.prims = own \o <<ClassPath(k), prototype>>
             /\ made.object = prototype /\ made.instance = instancePath
             /\ made.classes.of = of
        ELSE /\ made.prims = own /\ made.object = NoPath /\ made.instance = instancePath
             /\ made.classes = b
    <3>1. CASE n \notin DOMAIN b.of
      <4>1. PICK p, o, i, cl :
                /\ p = own \o <<ClassPath(k), prototype>> /\ o = prototype /\ i = instancePath
                /\ cl = [of |-> of, names |-> b.names \union {k}]
        OBVIOUS
      <4>2. made = [nothing EXCEPT !.prims = p, !.object = o, !.instance = i, !.classes = cl]
        BY <2>1, <3>1, <4>1 DEF WriteInstancePrims, ClassPath, XformPath, ObjectPath
      <4>3. made.prims = p /\ made.object = o /\ made.instance = i /\ made.classes = cl
        BY ONLY <4>2
      <4>4. made.classes.of = of
        BY <4>1, <4>3
      <4> QED BY <3>1, <4>1, <4>3, <4>4
    <3>2. CASE n \in DOMAIN b.of
      BY <2>1, <3>2 DEF WriteInstancePrims, XformPath, ObjectPath
    <3> QED BY <3>1, <3>2
  <2> HIDE DEF k, of, prototype, X, O
  <2>5. InstancePrims(c, own) /\ instancePath = own[Len(own)]
    <3>1. InstancePrims(c, own)
      BY <2>3 DEF InstancePrims, X, O
    <3>2. instancePath = own[Len(own)]
      OBVIOUS
    <3> QED BY <3>1, <3>2
  <2> HIDE DEF own, instancePath
  <2>6. CASE n \in DOMAIN b.of
    <3>1. MakesInstance(b, c, own, made)
      BY <2>4, <2>5, <2>6 DEF MakesInstance
    <3> QED BY <1>3, <2>6, <3>1 DEF Makes
  <2>7. CASE n \notin DOMAIN b.of
    <3>1. MakesClass(b, c, own, k, made)
      BY <2>2, <2>4, <2>5, <2>7 DEF MakesClass, prototype, of
    <3> QED BY <1>3, <2>7, <3>1 DEF Makes
  <2> QED BY <2>6, <2>7
<1>4. CASE HasWriter(n) /\ ~CanBeInstanced(n)
  <2>1. made = WriteObjectPrims(c, nothing)
    BY <1>2, <1>4 DEF ProcessNode
  <2>2. /\ \/ made.prims = <<X, O>> /\ made.object = O
           \/ made.prims = <<X>> /\ made.object = X
        /\ made.instance = NoPath /\ made.classes = b
    BY <2>1 DEF WriteObjectPrims, XformPath, ObjectPath
  <2> HIDE DEF X, O
  <2>3. made.object \in Range(made.prims) /\ Range(made.prims) \subseteq {X, O}
    <3>1. Range(<<X>>) = {X} /\ Range(<<X, O>>) = {X, O}
      BY ShortRanges
    <3>2. CASE made.prims = <<X>> /\ made.object = X
      BY <3>1, <3>2
    <3>3. CASE made.prims = <<X, O>> /\ made.object = O
      BY <3>1, <3>3
    <3> QED BY <2>2, <3>2, <3>3
  <2>4. MakesObject(b, c, made)
    BY <1>1, <2>2, <2>3 DEF MakesObject, X, O
  <2> QED BY <1>4, <2>4 DEF Makes
<1>5. CASE ~HasWriter(n)
  <2>1. MakesNothing(b, made)
    <3>1. CASE HasExportableDescendants(n)
      BY <1>5, <3>1 DEF ProcessNode, MakesNothing
    <3>2. CASE ~HasExportableDescendants(n)
      BY <1>5, <3>2 DEF ProcessNode, MakesNothing
    <3> QED BY <3>1, <3>2
  <2> QED BY <1>5, <2>1 DEF Makes
<1> QED BY <1>3, <1>4, <1>5

\* The prims of a node with a writer start with those of its own.
StartsWith(prims, own) ==
    Len(own) <= Len(prims) /\ \A i \in 1..Len(own) : prims[i] = own[i]

PrimsMade(c, prims) ==
    IF CanBeInstanced(c.node) THEN \E own : InstancePrims(c, own) /\ StartsWith(prims, own)
    ELSE Range(prims) \subseteq {XformPath(c), ObjectPath(c)}

\* What is made leaves the classes right, and the prims of a node are of its own.
LEMMA MakesRight ==
    ASSUME scene \in Scenes, NEW b, ClassesOK(b), ClassesRight(b), NEW c \in Contexts,
           InContent(c.node), NEW made, Makes(b, c, made)
    PROVE  /\ ClassesRight(made.classes)
           /\ HasWriter(c.node) => PrimsMade(c, made.prims)
<1> DEFINE n == c.node
<1>1. n \in Nodes
  BY DEF Contexts
<1>2. CASE ~HasWriter(n)
  BY <1>2 DEF Makes, MakesNothing
<1>3. CASE HasWriter(n) /\ ~CanBeInstanced(n)
  BY <1>3 DEF Makes, MakesObject, PrimsMade
<1>4. CASE HasWriter(n) /\ CanBeInstanced(n) /\ n \in DOMAIN b.of
  <2>1. PICK own : MakesInstance(b, c, own, made)
    BY <1>4 DEF Makes
  <2>2. Len(own) \in Nat
    <3>1. InstancePrims(c, own)
      BY <2>1 DEF MakesInstance
    <3> QED BY <3>1 DEF InstancePrims
  <2>3. StartsWith(made.prims, own) /\ InstancePrims(c, own) /\ made.classes = b
    BY <2>1, <2>2 DEF MakesInstance, StartsWith
  <2> QED BY <1>4, <2>3 DEF PrimsMade
<1>5. CASE HasWriter(n) /\ CanBeInstanced(n) /\ n \notin DOMAIN b.of
  <2>1. PICK own, k : MakesClass(b, c, own, k, made)
    BY <1>5 DEF Makes
  <2>2. PICK x, y : x = ClassPath(k) /\ y = Append(ClassPath(k), c.name)
    OBVIOUS
  <2>3. /\ InstancePrims(c, own) /\ made.prims = own \o <<x, y>>
        /\ made.classes.of = [z \in DOMAIN b.of \union Instances(n) |->
                                IF z \in DOMAIN b.of THEN b.of[z] ELSE x]
    BY <2>1, <2>2 DEF MakesClass
  <2>4. StartsWith(made.prims, own)
    <3>1. \E u, v : own = <<u, v>> \/ own = <<u>>
      BY <2>3 DEF InstancePrims
    <3>2. PICK u, v : own = <<u, v>> \/ own = <<u>>
      BY <3>1
    <3>3. PICK S : S = {u, v, x, y}
      OBVIOUS
    <3>4. own \in Seq(S) /\ <<x, y>> \in Seq(S) /\ Len(<<x, y>>) = 2 /\ Len(own) \in Nat
      BY <3>2, <3>3
    <3>5. /\ Len(own \o <<x, y>>) = Len(own) + Len(<<x, y>>)
          /\ \A i \in 1..Len(own) + Len(<<x, y>>) :
                (own \o <<x, y>>)[i] = IF i <= Len(own) THEN own[i] ELSE <<x, y>>[i - Len(own)]
      BY <3>4, ConcatProperties
    <3>6. \A i \in 1..Len(own) : i \in 1..Len(own) + 2 /\ i <= Len(own)
      BY ONLY <3>4
    <3>7. Len(own) <= Len(made.prims) /\ \A i \in 1..Len(own) : made.prims[i] = own[i]
      BY <2>3, <3>4, <3>5, <3>6
    <3> QED BY <3>7 DEF StartsWith
  <2>5. PrimsMade(c, made.prims)
    BY <1>5, <2>3, <2>4 DEF PrimsMade
  <2>6. \A z \in Instances(n) : z \in Nodes /\ CanBeInstanced(z) /\ Instances(z) = Instances(n)
    <3> SUFFICES ASSUME NEW z \in Instances(n)
                 PROVE  z \in Nodes /\ CanBeInstanced(z) /\ Instances(z) = Instances(n)
      OBVIOUS
    <3>1. z \in Nodes /\ scene.object[z] = scene.object[n]
      BY DEF Instances
    <3>2. Instances(z) = Instances(n)
      BY <3>1 DEF Instances
    <3>3. scene.kind[z] = scene.kind[n]
      BY <1>1, <3>1, SceneIsTyped DEF SceneTypeOK
    <3> QED BY <1>5, <3>1, <3>2, <3>3 DEF CanBeInstanced
  <2>7. \A z \in Instances(n) : z \notin DOMAIN b.of
    <3> SUFFICES ASSUME NEW z \in Instances(n), z \in DOMAIN b.of
                 PROVE  FALSE
      OBVIOUS
    <3>1. n \in Instances(n)
      BY <1>1 DEF Instances
    <3>2. n \in Instances(z)
      BY <2>6, <3>1
    <3>3. n \in DOMAIN b.of
      BY <3>2 DEF ClassesRight
    <3> QED BY <1>5, <3>3
  <2>8. ASSUME NEW z \in DOMAIN made.classes.of
        PROVE  /\ z \in Nodes /\ CanBeInstanced(z)
               /\ \A m \in Instances(z) : /\ m \in DOMAIN made.classes.of
                                          /\ made.classes.of[m] = made.classes.of[z]
    <3>1. CASE z \in DOMAIN b.of
      <4>1. /\ z \in Nodes /\ CanBeInstanced(z)
            /\ \A m \in Instances(z) : m \in DOMAIN b.of /\ b.of[m] = b.of[z]
        BY <3>1 DEF ClassesRight
      <4> QED BY <2>3, <3>1, <4>1
    <3>2. CASE z \in Instances(n)
      <4>1. \A m \in Instances(z) : m \in Instances(n)
        BY <2>6, <3>2
      <4> QED BY <2>3, <2>6, <2>7, <3>2, <4>1
    <3> QED BY <2>3, <2>8, <3>1, <3>2
  <2>9. ClassesRight(made.classes)
    BY <2>8 DEF ClassesRight
  <2> QED BY <2>5, <2>9
<1> QED BY <1>2, <1>3, <1>4, <1>5

-----------------------------------------------------------------------------
(* The first child of the prim of an instance                              *)

IsChildOn(path, p) == p # NoPath /\ Front(p) = path /\ p \notin scene.classPrims

\* Of the children that a path has on the stage st, but for classes, this is the first.
FirstBelow(path, child, st) ==
    /\ IsChildOn(path, child)
    /\ \E i \in 1..Len(st) : st[i] = child /\ \A j \in 1..i - 1 : ~IsChildOn(path, st[j])

\* What a stage has, and the stage that it becomes.
Keeps(st, more) ==
    /\ st \in Seq(Prims) /\ more \in Seq(Prims) /\ Len(st) <= Len(more)
    /\ \A i \in 1..Len(st) : more[i] = st[i]

\* Such a child stays the first when prims are added.
LEMMA FirstStaysFirst ==
    ASSUME NEW st, NEW more, Keeps(st, more)
    PROVE  /\ Range(st) \subseteq Range(more)
           /\ \A path, child : FirstBelow(path, child, st) => FirstBelow(path, child, more)
<1>1. /\ Len(st) \in Nat /\ Len(more) \in Nat /\ Len(st) <= Len(more)
      /\ DOMAIN st = 1..Len(st) /\ DOMAIN more = 1..Len(more)
  BY DEF Keeps
<1>2. \A i \in 1..Len(st) : i \in 1..Len(more) /\ more[i] = st[i]
  BY <1>1 DEF Keeps
<1>3. Range(st) \subseteq Range(more)
  BY <1>1, <1>2 DEF Range
<1>4. ASSUME NEW path, NEW child, FirstBelow(path, child, st)
      PROVE  FirstBelow(path, child, more)
  <2>1. PICK i \in 1..Len(st) : st[i] = child /\ \A j \in 1..i - 1 : ~IsChildOn(path, st[j])
    BY <1>4 DEF FirstBelow
  <2>2. \A j \in 1..i - 1 : j \in 1..Len(st)
    BY <1>1
  <2>3. \A j \in 1..i - 1 : ~IsChildOn(path, more[j])
    BY <1>2, <2>1, <2>2
  <2> QED BY <1>2, <1>4, <2>1, <2>3 DEF FirstBelow
<1> QED BY <1>3, <1>4

\* findPrototypePrim finds the class of the first child.
LEMMA PrototypeOfChild ==
    ASSUME NEW st \in Seq(Prims), NEW path, NEW child, FirstBelow(path, child, st),
           NEW inst, path \notin DOMAIN inst, child \in DOMAIN inst
    PROVE  FindPrototypePrim(path, inst, st) = inst[child]
<1> DEFINE children == {i \in DOMAIN st : /\ st[i] # NoPath /\ Front(st[i]) = path
                                          /\ st[i] \notin scene.classPrims}
           at == CHOOSE i \in children : \A j \in children : i <= j
<1>1. PICK i \in 1..Len(st) : st[i] = child /\ \A j \in 1..i - 1 : ~IsChildOn(path, st[j])
  BY DEF FirstBelow
<1>2. i \in children
  BY <1>1 DEF FirstBelow, IsChildOn
<1>3. \A j \in children : j \in Nat /\ i \in Nat /\ i <= j
  <2> SUFFICES ASSUME NEW j \in children
               PROVE  j \in Nat /\ i \in Nat /\ i <= j
    OBVIOUS
  <2>1. j \in 1..Len(st) /\ IsChildOn(path, st[j])
    BY DEF IsChildOn
  <2>2. j \notin 1..i - 1
    BY <1>1, <2>1
  <2> QED BY <2>1, <2>2
<1>4. at = i
  <2> HIDE DEF children
  <2>1. at \in children /\ at <= i
    BY <1>2, <1>3
  <2> QED BY <1>3, <2>1
<1>5. FindPrototypePrim(path, inst, st) = inst[st[at]]
  <2>1. st[at] \in DOMAIN inst
    BY <1>1, <1>4
  <2> QED BY <1>2, <2>1 DEF FindPrototypePrim
<1> QED BY <1>1, <1>4, <1>5

\* The front and the last of a path and one more name.
LEMMA FrontAndLast ==
    ASSUME NEW S, NEW s \in Seq(S), NEW x \in S
    PROVE  /\ Front(Append(s, x)) = s /\ Last(Append(s, x)) = x /\ Append(s, x) # NoPath
           /\ Len(Append(s, x)) = Len(s) + 1 /\ Len(s) \in Nat
<1>1. Len(Append(s, x)) = Len(s) + 1 /\ Len(s) \in Nat
  BY AppendProperties
<1>2. Front(Append(s, x)) = s /\ Last(Append(s, x)) = x
  BY AppendProperties DEF Front, Last
<1> QED BY <1>1, <1>2, AppendIsSome

\* A path below another is that and one more name.
LEMMA ChildIsAppended ==
    ASSUME NEW p \in Prims, NEW path, p # NoPath, Front(p) = path
    PROVE  path \in Prims /\ \E z \in Names : p = Append(path, z) /\ z = Last(p)
<1>1. PICK s \in Prims, z \in Names : p = Append(s, z)
  BY SequenceEmptyOrAppend DEF Prims, NoPath
<1>2. Front(p) = s /\ Last(p) = z
  BY <1>1, FrontAndLast DEF Prims
<1> QED BY <1>1, <1>2

-----------------------------------------------------------------------------
(* What the preview has come to                                            *)

Previewed(K, q, N, C, d) ==
    /\ scene \in Scenes /\ q \in Seq(Contexts) /\ C \subseteq Names
    /\ PreviewKnows(K, q, N, C, d) /\ ParentsFirst(q)

\* What is known of a node with prims.
NodeKnown(c, q, C, d) ==
    /\ c \in Contexts /\ c.parent \in Prims /\ c.name \in Names
    /\ InContent(c.node) /\ IsBelowParent(c.node, c.parent, q, d)
    /\ PrimsKnown(c, d[c.node], C)
    /\ XformPath(c) \in Prims /\ ObjectName(c) \in Names
    /\ c.parent = PlaceOf(ParentNode(c.node), d) /\ c.parent \in NodePaths

LEMMA NodesKnown ==
    ASSUME NEW K, NEW q, NEW N, NEW C, NEW d, Previewed(K, q, N, C, d),
           NEW k \in 1..Len(q), q[k].node \in DOMAIN d
    PROVE  NodeKnown(q[k], q, C, d)
<1>1. PICK c : c = q[k]
  OBVIOUS
<1>2. c \in Contexts /\ ContextKnown(c, q, N, C, d)
  BY <1>1 DEF Previewed, PreviewKnows
<1>3. c.parent \in Prims /\ c.name \in Names /\ c.node \in Nodes
  BY <1>2 DEF Contexts
<1>4. /\ InContent(c.node) /\ IsBelowParent(c.node, c.parent, q, d)
      /\ PrimsKnown(c, d[c.node], C)
  BY <1>1, <1>2 DEF ContextKnown
<1>5. XformPath(c) \in Prims /\ ObjectName(c) \in Names
  BY <1>2, <1>3, PathTypes DEF XformPath, Previewed
<1>6. c.parent = PlaceOf(ParentNode(c.node), d)
  BY <1>4 DEF IsBelowParent
<1>7. PlaceOf(ParentNode(c.node), d) \in NodePaths
  BY ParentPlace DEF Previewed
<1> QED BY <1>1, <1>2, <1>3, <1>4, <1>5, <1>6, <1>7 DEF NodeKnown

\* A path of the preview is not empty, and is longer than the root's.
LEMMA PathsAreLonger ==
    ASSUME NEW K, NEW q, NEW N, NEW C, NEW d, Previewed(K, q, N, C, d),
           NEW k \in 1..Len(q), q[k].node \in DOMAIN d
    PROVE  /\ d[q[k].node] \in Seq(Prims) /\ d[q[k].node] # <<>>
           /\ d[q[k].node][1] \in Range(d[q[k].node])
           /\ d[q[k].node][1] \in NodePaths /\ d[q[k].node][1] \in Seq(Names)
           /\ Len(d[q[k].node][1]) \in Nat /\ Len(RootPath) \in Nat
           /\ Len(d[q[k].node][1]) > Len(RootPath)
<1>1. PrimsKnown(q[k], d[q[k].node], C)
  BY NodesKnown DEF NodeKnown
<1>2. Len(RootPath) \in Nat
  BY PathTypes DEF Previewed, Prims
<1>3. d[q[k].node][1] \in NodePaths
  BY <1>1 DEF PrimsKnown
<1>4. d[q[k].node][1] \in Seq(Names) /\ Len(d[q[k].node][1]) \in Nat
  BY <1>3 DEF NodePaths, Prims
<1> QED BY <1>1, <1>2, <1>3, <1>4, FirstInRange DEF PrimsKnown

\* A node whose parent has the first prim that the path of a node's name is, comes
\* after the node.
LEMMA ChildOfPlaceIsLater ==
    ASSUME OrdinaryScenes, NEW K, NEW q, NEW N, NEW C, NEW d, Previewed(K, q, N, C, d),
           NEW k \in 1..Len(q), NEW n, n = q[k].node, n \in DOMAIN d, d[n][1] = XformPath(q[k]),
           NEW l \in 1..Len(q), NEW p \in DOMAIN d, p = ParentNode(q[l].node),
           d[p][1] = d[n][1]
    PROVE  k < l
<1>1. ArePlaced(d)
  BY PreviewPlaces DEF Previewed
<1>2. ParentsFirst(q)
  BY DEF Previewed
<1>3. CASE p = n
  BY <1>2, <1>3 DEF ParentsFirst
<1>4. CASE p # n /\ IsOnlyChildOf(n, p)
  <2>1. NodeKnown(q[k], q, C, d)
    BY NodesKnown
  <2>2. q[k].parent = d[p][1]
    BY <1>4, <2>1 DEF NodeKnown, IsOnlyChildOf, PlaceOf
  <2>3. q[k].parent \in Seq(Names) /\ q[k].name \in Names
    BY <2>1 DEF NodeKnown, Prims
  <2>4. Len(Append(q[k].parent, q[k].name)) = Len(q[k].parent) + 1 /\ Len(q[k].parent) \in Nat
    BY <2>3, FrontAndLast
  <2>5. Append(q[k].parent, q[k].name) = q[k].parent
    BY <2>2 DEF XformPath
  <2> QED BY <2>4, <2>5
<1>5. CASE p # n /\ IsOnlyChildOf(p, n)
  <2>1. PICK j \in 1..Len(q) : q[j].node = p
    BY DEF Previewed, PreviewKnows, InTodo
  <2>2. k < j /\ j < l
    BY <1>2, <1>5, <2>1 DEF ParentsFirst, IsOnlyChildOf
  <2> QED BY <2>2
<1>6. p # n => IsOnlyChildOf(p, n) \/ IsOnlyChildOf(n, p)
  BY <1>1 DEF ArePlaced
<1> QED BY <1>3, <1>4, <1>5, <1>6

\* A node with its first prim below the path of another's name comes after this.
LEMMA PlacedBelowIsLater ==
    ASSUME OrdinaryScenes, NEW K, NEW q, NEW N, NEW C, NEW d, Previewed(K, q, N, C, d),
           NEW k \in 1..Len(q), NEW n, n = q[k].node, n \in DOMAIN d, d[n][1] = XformPath(q[k]),
           NEW l \in 1..Len(q), NEW m, m = q[l].node, m \in DOMAIN d,
           NEW z \in Names, d[m][1] = Append(d[n][1], z)
    PROVE  k < l
<1>1. ArePlaced(d) /\ ParentsFirst(q)
  BY PreviewPlaces DEF Previewed
<1>2. /\ d[n][1] \in Seq(Names) /\ Len(d[n][1]) \in Nat /\ Len(RootPath) \in Nat
      /\ Len(d[n][1]) > Len(RootPath) /\ RootPath \in Seq(Names)
  BY PathsAreLonger, PathTypes DEF Previewed, Prims
<1>4. \A name \in Names : Append(d[n][1], z) # Append(RootPath, name)
  BY <1>2, AppendInjective
<1>5. ASSUME NEW x \in DOMAIN d, d[x][1] = Append(d[n][1], z), ~(d[x][1] = d[ParentNode(x)][1] /\ ChildNodes(x) = {})
      PROVE  ParentNode(x) \in DOMAIN d /\ d[ParentNode(x)][1] = d[n][1]
  <2>1. IsPlaced(x, d)
    BY <1>1 DEF ArePlaced
  <2>2. PICK p : p = ParentNode(x)
    OBVIOUS
  <2>3. p \in DOMAIN d /\ \E name \in Names : d[x][1] = Append(d[p][1], name)
    BY <1>4, <1>5, <2>1, <2>2 DEF IsPlaced
  <2>4. PICK name \in Names : d[x][1] = Append(d[p][1], name)
    BY <2>3
  <2>5. d[p][1] \in Seq(Names)
    <3>1. PICK j \in 1..Len(q) : q[j].node = p
      BY <2>3 DEF Previewed, PreviewKnows, InTodo
    <3> QED BY <2>3, <3>1, PathsAreLonger
  <2>6. d[p][1] = d[n][1]
    <3>1. PICK a, b : a = d[p][1] /\ b = d[n][1]
      OBVIOUS
    <3>2. a \in Seq(Names) /\ b \in Seq(Names) /\ name \in Names
      BY <1>2, <2>5, <3>1
    <3>3. Append(a, name) = Append(b, z)
      BY <1>5, <2>4, <3>1
    <3>4. a = b
      BY <3>2, <3>3, AppendInjective
    <3> QED BY <3>1, <3>4
  <2> QED BY <2>2, <2>3, <2>6
<1>6. CASE ~(d[m][1] = d[ParentNode(m)][1] /\ ChildNodes(m) = {})
  BY <1>5, <1>6, ChildOfPlaceIsLater
<1>7. CASE d[m][1] = d[ParentNode(m)][1] /\ ChildNodes(m) = {}
  <2>1. PICK p : p = ParentNode(m)
    OBVIOUS
  <2>2. IsPlaced(m, d) /\ m \in ChildNodes(p)
    BY <1>1, <2>1 DEF ArePlaced, IsPlaced
  <2>3. p \in DOMAIN d
    BY <1>4, <2>1, <2>2 DEF IsPlaced
  <2>4. d[p][1] = Append(d[n][1], z) /\ ChildNodes(p) # {}
    BY <1>7, <2>1, <2>2
  <2>5. PICK pp : pp = ParentNode(p)
    OBVIOUS
  <2>6. pp \in DOMAIN d /\ d[pp][1] = d[n][1]
    BY <1>5, <2>3, <2>4, <2>5
  <2>7. PICK j \in 1..Len(q) : q[j].node = p
    BY <2>3 DEF Previewed, PreviewKnows, InTodo
  <2>8. k < j
    BY <2>5, <2>6, <2>7, ChildOfPlaceIsLater
  <2>9. j < l
    BY <1>1, <2>1, <2>7 DEF ParentsFirst
  <2> QED BY <2>8, <2>9
<1> QED BY <1>6, <1>7

-----------------------------------------------------------------------------
(* The prims that are created                                              *)

\* Nothing that is on the stage is overwritten.
NothingOverwritten == AllowPrimOverwrites => \A s \in Scenes : s.existing = <<>>

\* What is below the path of a node is not a prim of a class.
LEMMA ClassPrimsAreElsewhere ==
    ASSUME scene \in Scenes, NEW path \in NodePaths, Len(path) > Len(RootPath), NEW z \in Names,
           NEW k \in Names
    PROVE  Append(path, z) \notin ClassPrims(k)
<1>1. PICK longer : longer = Append(path, z)
  OBVIOUS
<1>2. Len(RootPath) \in Nat /\ Len(path) \in Nat
  BY PathTypes DEF Prims, NodePaths
<1>3. Len(path) >= Len(RootPath)
  BY <1>2
<1>4. longer \in NodePaths
  BY <1>1, <1>3, LongerNodePath
<1> QED BY <1>1, <1>4, ClassPrimKinds

\* The l-th item to do is of the node m, which has prims.
IsOf(l, m, q, d) == l \in 1..Len(q) /\ m = q[l].node /\ m \in DOMAIN d

\* What is below the path of a node's name is its object, or a prim of a node
\* that comes later.
LEMMA WhatIsBelow ==
    ASSUME OrdinaryScenes, NEW K, NEW q, NEW N, NEW C, NEW d, Previewed(K, q, N, C, d),
           NEW k, NEW n, IsOf(k, n, q, d), d[n][1] = XformPath(q[k]),
           NEW l, NEW m, IsOf(l, m, q, d), NEW y, y \in Range(d[m]), IsChildOn(d[n][1], y)
    PROVE  k < l \/ y = ObjectPath(q[k])
<1>0. /\ k \in 1..Len(q) /\ n = q[k].node /\ n \in DOMAIN d
      /\ l \in 1..Len(q) /\ m = q[l].node /\ m \in DOMAIN d
  BY DEF IsOf
<1>1. NodeKnown(q[k], q, C, d) /\ NodeKnown(q[l], q, C, d)
  BY <1>0, NodesKnown
<1>2. d[n][1] \in NodePaths /\ Len(d[n][1]) > Len(RootPath) /\ d[m] \in Seq(Prims)
  BY <1>0, PathsAreLonger
<1>3. y \in Prims
  BY <1>2 DEF Range
<1>4. PICK z \in Names : y = Append(d[n][1], z)
  BY <1>3, ChildIsAppended DEF IsChildOn
<1>5. \A j \in C : y \notin ClassPrims(j)
  BY <1>2, <1>4, ClassPrimsAreElsewhere DEF Previewed
<1>6. y = d[m][1] \/ y = ObjectPath(q[l])
  BY <1>0, <1>1, <1>5 DEF NodeKnown, PrimsKnown, HasShape
<1>7. CASE y = d[m][1]
  BY <1>0, <1>4, <1>7, PlacedBelowIsLater
<1>8. CASE y = ObjectPath(q[l])
  <2>1. Append(XformPath(q[k]), z) = Append(XformPath(q[l]), ObjectName(q[l]))
    BY <1>4, <1>8 DEF ObjectPath
  <2>2. /\ XformPath(q[k]) \in Seq(Names) /\ XformPath(q[l]) \in Seq(Names)
        /\ ObjectName(q[l]) \in Names
    BY <1>1 DEF NodeKnown, Prims
  <2>3. XformPath(q[k]) = XformPath(q[l])
    BY <2>1, <2>2, AppendInjective
  <2>4. q[k].parent = q[l].parent /\ q[k].name = q[l].name
    BY <1>1, <2>3, XformPathInjective DEF NodeKnown, Previewed
  <2>5. k = l
    BY <1>0, <2>4 DEF Previewed, PreviewKnows
  <2> QED BY <1>8, <2>5
<1> QED BY <1>6, <1>7, <1>8

\* The stage of the preview: what was there, and the root prim.
OnlyExisting(st) == st \in Seq(Prims) /\ Range(st) \subseteq Range(scene.existing) \union {RootPath}

\* Below a path that a node was given nothing is on the stage yet.
LEMMA NothingIsBelow ==
    ASSUME OrdinaryScenes, NothingOverwritten, NEW st, OnlyExisting(st),
           NEW K, NEW q, NEW N, NEW C, NEW d, Previewed(K, q, N, C, d),
           NEW k \in 1..Len(q), NEW n, n = q[k].node, n \in DOMAIN d,
           NEW i \in 1..Len(st), IsChildOn(d[n][1], st[i])
    PROVE  FALSE
<1>1. PICK X, p : X = d[n][1] /\ p = st[i]
  OBVIOUS
<1>2. /\ X \in Seq(Names) /\ Len(X) \in Nat /\ Len(RootPath) \in Nat /\ Len(X) > Len(RootPath)
      /\ X \in Range(d[n])
  BY <1>1, PathsAreLonger
<1>3. p \in Prims /\ p # NoPath /\ Front(p) = X /\ p \in Range(st)
  <2>1. i \in DOMAIN st
    BY DEF OnlyExisting
  <2> QED BY <1>1, <2>1 DEF OnlyExisting, IsChildOn, Range
<1>4. PICK z \in Names : p = Append(X, z)
  BY <1>3, ChildIsAppended
<1>5. Len(p) = Len(X) + 1
  BY <1>2, <1>4, FrontAndLast
<1>6. p # RootPath
  BY <1>2, <1>5
<1>7. p \in Range(scene.existing)
  BY <1>3, <1>6 DEF OnlyExisting
<1>8. IsOrdinary(scene) /\ scene \in Scenes
  BY DEF OrdinaryScenes, Previewed
<1>9. X \in Range(scene.existing)
  <2>1. Len(p) > 1
    BY <1>2, <1>5
  <2> QED BY <1>3, <1>7, <1>8, <2>1 DEF IsOrdinary
<1>10. AllowPrimOverwrites
  <2>1. NodeKnown(q[k], q, C, d)
    BY NodesKnown
  <2> QED BY <1>2, <1>9, <2>1 DEF NodeKnown, PrimsKnown
<1>11. scene.existing = <<>>
  BY <1>8, <1>10 DEF NothingOverwritten
<1> QED BY <1>7, <1>11 DEF Range

\* The prims of the items to do, in their order.
PrimsOf(q, d) == [i \in 1..Len(q) |-> IF q[i].node \in DOMAIN d THEN d[q[i].node] ELSE <<>>]

\* They are made the stage's.
LEMMA PrimsAreCreated ==
    ASSUME stage \in Seq(Prims), NEW K, NEW q, NEW N, NEW C, NEW d, Previewed(K, q, N, C, d),
           NEW F, F = FlattenSeq(PrimsOf(q, d)), NEW st, st = WithPrims(F, {})
    PROVE  /\ Keeps(stage, st)
           /\ \E from, blk : /\ InBlocks(F, PrimsOf(q, d), blk)
                             /\ Extends(st, stage, F, {}, from)
<1>1. PICK s : s = PrimsOf(q, d)
  OBVIOUS
<1>2. q \in Seq(Contexts) /\ Len(q) \in Nat
  BY DEF Previewed
<1>3. \A i \in 1..Len(q) : (IF q[i].node \in DOMAIN d THEN d[q[i].node] ELSE <<>>) \in Seq(Prims)
  BY PathsAreLonger
<1>4. s \in Seq(Seq(Prims))
  BY <1>1, <1>2, <1>3 DEF PrimsOf
<1>5. F \in Seq(Prims)
  BY <1>1, <1>4, FlattenElements
<1>6. \E blk : InBlocks(F, s, blk)
  BY <1>1, <1>4, FlattenBlocks
<1>7. \E from : Extends(st, stage, F, {}, from)
  BY <1>5, WithPrimsExtends
<1>8. Keeps(stage, st)
  BY <1>7 DEF Extends, Keeps
<1> QED BY <1>1, <1>6, <1>7, <1>8

\* All the prims of a node are on the stage that is made.
LEMMA AllAreCreated ==
    ASSUME stage \in Seq(Prims), NEW K, NEW q, NEW N, NEW C, NEW d, Previewed(K, q, N, C, d),
           NEW F, F = FlattenSeq(PrimsOf(q, d)), NEW st, st = WithPrims(F, {}),
           NEW n \in DOMAIN d
    PROVE  Range(d[n]) \subseteq Range(st)
<1>1. PICK k \in 1..Len(q) : q[k].node = n
  BY DEF Previewed, PreviewKnows, InTodo
<1>2. PICK from, blk : /\ InBlocks(F, PrimsOf(q, d), blk)
                       /\ Extends(st, stage, F, {}, from)
  BY PrimsAreCreated
<1>5. PICK s : s = PrimsOf(q, d)
  OBVIOUS
<1>3. s[k] = d[n] /\ k \in 1..Len(s)
  <2>1. Len(q) \in Nat
    BY DEF Previewed
  <2> QED BY <1>1, <1>5, <2>1 DEF PrimsOf
<1>4. ASSUME NEW x \in Range(d[n])
      PROVE  x \in Range(st)
  <2>0. k \in 1..Len(s) /\ x \in Range(s[k])
    BY <1>3
  <2>1. \E a \in 1..Len(F) : blk[a] = k /\ F[a] = x
    BY <1>2, <1>5, <2>0 DEF InBlocks
  <2>2. PICK a : a \in 1..Len(F) /\ F[a] = x
    BY <2>1
  <2>4. \E i \in 1..Len(st) : st[i] = F[a]
    BY <1>2, <2>2 DEF Extends
  <2>3. st \in Seq(Prims)
    BY <1>2 DEF Extends
  <2> QED BY <2>2, <2>3, <2>4 DEF Range
<1> QED BY <1>4

\* The object of a node is the first prim below the path of its name.
LEMMA ObjectComesFirst ==
    ASSUME OrdinaryScenes, NothingOverwritten, OnlyExisting(stage),
           NEW K, NEW q, NEW N, NEW C, NEW d, Previewed(K, q, N, C, d),
           NEW F, F = FlattenSeq(PrimsOf(q, d)), NEW st, st = WithPrims(F, {}),
           NEW k \in 1..Len(q), NEW n, n = q[k].node, n \in DOMAIN d, d[n][1] = XformPath(q[k]),
           NEW O, O = ObjectPath(q[k]), O \in Range(d[n])
    PROVE  FirstBelow(d[n][1], O, st)
<1>1. stage \in Seq(Prims) /\ Len(stage) \in Nat
  BY DEF OnlyExisting
<1>2. PICK from, blk : /\ InBlocks(F, PrimsOf(q, d), blk)
                       /\ Extends(st, stage, F, {}, from)
  BY <1>1, PrimsAreCreated
<1>3. NodeKnown(q[k], q, C, d)
  BY NodesKnown
<1>4. PICK X : X = d[n][1]
  OBVIOUS
<1>5. IsChildOn(X, O)
  <2>1. O = Append(X, ObjectName(q[k])) /\ X \in Seq(Names) /\ ObjectName(q[k]) \in Names
    BY <1>3, <1>4 DEF NodeKnown, ObjectPath, Prims
  <2>2. Front(O) = X /\ O # NoPath
    BY <2>1, FrontAndLast
  <2>3. O \notin scene.classPrims
    <3>1. scene.classPrims \subseteq Range(scene.existing) /\ scene \in Scenes
      BY SceneIsTyped DEF Previewed, SceneTypeOK
    <3>2. CASE AllowPrimOverwrites
      BY <3>1, <3>2 DEF NothingOverwritten, Range
    <3>3. CASE ~AllowPrimOverwrites
      BY <1>3, <3>1, <3>3 DEF NodeKnown, PrimsKnown
    <3> QED BY <3>2, <3>3
  <2> QED BY <2>2, <2>3 DEF IsChildOn
<1>6. PICK s : s = PrimsOf(q, d)
  OBVIOUS
<1>7. /\ Len(s) = Len(q) /\ Len(q) \in Nat
      /\ \A i \in 1..Len(q) : s[i] = IF q[i].node \in DOMAIN d THEN d[q[i].node] ELSE <<>>
  <2>1. Len(q) \in Nat
    BY DEF Previewed
  <2> QED BY <1>6, <2>1 DEF PrimsOf
<1>8. PICK a0 : a0 \in 1..Len(F) /\ blk[a0] = k /\ F[a0] = O
  <2>1. k \in 1..Len(s) /\ O \in Range(s[k])
    BY <1>7
  <2>2. \E a \in 1..Len(F) : blk[a] = k /\ F[a] = O
    BY <1>2, <1>6, <2>1 DEF InBlocks
  <2> QED BY <2>2
<1>9. PICK i : i \in 1..Len(st) /\ st[i] = O
  BY <1>2, <1>8 DEF Extends
<1>10. i \in Len(stage) + 1..Len(st)
  <2>1. i \notin 1..Len(stage)
    <3> SUFFICES ASSUME i \in 1..Len(stage)
                 PROVE  FALSE
      OBVIOUS
    <3>1. stage[i] = O
      BY <1>2, <1>9 DEF Extends
    <3> QED BY <1>4, <1>5, <3>1, NothingIsBelow
  <2>2. Len(st) \in Nat
    BY <1>2 DEF Extends
  <2> QED BY <1>1, <1>9, <2>1, <2>2
<1>11. from[i] \in 1..Len(F) /\ \A a \in 1..Len(F) : F[a] = O => from[i] <= a
  BY <1>2, <1>9, <1>10 DEF Extends
<1>12. ASSUME NEW j \in 1..i - 1, IsChildOn(X, st[j])
       PROVE  FALSE
  <2>1. j \in 1..Len(st) /\ j < i
    BY <1>9
  <2>2. j \notin 1..Len(stage)
    <3> SUFFICES ASSUME j \in 1..Len(stage)
                 PROVE  FALSE
      OBVIOUS
    <3>1. st[j] = stage[j]
      BY <1>2 DEF Extends
    <3> QED BY <1>4, <1>12, <3>1, NothingIsBelow
  <2>3. j \in Len(stage) + 1..Len(st)
    <3>1. Len(st) \in Nat
      BY <1>2 DEF Extends
    <3> QED BY <1>1, <2>1, <2>2, <3>1
  <2>4. PICK b : b = from[j]
    OBVIOUS
  <2>5. b \in 1..Len(F) /\ F[b] = st[j] /\ b < from[i]
    BY <1>2, <1>10, <2>1, <2>3, <2>4 DEF Extends
  <2>6. PICK l : l = blk[b]
    OBVIOUS
  <2>7. l \in 1..Len(q) /\ st[j] \in Range(s[l])
    BY <1>2, <1>6, <1>7, <2>5, <2>6 DEF InBlocks
  <2>8. q[l].node \in DOMAIN d /\ st[j] \in Range(d[q[l].node])
    <3>1. Range(<<>>) = {}
      BY DEF Range
    <3> QED BY <1>7, <2>7, <3>1
  <2>9. k < l \/ st[j] = O
    <3>1. PICK m, y : m = q[l].node /\ y = st[j]
      OBVIOUS
    <3>2. IsOf(k, n, q, d) /\ IsOf(l, m, q, d)
      BY <2>7, <2>8, <3>1 DEF IsOf
    <3>3. y \in Range(d[m]) /\ IsChildOn(d[n][1], y)
      BY <1>4, <1>12, <2>8, <3>1
    <3>4. k < l \/ y = ObjectPath(q[k])
      BY <3>2, <3>3, WhatIsBelow
    <3> QED BY <3>1, <3>4
  <2>10. st[j] # O
    BY <1>11, <2>5
  <2>11. l <= k
    <3>1. b < a0
      BY <1>8, <1>11, <2>5
    <3> QED BY <1>2, <1>8, <2>5, <2>6, <3>1 DEF InBlocks
  <2> QED BY <2>7, <2>9, <2>10, <2>11
<1> QED BY <1>4, <1>5, <1>9, <1>12 DEF FirstBelow

-----------------------------------------------------------------------------
(* The objects that are written and their classes.  E stands for the        *)
(* exported nodes, d for the noted prims, st for the stage, w for what is   *)
(* written, I for the instances, R for the classes that need materials and  *)
(* B for the prims to bind.                                                 *)

\* The prim of the instance that a node is.
InstancePathOf(n, d) == d[n][IF NeedsXform(n, TRUE) THEN 2 ELSE 1]

\* What the prims of a node with a writer are like: they are on the stage; only
\* the instance may be the prim of the parent, then a helper's; the instance is
\* the first child of a prim for the transform.
MadeOf(n, d, st) ==
    LET place == PlaceOf(ParentNode(n), d)
    IN  /\ Range(d[n]) \subseteq Range(st) /\ d[n][1] \in Range(d[n])
        /\ ~CanBeInstanced(n) => place \notin Range(d[n])
        /\ CanBeInstanced(n) =>
            /\ InstancePathOf(n, d) \in Range(d[n])
            /\ InstancePathOf(n, d) = place =>
                    ParentNode(n) # SceneRoot /\ scene.kind[ParentNode(n)] = "pointHelper"
            /\ NeedsXform(n, TRUE) =>
                    /\ d[n][1] # place /\ d[n][1] # d[n][2]
                    /\ FirstBelow(d[n][1], d[n][2], st)

\* Every node to be written has such prims.
StageServes(d, st) ==
    /\ st \in Seq(Prims)
    /\ \A n \in Nodes : InContent(n) /\ HasWriter(n) => n \in DOMAIN d /\ MadeOf(n, d, st)

\* The nodes are placed, with prims of their own, and parents are exported first.
Settled(E, d) ==
    /\ E \subseteq DOMAIN d /\ ParentsIn(E) /\ ArePlaced(d) /\ PrimsOfTheirOwn(d)

Writers(E) == {n \in E : HasWriter(n)}

\* All that is exported is to be bound; objects are written once, at a prim of
\* the node's or, if it is an instance, of the class, which needs materials.
Served(E, d, of, w, I, R, B) ==
    /\ \A n \in Writers(E) :
        /\ d[n][1] \in B
        /\ IF CanBeInstanced(n)
           THEN /\ n \in DOMAIN of
                /\ InstancePathOf(n, d) \in DOMAIN I /\ I[InstancePathOf(n, d)] = of[n]
           ELSE \E path \in DOMAIN w : w[path] = {n} /\ path \in Range(d[n])
    /\ \A p \in DOMAIN I : \E n \in Writers(E) : CanBeInstanced(n) /\ p = InstancePathOf(n, d)
    /\ \A n \in DOMAIN of :
        /\ of[n] \in R
        /\ \E path \in DOMAIN w : \E m \in Instances(n) : w[path] = {m} /\ of[n] = Front(path)
    /\ \A path \in DOMAIN w : \E n \in Writers(E) :
        path \in Range(d[n]) /\ (CanBeInstanced(n) => path \notin NodePaths)

\* A prim that a node shares with one that is exported is the one of its parent.
LEMMA SharedIsOfParent ==
    ASSUME NEW E, NEW d, Settled(E, d), NEW n \in DOMAIN d, n \notin E, NEW m \in E,
           NEW path, path \in Range(d[m]), path \in Range(d[n])
    PROVE  /\ ParentNode(n) = m /\ path = PlaceOf(ParentNode(n), d)
           /\ path = d[m][1] /\ path \in NodePaths
<1>1. m \in DOMAIN d /\ m # n
  BY DEF Settled
<1>2. IsPlaced(m, d) /\ IsPlaced(n, d)
  BY <1>1 DEF Settled, ArePlaced
<1>3. ParentNode(m) # n
  <2> SUFFICES ASSUME ParentNode(m) = n
               PROVE  FALSE
    OBVIOUS
  <2>1. HasExportedParent(m)
    BY <1>2, SceneRootAssumption DEF IsPlaced, HasExportedParent
  <2>2. n \in E
    BY <2>1 DEF Settled, ParentsIn
  <2> QED BY <2>2
<1>4. \/ ParentNode(m) = n /\ path = d[n][1] /\ ChildNodes(n) = {m}
      \/ ParentNode(n) = m /\ path = d[m][1] /\ ChildNodes(m) = {n}
  BY <1>1 DEF Settled, PrimsOfTheirOwn
<1>5. ParentNode(n) = m /\ path = d[m][1]
  BY <1>3, <1>4
<1>6. d[m][1] \in NodePaths
  BY <1>2 DEF IsPlaced
<1> QED BY <1>1, <1>5, <1>6 DEF PlaceOf

\* The prim of a new instance is of no instance yet, and its object of no written one.
LEMMA InstanceIsNew ==
    ASSUME NEW E, NEW d, Settled(E, d), NEW st, StageServes(d, st),
           NEW of, NEW w, NEW I, NEW R, NEW B, Served(E, d, of, w, I, R, B),
           NEW n \in DOMAIN d, n \notin E, HasWriter(n)
    PROVE  /\ MadeOf(n, d, st)
           /\ CanBeInstanced(n) => /\ InstancePathOf(n, d) \notin DOMAIN I
                                   /\ NeedsXform(n, TRUE) => d[n][1] \notin DOMAIN I
           /\ ~CanBeInstanced(n) => \A path \in Range(d[n]) : path \notin DOMAIN w
           /\ \A path \in Range(d[n]) : path \notin NodePaths => path \notin DOMAIN w
<1>1. \A x \in DOMAIN d : HasWriter(x) => MadeOf(x, d, st)
  <2>1. \A x \in DOMAIN d : x \in Nodes /\ InContent(x)
    BY DEF Settled, ArePlaced, IsPlaced
  <2> QED BY <2>1 DEF StageServes
<1>2. \A m \in Writers(E) : m \in E /\ m \in DOMAIN d /\ MadeOf(m, d, st)
  BY <1>1 DEF Settled, Writers
<1>3. ASSUME NEW p \in DOMAIN I, p \in Range(d[n])
      PROVE  p = PlaceOf(ParentNode(n), d) /\ scene.kind[ParentNode(n)] = "geometry"
  <2>1. PICK m \in Writers(E) : CanBeInstanced(m) /\ p = InstancePathOf(m, d)
    BY DEF Served
  <2>2. p \in Range(d[m])
    BY <1>2, <2>1 DEF MadeOf
  <2>3. ParentNode(n) = m /\ p = PlaceOf(ParentNode(n), d)
    BY <1>2, <1>3, <2>2, SharedIsOfParent
  <2> QED BY <2>1, <2>3 DEF CanBeInstanced
<1>4. ASSUME CanBeInstanced(n)
      PROVE  /\ InstancePathOf(n, d) \notin DOMAIN I
             /\ NeedsXform(n, TRUE) => d[n][1] \notin DOMAIN I
  <2>1. InstancePathOf(n, d) \notin DOMAIN I
    <3> SUFFICES ASSUME InstancePathOf(n, d) \in DOMAIN I
                 PROVE  FALSE
      OBVIOUS
    <3>1. InstancePathOf(n, d) \in Range(d[n])
      BY <1>1, <1>4 DEF MadeOf
    <3>2. /\ InstancePathOf(n, d) = PlaceOf(ParentNode(n), d)
          /\ scene.kind[ParentNode(n)] = "geometry"
      BY <1>3, <3>1
    <3> QED BY <1>1, <1>4, <3>2 DEF MadeOf
  <2>2. ASSUME NeedsXform(n, TRUE), d[n][1] \in DOMAIN I
        PROVE  FALSE
    <3>1. d[n][1] \in Range(d[n]) /\ d[n][1] # PlaceOf(ParentNode(n), d)
      BY <1>1, <1>4, <2>2 DEF MadeOf
    <3> QED BY <1>3, <2>2, <3>1
  <2> QED BY <2>1, <2>2
<1>5. ASSUME NEW path \in Range(d[n]), path \in DOMAIN w
      PROVE  path = PlaceOf(ParentNode(n), d) /\ path \in NodePaths
  <2>1. PICK m \in Writers(E) : path \in Range(d[m])
    BY <1>5 DEF Served
  <2> QED BY <1>2, <2>1, SharedIsOfParent
<1>6. ASSUME ~CanBeInstanced(n), NEW path \in Range(d[n])
      PROVE  path \notin DOMAIN w
  <2>1. PlaceOf(ParentNode(n), d) \notin Range(d[n])
    BY <1>1, <1>6 DEF MadeOf
  <2> QED BY <1>5, <2>1
<1> QED BY <1>1, <1>4, <1>5, <1>6

\* The class of an instance is found from the first prim of the node.
LEMMA PrototypeIsFound ==
    ASSUME NEW E, NEW d, Settled(E, d), NEW st, StageServes(d, st),
           NEW of, NEW w, NEW I, NEW R, NEW B, Served(E, d, of, w, I, R, B),
           NEW n \in DOMAIN d, n \notin E, HasWriter(n), CanBeInstanced(n),
           NEW class, NEW I2, I2 = Inserted(I, InstancePathOf(n, d), class),
           NEW more, Keeps(st, more)
    PROVE  FindPrototypePrim(d[n][1], I2, more) = class
<1>1. /\ MadeOf(n, d, st) /\ InstancePathOf(n, d) \notin DOMAIN I
      /\ NeedsXform(n, TRUE) => d[n][1] \notin DOMAIN I
  BY InstanceIsNew
<1>2. PICK p : p = InstancePathOf(n, d)
  OBVIOUS
<1>3. p \in DOMAIN I2 /\ I2[p] = class /\ DOMAIN I2 = DOMAIN I \union {p}
  BY <1>1, <1>2 DEF Inserted
<1>4. CASE ~NeedsXform(n, TRUE)
  <2>1. d[n][1] = p
    BY <1>2, <1>4 DEF InstancePathOf
  <2> QED BY <1>3, <2>1 DEF FindPrototypePrim
<1>5. CASE NeedsXform(n, TRUE)
  <2>1. PICK x : x = d[n][1]
    OBVIOUS
  <2>2. p = d[n][2] /\ x # p /\ FirstBelow(x, p, st)
    BY <1>1, <1>2, <1>5, <2>1 DEF InstancePathOf, MadeOf
  <2>3. FirstBelow(x, p, more) /\ more \in Seq(Prims)
    BY <2>2, FirstStaysFirst DEF Keeps
  <2>4. x \notin DOMAIN I2
    BY <1>1, <1>3, <1>5, <2>1, <2>2
  <2>5. FindPrototypePrim(x, I2, more) = I2[p]
    BY <1>3, <2>3, <2>4, PrototypeOfChild
  <2> QED BY <1>3, <2>1, <2>5
<1> QED BY <1>4, <1>5

\* What is written when a node is written at a path where nothing is.
WrittenTo(w, path, n) == [Inserted(w, path, {}) EXCEPT ![path] = @ \union {n}]

\* More to bind and more classes, and a node without a writer.
LEMMA ServedNode ==
    ASSUME NEW E, NEW d, NEW of, NEW w, NEW I, NEW R, NEW B, Served(E, d, of, w, I, R, B),
           NEW n, ~HasWriter(n), NEW R2, R \subseteq R2, NEW B2, B \subseteq B2
    PROVE  Served(E \union {n}, d, of, w, I, R2, B2)
<1>1. Writers(E \union {n}) = Writers(E)
  BY DEF Writers
<1>2. PICK E2 : E2 = E \union {n}
  OBVIOUS
<1> QED BY <1>1 DEF Served

\* The object of a node that is not instanced.
LEMMA ServedObject ==
    ASSUME NEW E, NEW d, NEW of, NEW w, NEW I, NEW R, NEW B, Served(E, d, of, w, I, R, B),
           NEW n, HasWriter(n), ~CanBeInstanced(n), NEW path, path \in Range(d[n]),
           path \notin DOMAIN w, NEW w2, w2 = WrittenTo(w, path, n),
           NEW R2, R \subseteq R2, NEW B2, B \subseteq B2, d[n][1] \in B2
    PROVE  Served(E \union {n}, d, of, w2, I, R2, B2)
<1>1. Writers(E \union {n}) = Writers(E) \union {n}
  BY DEF Writers
<1>2. /\ DOMAIN w2 = DOMAIN w \union {path} /\ w2[path] = {n}
      /\ \A p \in DOMAIN w : w2[p] = w[p]
  BY DEF WrittenTo, Inserted
<1>3. PICK W, W2 : W = Writers(E) /\ W2 = Writers(E \union {n}) /\ W2 = W \union {n}
  BY <1>1
<1>4. \A x \in W2 : /\ d[x][1] \in B2
                    /\ IF CanBeInstanced(x)
                       THEN /\ x \in DOMAIN of /\ InstancePathOf(x, d) \in DOMAIN I
                            /\ I[InstancePathOf(x, d)] = of[x]
                       ELSE \E p \in DOMAIN w2 : w2[p] = {x} /\ p \in Range(d[x])
  <2>1. ASSUME NEW x \in W
        PROVE  /\ d[x][1] \in B2
               /\ IF CanBeInstanced(x)
                  THEN /\ x \in DOMAIN of /\ InstancePathOf(x, d) \in DOMAIN I
                       /\ I[InstancePathOf(x, d)] = of[x]
                  ELSE \E p \in DOMAIN w2 : w2[p] = {x} /\ p \in Range(d[x])
    BY <1>2, <1>3 DEF Served
  <2>2. d[n][1] \in B2 /\ \E p \in DOMAIN w2 : w2[p] = {n} /\ p \in Range(d[n])
    BY <1>2
  <2> QED BY <1>3, <2>1, <2>2
<1>5. \A p \in DOMAIN I : \E x \in W2 : CanBeInstanced(x) /\ p = InstancePathOf(x, d)
  BY <1>3 DEF Served
<1>6. \A x \in DOMAIN of :
        /\ of[x] \in R2
        /\ \E p \in DOMAIN w2 : \E m \in Instances(x) : w2[p] = {m} /\ of[x] = Front(p)
  <2> SUFFICES ASSUME NEW x \in DOMAIN of
               PROVE  /\ of[x] \in R2
                      /\ \E p \in DOMAIN w2 : \E m \in Instances(x) :
                            w2[p] = {m} /\ of[x] = Front(p)
    OBVIOUS
  <2>1. of[x] \in R
    BY DEF Served
  <2>2. PICK p \in DOMAIN w, m \in Instances(x) : w[p] = {m} /\ of[x] = Front(p)
    BY DEF Served
  <2> QED BY <1>2, <2>1, <2>2
<1>7. \A p \in DOMAIN w2 : \E x \in W2 :
        p \in Range(d[x]) /\ (CanBeInstanced(x) => p \notin NodePaths)
  BY <1>2, <1>3 DEF Served
<1> QED BY <1>3, <1>4, <1>5, <1>6, <1>7 DEF Served

\* One more instance, of the class that its node has.
LEMMA ServedInstance ==
    ASSUME NEW E, NEW d, NEW of, NEW w, NEW I, NEW R, NEW B, Served(E, d, of, w, I, R, B),
           NEW n, HasWriter(n), CanBeInstanced(n), n \in DOMAIN of,
           InstancePathOf(n, d) \notin DOMAIN I,
           NEW I2, I2 = Inserted(I, InstancePathOf(n, d), of[n]),
           NEW R2, R \subseteq R2, NEW B2, B \subseteq B2, d[n][1] \in B2
    PROVE  Served(E \union {n}, d, of, w, I2, R2, B2)
<1>1. Writers(E \union {n}) = Writers(E) \union {n}
  BY DEF Writers
<1>2. PICK path : path = InstancePathOf(n, d)
  OBVIOUS
<1>3. /\ DOMAIN I2 = DOMAIN I \union {path} /\ I2[path] = of[n]
      /\ \A p \in DOMAIN I : I2[p] = I[p]
  BY <1>2 DEF Inserted
<1>4. PICK W, W2 : W = Writers(E) /\ W2 = Writers(E \union {n}) /\ W2 = W \union {n}
  BY <1>1
<1>5. \A x \in W2 : /\ d[x][1] \in B2
                    /\ IF CanBeInstanced(x)
                       THEN /\ x \in DOMAIN of /\ InstancePathOf(x, d) \in DOMAIN I2
                            /\ I2[InstancePathOf(x, d)] = of[x]
                       ELSE \E p \in DOMAIN w : w[p] = {x} /\ p \in Range(d[x])
  <2>1. ASSUME NEW x \in W
        PROVE  /\ d[x][1] \in B2
               /\ IF CanBeInstanced(x)
                  THEN /\ x \in DOMAIN of /\ InstancePathOf(x, d) \in DOMAIN I2
                       /\ I2[InstancePathOf(x, d)] = of[x]
                  ELSE \E p \in DOMAIN w : w[p] = {x} /\ p \in Range(d[x])
    BY <1>3, <1>4 DEF Served
  <2>2. /\ d[n][1] \in B2 /\ n \in DOMAIN of /\ InstancePathOf(n, d) \in DOMAIN I2
        /\ I2[InstancePathOf(n, d)] = of[n]
    BY <1>2, <1>3
  <2> QED BY <1>4, <2>1, <2>2
<1>6. \A p \in DOMAIN I2 : \E x \in W2 : CanBeInstanced(x) /\ p = InstancePathOf(x, d)
  BY <1>2, <1>3, <1>4 DEF Served
<1>7. \A x \in DOMAIN of :
        /\ of[x] \in R2
        /\ \E p \in DOMAIN w : \E m \in Instances(x) : w[p] = {m} /\ of[x] = Front(p)
  BY DEF Served
<1>8. \A p \in DOMAIN w : \E x \in W2 :
        p \in Range(d[x]) /\ (CanBeInstanced(x) => p \notin NodePaths)
  BY <1>4 DEF Served
<1> QED BY <1>4, <1>5, <1>6, <1>7, <1>8 DEF Served

\* What a new class adds: the object of the node is written at a path in the
\* class, and the node is an instance of it.
AddsClass(n, d, path, class, of, of2, w, w2, I, I2) ==
    /\ path \in Range(d[n]) /\ path \notin DOMAIN w /\ path \notin NodePaths
    /\ w2 = WrittenTo(w, path, n) /\ class = Front(path)
    /\ of2 = [x \in DOMAIN of \union Instances(n) |-> IF x \in DOMAIN of THEN of[x] ELSE class]
    /\ InstancePathOf(n, d) \notin DOMAIN I
    /\ I2 = Inserted(I, InstancePathOf(n, d), class)

\* A new class serves the node and all who share the object.
LEMMA ServedClass ==
    ASSUME NEW E, NEW d, NEW of, NEW w, NEW I, NEW R, NEW B, Served(E, d, of, w, I, R, B),
           NEW n \in Nodes, InContent(n), HasWriter(n), CanBeInstanced(n), n \notin DOMAIN of,
           NEW path, NEW class, NEW of2, NEW w2, NEW I2,
           AddsClass(n, d, path, class, of, of2, w, w2, I, I2),
           NEW R2, R \subseteq R2, class \in R2, NEW B2, B \subseteq B2, d[n][1] \in B2
    PROVE  Served(E \union {n}, d, of2, w2, I2, R2, B2)
<1> USE DEF AddsClass
<1>1. Writers(E \union {n}) = Writers(E) \union {n}
  BY DEF Writers
<1>2. /\ DOMAIN w2 = DOMAIN w \union {path} /\ w2[path] = {n}
      /\ \A p \in DOMAIN w : w2[p] = w[p]
  BY DEF WrittenTo, Inserted
<1>3. PICK inst : inst = InstancePathOf(n, d)
  OBVIOUS
<1>4. /\ DOMAIN I2 = DOMAIN I \union {inst} /\ I2[inst] = class
      /\ \A p \in DOMAIN I : I2[p] = I[p]
  BY <1>3 DEF Inserted
<1>5. /\ n \in DOMAIN of2 /\ of2[n] = class
      /\ \A x \in DOMAIN of : x \in DOMAIN of2 /\ of2[x] = of[x]
      /\ \A x \in DOMAIN of2 : x \in DOMAIN of \/ (x \in Instances(n) /\ of2[x] = class)
  BY DEF Instances
<1>6. PICK W, W2 : W = Writers(E) /\ W2 = Writers(E \union {n}) /\ W2 = W \union {n}
  BY <1>1
<1>7. \A x \in W2 : /\ d[x][1] \in B2
                    /\ IF CanBeInstanced(x)
                       THEN /\ x \in DOMAIN of2 /\ InstancePathOf(x, d) \in DOMAIN I2
                            /\ I2[InstancePathOf(x, d)] = of2[x]
                       ELSE \E p \in DOMAIN w2 : w2[p] = {x} /\ p \in Range(d[x])
  <2>1. ASSUME NEW x \in W
        PROVE  /\ d[x][1] \in B2
               /\ IF CanBeInstanced(x)
                  THEN /\ x \in DOMAIN of2 /\ InstancePathOf(x, d) \in DOMAIN I2
                       /\ I2[InstancePathOf(x, d)] = of2[x]
                  ELSE \E p \in DOMAIN w2 : w2[p] = {x} /\ p \in Range(d[x])
    <3>1. /\ d[x][1] \in B
          /\ IF CanBeInstanced(x)
             THEN /\ x \in DOMAIN of /\ InstancePathOf(x, d) \in DOMAIN I
                  /\ I[InstancePathOf(x, d)] = of[x]
             ELSE \E p \in DOMAIN w : w[p] = {x} /\ p \in Range(d[x])
      BY <1>6 DEF Served
    <3> QED BY <1>2, <1>4, <1>5, <3>1
  <2>2. /\ d[n][1] \in B2 /\ n \in DOMAIN of2 /\ InstancePathOf(n, d) \in DOMAIN I2
        /\ I2[InstancePathOf(n, d)] = of2[n]
    BY <1>3, <1>4, <1>5
  <2> QED BY <1>6, <2>1, <2>2
<1>8. \A p \in DOMAIN I2 : \E x \in W2 : CanBeInstanced(x) /\ p = InstancePathOf(x, d)
  BY <1>3, <1>4, <1>6 DEF Served
<1>9. ASSUME NEW x \in DOMAIN of2
      PROVE  /\ of2[x] \in R2
             /\ \E p \in DOMAIN w2 : \E m \in Instances(x) : w2[p] = {m} /\ of2[x] = Front(p)
  <2>1. CASE x \in DOMAIN of
    <3>1. of[x] \in R /\ of2[x] = of[x]
      BY <1>5, <2>1 DEF Served
    <3>2. PICK p \in DOMAIN w, m \in Instances(x) : w[p] = {m} /\ of[x] = Front(p)
      BY <2>1 DEF Served
    <3> QED BY <1>2, <3>1, <3>2
  <2>2. CASE x \in Instances(n) /\ of2[x] = class
    <3>1. n \in Instances(x)
      BY <2>2 DEF Instances
    <3> QED BY <1>2, <2>2, <3>1
  <2> QED BY <1>5, <1>9, <2>1, <2>2
<1>10. \A p \in DOMAIN w2 : \E x \in W2 :
         p \in Range(d[x]) /\ (CanBeInstanced(x) => p \notin NodePaths)
  <2> SUFFICES ASSUME NEW p \in DOMAIN w2
               PROVE  \E x \in W2 : /\ p \in Range(d[x])
                                    /\ CanBeInstanced(x) => p \notin NodePaths
    OBVIOUS
  <2>1. CASE p \in DOMAIN w
    BY <1>6, <2>1 DEF Served
  <2>2. CASE p = path
    BY <1>6, <2>2
  <2> QED BY <1>2, <2>1, <2>2
<1> QED BY <1>6, <1>7, <1>8, <1>9, <1>10 DEF Served

-----------------------------------------------------------------------------
(* The stage that the export starts with                                   *)

\* The prims that were noted for nodes with writers are what ProcessNode makes.
Noted(q, d) ==
    \A i \in 1..Len(q) : HasWriter(q[i].node) /\ q[i].node \in DOMAIN d =>
        PrimsMade(q[i], d[q[i].node])

\* The stage has the prims of a node, and the object first below its path.
LEMMA NodeServesAtStart ==
    ASSUME OrdinaryScenes, NothingOverwritten, OnlyExisting(stage),
           NEW K, NEW q, NEW N, NEW C, NEW d, Previewed(K, q, N, C, d),
           NEW F, F = FlattenSeq(PrimsOf(q, d)), NEW st, st = WithPrims(F, {}),
           NEW k \in 1..Len(q), NEW n, n = q[k].node, n \in DOMAIN d,
           PrimsMade(q[k], d[n])
    PROVE  MadeOf(n, d, st)
<1>1. PICK c, X, O : c = q[k] /\ X = XformPath(c) /\ O = ObjectPath(c)
  OBVIOUS
<1>2. NodeKnown(c, q, C, d)
  BY <1>1, NodesKnown
<1>3. /\ c.node = n /\ c.parent = PlaceOf(ParentNode(n), d)
      /\ c.parent \in Prims /\ c.name \in Names /\ X \in Prims /\ ObjectName(c) \in Names
      /\ X = Append(c.parent, c.name) /\ O = Append(X, ObjectName(c))
  BY <1>1, <1>2, NameParts DEF NodeKnown, XformPath, ObjectPath
<1>4. X # c.parent /\ O # c.parent /\ O # X
  <2>1. Len(X) = Len(c.parent) + 1 /\ Len(c.parent) \in Nat
    BY <1>3, FrontAndLast DEF Prims
  <2>2. Len(O) = Len(X) + 1
    BY <1>3, FrontAndLast DEF Prims
  <2> QED BY <2>1, <2>2
<1>5. /\ d[n] \in Seq(Prims) /\ d[n] # <<>> /\ d[n][1] \in Range(d[n])
  BY PathsAreLonger
<1>6. Range(d[n]) \subseteq Range(st)
  BY AllAreCreated DEF OnlyExisting
<1>7. CASE ~CanBeInstanced(n)
  <2>1. c.parent \notin Range(d[n])
    BY <1>1, <1>3, <1>4, <1>7 DEF PrimsMade
  <2> QED BY <1>3, <1>5, <1>6, <1>7, <2>1 DEF MadeOf
<1>8. CASE CanBeInstanced(n)
  <2>1. PICK own : InstancePrims(c, own) /\ StartsWith(d[n], own)
    BY <1>1, <1>3, <1>8 DEF PrimsMade
  <2>2. CASE NeedsXform(n, TRUE)
    <3>1. own = <<X, O>> /\ Len(own) = 2
      BY <1>1, <1>3, <2>1, <2>2 DEF InstancePrims
    <3>2. 1 \in 1..Len(own) /\ 2 \in 1..Len(own) /\ own[1] = X /\ own[2] = O
      BY <3>1
    <3>3. d[n][1] = X /\ d[n][2] = O /\ Len(d[n]) >= 2
      BY <2>1, <3>1, <3>2 DEF StartsWith
    <3>4. O \in Range(d[n])
      BY <1>5, <3>3 DEF Range
    <3>5. FirstBelow(d[n][1], O, st)
      BY <1>1, <3>3, <3>4, ObjectComesFirst
    <3>6. InstancePathOf(n, d) = O
      BY <2>2, <3>3 DEF InstancePathOf
    <3> QED BY <1>3, <1>4, <1>5, <1>6, <1>8, <3>3, <3>4, <3>5, <3>6 DEF MadeOf
  <2>3. CASE ~NeedsXform(n, TRUE)
    <3>1. PICK y : /\ own = <<y>>
                   /\ \/ y = X
                      \/ /\ y = c.parent /\ ParentNode(n) # SceneRoot
                         /\ scene.kind[ParentNode(n)] = "pointHelper"
      BY <1>1, <1>3, <2>1, <2>3 DEF InstancePrims
    <3>2. Len(own) = 1 /\ 1 \in 1..Len(own) /\ own[1] = y
      BY <3>1
    <3>3. d[n][1] = y
      BY <2>1, <3>2 DEF StartsWith
    <3>4. InstancePathOf(n, d) = d[n][1]
      BY <2>3 DEF InstancePathOf
    <3>5. d[n][1] = c.parent => ParentNode(n) # SceneRoot /\ scene.kind[ParentNode(n)] = "pointHelper"
      BY <1>4, <3>1, <3>3
    <3> QED BY <1>3, <1>5, <1>6, <1>8, <2>3, <3>4, <3>5 DEF MadeOf
  <2> QED BY <2>2, <2>3
<1> QED BY <1>7, <1>8

\* All the nodes that are to be written have their prims.
LEMMA ServesAtStart ==
    ASSUME OrdinaryScenes, NothingOverwritten, OnlyExisting(stage),
           NEW K, NEW q, NEW N, NEW C, NEW d, Previewed(K, q, N, C, d),
           Reached(<<>>, q), Noted(q, d),
           NEW F, F = FlattenSeq(PrimsOf(q, d)), NEW st, st = WithPrims(F, {})
    PROVE  StageServes(d, st)
<1>1. st \in Seq(Prims)
  BY PrimsAreCreated DEF Keeps, OnlyExisting
<1>2. ASSUME NEW n \in Nodes, InContent(n), HasWriter(n)
      PROVE  n \in DOMAIN d /\ MadeOf(n, d, st)
  <2>1. PICK k \in 1..Len(q) : q[k].node = n
    <3>1. \A i \in 1..Len(<<>>) : FALSE
      OBVIOUS
    <3> QED BY <1>2, <3>1 DEF Reached, InTodo
  <2>2. PICK c : c = q[k]
    OBVIOUS
  <2>3. ContextKnown(c, q, N, C, d)
    BY <2>2 DEF Previewed, PreviewKnows
  <2>4. n \in DOMAIN d
    BY <1>2, <2>1, <2>2, <2>3 DEF ContextKnown, WillHavePrims
  <2>5. PrimsMade(q[k], d[n])
    BY <1>2, <2>1, <2>4 DEF Noted
  <2> QED BY <2>1, <2>4, <2>5, NodeServesAtStart
<1> QED BY <1>1, <1>2 DEF StageServes

-----------------------------------------------------------------------------
(* The invariant of objects, classes and instances                         *)

\* Only nodes of the content are to do.
OfContent(q) == \A i \in 1..Len(q) : InContent(q[i].node)

\* The preview comes to every node, notes what ProcessNode makes and leaves the
\* stage alone; the export has the stage it needs, and what it has done serves.
Serves ==
    /\ ReachesAll
    /\ \E b, q : b = classes /\ q = todo /\ ClassesRight(b) /\ OfContent(q)
    /\ pass = "preview" =>
        /\ \E q, d, st : /\ q = todo /\ d = defs /\ st = stage
                         /\ Noted(q, d) /\ OnlyExisting(st)
        /\ DOMAIN written = {} /\ DOMAIN instanceOf = {}
    /\ pass # "preview" => \E E, d, of, st, w, I, R, B :
        /\ E = DOMAIN exported /\ d = defs /\ of = classes.of /\ st = stage
        /\ w = written /\ I = instanceOf /\ R = materialReq /\ B = toBind
        /\ StageServes(d, st) /\ Served(E, d, of, w, I, R, B)

\* All of that depends on the scene, and on nothing else that changes.
LEMMA ServingIsFixed ==
    ASSUME scene' = scene
    PROVE  /\ \A b : ClassesRight(b)' = ClassesRight(b)
           /\ \A q : OfContent(q)' = OfContent(q)
           /\ \A q, d : Noted(q, d)' = Noted(q, d)
           /\ \A st : OnlyExisting(st)' = OnlyExisting(st)
           /\ \A d, st : StageServes(d, st)' = StageServes(d, st)
           /\ \A E, d, of, w, I, R, B :
                Served(E, d, of, w, I, R, B)' = Served(E, d, of, w, I, R, B)
<1>1. \A n : /\ ChildNodes(n)' = ChildNodes(n)
             /\ InContent(n)' = InContent(n)
             /\ HasWriter(n)' = HasWriter(n)
             /\ Instances(n)' = Instances(n)
  BY DEF ChildNodes, InContent, HasWriter, Instances
<1>2. \A n : /\ ParentNode(n)' = ParentNode(n)
             /\ CanBeInstanced(n)' = CanBeInstanced(n)
             /\ \A i : NeedsXform(n, i)' = NeedsXform(n, i)
  BY <1>1 DEF ParentNode, CanBeInstanced, NeedsXform
<1>3. RootPath' = RootPath /\ \A p, d : PlaceOf(p, d)' = PlaceOf(p, d)
  BY DEF RootPath, PlaceOf
<1>4. \A c, own : InstancePrims(c, own)' = InstancePrims(c, own)
  BY <1>2, PathsAreFixed DEF InstancePrims
<1>5. \A c, prims : PrimsMade(c, prims)' = PrimsMade(c, prims)
  BY <1>2, <1>4, PathsAreFixed DEF PrimsMade
<1>6. \A n, d : InstancePathOf(n, d)' = InstancePathOf(n, d)
  BY <1>2 DEF InstancePathOf
<1>7. \A n, d, st : MadeOf(n, d, st)' = MadeOf(n, d, st)
  <2> SUFFICES ASSUME NEW n, NEW d, NEW st
               PROVE  MadeOf(n, d, st)' = MadeOf(n, d, st)
    OBVIOUS
  <2>1. /\ ParentNode(n)' = ParentNode(n) /\ CanBeInstanced(n)' = CanBeInstanced(n)
        /\ NeedsXform(n, TRUE)' = NeedsXform(n, TRUE)
        /\ InstancePathOf(n, d)' = InstancePathOf(n, d)
        /\ PlaceOf(ParentNode(n), d)' = PlaceOf(ParentNode(n), d)
    BY <1>2, <1>3, <1>6
  <2>2. FirstBelow(d[n][1], d[n][2], st)' = FirstBelow(d[n][1], d[n][2], st)
    BY DEF FirstBelow, IsChildOn
  <2> QED BY <2>1, <2>2 DEF MadeOf
<1>8. \A E : Writers(E)' = Writers(E)
  BY <1>1 DEF Writers
<1>9. \A b : ClassesRight(b)' = ClassesRight(b)
  BY <1>1, <1>2 DEF ClassesRight
<1>10. \A q : OfContent(q)' = OfContent(q)
  BY <1>1 DEF OfContent
<1>11. \A q, d : Noted(q, d)' = Noted(q, d)
  BY <1>1, <1>5 DEF Noted
<1>12. \A st : OnlyExisting(st)' = OnlyExisting(st)
  BY <1>3 DEF OnlyExisting
<1>13. \A d, st : StageServes(d, st)' = StageServes(d, st)
  BY <1>1, <1>7 DEF StageServes
<1>14. \A E, d, of, w, I, R, B :
            Served(E, d, of, w, I, R, B)' = Served(E, d, of, w, I, R, B)
  <2> SUFFICES ASSUME NEW E, NEW d, NEW of, NEW w, NEW I, NEW R, NEW B
               PROVE  Served(E, d, of, w, I, R, B)' = Served(E, d, of, w, I, R, B)
    OBVIOUS
  <2> DEFINE Node(n) ==
                /\ d[n][1] \in B
                /\ IF CanBeInstanced(n)
                   THEN /\ n \in DOMAIN of
                        /\ InstancePathOf(n, d) \in DOMAIN I /\ I[InstancePathOf(n, d)] = of[n]
                   ELSE \E path \in DOMAIN w : w[path] = {n} /\ path \in Range(d[n])
             Inst(p) == \E n \in Writers(E) : CanBeInstanced(n) /\ p = InstancePathOf(n, d)
             Class(n) == \E path \in DOMAIN w : \E m \in Instances(n) :
                            w[path] = {m} /\ of[n] = Front(path)
             Object(path) == \E n \in Writers(E) :
                path \in Range(d[n]) /\ (CanBeInstanced(n) => path \notin NodePaths)
  <2>1. \A n : Node(n)' = Node(n)
    BY <1>2, <1>6
  <2>2. \A p : Inst(p)' = Inst(p)
    BY <1>2, <1>6, <1>8
  <2>3. \A n : Class(n)' = Class(n)
    BY <1>1
  <2>4. \A p : Object(p)' = Object(p)
    BY <1>2, <1>8, PathsAreFixed
  <2>5. Served(E, d, of, w, I, R, B) =
            (/\ \A n \in Writers(E) : Node(n)
             /\ \A p \in DOMAIN I : Inst(p)
             /\ \A n \in DOMAIN of : of[n] \in R /\ Class(n)
             /\ \A p \in DOMAIN w : Object(p))
    BY DEF Served
  <2>6. Served(E, d, of, w, I, R, B)' =
            (/\ \A n \in Writers(E)' : Node(n)'
             /\ \A p \in DOMAIN I : Inst(p)'
             /\ \A n \in DOMAIN of : of[n] \in R /\ Class(n)'
             /\ \A p \in DOMAIN w : Object(p)')
    BY DEF Served
  <2> HIDE DEF Node, Inst, Class, Object
  <2> QED BY <1>8, <2>1, <2>2, <2>3, <2>4, <2>5, <2>6
<1> QED BY <1>9, <1>10, <1>11, <1>12, <1>13, <1>14

\* At first nothing is noted, and only the root prim is new.
LEMMA ServesInit ==
    ASSUME Init
    PROVE  Serves
<1>1. /\ scene \in Scenes /\ RootPath \in Prims /\ todo = <<>> /\ classes = NoClasses
      /\ pass = "preview" /\ written = EmptyMap /\ instanceOf = EmptyMap
  BY PathTypes DEF Init
<1>2. ReachesAll
  BY ReachesInit
<1>3. PICK b, q, d, st : b = classes /\ q = todo /\ d = defs /\ st = stage
  OBVIOUS
<1>4. Len(q) = 0 /\ DOMAIN b.of = {}
  BY <1>1, <1>3 DEF NoClasses, EmptyMap
<1>5. ClassesRight(b) /\ OfContent(q) /\ Noted(q, d)
  BY <1>4 DEF ClassesRight, OfContent, Noted
<1>6. OnlyExisting(st)
  <2>1. PICK e, f : /\ e = scene.existing
                    /\ f = IF RootPath = NoPath \/ RootPath \in Range(scene.existing)
                           THEN <<>> ELSE <<RootPath>>
    OBVIOUS
  <2>2. e \in Seq(Prims) /\ f \in Seq(Prims) /\ st = e \o f
    <3>1. e \in Seq(Prims)
      BY <1>1, <2>1, SceneIsTyped DEF SceneTypeOK, Prims
    <3>2. <<RootPath>> \in Seq(Prims) /\ <<>> \in Seq(Prims)
      BY <1>1, ShortSeqs
    <3> QED BY <1>3, <2>1, <3>1, <3>2 DEF Init
  <2>3. /\ Len(e \o f) = Len(e) + Len(f) /\ Len(e) \in Nat /\ Len(f) \in Nat
        /\ \A i \in 1..Len(e) + Len(f) : (e \o f)[i] = IF i <= Len(e) THEN e[i] ELSE f[i - Len(e)]
        /\ st \in Seq(Prims)
    BY <2>2, ConcatProperties
  <2>4. ASSUME NEW i \in 1..Len(f)
        PROVE  f[i] = RootPath
    BY <2>1, <2>4
  <2>5. ASSUME NEW i \in 1..Len(st)
        PROVE  st[i] \in Range(e) \union {RootPath}
    <3>1. CASE i <= Len(e)
      <4>1. i \in 1..Len(e) /\ st[i] = e[i]
        BY <2>2, <2>3, <3>1
      <4>2. DOMAIN e = 1..Len(e)
        BY <2>2
      <4> QED BY <4>1, <4>2 DEF Range
    <3>2. CASE ~ (i <= Len(e))
      <4>1. i - Len(e) \in 1..Len(f) /\ st[i] = f[i - Len(e)]
        BY <2>2, <2>3, <3>2
      <4> QED BY <4>1, <2>4
    <3> QED BY <3>1, <3>2
  <2>6. DOMAIN st = 1..Len(st)
    BY <2>3
  <2> QED BY <2>1, <2>3, <2>5, <2>6 DEF OnlyExisting, Range
<1>7. DOMAIN written = {} /\ DOMAIN instanceOf = {}
  BY <1>1 DEF EmptyMap
<1> QED BY <1>1, <1>2, <1>3, <1>5, <1>6, <1>7 DEF Serves

\* What is noted is kept when one more item is to do.
LEMMA NotedAppend ==
    ASSUME NEW q \in Seq(Contexts), NEW d, Noted(q, d), OfContent(q),
           NEW c \in Contexts, InContent(c.node), NEW prims,
           HasWriter(c.node) => PrimsMade(c, prims),
           c.node \notin DOMAIN d, ~InTodo(c.node, q), NEW q2, q2 = Append(q, c),
           NEW d2, d2 = IF prims # <<>> THEN Inserted(d, c.node, prims) ELSE d
    PROVE  Noted(q2, d2) /\ OfContent(q2)
<1>1. /\ Len(q2) = Len(q) + 1 /\ q2[Len(q) + 1] = c /\ Len(q) \in Nat
      /\ \A i \in 1..Len(q) : q2[i] = q[i]
  BY AppendProperties
<1>2. \A i \in 1..Len(q2) : i \in 1..Len(q) \/ i = Len(q) + 1
  BY <1>1
<1>3. /\ \A n : n # c.node => (n \in DOMAIN d2 <=> n \in DOMAIN d)
      /\ \A n \in DOMAIN d : d2[n] = d[n]
      /\ c.node \in DOMAIN d2 => d2[c.node] = prims
  BY DEF Inserted
<1>4. ASSUME NEW i \in 1..Len(q2), HasWriter(q2[i].node), q2[i].node \in DOMAIN d2
      PROVE  PrimsMade(q2[i], d2[q2[i].node])
  <2>1. PICK x : x = q2[i]
    OBVIOUS
  <2>2. CASE x.node = c.node /\ x = c
    BY <1>3, <1>4, <2>1, <2>2
  <2>3. CASE i \in 1..Len(q) /\ x.node # c.node
    <3>1. x = q[i] /\ x.node \in DOMAIN d /\ d2[x.node] = d[x.node]
      BY <1>1, <1>3, <1>4, <2>1, <2>3
    <3> QED BY <1>4, <2>1, <2>3, <3>1 DEF Noted
  <2>4. CASE i \in 1..Len(q) /\ x.node = c.node
    <3>1. x = q[i]
      BY <1>1, <2>1, <2>4
    <3> QED BY <2>4, <3>1 DEF InTodo
  <2> QED BY <1>1, <1>2, <2>1, <2>2, <2>3, <2>4
<1>5. OfContent(q2)
  BY <1>1, <1>2 DEF OfContent
<1> QED BY <1>4, <1>5 DEF Noted

\* The node on top of the stack is noted with what ProcessNode makes for it.
LEMMA ServesPreviewNode ==
    ASSUME ReplayInv, Serves, PreviewNode
    PROVE  Serves'
<1>1. /\ pass = "preview" /\ pass' = pass /\ scene' = scene /\ stage' = stage
      /\ written' = written /\ instanceOf' = instanceOf /\ stack # <<>>
      /\ IF InContent(Item.node)
         THEN todo' = Append(todo, TopContext) /\ classes' = TopMade.classes
         ELSE todo' = todo /\ classes' = classes
      /\ defs' = IF TopIsPlaced THEN Inserted(defs, Item.node, TopMade.prims) ELSE defs
  BY PreviewNodeSteps DEF PreviewNode, results
<1>2. /\ scene \in Scenes /\ todo \in Seq(Contexts) /\ ClassesOK(classes) /\ TopContext \in Contexts
  BY <1>1, TopTypes DEF ReplayInv, Types
<1>3. Item.node \notin DOMAIN defs /\ ~InTodo(Item.node, todo)
  BY WalkPreviewNode DEF ReplayInv, InTodo
<1>4. PICK b, q, d, st : /\ b = classes /\ q = todo /\ d = defs /\ st = stage
                         /\ ClassesRight(b) /\ OfContent(q) /\ Noted(q, d) /\ OnlyExisting(st)
  BY <1>1 DEF Serves
<1>5. PICK c, made : c = TopContext /\ made = TopMade
  OBVIOUS
<1>6. /\ made = ProcessNode(b, c) /\ c.node = Item.node /\ c \in Contexts
      /\ ClassesOK(b) /\ q \in Seq(Contexts) /\ c.node \notin DOMAIN d /\ ~InTodo(c.node, q)
  <2>1. TopContext.node = Item.node
    BY DEF TopContext
  <2> QED BY <1>2, <1>3, <1>4, <1>5, <2>1 DEF TopMade
<1>7. PICK b2, q2, d2 : b2 = classes' /\ q2 = todo' /\ d2 = defs'
  OBVIOUS
<1>8. ClassesRight(b2) /\ OfContent(q2) /\ Noted(q2, d2)
  <2>1. CASE InContent(c.node)
    <3>1. Makes(b, c, made)
      BY <1>2, <1>4, <1>6, ProcessNodeMakes
    <3>2. ClassesRight(made.classes) /\ (HasWriter(c.node) => PrimsMade(c, made.prims))
      BY <1>2, <1>4, <1>6, <2>1, <3>1, MakesRight
    <3>3. PICK prims : prims = made.prims
      OBVIOUS
    <3>4. /\ b2 = made.classes /\ q2 = Append(q, c)
          /\ d2 = IF prims # <<>> THEN Inserted(d, c.node, prims) ELSE d
      BY <1>1, <1>4, <1>5, <1>6, <1>7, <2>1, <3>3 DEF TopIsPlaced
    <3>5. Noted(q2, d2) /\ OfContent(q2)
      BY <1>4, <1>6, <2>1, <3>2, <3>3, <3>4, NotedAppend
    <3> QED BY <3>2, <3>4, <3>5
  <2>2. CASE ~InContent(c.node)
    <3>1. b2 = b /\ q2 = q /\ d2 = d
      BY <1>1, <1>4, <1>6, <1>7, <2>2 DEF TopIsPlaced
    <3> QED BY <1>4, <3>1
  <2> QED BY <2>1, <2>2
<1>9. ClassesRight(b2)' /\ OfContent(q2)' /\ Noted(q2, d2)' /\ OnlyExisting(st)'
  BY <1>1, <1>4, <1>8, ServingIsFixed
<1>10. ReachesAll'
  BY ReachesPreviewNode DEF Serves, ReplayInv
<1>11. DOMAIN written' = {} /\ DOMAIN instanceOf' = {}
  BY <1>1 DEF Serves
<1> QED BY <1>1, <1>4, <1>7, <1>9, <1>10, <1>11 DEF Serves

\* The prims that are created serve, and no class or object is there yet.
LEMMA ServesCreatePrims ==
    ASSUME OrdinaryScenes, NothingOverwritten, ReplayInv, Knows, Composed, Serves, CreatePrims
    PROVE  Serves'
<1>1. /\ pass = "preview" /\ pass' = "export" /\ scene' = scene /\ stack = <<>>
      /\ todo' = todo /\ defs' = defs /\ exported' = exported /\ written' = written
      /\ instanceOf' = instanceOf /\ classes' = NoClasses
      /\ stage' = WithPrims(FlattenSeq(PrimsOf(todo, defs)), {})
  BY DEF CreatePrims, PrepareExportPass, PrimsOf
<1>2. scene \in Scenes /\ todo \in Seq(Contexts) /\ classes.names \subseteq Names
  BY DEF ReplayInv, Types, ClassesOK
<1>3. PICK K, q, N, C, d :
        /\ K = stack /\ q = todo /\ N = names /\ C = classes.names /\ d = defs
        /\ PreviewKnows(K, q, N, C, d)
  BY <1>1 DEF Knows
<1>4. Previewed(K, q, N, C, d)
  BY <1>2, <1>3 DEF Previewed, Composed
<1>5. Noted(q, d) /\ OfContent(q) /\ OnlyExisting(stage)
  BY <1>1, <1>3 DEF Serves
<1>6. Reached(<<>>, q)
  BY <1>1, <1>3 DEF Serves, ReachesAll
<1>7. PICK F, st : F = FlattenSeq(PrimsOf(q, d)) /\ st = WithPrims(F, {})
  OBVIOUS
<1>8. StageServes(d, st)
  BY <1>4, <1>5, <1>6, <1>7, ServesAtStart
<1>9. stage' = st
  BY <1>1, <1>3, <1>7
<1>10. PICK b2, E, of, w, I, R, B :
        /\ b2 = classes' /\ E = DOMAIN exported' /\ of = classes'.of /\ w = written'
        /\ I = instanceOf' /\ R = materialReq' /\ B = toBind'
  OBVIOUS
<1>11. DOMAIN b2.of = {} /\ DOMAIN of = {}
  BY <1>1, <1>10 DEF NoClasses, EmptyMap
<1>12. E = {} /\ DOMAIN w = {} /\ DOMAIN I = {}
  BY <1>1, <1>10 DEF Composed, Serves
<1>13. ClassesRight(b2)
  BY <1>11 DEF ClassesRight
<1>14. Served(E, d, of, w, I, R, B)
  BY <1>11, <1>12 DEF Served, Writers
<1>15. /\ ClassesRight(b2)' /\ OfContent(q)' /\ StageServes(d, st)'
       /\ Served(E, d, of, w, I, R, B)'
  BY <1>1, <1>5, <1>8, <1>13, <1>14, ServingIsFixed
<1>16. ReachesAll'
  BY <1>1 DEF ReachesAll
<1>17. d = defs' /\ q = todo' /\ pass' # "preview"
  BY <1>1, <1>3
<1> QED BY <1>9, <1>10, <1>15, <1>16, <1>17 DEF Serves

-----------------------------------------------------------------------------
(* The export of a node                                                    *)

\* The prims that an instance and a class are made of start with the instance's.
LEMMA OwnPrimsComeFirst ==
    ASSUME scene \in Scenes, NEW c \in Contexts, NEW own, InstancePrims(c, own), NEW prims,
           NEW x \in Prims, NEW y \in Prims, prims = own \/ prims = own \o <<x, y>>
    PROVE  /\ StartsWith(prims, own)
           /\ prims = own \o <<x, y>> => y \in Range(prims)
<1>1. XformPath(c) \in Prims /\ ObjectPath(c) \in Prims /\ c.parent \in Prims
  BY PathTypes DEF Contexts, XformPath, ObjectPath
<1>2. own \in Seq(Prims)
  BY <1>1, ShortSeqs DEF InstancePrims
<1>3. <<x, y>> \in Seq(Prims) /\ Len(<<x, y>>) = 2 /\ <<x, y>>[2] = y
  BY ShortSeqs
<1>4. PICK t, both, L : t = <<x, y>> /\ both = own \o t /\ L = Len(own)
  OBVIOUS
<1>5. /\ L \in Nat /\ Len(both) = L + 2 /\ both \in Seq(Prims)
      /\ \A i \in 1..L + 2 : both[i] = IF i <= L THEN own[i] ELSE t[i - L]
  BY <1>2, <1>3, <1>4, ConcatProperties
<1>6. L <= L + 2 /\ L + 2 \in 1..L + 2 /\ ~ (L + 2 <= L) /\ (L + 2) - L = 2
  BY <1>5
<1>7. StartsWith(both, own)
  BY <1>4, <1>5, <1>6 DEF StartsWith
<1>8. StartsWith(own, own)
  BY <1>4, <1>5 DEF StartsWith
<1>9. y \in Range(both)
  <2>1. both[L + 2] = y
    BY <1>3, <1>4, <1>5, <1>6
  <2>2. L + 2 \in DOMAIN both
    BY <1>5, <1>6
  <2> QED BY <2>1, <2>2 DEF Range
<1> QED BY <1>4, <1>7, <1>8, <1>9

\* The last of them is the prim of the instance.
LEMMA InstanceOfOwn ==
    ASSUME scene \in Scenes, NEW c \in Contexts, NEW d, ArePlaced(d),
           NEW n \in DOMAIN d, n = c.node,
           NEW own, InstancePrims(c, own), StartsWith(d[n], own)
    PROVE  own[Len(own)] = InstancePathOf(n, d) /\ InstancePathOf(n, d) # NoPath
<1>1. c.parent \in Prims /\ c.name \in Names /\ XformPath(c) \in Prims
  BY PathTypes DEF Contexts, XformPath
<1>2. CASE NeedsXform(n, TRUE)
  <2>1. PICK X, O : X = XformPath(c) /\ O = ObjectPath(c) /\ own = <<X, O>>
    BY <1>2 DEF InstancePrims
  <2>2. Len(own) = 2 /\ own[2] = O /\ 2 \in 1..2
    BY <2>1
  <2>3. d[n][2] = O
    BY <2>2 DEF StartsWith
  <2>4. O # NoPath
    BY <1>1, <2>1, PathTypes, AppendIsSome DEF ObjectPath, Prims
  <2> QED BY <1>2, <2>2, <2>3, <2>4 DEF InstancePathOf
<1>3. CASE ~NeedsXform(n, TRUE)
  <2>1. PICK y : own = <<y>>
    BY <1>3 DEF InstancePrims
  <2>2. Len(own) = 1 /\ own[1] = y /\ 1 \in 1..1
    BY <2>1
  <2>3. d[n][1] = y
    BY <2>2 DEF StartsWith
  <2>4. d[n][1] \in NodePaths /\ Len(d[n][1]) > Len(RootPath) /\ RootPath \in Prims
    BY PathTypes DEF ArePlaced, IsPlaced
  <2>5. d[n][1] # <<>>
    <3>1. Len(RootPath) \in Nat
      BY <2>4 DEF Prims
    <3> QED BY <2>4, <3>1
  <2> QED BY <1>3, <2>2, <2>3, <2>5 DEF InstancePathOf, NoPath
<1> QED BY <1>2, <1>3

\* What ExportNode makes of what was exported, written, instanced and to be
\* bound, when the node n comes to what is made for it on the stage st, which
\* becomes more.
Exports(n, made, st, more, E, E2, w, w2, I, I2, R, R2, B, B2) ==
    LET root == made.prims[1]
        isWritten == made.object # NoPath /\ made.object \in ToSet(st)
        prototype == FindPrototypePrim(root, I2, more)
    IN  /\ w2 = IF isWritten THEN WrittenTo(w, made.object, n) ELSE w
        /\ I2 = IF made.instance = NoPath THEN I
                ELSE Inserted(I, made.instance, made.classes.of[n])
        /\ IF made.prims = <<>> THEN E2 = E /\ R2 = R /\ B2 = B
           ELSE /\ E2 = E \union {n}
                /\ R2 = IF isWritten /\ prototype # NoPath THEN R \union {prototype} ELSE R
                /\ B2 = IF isWritten \/ prototype \in R THEN B \union {root} ELSE B

\* The export has come this far, with the classes b, and what it is to do next:
\* the node n of the context c has been processed, in which made was made.
HasCome(E, d, st, b, of, w, I, R, B) ==
    /\ Settled(E, d) /\ StageServes(d, st) /\ ClassesOK(b) /\ ClassesRight(b) /\ of = b.of
    /\ Served(E, d, of, w, I, R, B)

IsMade(E, d, b, c, n, made) ==
    /\ c \in Contexts /\ n = c.node /\ InContent(n) /\ n \notin E /\ Makes(b, c, made)
    /\ IF made.prims = <<>> THEN n \notin DOMAIN d ELSE n \in DOMAIN d /\ d[n] = made.prims

\* All is served, with the node.
LEMMA ServedWhenExported ==
    ASSUME scene \in Scenes, NEW E, NEW d, NEW st, NEW b, NEW of, NEW w, NEW I, NEW R, NEW B,
           HasCome(E, d, st, b, of, w, I, R, B),
           NEW c, NEW n, NEW made, IsMade(E, d, b, c, n, made),
           NEW more, Keeps(st, more), NEW of2, of2 = made.classes.of,
           NEW E2, NEW w2, NEW I2, NEW R2, NEW B2,
           Exports(n, made, st, more, E, E2, w, w2, I, I2, R, R2, B, B2)
    PROVE  Served(E2, d, of2, w2, I2, R2, B2)
<1> USE DEF HasCome, IsMade
<1>1. n \in Nodes /\ c.name \in Names
  BY DEF Contexts
<1>2. R \subseteq R2 /\ B \subseteq B2
  BY DEF Exports
<1>3. CASE ~HasWriter(n)
  <2>1. made.object = NoPath /\ made.instance = NoPath /\ made.classes = b
    BY <1>3 DEF Makes, MakesNothing
  <2>2. w2 = w /\ I2 = I /\ of2 = of
    BY <2>1 DEF Exports
  <2>3. CASE made.prims = <<>>
    BY <2>2, <2>3 DEF Exports
  <2>4. CASE made.prims # <<>>
    <3>1. E2 = E \union {n}
      BY <2>4 DEF Exports
    <3> QED BY <1>2, <1>3, <2>2, <3>1, ServedNode
  <2> QED BY <2>3, <2>4
<1>4. ASSUME HasWriter(n)
      PROVE  /\ n \in DOMAIN d /\ d[n] = made.prims /\ MadeOf(n, d, st)
             /\ E2 = E \union {n} /\ Range(d[n]) \subseteq Range(st)
  <2>1. n \in DOMAIN d /\ MadeOf(n, d, st)
    BY <1>1, <1>4 DEF StageServes
  <2> QED BY <2>1 DEF Exports, MadeOf
<1>5. ToSet(st) = Range(st)
  BY DEF ToSet, Range
<1>6. CASE HasWriter(n) /\ ~CanBeInstanced(n)
  <2>1. /\ made.object \in Range(d[n]) /\ made.object # NoPath
        /\ made.instance = NoPath /\ made.classes = b
    BY <1>4, <1>6 DEF Makes, MakesObject
  <2>2. PICK path : path = made.object
    OBVIOUS
  <2>3. path \notin DOMAIN w
    BY <1>4, <1>6, <2>1, <2>2, InstanceIsNew
  <2>4. w2 = WrittenTo(w, path, n) /\ I2 = I /\ of2 = of /\ d[n][1] \in B2
    BY <1>4, <1>5, <1>6, <2>1, <2>2 DEF Exports
  <2> QED BY <1>2, <1>4, <1>6, <2>1, <2>2, <2>3, <2>4, ServedObject
<1>7. CASE HasWriter(n) /\ CanBeInstanced(n) /\ n \in DOMAIN of
  <2>1. PICK own : MakesInstance(b, c, own, made)
    BY <1>7 DEF Makes
  <2>2. InstancePathOf(n, d) = made.instance /\ made.instance # NoPath
    <3>1. RootPath \in Prims
      BY PathTypes
    <3>2. StartsWith(d[n], own)
      BY <1>4, <1>7, <2>1, <3>1, OwnPrimsComeFirst DEF MakesInstance
    <3> QED BY <1>4, <1>7, <2>1, <3>2, InstanceOfOwn DEF MakesInstance, Settled
  <2>3. /\ w2 = w /\ of2 = of /\ I2 = Inserted(I, InstancePathOf(n, d), of[n])
    BY <2>1, <2>2 DEF Exports, MakesInstance
  <2>4. FindPrototypePrim(d[n][1], I2, more) = of[n]
    BY <1>4, <1>7, <2>3, PrototypeIsFound
  <2>5. of[n] \in R
    BY <1>7 DEF Served
  <2>6. d[n][1] \in B2
    BY <1>4, <1>7, <2>4, <2>5 DEF Exports
  <2>7. InstancePathOf(n, d) \notin DOMAIN I
    <3>1. n \in DOMAIN d /\ HasWriter(n) /\ CanBeInstanced(n)
      BY <1>4, <1>7
    <3> QED BY <3>1, InstanceIsNew
  <2>8. /\ HasWriter(n) /\ CanBeInstanced(n) /\ n \in DOMAIN of
        /\ I2 = Inserted(I, InstancePathOf(n, d), of[n])
    BY <1>7, <2>3
  <2>9. Served(E \union {n}, d, of, w, I2, R2, B2)
    BY <1>2, <2>6, <2>7, <2>8, ServedInstance
  <2> QED BY <1>4, <1>7, <2>3, <2>9
<1>8. CASE HasWriter(n) /\ CanBeInstanced(n) /\ n \notin DOMAIN of
  <2>1. PICK own, k : MakesClass(b, c, own, k, made)
    BY <1>8 DEF Makes
  <2>2. PICK class, path : class = ClassPath(k) /\ path = Append(class, c.name)
    OBVIOUS
  <2>3. /\ k \in Names /\ made.object = path /\ made.prims = own \o <<class, path>>
        /\ made.instance = own[Len(own)] /\ InstancePrims(c, own)
        /\ of2 = [x \in DOMAIN of \union Instances(n) |-> IF x \in DOMAIN of THEN of[x] ELSE class]
    BY <2>1, <2>2 DEF MakesClass
  <2>4. RootPath \in Prims /\ ClassName(k) \in Names /\ c.name \in Names
    BY <1>1, <2>3, PathTypes, NameParts
  <2>5. class \in Prims /\ path \in Prims
    BY <1>1, <2>2, <2>3, <2>4, PathTypes DEF ClassPath
  <2>6. class # NoPath /\ path # NoPath /\ Front(path) = class
    BY <2>2, <2>4, <2>5, FrontAndLast DEF ClassPath, Prims
  <2>7. path \notin NodePaths
    <3>1. path \in ClassPrims(k)
      BY <1>1, <2>2 DEF ClassPrims
    <3> QED BY <2>3, <3>1, ClassPrimKinds
  <2>8. StartsWith(d[n], own) /\ path \in Range(d[n])
    BY <1>4, <1>8, <2>3, <2>5, OwnPrimsComeFirst
  <2>9. InstancePathOf(n, d) = made.instance /\ made.instance # NoPath
    BY <1>4, <1>8, <2>3, <2>8, InstanceOfOwn DEF Settled
  <2>10. path \notin DOMAIN w /\ InstancePathOf(n, d) \notin DOMAIN I
    <3>1. n \in DOMAIN d /\ HasWriter(n) /\ CanBeInstanced(n)
      BY <1>4, <1>8
    <3>2. /\ InstancePathOf(n, d) \notin DOMAIN I
          /\ \A x \in Range(d[n]) : x \notin NodePaths => x \notin DOMAIN w
      BY <3>1, InstanceIsNew
    <3> QED BY <2>7, <2>8, <3>2
  <2>11. n \in Instances(n)
    BY <1>1 DEF Instances
  <2>12. made.classes.of[n] = class
    BY <1>8, <2>3, <2>11
  <2>13. w2 = WrittenTo(w, path, n) /\ I2 = Inserted(I, InstancePathOf(n, d), class)
    BY <1>4, <1>5, <1>8, <2>3, <2>6, <2>8, <2>9, <2>12 DEF Exports
  <2>14. FindPrototypePrim(d[n][1], I2, more) = class
    BY <1>4, <1>8, <2>13, PrototypeIsFound
  <2>15. class \in R2 /\ d[n][1] \in B2
    <3>1. made.object # NoPath /\ made.object \in ToSet(st)
      BY <1>4, <1>5, <1>8, <2>3, <2>6, <2>8
    <3>2. made.prims # <<>> /\ made.prims[1] = d[n][1]
      BY <1>4, <1>8
    <3> QED BY <2>6, <2>14, <3>1, <3>2 DEF Exports
  <2>16. HasWriter(n) /\ CanBeInstanced(n) /\ n \notin DOMAIN of
    BY <1>8
  <2>17. /\ class = Front(path) /\ path \in Range(d[n])
         /\ of2 = [x \in DOMAIN of \union Instances(n) |-> IF x \in DOMAIN of THEN of[x] ELSE class]
    BY <2>3, <2>6, <2>8
  <2>18. Served(E \union {n}, d, of2, w2, I2, R2, B2)
    <3>1. AddsClass(n, d, path, class, of, of2, w, w2, I, I2)
      BY <2>7, <2>10, <2>13, <2>17 DEF AddsClass
    <3> QED BY <1>1, <1>2, <2>15, <2>16, <3>1, ServedClass
  <2> QED BY <1>4, <1>8, <2>18
<1> QED BY <1>3, <1>6, <1>7, <1>8

\* The prims that are added leave those of every node as they are.
LEMMA StageStillServes ==
    ASSUME NEW d, NEW st, StageServes(d, st), NEW more, Keeps(st, more)
    PROVE  StageServes(d, more)
<1>1. /\ Range(st) \subseteq Range(more) /\ more \in Seq(Prims)
      /\ \A path, child : FirstBelow(path, child, st) => FirstBelow(path, child, more)
  BY FirstStaysFirst DEF Keeps
<1>2. \A n : MadeOf(n, d, st) => MadeOf(n, d, more)
  BY <1>1 DEF MadeOf
<1> QED BY <1>1, <1>2 DEF StageServes

\* A node that is exported is served.
LEMMA ServesExportNode ==
    ASSUME ReplayInv, Knows, Composed, Serves, ExportNode
    PROVE  Serves'
<1>1. PICK c, b, n, made : c = Head(todo) /\ b = classes /\ n = c.node /\ made = ProcessNode(b, c)
  OBVIOUS
<1>2. PICK E, d, of, st, w, I, R, B :
        /\ E = DOMAIN exported /\ d = defs /\ of = classes.of /\ st = stage
        /\ w = written /\ I = instanceOf /\ R = materialReq /\ B = toBind
        /\ StageServes(d, st) /\ Served(E, d, of, w, I, R, B)
  BY DEF ExportNode, Serves
<1>3. PICK E2, of2, more, w2, I2, R2, B2, b2, q2 :
        /\ E2 = DOMAIN exported' /\ of2 = classes'.of /\ more = stage'
        /\ w2 = written' /\ I2 = instanceOf' /\ R2 = materialReq' /\ B2 = toBind'
        /\ b2 = classes' /\ q2 = todo'
  OBVIOUS
<1>4. /\ pass = "export" /\ pass' = "export" /\ todo # <<>> /\ scene' = scene /\ defs' = defs
      /\ q2 = Tail(todo) /\ b2 = made.classes /\ of2 = made.classes.of
      /\ more = WithPrims(made.prims, {made.object})
  BY <1>1, <1>3 DEF ExportNode
<1>5. /\ scene \in Scenes /\ todo \in Seq(Contexts) /\ ClassesOK(b) /\ of = b.of
      /\ ClassesRight(b) /\ OfContent(todo)
  BY <1>1, <1>2 DEF ReplayInv, Types, Serves
<1>6. /\ Len(todo) \in Nat /\ Len(todo) > 0 /\ Len(q2) = Len(todo) - 1 /\ c = todo[1]
      /\ \A i \in 1..Len(todo) - 1 : q2[i] = todo[i + 1]
  BY <1>1, <1>4, <1>5, SeqElements
<1>7. c \in Contexts /\ InContent(n) /\ n \notin E
  <2>1. 1 \in 1..Len(todo)
    BY <1>6
  <2> QED BY <1>1, <1>2, <1>5, <1>6, <2>1 DEF OfContent, Composed
<1>8. Makes(b, c, made) /\ ClassesRight(b2)
  <2>1. Makes(b, c, made)
    BY <1>1, <1>5, <1>7, ProcessNodeMakes
  <2> QED BY <1>1, <1>4, <1>5, <1>7, <2>1, MakesRight
<1>9. IF made.prims = <<>> THEN n \notin DOMAIN d ELSE n \in DOMAIN d /\ d[n] = made.prims
  <2>1. PICK items, e, first, last :
            /\ items = todo /\ e = defs /\ Leads(items, e, first, last) /\ first = classes
    BY <1>4 DEF ReplayInv, Replays
  <2>2. Follows(e, first, made.classes, c)
    BY <1>1, <1>4, <1>5, <2>1, LeadsFromHead
  <2> QED BY <1>1, <1>2, <2>1, <2>2 DEF Follows
<1>10. Settled(E, d)
  <2>1. E \subseteq DOMAIN d
    BY <1>2 DEF ReplayInv, Agrees
  <2>2. ParentsIn(E) /\ ArePlaced(d)
    BY <1>2, <1>4 DEF Composed
  <2>3. PrimsOfTheirOwn(d)
    BY <1>2 DEF Knows, NodesHavePrimsOfTheirOwn, PrimsOfTheirOwn
  <2> QED BY <2>1, <2>2, <2>3 DEF Settled
<1>11. Keeps(st, more)
  <2>1. stage \in Seq(Prims) /\ made.prims \in Seq(Prims)
    BY <1>1, <1>2, <1>5, <1>7, ProcessNodeType DEF StageServes
  <2>2. PICK prims, leftOut : prims = made.prims /\ leftOut = {made.object}
    OBVIOUS
  <2>3. PICK from : Extends(more, stage, prims, leftOut, from)
    BY <1>4, <2>1, <2>2, WithPrimsExtends
  <2> QED BY <1>2, <2>1, <2>3 DEF Extends, Keeps
<1>12. StageServes(d, more)
  BY <1>2, <1>11, StageStillServes
<1>13. Exports(n, made, st, more, E, E2, w, w2, I, I2, R, R2, B, B2)
  <2>1. PICK root, prototype : /\ root = made.prims[1]
                               /\ prototype = FindPrototypePrim(root, I2, more)
    OBVIOUS
  <2>2. w2 = IF made.object # NoPath /\ made.object \in ToSet(st)
             THEN WrittenTo(w, made.object, n) ELSE w
    BY <1>1, <1>2, <1>3 DEF ExportNode, WrittenTo
  <2>3. I2 = IF made.instance = NoPath THEN I ELSE Inserted(I, made.instance, made.classes.of[n])
    BY <1>1, <1>2, <1>3 DEF ExportNode
  <2>4. CASE made.prims = <<>>
    <3>1. E2 = E /\ R2 = R /\ B2 = B
      BY <1>1, <1>2, <1>3, <2>4 DEF ExportNode
    <3> QED BY <2>2, <2>3, <2>4, <3>1 DEF Exports
  <2>5. CASE made.prims # <<>>
    <3>1. /\ exported' = Inserted(exported, n, made.prims)
          /\ R2 = IF /\ made.object # NoPath /\ made.object \in ToSet(st)
                     /\ prototype # NoPath
                  THEN R \union {prototype} ELSE R
          /\ B2 = IF \/ made.object # NoPath /\ made.object \in ToSet(st)
                     \/ prototype \in R
                  THEN B \union {root} ELSE B
      BY <1>1, <1>2, <1>3, <2>1, <2>5 DEF ExportNode
    <3>2. E2 = E \union {n}
      BY <1>2, <1>3, <1>7, <3>1 DEF Inserted
    <3> QED BY <2>1, <2>2, <2>3, <2>5, <3>1, <3>2 DEF Exports
  <2> QED BY <2>4, <2>5
<1>14. Served(E2, d, of2, w2, I2, R2, B2)
  <2>1. HasCome(E, d, st, b, of, w, I, R, B)
    BY <1>2, <1>5, <1>10 DEF HasCome
  <2>2. IsMade(E, d, b, c, n, made)
    BY <1>1, <1>7, <1>8, <1>9 DEF IsMade
  <2> QED BY <1>4, <1>5, <1>11, <1>13, <2>1, <2>2, ServedWhenExported
<1>15. OfContent(q2)
  <2>1. ASSUME NEW i \in 1..Len(q2)
        PROVE  InContent(q2[i].node)
    <3>1. i + 1 \in 1..Len(todo) /\ q2[i] = todo[i + 1]
      BY <1>6
    <3> QED BY <1>5, <3>1 DEF OfContent
  <2> QED BY <2>1 DEF OfContent
<1>16. /\ ClassesRight(b2)' /\ OfContent(q2)' /\ StageServes(d, more)'
       /\ Served(E2, d, of2, w2, I2, R2, B2)'
  BY <1>4, <1>8, <1>12, <1>14, <1>15, ServingIsFixed
<1>17. ReachesAll'
  BY <1>4 DEF ReachesAll
<1>18. d = defs' /\ pass' # "preview"
  BY <1>2, <1>4
<1> QED BY <1>3, <1>16, <1>17, <1>18 DEF Serves

\* Every step keeps all that is known of objects, classes and instances.
LEMMA ServesStep ==
    ASSUME OrdinaryScenes, NothingOverwritten, ReplayInv, Knows, Composed, Serves, [Next]_vars
    PROVE  Serves'
<1>1. CASE PreviewNode
  BY <1>1, ServesPreviewNode
<1>2. CASE CreatePrims
  BY <1>2, ServesCreatePrims
<1>3. CASE ExportNode
  BY <1>3, ServesExportNode
<1>4. CASE Cancel \/ Finish \/ UNCHANGED vars
  <2>1. /\ scene' = scene /\ classes' = classes /\ todo' = todo /\ defs' = defs /\ stack' = stack
        /\ stage' = stage /\ exported' = exported /\ written' = written
        /\ instanceOf' = instanceOf /\ materialReq' = materialReq /\ toBind' = toBind
        /\ pass' = "preview" <=> pass = "preview"
    BY <1>4 DEF Cancel, Finish, vars, results
  <2>2. ReachesAll'
    <3>1. PICK K, q : K = stack /\ q = todo /\ (pass = "preview" => Reached(K, q))
      BY DEF Serves, ReachesAll
    <3>2. Reached(K, q)' = Reached(K, q)
      BY <2>1, ReachedIsFixed
    <3>3. pass' = "preview" => Reached(K, q)'
      BY <2>1, <3>1, <3>2
    <3> QED BY <2>1, <3>1, <3>3 DEF ReachesAll
  <2>3. PICK b, q : b = classes /\ q = todo /\ ClassesRight(b) /\ OfContent(q)
    BY DEF Serves
  <2>4. ClassesRight(b)' /\ OfContent(q)'
    BY <2>1, <2>3, ServingIsFixed
  <2>5. CASE pass = "preview"
    <3>1. PICK r, d, st : r = todo /\ d = defs /\ st = stage /\ Noted(r, d) /\ OnlyExisting(st)
      BY <2>5 DEF Serves
    <3>2. Noted(r, d)' /\ OnlyExisting(st)'
      BY <2>1, <3>1, ServingIsFixed
    <3>3. DOMAIN written' = {} /\ DOMAIN instanceOf' = {}
      BY <2>1, <2>5 DEF Serves
    <3> QED BY <2>1, <2>2, <2>3, <2>4, <2>5, <3>1, <3>2, <3>3 DEF Serves
  <2>6. CASE pass # "preview"
    <3>1. PICK E, d, of, st, w, I, R, B :
            /\ E = DOMAIN exported /\ d = defs /\ of = classes.of /\ st = stage
            /\ w = written /\ I = instanceOf /\ R = materialReq /\ B = toBind
            /\ StageServes(d, st) /\ Served(E, d, of, w, I, R, B)
      BY <2>6 DEF Serves
    <3>2. StageServes(d, st)' /\ Served(E, d, of, w, I, R, B)'
      BY <2>1, <3>1, ServingIsFixed
    <3>3. /\ E = DOMAIN exported' /\ d = defs' /\ of = classes'.of /\ st = stage'
          /\ w = written' /\ I = instanceOf' /\ R = materialReq' /\ B = toBind'
      BY <2>1, <3>1
    <3> QED BY <2>1, <2>2, <2>3, <2>4, <2>6, <3>2, <3>3 DEF Serves
  <2> QED BY <2>5, <2>6
<1> QED BY <1>1, <1>2, <1>3, <1>4 DEF Next

\* In an ordinary scene, where no prim of the stage is overwritten, every node
\* with a writer has its object written once when the export is done, by itself
\* or in the class that it is an instance of, and is to be bound to materials.
THEOREM PrototypesServeAll ==
    ASSUME OrdinaryScenes, NothingOverwritten
    PROVE  Spec => []PrototypesServeTheirInstances
<1>1. Init => Knows /\ Composed /\ Serves
  BY KnowsInit, ComposedInit, ServesInit
<1>2. ASSUME ReplayInv, ReplayInv', Knows, Composed, Serves, [Next]_vars
      PROVE  Knows' /\ Composed' /\ Serves'
  BY <1>2, KnowsStep, ComposedStep, ServesStep
<1>3. ASSUME ReplayInv, Serves
      PROVE  PrototypesServeTheirInstances
  <2> SUFFICES ASSUME pass = "done", NEW n \in Nodes, InContent(n), HasWriter(n)
               PROVE  /\ exported[n][1] \in toBind
                      /\ \E path \in DOMAIN written : \E m \in Instances(n) :
                            /\ written[path] = {m}
                            /\ \/ m = n /\ path \in Range(exported[n])
                               \/ \E p \in Range(exported[n]) \intersect DOMAIN instanceOf :
                                    instanceOf[p] = Front(path)
    BY DEF PrototypesServeTheirInstances
  <2>1. PICK E, d, of, st, w, I, R, B :
            /\ E = DOMAIN exported /\ d = defs /\ of = classes.of /\ st = stage
            /\ w = written /\ I = instanceOf /\ R = materialReq /\ B = toBind
            /\ StageServes(d, st) /\ Served(E, d, of, w, I, R, B)
    BY <1>3 DEF Serves
  <2>2. n \in DOMAIN d /\ MadeOf(n, d, st)
    BY <2>1 DEF StageServes
  <2>3. n \in E /\ exported[n] = d[n]
    <3>1. Len(todo) = 0
      BY <1>3 DEF ReplayInv, Agrees
    <3> QED BY <1>3, <2>1, <2>2, <3>1 DEF ReplayInv, Agrees
  <2>4. n \in Writers(E)
    BY <2>3 DEF Writers
  <2>5. d[n][1] \in B
    BY <2>1, <2>4 DEF Served
  <2>6. CASE ~CanBeInstanced(n)
    <3>1. PICK path \in DOMAIN w : w[path] = {n} /\ path \in Range(d[n])
      BY <2>1, <2>4, <2>6 DEF Served
    <3>2. n \in Instances(n)
      BY DEF Instances
    <3> QED BY <2>1, <2>3, <2>5, <3>1, <3>2
  <2>7. CASE CanBeInstanced(n)
    <3>1. /\ n \in DOMAIN of /\ InstancePathOf(n, d) \in DOMAIN I
          /\ I[InstancePathOf(n, d)] = of[n]
      BY <2>1, <2>4, <2>7 DEF Served
    <3>2. PICK path \in DOMAIN w : \E m \in Instances(n) : w[path] = {m} /\ of[n] = Front(path)
      BY <2>1, <3>1 DEF Served
    <3>3. InstancePathOf(n, d) \in Range(d[n])
      BY <2>2, <2>7 DEF MadeOf
    <3> QED BY <2>1, <2>3, <2>5, <3>1, <3>2, <3>3
  <2> QED BY <2>6, <2>7
<1> QED BY <1>1, <1>2, <1>3, ReplayInvariant, PTL DEF Spec
=============================================================================
