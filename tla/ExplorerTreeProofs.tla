------------------------- MODULE ExplorerTreeProofs -------------------------
(***************************************************************************)
(* Lemmas about ExplorerTree, for any tree of items: what fetching, laying *)
(* out, expanding and rebuilding leave of a view.  ExplorerSearchProofs    *)
(* and ExplorerSelectionProofs use them.                                   *)
(***************************************************************************)
EXTENDS ExplorerTree, FiniteSetTheorems, TLAPS

(* The view holds items of the scene only, each with all that is above it. *)
Follows(v, scene) ==
    /\ v \in Views
    /\ v.items \subseteq scene /\ v.expanded \subseteq v.items
    /\ \A x \in v.items : Ancestors[x] \subseteq v.items

Children(v, x) == {y \in v.items \ {Root} : Parent[y] = x}

(* An item has not fetched its children, or it has all of them, inactive ones perhaps too. *)
FetchedRightly(v, scene, x) ==
    \/ Children(v, x) = {}
    \/ /\ FilteredChildren(scene, FALSE, x) \subseteq Children(v, x)
       /\ Children(v, x) \subseteq FilteredChildren(scene, TRUE, x)

SameButItems(u, v) ==
    /\ u.search = v.search /\ u.found = v.found
    /\ u.showInactive = v.showInactive /\ u.expanded = v.expanded

(* What is new in the view was fetched by the item right above it, and those that may fetch have. *)
FetchedFrom(u, v, scene, parents) ==
    /\ SameButItems(u, v)
    /\ v.items \subseteq u.items
    /\ \A y \in u.items \ v.items :
          y # Root /\ Parent[y] \in parents /\ y \in FetchMore(v, scene, Parent[y])
    /\ \A x \in u.items \cap parents : FetchMore(v, scene, x) \subseteq u.items

-----------------------------------------------------------------------------
(* The fields of a view. *)
LEMMA ViewFields ==
    ASSUME NEW v \in Views
    PROVE  /\ v.items \subseteq Items /\ v.found \subseteq Items /\ v.expanded \subseteq Items
           /\ v.search \in BOOLEAN /\ v.showInactive \in BOOLEAN
BY DEF Views

(* The items of a scene, and those above them. *)
LEMMA SceneClosed ==
    ASSUME NEW scene \in Scenes
    PROVE  /\ scene \subseteq Items /\ Root \in scene
           /\ \A x \in scene : Ancestors[x] \subseteq scene
BY DEF Scenes

(* An item is below what is right above it, and is not below itself. *)
LEMMA ParentAbove ==
    ASSUME NEW x \in Items \ {Root}
    PROVE  /\ Parent[x] \in Items /\ Parent[x] \in Ancestors[x] /\ x \notin Ancestors[x]
           /\ Ancestors[x] = {Parent[x]} \cup Ancestors[Parent[x]]
           /\ Root \in Ancestors[x] /\ Parent[x] # x
BY TreeAssumption

(* What is above is an item, and what is above that is above too. *)
LEMMA AboveAbove ==
    ASSUME NEW x \in Items, NEW y \in Ancestors[x]
    PROVE  y \in Items /\ Ancestors[y] \subseteq Ancestors[x] /\ x # Root
BY TreeAssumption

(* An item added under one of a scene makes a scene. *)
LEMMA AddedScene ==
    ASSUME NEW s \in Scenes, NEW x \in Items \ {Root}, Parent[x] \in s
    PROVE  s \cup {x} \in Scenes
<1>1. Ancestors[x] = {Parent[x]} \cup Ancestors[Parent[x]]
  BY TreeAssumption
<1>2. s \in SUBSET Items /\ Root \in s /\ \A y \in s : Ancestors[y] \subseteq s
  BY DEF Scenes
<1>3. \A y \in s \cup {x} : Ancestors[y] \subseteq s \cup {x}
  BY <1>1, <1>2
<1> QED BY <1>2, <1>3 DEF Scenes

(* So does a scene without an item and what is below it. *)
LEMMA RemovedScene ==
    ASSUME NEW s \in Scenes, NEW x \in s \ {Root}
    PROVE  s \ ({x} \cup Below(x)) \in Scenes
<1>1. s \in SUBSET Items /\ Root \in s /\ \A y \in s : Ancestors[y] \subseteq s
  BY DEF Scenes
<1>2. Root \notin Below(x)
  BY TreeAssumption DEF Below
<1>3. ASSUME NEW y \in s \ ({x} \cup Below(x)), NEW z \in Ancestors[y]
      PROVE  z \in s \ ({x} \cup Below(x))
  <2>1. z \in s /\ y \in Items /\ x \notin Ancestors[y]
    BY <1>1, <1>3 DEF Below
  <2>2. Ancestors[z] \subseteq Ancestors[y]
    BY <1>3, <2>1, TreeAssumption
  <2> QED BY <1>3, <2>1, <2>2 DEF Below
<1> QED BY <1>1, <1>2, <1>3 DEF Scenes

(* And a scene in which an item without children has moved. *)
LEMMA MovedScene ==
    ASSUME NEW s \in Scenes, NEW x \in s \ {Root}, Below(x) \cap s = {},
           NEW y \in Items \ {Root}, Parent[y] \in s \ {x}
    PROVE  (s \ {x}) \cup {y} \in Scenes
<1>1. s \ ({x} \cup Below(x)) = s \ {x}
  OBVIOUS
<1>2. s \ {x} \in Scenes
  BY <1>1, RemovedScene
<1> QED BY <1>2, AddedScene

(* What is below an item that is not in the tree is not either. *)
LEMMA NoneBelow ==
    ASSUME NEW v \in Views, \A y \in v.items : Ancestors[y] \subseteq v.items, NEW x, x \notin v.items
    PROVE  v.items \cap ({x} \cup Below(x)) = {}
BY DEF Below

(* What is below an item is below what that is right under. *)
LEMMA BelowParent ==
    ASSUME NEW x \in Items \ {Root}
    PROVE  {x} \cup Below(x) \subseteq Below(Parent[x])
<1>1. Parent[x] \in Ancestors[x]
  BY ParentAbove
<1>2. ASSUME NEW y \in Items, x \in Ancestors[y]
      PROVE  Parent[x] \in Ancestors[y]
  BY <1>1, <1>2, AboveAbove
<1> QED BY <1>1, <1>2 DEF Below

(* What an item fetches are children it has in the scene: all that the filters let through, or none. *)
LEMMA FetchedChildren ==
    ASSUME NEW v, NEW scene \in Scenes, NEW x
    PROVE  /\ FetchMore(v, scene, x) \subseteq FilteredChildren(scene, v.showInactive, x)
           /\ v.search => FetchMore(v, scene, x) \subseteq v.found
           /\ \A y \in FetchMore(v, scene, x) :
                 /\ y \in scene \ {Root} /\ y \in Items /\ Parent[y] = x
                 /\ v.showInactive \/ y \notin Inactive
BY DEF FetchMore, FilteredChildren, Scenes

(* Fetching keeps the view in the scene. *)
LEMMA FetchFollows ==
    ASSUME NEW scene \in Scenes, NEW v, Follows(v, scene), NEW parents,
           NEW u, u = Fetch(v, scene, parents)
    PROVE  Follows(u, scene) /\ FetchedFrom(u, v, scene, parents)
<1> DEFINE fetched == UNION {FetchMore(v, scene, x) : x \in parents}
           added == {y \in fetched : Ancestors[y] \subseteq v.items \cup fetched}
<1>1. /\ v \in Views /\ v.items \subseteq scene /\ v.expanded \subseteq v.items
      /\ \A x \in v.items : Ancestors[x] \subseteq v.items
  BY DEF Follows
<1>2. \A y \in fetched : /\ y \in scene \ {Root} /\ y \in Items /\ Parent[y] \in parents
                         /\ y \in FetchMore(v, scene, Parent[y])
  BY FetchedChildren
<1>3. u = [v EXCEPT !.items = v.items \cup added]
  BY DEF Fetch
<1> HIDE DEF fetched
<1>4. u.items = v.items \cup added /\ SameButItems(u, v) /\ u \in Views
  <2>1. added \subseteq Items
    BY <1>2
  <2> HIDE DEF added
  <2> QED BY <1>1, <1>3, <2>1 DEF Views, SameButItems
<1>5. ASSUME NEW y \in added
      PROVE  Ancestors[y] \subseteq v.items \cup added
  <2>1. y \in Items /\ Ancestors[y] \subseteq v.items \cup fetched
    BY <1>2
  <2>2. \A z \in Ancestors[y] : Ancestors[z] \subseteq Ancestors[y]
    BY <2>1, AboveAbove
  <2> QED BY <2>1, <2>2
<1>6. Follows(u, scene)
  BY <1>1, <1>2, <1>4, <1>5 DEF Follows, SameButItems
<1>7. ASSUME NEW x \in u.items \cap parents, NEW y \in FetchMore(v, scene, x)
      PROVE  y \in u.items
  <2>1. y \in fetched /\ y \in Items \ {Root} /\ Parent[y] = x
    <3>1. x \in parents
      OBVIOUS
    <3>2. y \in fetched
      BY <1>7, <3>1 DEF fetched
    <3> QED BY <1>2, <3>2, FetchedChildren
  <2>2. Ancestors[x] \subseteq u.items
    BY <1>6 DEF Follows
  <2>3. Ancestors[y] = {x} \cup Ancestors[x]
    BY <2>1, ParentAbove
  <2>4. Ancestors[y] \subseteq v.items \cup fetched
    BY <1>4, <2>2, <2>3
  <2> QED BY <1>4, <2>1, <2>4
<1> QED BY <1>2, <1>4, <1>6, <1>7 DEF FetchedFrom

-----------------------------------------------------------------------------
(* What fetching and expanding leave of a view: it grows by items of the scene, and what was      *)
(* fetched rightly stays so.                                                                      *)
Grows(u, v, scene) ==
    /\ Follows(u, scene)
    /\ u.search = v.search /\ u.found = v.found /\ u.showInactive = v.showInactive
    /\ v.items \subseteq u.items
    /\ \A y \in u.items \ v.items : u.showInactive \/ y \notin Inactive
    /\ ~ v.search => \A x \in Items : FetchedRightly(v, scene, x) => FetchedRightly(u, scene, x)

(* All that is displayed as expanded shows its children. *)
Shows(v, scene) ==
    \A x \in Displayed(v) \cap v.expanded :
        FilteredChildren(scene, v.showInactive, x) \subseteq v.items

(* The children an item has without a search filter are finitely many, and inactive ones come on top. *)
LEMMA FiniteChildren ==
    ASSUME NEW scene \in Scenes, NEW x
    PROVE  /\ IsFiniteSet(FilteredChildren(scene, TRUE, x))
           /\ FilteredChildren(scene, FALSE, x) \subseteq FilteredChildren(scene, TRUE, x)
<1>1. FilteredChildren(scene, TRUE, x) \subseteq Items
  BY DEF FilteredChildren, Scenes
<1>2. IsFiniteSet(Items)
  BY TreeAssumption
<1>3. IsFiniteSet(FilteredChildren(scene, TRUE, x))
  BY <1>1, <1>2, FS_Subset
<1> QED BY <1>3 DEF FilteredChildren

(* Nobody fetches a part of its children. *)
LEMMA FetchedAll ==
    ASSUME NEW scene \in Scenes, NEW v \in Views, ~ v.search, NEW x, FetchMore(v, scene, x) # {}
    PROVE  FetchMore(v, scene, x) = FilteredChildren(scene, v.showInactive, x)
BY DEF FetchMore

(* An item that was fetched rightly and that needs no more has all its children: the numbers of   *)
(* both tell.                                                                                     *)
LEMMA NoMoreToFetch ==
    ASSUME NEW scene \in Scenes, NEW v \in Views, ~ v.search, NEW x,
           FetchedRightly(v, scene, x), FetchMore(v, scene, x) = {}
    PROVE  FilteredChildren(scene, v.showInactive, x) \subseteq v.items
<1> DEFINE all == FilteredChildren(scene, v.showInactive, x)
           current == Children(v, x)
<1>1. all = {} \/ Cardinality(all) = Cardinality(current)
  <2>1. FetchMore(v, scene, x) = IF Cardinality(all) = Cardinality(current) THEN {} ELSE all
    BY DEF FetchMore, Children
  <2> HIDE DEF all, current
  <2> QED BY <2>1
<1>2. v.showInactive \in BOOLEAN
  BY ViewFields
<1>3. CASE current = {}
  <2>1. IsFiniteSet(all)
    BY <1>2, FiniteChildren, FS_Subset
  <2>2. all = {}
    BY <1>1, <1>3, <2>1, FS_EmptySet
  <2> QED BY <2>2
<1>4. CASE current # {} /\ ~ v.showInactive
  <2>1. v.showInactive = FALSE
    BY <1>2, <1>4
  <2>2. all \subseteq current
    BY <1>4, <2>1 DEF FetchedRightly
  <2> QED BY <2>2 DEF Children
<1>5. CASE current # {} /\ v.showInactive
  <2>1. current \subseteq all
    BY <1>5 DEF FetchedRightly
  <2>2. IsFiniteSet(all)
    BY <1>5, FiniteChildren
  <2>3. all = {} \/ current = all
    BY <1>1, <2>1, <2>2, FS_Subset
  <2> QED BY <2>3 DEF Children
<1> QED BY <1>2, <1>3, <1>4, <1>5

(* Fetching grows the view. *)
LEMMA FetchGrows ==
    ASSUME NEW scene \in Scenes, NEW v, Follows(v, scene), NEW parents,
           NEW u, u = Fetch(v, scene, parents)
    PROVE  Grows(u, v, scene) /\ u.expanded = v.expanded
<1>1. Follows(u, scene) /\ FetchedFrom(u, v, scene, parents)
  BY FetchFollows
<1>2. v \in Views /\ u \in Views
  BY <1>1 DEF Follows
<1>3. ASSUME NEW y \in u.items \ v.items
      PROVE  u.showInactive \/ y \notin Inactive
  BY <1>1, <1>3, FetchedChildren DEF FetchedFrom, SameButItems
<1>4. ASSUME ~ v.search, NEW x \in Items, FetchedRightly(v, scene, x)
      PROVE  FetchedRightly(u, scene, x)
  <2>1. Children(v, x) \subseteq Children(u, x)
    BY <1>1 DEF FetchedFrom, Children
  <2>2. CASE Children(u, x) = Children(v, x)
    BY <1>4, <2>2 DEF FetchedRightly
  <2>3. CASE Children(u, x) # Children(v, x)
    <3>1. PICK y \in Children(u, x) : y \notin Children(v, x)
      BY <2>1, <2>3
    <3>2. y \in u.items \ v.items /\ y # Root /\ Parent[y] = x
      BY <3>1 DEF Children
    <3>3. x \in parents /\ y \in FetchMore(v, scene, x)
      BY <1>1, <3>2 DEF FetchedFrom
    <3>4. FetchMore(v, scene, x) = FilteredChildren(scene, v.showInactive, x)
      BY <1>2, <1>4, <3>3, FetchedAll
    <3>5. x \in u.items
      <4>1. y \in Items \ {Root}
        BY <1>2, <3>2, ViewFields
      <4>2. x \in Ancestors[y]
        BY <3>2, <4>1, ParentAbove
      <4> QED BY <1>1, <3>2, <4>2 DEF Follows
    <3>6. FilteredChildren(scene, v.showInactive, x) \subseteq Children(u, x)
      <4>1. FilteredChildren(scene, v.showInactive, x) \subseteq u.items
        BY <1>1, <3>3, <3>4, <3>5 DEF FetchedFrom
      <4> QED BY <4>1 DEF FilteredChildren, Children
    <3>7. Children(u, x) \subseteq Children(v, x) \cup FilteredChildren(scene, v.showInactive, x)
      <4>1. ASSUME NEW z \in Children(u, x), z \notin v.items
            PROVE  z \in FilteredChildren(scene, v.showInactive, x)
        <5>1. z \in u.items \ v.items /\ Parent[z] = x
          BY <4>1 DEF Children
        <5> QED BY <1>1, <3>4, <5>1 DEF FetchedFrom
      <4> QED BY <4>1 DEF Children
    <3>8. v.showInactive \in BOOLEAN
      BY <1>2, ViewFields
    <3> QED BY <1>4, <3>6, <3>7, <3>8, FiniteChildren DEF FetchedRightly
  <2> QED BY <2>2, <2>3
<1> QED BY <1>1, <1>3, <1>4 DEF Grows, FetchedFrom, SameButItems

(* When all of them have fetched, they all have their children. *)
LEMMA AllFetched ==
    ASSUME NEW scene \in Scenes, NEW v \in Views, ~ v.search, NEW parents,
           \A x \in Items : FetchedRightly(v, scene, x),
           NEW u \in Views, FetchedFrom(u, v, scene, parents), NEW x \in u.items \cap parents
    PROVE  FilteredChildren(scene, v.showInactive, x) \subseteq u.items
<1>1. x \in Items /\ v.items \subseteq u.items
  BY ViewFields DEF FetchedFrom
<1>2. CASE FetchMore(v, scene, x) = {}
  BY <1>1, <1>2, NoMoreToFetch
<1>3. CASE FetchMore(v, scene, x) # {}
  BY <1>3, FetchedAll DEF FetchedFrom
<1> QED BY <1>2, <1>3

(* What is laid out grows, and then all that is displayed as expanded shows its children. *)
LEMMA LayoutGrows ==
    ASSUME NEW scene \in Scenes, NEW v, Follows(v, scene), NEW u, u = Layout(v, scene)
    PROVE  /\ Grows(u, v, scene) /\ u.expanded = v.expanded
           /\ ~ v.search /\ (\A x \in Items : FetchedRightly(v, scene, x)) => Shows(u, scene)
<1> DEFINE parents == {x \in v.expanded : Ancestors[x] \subseteq v.expanded}
<1>1. u = Fetch(v, scene, parents)
  BY DEF Layout
<1>2. Grows(u, v, scene) /\ u.expanded = v.expanded
  BY <1>1, FetchGrows
<1>3. FetchedFrom(u, v, scene, parents)
  BY <1>1, FetchFollows
<1>4. v \in Views
  BY DEF Follows
<1>5. ASSUME ~ v.search, \A x \in Items : FetchedRightly(v, scene, x),
             NEW x \in Displayed(u) \cap u.expanded
      PROVE  FilteredChildren(scene, u.showInactive, x) \subseteq u.items
  <2>1. x \in u.items \cap parents /\ u.showInactive = v.showInactive /\ v.items \subseteq u.items
    BY <1>2 DEF Displayed, Grows
  <2>2. u \in Views
    BY <1>2 DEF Grows, Follows
  <2> QED BY <1>3, <1>4, <1>5, <2>1, <2>2, AllFetched
<1> QED BY <1>2, <1>5 DEF Shows

(* One growth after another. *)
LEMMA GrowsTwice ==
    ASSUME NEW scene, NEW u, NEW v, NEW w, Grows(v, w, scene), Grows(u, v, scene)
    PROVE  Grows(u, w, scene)
BY DEF Grows

(* Items of the tree are expanded, and the view is laid out. *)
LEMMA SetExpandedGrows ==
    ASSUME NEW scene \in Scenes, NEW v, Follows(v, scene), NEW paths,
           NEW u, u = SetExpanded(v, scene, paths)
    PROVE  /\ Grows(u, v, scene) /\ u.expanded = v.expanded \cup (paths \cap v.items)
           /\ ~ v.search /\ (\A x \in Items : FetchedRightly(v, scene, x)) => Shows(u, scene)
<1> DEFINE w == [v EXCEPT !.expanded = v.expanded \cup (paths \cap v.items)]
<1>1. u = Layout(w, scene)
  BY DEF SetExpanded
<1>2. /\ w \in Views /\ w.items = v.items /\ w.search = v.search /\ w.found = v.found
      /\ w.showInactive = v.showInactive /\ w.expanded = v.expanded \cup (paths \cap v.items)
  BY DEF Follows, Views
<1> HIDE DEF w
<1>3. Follows(w, scene)
  BY <1>2 DEF Follows
<1>4. \A x \in Items : FetchedRightly(w, scene, x) <=> FetchedRightly(v, scene, x)
  BY <1>2 DEF FetchedRightly, Children
<1>5. Grows(w, v, scene)
  BY <1>2, <1>3, <1>4 DEF Grows
<1>6. Grows(u, w, scene) /\ u.expanded = w.expanded
  BY <1>1, <1>3, LayoutGrows
<1>7. Grows(u, v, scene)
  BY <1>5, <1>6, GrowsTwice
<1>8. ASSUME ~ v.search, \A x \in Items : FetchedRightly(v, scene, x)
      PROVE  Shows(u, scene)
  BY <1>1, <1>2, <1>3, <1>4, <1>8, LayoutGrows
<1> QED BY <1>2, <1>6, <1>7, <1>8

(* Paths are expanded, after what is above them has fetched. *)
LEMMA ExpandPathsGrows ==
    ASSUME NEW scene \in Scenes, NEW v, Follows(v, scene), NEW paths,
           NEW u, u = ExpandPaths(v, scene, paths)
    PROVE  /\ Grows(u, v, scene)
           /\ ~ v.search /\ (\A x \in Items : FetchedRightly(v, scene, x)) => Shows(u, scene)
<1> DEFINE w == Fetch(v, scene, UNION {Ancestors[x] : x \in (paths \ v.items)})
<1>1. u = SetExpanded(w, scene, paths)
  BY DEF ExpandPaths
<1>2. Grows(w, v, scene)
  BY FetchGrows
<1> HIDE DEF w
<1>3. Follows(w, scene)
  BY <1>2 DEF Grows
<1>4. Grows(u, w, scene)
  BY <1>1, <1>3, SetExpandedGrows
<1>5. ASSUME ~ v.search, \A x \in Items : FetchedRightly(v, scene, x)
      PROVE  Shows(u, scene)
  <2>1. ~ w.search /\ \A x \in Items : FetchedRightly(w, scene, x)
    BY <1>2, <1>5 DEF Grows
  <2> QED BY <1>1, <1>3, <2>1, SetExpandedGrows
<1> QED BY <1>2, <1>4, <1>5, GrowsTwice

(* All is fetched and expanded. *)
LEMMA ExpandAllGrows ==
    ASSUME NEW scene \in Scenes, NEW v, Follows(v, scene), NEW u, u = ExpandAll(v, scene)
    PROVE  /\ Grows(u, v, scene) /\ u.expanded = u.items
           /\ FetchedFrom([u EXCEPT !.expanded = v.expanded], v, scene, Items)
<1> DEFINE w == Fetch(v, scene, Items)
<1>1. u = [w EXCEPT !.expanded = w.items]
  BY DEF ExpandAll
<1>2. Grows(w, v, scene) /\ w.expanded = v.expanded
  BY FetchGrows
<1>3. FetchedFrom(w, v, scene, Items)
  BY FetchFollows
<1> HIDE DEF w
<1>4. Follows(w, scene) /\ w \in Views
  BY <1>2 DEF Grows, Follows
<1>5. /\ u \in Views /\ u.items = w.items /\ u.search = w.search /\ u.found = w.found
      /\ u.showInactive = w.showInactive /\ u.expanded = w.items
      /\ [u EXCEPT !.expanded = v.expanded] = w
  BY <1>1, <1>2, <1>4 DEF Views
<1>6. Follows(u, scene)
  BY <1>4, <1>5 DEF Follows
<1>7. \A x \in Items : FetchedRightly(u, scene, x) <=> FetchedRightly(w, scene, x)
  BY <1>5 DEF FetchedRightly, Children
<1>8. Grows(u, v, scene)
  BY <1>2, <1>5, <1>6, <1>7 DEF Grows
<1> QED BY <1>3, <1>5, <1>8

-----------------------------------------------------------------------------
(* Rebuilding. *)

(* What may be rebuilt from x down: outside of that, the view has items of the scene. *)
Rebuildable(v, scene, x) ==
    /\ v \in Views /\ x \in v.items
    /\ v.items \ Below(x) \subseteq scene /\ v.expanded \subseteq v.items
    /\ \A y \in v.items : Ancestors[y] \subseteq v.items

(* What a rebuild from x down leaves: the items outside, and what was fetched rightly. *)
Rebuilt(u, v, scene, x, filter, showInactive) ==
    /\ Follows(u, scene)
    /\ u.search = (filter # Empty) /\ u.showInactive = showInactive
    /\ v.items \ Below(x) \subseteq u.items
    /\ \A y \in u.items \ (v.items \ Below(x)) : u.showInactive \/ y \notin Inactive
    /\ filter = Empty =>
          /\ FetchedRightly(u, scene, x)
          /\ \A y \in Items : y \in Below(x) \/ FetchedRightly(v, scene, y) =>
                FetchedRightly(u, scene, y)

(* What is below an item goes: the children of others stay. *)
LEMMA BelowGone ==
    ASSUME NEW v \in Views, NEW w, NEW x \in Items, w.items = v.items \ Below(x), NEW y \in Items
    PROVE  /\ y \in {x} \cup Below(x) => Children(w, y) = {}
           /\ y \notin {x} \cup Below(x) => Children(w, y) = Children(v, y)
<1>1. ASSUME NEW z \in v.items \ {Root}, Parent[z] = y
      PROVE  z \in Below(x) <=> y \in {x} \cup Below(x)
  <2>1. z \in Items \ {Root}
    BY <1>1, ViewFields
  <2>2. Ancestors[z] = {y} \cup Ancestors[y]
    BY <1>1, <2>1, ParentAbove
  <2> QED BY <2>1, <2>2 DEF Below
<1> QED BY <1>1 DEF Children

(* buildTreeFrom leaves a view of the scene. *)
LEMMA BuiltTree ==
    ASSUME NEW scene \in Scenes, NEW v, NEW x, Rebuildable(v, scene, x),
           NEW filter \in Filters, NEW showInactive \in BOOLEAN,
           NEW u, u = BuildTreeFrom(v, scene, x, filter, showInactive)
    PROVE  Rebuilt(u, v, scene, x, filter, showInactive)
<1> DEFINE kept == [v EXCEPT !.items = v.items \ Below(x), !.expanded = v.expanded \ Below(x),
                             !.showInactive = showInactive, !.search = filter # Empty]
           paths == WithAncestors(FindMatchingPaths(scene, showInactive, x, filter))
<1>1. x \in Items /\ v \in Views
  BY ViewFields DEF Rebuildable
<1>2. paths \subseteq Items
  <2>1. FindMatchingPaths(scene, showInactive, x, filter) \subseteq Items
    BY DEF FindMatchingPaths, Below
  <2> QED BY <2>1, TreeAssumption DEF WithAncestors
<1>3. u = IF filter # Empty /\ x \in paths THEN [kept EXCEPT !.found = paths] ELSE kept
  BY DEF BuildTreeFrom
<1>4. (filter # Empty) \in BOOLEAN
  OBVIOUS
<1> HIDE DEF paths
<1>5. /\ kept \in Views /\ kept.items = v.items \ Below(x) /\ kept.expanded = v.expanded \ Below(x)
      /\ kept.showInactive = showInactive /\ kept.search = (filter # Empty)
  BY <1>1, <1>4 DEF Views
<1> HIDE DEF kept
<1>6. /\ u \in Views /\ u.items = v.items \ Below(x) /\ u.expanded = v.expanded \ Below(x)
      /\ u.showInactive = showInactive /\ u.search = (filter # Empty)
  BY <1>2, <1>3, <1>5 DEF Views
<1>7. ASSUME NEW y \in u.items, NEW z \in Ancestors[y]
      PROVE  z \in u.items
  <2>1. y \in Items /\ y \in v.items /\ y \notin Below(x)
    BY <1>1, <1>6, ViewFields
  <2>2. z \in v.items
    BY <2>1 DEF Rebuildable
  <2>3. x \notin Ancestors[y] /\ Ancestors[z] \subseteq Ancestors[y]
    BY <2>1, AboveAbove DEF Below
  <2> QED BY <1>6, <2>2, <2>3 DEF Below
<1>8. Follows(u, scene)
  BY <1>6, <1>7 DEF Follows, Rebuildable
<1>9. \A y \in Items : /\ y \in {x} \cup Below(x) => FetchedRightly(u, scene, y)
                       /\ FetchedRightly(v, scene, y) => FetchedRightly(u, scene, y)
  BY <1>1, <1>6, BelowGone DEF FetchedRightly
<1> QED BY <1>1, <1>6, <1>8, <1>9 DEF Rebuilt

(* rebuildSubtree too, and then all that is displayed as expanded shows its children, if what is  *)
(* not rebuilt was fetched rightly.                                                               *)
LEMMA SubtreeRebuilt ==
    ASSUME NEW scene \in Scenes, NEW v, NEW x, Rebuildable(v, scene, x),
           NEW filter \in Filters, NEW showInactive \in BOOLEAN, NEW pathChange,
           NEW u, u = RebuildSubtree(v, scene, x, filter, showInactive, pathChange)
    PROVE  /\ Rebuilt(u, v, scene, x, filter, showInactive)
           /\ filter = Empty
              /\ (\A y \in Items : y \in {x} \cup Below(x) \/ FetchedRightly(v, scene, y)) =>
                 Shows(u, scene)
<1> DEFINE w == BuildTreeFrom(v, scene, x, filter, showInactive)
           new(y) == IF y \in DOMAIN pathChange THEN pathChange[y] ELSE y
           paths == {new(y) : y \in FindExpandedPaths(v, x)}
<1>1. x \in v.items
  BY DEF Rebuildable
<1>2. u = ExpandPaths(w, scene, paths)
  BY <1>1 DEF RebuildSubtree
<1>3. Rebuilt(w, v, scene, x, filter, showInactive)
  BY BuiltTree
<1> HIDE DEF w, paths
<1>4. Follows(w, scene)
  BY <1>3 DEF Rebuilt
<1>5. Grows(u, w, scene)
  BY <1>2, <1>4, ExpandPathsGrows
<1>6. filter = Empty => ~ w.search
  BY <1>3 DEF Rebuilt
<1>7. /\ Follows(u, scene) /\ u.search = (filter # Empty) /\ u.showInactive = showInactive
      /\ v.items \ Below(x) \subseteq u.items
  BY <1>3, <1>5 DEF Rebuilt, Grows
<1>8. ASSUME NEW y \in u.items \ (v.items \ Below(x))
      PROVE  u.showInactive \/ y \notin Inactive
  BY <1>3, <1>5, <1>8 DEF Rebuilt, Grows
<1>9. x \in Items
  BY <1>1, ViewFields DEF Rebuildable
<1>10. ASSUME filter = Empty, NEW y \in Items, FetchedRightly(w, scene, y)
       PROVE  FetchedRightly(u, scene, y)
  BY <1>5, <1>6, <1>10 DEF Grows
<1>11. Rebuilt(u, v, scene, x, filter, showInactive)
  <2>1. ASSUME filter = Empty
        PROVE  /\ FetchedRightly(u, scene, x)
               /\ \A y \in Items : y \in Below(x) \/ FetchedRightly(v, scene, y) =>
                     FetchedRightly(u, scene, y)
    BY <1>3, <1>9, <1>10, <2>1 DEF Rebuilt
  <2> QED BY <1>7, <1>8, <2>1 DEF Rebuilt
<1>12. ASSUME filter = Empty,
              \A y \in Items : y \in {x} \cup Below(x) \/ FetchedRightly(v, scene, y)
       PROVE  Shows(u, scene)
  <2>1. ~ w.search /\ \A y \in Items : FetchedRightly(w, scene, y)
    BY <1>3, <1>6, <1>12 DEF Rebuilt
  <2> QED BY <1>2, <1>4, <2>1, ExpandPathsGrows
<1> QED BY <1>11, <1>12

(* A view of the root item alone is of the scene, and has fetched nothing. *)
LEMMA NewView ==
    ASSUME NEW scene \in Scenes, NEW v \in Views, v.items = {Root}, v.expanded = {}
    PROVE  Follows(v, scene) /\ \A y \in Items : FetchedRightly(v, scene, y)
<1>2. Follows(v, scene)
  <2>1. Ancestors[Root] = {} /\ Root \in scene
    BY SceneClosed, TreeAssumption
  <2>2. /\ v.items \subseteq scene /\ v.expanded \subseteq v.items
        /\ \A x \in v.items : Ancestors[x] \subseteq v.items
    BY <2>1
  <2> QED BY <2>2 DEF Follows
<1>3. \A y \in Items : FetchedRightly(v, scene, y)
  BY DEF FetchedRightly, Children
<1> QED BY <1>2, <1>3

(* The view that the explorer opens with shows all that it displays as expanded. *)
LEMMA OpenedTree ==
    ASSUME NEW scene \in Scenes, NEW showInactive \in BOOLEAN,
           NEW v, v = OpenedView(scene, showInactive)
    PROVE  /\ Follows(v, scene) /\ ~ v.search /\ v.showInactive = showInactive /\ Root \in v.items
           /\ \A y \in v.items : showInactive \/ y \notin Inactive
           /\ \A y \in Items : FetchedRightly(v, scene, y)
           /\ Shows(v, scene)
<1> DEFINE new == NewModel(TRUE, FALSE, {}, showInactive)
           root == SetExpanded(new, scene, {Root})
<1>1. /\ Follows(new, scene) /\ ~ new.search /\ new.showInactive = showInactive
      /\ new.items = {Root} /\ \A y \in Items : FetchedRightly(new, scene, y)
  <2>1. /\ new.items = {Root} /\ ~ new.search /\ new.showInactive = showInactive
        /\ new.expanded = {} /\ new \in Views
    BY TreeAssumption DEF NewModel, Views
  <2> HIDE DEF new
  <2> QED BY <2>1, NewView
<1>2. v = SetExpanded(root, scene, root.items)
  BY DEF OpenedView
<1> HIDE DEF new
<1>3. Grows(root, new, scene)
  BY <1>1, SetExpandedGrows
<1> HIDE DEF root
<1>4. Follows(root, scene) /\ ~ root.search /\ \A y \in Items : FetchedRightly(root, scene, y)
  BY <1>1, <1>3 DEF Grows
<1>5. Grows(v, root, scene) /\ Shows(v, scene)
  BY <1>2, <1>4, SetExpandedGrows
<1>6. Grows(v, new, scene)
  BY <1>3, <1>5, GrowsTwice
<1>7. \A y \in v.items : showInactive \/ y \notin Inactive
  BY <1>1, <1>6, TreeAssumption DEF Grows
<1> QED BY <1>1, <1>5, <1>6, <1>7 DEF Grows

-----------------------------------------------------------------------------
(* Another scene. *)

(* What was fetched rightly still is in a scene where no active child came to what the tree has. *)
LEMMA FetchedInAnother ==
    ASSUME NEW sc \in Scenes, NEW v, Follows(v, sc), NEW sc2 \in Scenes, v.items \subseteq sc2,
           \A z \in sc2 \ sc : z \in Inactive \/ Parent[z] \notin v.items,
           NEW y \in Items, FetchedRightly(v, sc, y)
    PROVE  FetchedRightly(v, sc2, y)
<1>1. v \in Views /\ v.items \subseteq Items
  BY ViewFields DEF Follows
<1>2. CASE Children(v, y) = {}
  BY <1>2 DEF FetchedRightly
<1>3. CASE Children(v, y) # {}
  <2>1. PICK c \in v.items \ {Root} : Parent[c] = y
    BY <1>3 DEF Children
  <2>2. y \in v.items
    BY <1>1, <2>1, ParentAbove DEF Follows
  <2>3. FilteredChildren(sc, FALSE, y) \subseteq Children(v, y)
    BY <1>3 DEF FetchedRightly
  <2>4. FilteredChildren(sc2, FALSE, y) \subseteq FilteredChildren(sc, FALSE, y)
    BY <2>2 DEF FilteredChildren
  <2>5. Children(v, y) \subseteq FilteredChildren(sc2, TRUE, y)
    BY DEF Children, FilteredChildren
  <2> QED BY <2>3, <2>4, <2>5 DEF FetchedRightly
<1> QED BY <1>2, <1>3

(* What shows its children still does in a scene where no child that it lets through came.       *)
LEMMA ShownInAnother ==
    ASSUME NEW sc, NEW v, NEW sc2, Shows(v, sc),
           \A z \in sc2 \ sc : (z \in Inactive /\ ~ v.showInactive) \/ Parent[z] \notin v.items
    PROVE  Shows(v, sc2)
<1>1. ASSUME NEW x \in Displayed(v) \cap v.expanded, NEW z \in FilteredChildren(sc2, v.showInactive, x)
      PROVE  z \in v.items
  <2>1. x \in v.items
    BY DEF Displayed
  <2>2. z \in sc
    BY <2>1 DEF FilteredChildren
  <2>3. z \in FilteredChildren(sc, v.showInactive, x)
    BY <2>2 DEF FilteredChildren
  <2> QED BY <2>3 DEF Shows
<1> QED BY <1>1 DEF Shows

(* The children of an item do not depend on what is below another. *)
LEMMA ChildrenOutside ==
    ASSUME NEW sc \in Scenes, NEW sc2 \in Scenes, NEW x \in Items,
           \A z \in Items \ Below(x) : z \in sc2 <=> z \in sc,
           NEW y \in Items, y \notin {x} \cup Below(x)
    PROVE  \A on \in BOOLEAN : FilteredChildren(sc2, on, y) = FilteredChildren(sc, on, y)
<1>1. ASSUME NEW z \in Items \ {Root}, Parent[z] = y
      PROVE  z \in sc2 <=> z \in sc
  <2>1. Ancestors[z] = {y} \cup Ancestors[y]
    BY <1>1, ParentAbove
  <2>2. z \notin Below(x)
    BY <2>1 DEF Below
  <2> QED BY <2>2
<1>2. sc \subseteq Items /\ sc2 \subseteq Items
  BY SceneClosed
<1> QED BY <1>1, <1>2 DEF FilteredChildren

(* A tree that is expanded throughout shows all. *)
LEMMA ExpandAllShows ==
    ASSUME NEW scene \in Scenes, NEW v, Follows(v, scene), ~ v.search,
           \A x \in Items : FetchedRightly(v, scene, x), NEW u, u = ExpandAll(v, scene)
    PROVE  Shows(u, scene)
<1> DEFINE w == [u EXCEPT !.expanded = v.expanded]
<1>1. Grows(u, v, scene) /\ u.expanded = u.items /\ FetchedFrom(w, v, scene, Items)
  BY ExpandAllGrows
<1>2. v \in Views /\ u \in Views /\ u.items \subseteq Items /\ u.showInactive = v.showInactive
  BY <1>1, ViewFields DEF Grows, Follows
<1>3. w \in Views /\ w.items = u.items
  BY <1>2 DEF Follows, Views
<1> HIDE DEF w
<1>4. \A x \in u.items : FilteredChildren(scene, u.showInactive, x) \subseteq u.items
  BY <1>1, <1>2, <1>3, AllFetched
<1> QED BY <1>1, <1>4 DEF Shows
=============================================================================
