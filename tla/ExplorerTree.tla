---------------------------- MODULE ExplorerTree ----------------------------
(***************************************************************************)
(* The tree of the USD explorer: src/UFEUI/treeModel.cpp, the items it      *)
(* holds (src/UFEUI/treeItem.cpp) and the expansion of its view             *)
(* (src/UFEUI/utils.cpp).  It has no thread of its own: these are operators *)
(* that take a view and return what the code leaves of it.                  *)
(*                                                                          *)
(* A view is a record of                                                    *)
(*   items          the scene items that have a TreeItem (_treeItemMap)     *)
(*   search, found  _useSearchItems and _searchItemsPaths                   *)
(*   showInactive   _childFilter, as whether it lets inactive prims through *)
(*   expanded       the indices expanded in the QTreeView                   *)
(* Items are named by their paths.  A scene is the set of items that exist; *)
(* it is closed under Parent.                                               *)
(***************************************************************************)
EXTENDS Naturals, FiniteSets

CONSTANTS Items,      \* every path that may be in the scene
          Root,       \* the root item of the explorer
          Parent,     \* the path each other path is right under
          Ancestors,  \* and all those it is under
          Inactive,   \* the prims that are hidden unless inactive ones are shown
          Empty,      \* the empty search filter
          Matches     \* the paths whose names match, for each other filter

ASSUME TreeAssumption ==
    /\ IsFiniteSet(Items) /\ Root \in Items /\ Root \notin Inactive
    /\ Parent \in [Items \ {Root} -> Items]
    /\ Ancestors \in [Items -> SUBSET Items] /\ Ancestors[Root] = {}
    /\ \A x \in Items \ {Root} :
          /\ x \notin Ancestors[x] /\ Root \in Ancestors[x]
          /\ Ancestors[x] = {Parent[x]} \cup Ancestors[Parent[x]]
    /\ \A x \in Items : \A y \in Ancestors[x] :
          /\ Ancestors[y] \subseteq Ancestors[x]
          /\ \E z \in {x} \cup (Ancestors[x] \ {Root}) : Parent[z] = y
    /\ Empty \notin DOMAIN Matches
    /\ Matches \in [DOMAIN Matches -> SUBSET (Items \ {Root})]

Filters == {Empty} \cup DOMAIN Matches

Below(x) == {y \in Items : x \in Ancestors[y]}

Scenes == {s \in SUBSET Items : Root \in s /\ \A x \in s : Ancestors[x] \subseteq s}

(* What UFE's filteredChildren returns for an item; nothing for one that is gone. *)
FilteredChildren(scene, showInactive, x) ==
    {y \in scene \ {Root} : Parent[y] = x /\ (showInactive \/ y \notin Inactive)}

(* The items of the paths and of all that they are under. *)
WithAncestors(paths) == paths \cup UNION {Ancestors[x] : x \in paths}

(* ItemSearch::findMatchingPaths when nothing changes while it runs. *)
FindMatchingPaths(scene, showInactive, x, filter) ==
    {y \in Below(x) \cap scene \cap Matches[filter] :
        showInactive \/ ({y} \cup (Ancestors[y] \cap Below(x))) \cap Inactive = {}}

(* TreeModel::canFetchMore and fetchMore for one item: the children it adds.  None when the item *)
(* has as many as it should.                                                                     *)
FetchMore(v, scene, x) ==
    LET all      == FilteredChildren(scene, v.showInactive, x)
        children == IF v.search THEN all \cap v.found ELSE all
        current  == {y \in v.items \ {Root} : Parent[y] = x}
    IN  IF Cardinality(children) = Cardinality(current) THEN {} ELSE children

(* The view once every item of `parents` that is in the tree, or gets there, has fetched: an item *)
(* gets there with all that is above it.                                                         *)
Fetch(v, scene, parents) ==
    LET fetched == UNION {FetchMore(v, scene, x) : x \in parents}
    IN  [v EXCEPT !.items = @ \cup {y \in fetched : Ancestors[y] \subseteq @ \cup fetched}]

(* The view fetches the children of what it displays as expanded. *)
Layout(v, scene) ==
    Fetch(v, scene, {x \in v.expanded : Ancestors[x] \subseteq v.expanded})

SetExpanded(v, scene, paths) ==
    Layout([v EXCEPT !.expanded = @ \cup (paths \cap v.items)], scene)

ExpandAll(v, scene) ==
    LET all == Fetch(v, scene, Items) IN [all EXCEPT !.expanded = all.items]

(* findExpandedPaths: what is expanded from `x` down, without a gap; nothing when `x` is not. *)
FindExpandedPaths(v, x) ==
    {y \in v.expanded \cap ({x} \cup Below(x)) :
        {x} \cup (Ancestors[y] \cap Below(x)) \subseteq v.expanded}

(* expandPaths: paths which are not in the tree make the items above them fetch. *)
ExpandPaths(v, scene, paths) ==
    SetExpanded(Fetch(v, scene, UNION {Ancestors[x] : x \in (paths \ v.items)}), scene, paths)

(* TreeModel::buildTreeFrom for an item of the tree: its children go and are fetched again when  *)
(* it is expanded.                                                                               *)
BuildTreeFrom(v, scene, x, filter, showInactive) ==
    LET kept  == [v EXCEPT !.items = @ \ Below(x), !.expanded = @ \ Below(x),
                           !.showInactive = showInactive, !.search = filter # Empty]
        paths == WithAncestors(FindMatchingPaths(scene, showInactive, x, filter))
    IN  IF filter # Empty /\ x \in paths THEN [kept EXCEPT !.found = paths] ELSE kept

(* Explorer::rebuildSubtree, with the paths that the ExpandStateGuard maps to new ones. *)
RebuildSubtree(v, scene, x, filter, showInactive, pathChange) ==
    IF x \notin v.items THEN v
    ELSE LET new(y) == IF y \in DOMAIN pathChange THEN pathChange[y] ELSE y
         IN  ExpandPaths(BuildTreeFrom(v, scene, x, filter, showInactive), scene,
                         {new(y) : y \in FindExpandedPaths(v, x)})

(* A new model, of the root item or of nothing: buildTreeFrom with the pseudo-root. *)
NewModel(hasRoot, search, found, showInactive) ==
    [items |-> IF hasRoot THEN {Root} ELSE {}, search |-> search, found |-> found,
     showInactive |-> showInactive, expanded |-> {}]

(* setupUiFromRootItem: the tree of the root item, expanded to depth 1. *)
OpenedView(scene, showInactive) ==
    LET root == SetExpanded(NewModel(TRUE, FALSE, {}, showInactive), scene, {Root})
    IN  SetExpanded(root, scene, root.items)

(* What the view displays, the items in closed branches left out. *)
Displayed(v) == {x \in v.items : Ancestors[x] \subseteq v.expanded}

Views == [items : SUBSET Items, search : BOOLEAN, found : SUBSET Items,
          showInactive : BOOLEAN, expanded : SUBSET Items]
=============================================================================
