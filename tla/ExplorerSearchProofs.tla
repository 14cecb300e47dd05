------------------------ MODULE ExplorerSearchProofs ------------------------
(***************************************************************************)
(* Theorems about ExplorerSearch, for any tree of items, any filters and    *)
(* any number of edits.  IInv is what holds of the search, whatever the     *)
(* view: who waits for whom, and what the thread has yet to find.  TreeInv, *)
(* proved from it, is what holds of the view.                               *)
(***************************************************************************)
EXTENDS ExplorerSearch, ExplorerTreeProofs

SearchType == [state : {"none", "running", "finished"}, filter : Filters,
               showInactive : BOOLEAN, todo : SUBSET Items, found : SUBSET Items]

(* The types of all but the view. *)
Types ==
    /\ scene \in Scenes /\ stable \subseteq scene
    /\ text \in Filters /\ previousFilter \in Filters
    /\ showInactive \in BOOLEAN /\ timer \in BOOLEAN /\ enabled \in BOOLEAN
    /\ search \in SearchType
    /\ main \in {"idle", "waiting"}

(* The main thread, the timer and the search agree on whether there is a search, and which. *)
Protocol ==
    /\ main = "waiting" => search.state # "none"
    /\ main = "idle" /\ search.state # "none" => search.filter = text
    /\ timer \/ ~ enabled => search.state # "none"

Seen(x) == search.showInactive \/ ({x} \cup Ancestors[x]) \cap Inactive = {}

(* What stays and can be seen is found, or below an item that is still to be visited. *)
Frontier ==
    /\ search.state = "finished" => search.todo = {}
    /\ search.state # "none" /\ search.filter # Empty =>
          \A x \in stable \ {Root} : Seen(x) =>
              \/ x \in Matches[search.filter] => x \in search.found
              \/ \E y \in Ancestors[x] : y \in search.todo

IInv == Types /\ Protocol /\ Frontier

-----------------------------------------------------------------------------
(* What an edit does apart from the view: it leaves a scene, and does not touch the search. *)
EditsTheScene ==
    /\ scene' \in Scenes /\ stable' = stable \cap scene'
    /\ UNCHANGED <<search, explorer>>

(* Each action that edits the scene does that. *)
LEMMA EditSteps ==
    ASSUME Types,
           \/ \E x \in Items : ObjectAdd(x) \/ ObjectDelete(x)
           \/ \E x, y \in Items : ObjectRename(x, y) \/ ObjectReparent(x, y)
           \/ \E x \in Items, after \in Scenes : SubtreeInvalidate(x, after)
    PROVE  EditsTheScene
<1> scene \in Scenes
  BY DEF Types
<1>1. ASSUME NEW after \in Scenes, EditScene(after) PROVE EditsTheScene
  BY <1>1 DEF EditScene, EditsTheScene
<1>2. ASSUME NEW x \in Items, ObjectAdd(x) PROVE EditsTheScene
  <2>1. x \in Items \ {Root} /\ Parent[x] \in scene /\ EditScene(scene \cup {x})
    BY <1>2 DEF ObjectAdd, Scenes
  <2> QED BY <2>1, <1>1, AddedScene
<1>3. ASSUME NEW x \in Items, ObjectDelete(x) PROVE EditsTheScene
  <2>1. x \in scene \ {Root} /\ EditScene(scene \ ({x} \cup Below(x)))
    BY <1>3 DEF ObjectDelete
  <2> QED BY <2>1, <1>1, RemovedScene
<1>4. ASSUME NEW x \in Items, NEW y \in Items, ObjectRename(x, y) \/ ObjectReparent(x, y)
      PROVE  EditsTheScene
  <2>1. Moves(x, y) /\ EditScene((scene \ {x}) \cup {y})
    BY <1>4 DEF ObjectRename, ObjectReparent
  <2> QED BY <1>1, <2>1, MovedScene DEF Moves
<1>5. ASSUME NEW x \in Items, NEW after \in Scenes, SubtreeInvalidate(x, after)
      PROVE  EditsTheScene
  BY <1>1, <1>5 DEF SubtreeInvalidate
<1> QED BY <1>2, <1>3, <1>4, <1>5

(* What a click does apart from that. *)
Clicks ==
    /\ UNCHANGED <<scene, stable, search, text, previousFilter, main, timer, enabled>>
    /\ showInactive' \in BOOLEAN

(* A click changes the view, or the child filter of later searches. *)
LEMMA ClickSteps ==
    ASSUME Types, SetChildFilter \/ \E x \in Items : Expand(x) \/ Collapse(x)
    PROVE  Clicks
BY DEF Types, SetChildFilter, Expand, Collapse, explorer, Clicks

-----------------------------------------------------------------------------
(* A search that starts is one for the filter that is typed. *)
LEMMA Started ==
    ASSUME Types, NEW f \in Filters, StartSearch(f), text' = f,
           UNCHANGED <<scene, showInactive, previousFilter, enabled>>
    PROVE  IInv'
<1>1. /\ search' = [state |-> "running", filter |-> f, showInactive |-> showInactive,
                    todo |-> IF f = Empty THEN {} ELSE {Root}, found |-> {}]
      /\ timer' = TRUE /\ stable' = scene /\ main' = "idle"
  BY DEF StartSearch
<1>2. search' \in SearchType
  BY <1>1, TreeAssumption DEF Types, SearchType
<1>3. Types'
  BY <1>1, <1>2 DEF Types
<1>4. Protocol'
  BY <1>1 DEF Protocol
<1>5. ASSUME f # Empty, NEW x \in stable' \ {Root}
      PROVE  \E y \in Ancestors[x] : y \in search'.todo
  <2>1. Root \in Ancestors[x]
    BY <1>1, <1>5, TreeAssumption DEF Types, Scenes
  <2> QED BY <1>1, <1>5, <2>1
<1>6. Frontier'
  BY <1>1, <1>5 DEF Frontier
<1> QED BY <1>3, <1>4, <1>6 DEF IInv

(* One item is visited: what stays below it is found, or below one of its children. *)
LEMMA Visited ==
    ASSUME IInv, NEW x \in Items, Visit(x)
    PROVE  IInv'
<1> DEFINE children == FilteredChildren(scene, search.showInactive, x)
<1>1. /\ search.state = "running" /\ x \in search.todo
      /\ search' = [search EXCEPT !.todo = (@ \ {x}) \cup children,
                                  !.found = @ \cup (children \cap Matches[search.filter])]
      /\ UNCHANGED <<scene, stable, explorer>>
  BY DEF Visit
<1>2. search \in SearchType /\ scene \in Scenes /\ stable \subseteq scene
  BY DEF IInv, Types
<1>3. children \subseteq Items
  BY <1>2 DEF FilteredChildren, Scenes
<1>4. /\ search'.state = "running" /\ search'.filter = search.filter
      /\ search'.showInactive = search.showInactive
      /\ search'.todo = (search.todo \ {x}) \cup children
      /\ search'.found = search.found \cup (children \cap Matches[search.filter])
  BY <1>1, <1>2 DEF SearchType
<1>5. search' \in SearchType
  BY <1>1, <1>2, <1>3 DEF SearchType
<1>6. Types'
  BY <1>1, <1>5 DEF IInv, Types, explorer
<1>7. Protocol'
  BY <1>1, <1>4 DEF IInv, Protocol, explorer
<1>8. ASSUME search.filter # Empty, NEW z \in stable \ {Root}, Seen(z)
      PROVE  \/ z \in Matches[search.filter] => z \in search'.found
             \/ \E y \in Ancestors[z] : y \in search'.todo
  <2>1. z \in scene /\ z \in Items /\ Ancestors[z] \subseteq scene
    BY <1>2 DEF Scenes
  <2>2. CASE z \in Matches[search.filter] => z \in search.found
    BY <1>4, <2>2
  <2>3. CASE \E y \in Ancestors[z] : y \in search.todo /\ y # x
    BY <1>4, <2>3
  <2>4. CASE x \in Ancestors[z]
    <3>1. PICK c \in {z} \cup (Ancestors[z] \ {Root}) : Parent[c] = x
      BY <2>1, <2>4, TreeAssumption
    <3>2. c \in scene \ {Root}
      BY <2>1, <3>1
    <3>3. search.showInactive \/ c \notin Inactive
      BY <1>8, <3>1 DEF Seen
    <3>4. c \in children
      BY <3>1, <3>2, <3>3 DEF FilteredChildren
    <3>5. CASE c = z
      BY <1>4, <3>4, <3>5
    <3>6. CASE c \in Ancestors[z]
      BY <1>4, <3>4, <3>6
    <3> QED BY <3>1, <3>5, <3>6
  <2>5. \/ z \in Matches[search.filter] => z \in search.found
        \/ \E y \in Ancestors[z] : y \in search.todo
    BY <1>1, <1>8 DEF IInv, Frontier
  <2> QED BY <2>2, <2>3, <2>4, <2>5
<1>9. Frontier'
  <2>1. \A z : Seen(z)' = Seen(z)
    BY <1>4 DEF Seen
  <2> QED BY <1>1, <1>4, <1>8, <2>1 DEF Frontier
<1> QED BY <1>6, <1>7, <1>9 DEF IInv

(* The invariant holds to begin with. *)
LEMMA InitInv == Init => IInv
<1> SUFFICES ASSUME Init PROVE IInv
  OBVIOUS
<1>1. search = NoSearch /\ search \in SearchType
  BY DEF Init, NoSearch, SearchType, Filters
<1>2. Types
  BY <1>1 DEF Init, Types, Filters
<1>3. Protocol
  BY <1>1 DEF Init, Protocol, NoSearch
<1>4. Frontier
  BY <1>1 DEF Frontier, NoSearch
<1> QED BY <1>2, <1>3, <1>4 DEF IInv

(* And every step keeps it. *)
LEMMA NextInv == IInv /\ [Next]_vars => IInv'
<1> SUFFICES ASSUME IInv, [Next]_vars PROVE IInv'
  OBVIOUS
<1> USE DEF IInv
<1>1. ASSUME NEW f \in Filters, OnSearchFilterChanged(f) PROVE IInv'
  <2>1. CASE search.state = "running"
    <3>1. /\ main' = "waiting" /\ text' = f
          /\ UNCHANGED <<scene, stable, search, timer, showInactive, previousFilter, enabled>>
      BY <1>1, <2>1 DEF OnSearchFilterChanged
    <3>2. Types'
      BY <3>1 DEF Types
    <3>3. Protocol'
      BY <2>1, <3>1 DEF Protocol
    <3>4. Frontier'
      BY <3>1 DEF Frontier, Seen
    <3> QED BY <3>2, <3>3, <3>4
  <2>2. CASE search.state # "running"
    BY <1>1, <2>2, Started DEF OnSearchFilterChanged
  <2> QED BY <2>1, <2>2
<1>2. CASE WaitReturns
  <2>1. StartSearch(text) /\ text' = text /\ text \in Filters
        /\ UNCHANGED <<scene, showInactive, previousFilter, enabled>>
    BY <1>2 DEF WaitReturns, Types
  <2> QED BY <2>1, Started
<1>3. CASE Timeout
  <2>1. /\ timer /\ timer' = FALSE /\ enabled' = FALSE
        /\ UNCHANGED <<scene, stable, search, text, showInactive, previousFilter, main>>
    BY <1>3 DEF Timeout
  <2>2. Types'
    BY <2>1 DEF Types
  <2>3. Protocol'
    BY <2>1 DEF Protocol
  <2>4. Frontier'
    BY <2>1 DEF Frontier, Seen
  <2> QED BY <2>2, <2>3, <2>4
<1>4. ASSUME NEW x \in Items, Visit(x) PROVE IInv'
  BY <1>4, Visited
<1>5. CASE Finish
  <2>1. /\ search.state = "running" /\ search.todo = {}
        /\ search' = [search EXCEPT !.state = "finished"]
        /\ UNCHANGED <<scene, stable, explorer>>
    BY <1>5 DEF Finish
  <2>2. /\ search' \in SearchType /\ search'.state = "finished" /\ search'.todo = {}
        /\ search'.filter = search.filter /\ search'.found = search.found
        /\ search'.showInactive = search.showInactive
    BY <2>1 DEF Types, SearchType
  <2>3. Types'
    BY <2>1, <2>2 DEF Types, explorer
  <2>4. Protocol'
    BY <2>1, <2>2 DEF Protocol, explorer
  <2>5. Frontier'
    BY <2>1, <2>2 DEF Frontier, Seen
  <2> QED BY <2>3, <2>4, <2>5
<1>6. CASE ShowResults
  <2>1. /\ search.state = "finished" /\ search' = NoSearch /\ stable' = {}
        /\ timer' = FALSE /\ enabled' = TRUE /\ main = "idle"
        /\ previousFilter' = search.filter
        /\ UNCHANGED <<scene, text, showInactive, main>>
    BY <1>6 DEF ShowResults, SearchYieldedResults
  <2>2. search' \in SearchType /\ search'.state = "none"
    BY <2>1 DEF NoSearch, SearchType, Filters
  <2>3. previousFilter' \in Filters
    BY <2>1 DEF Types, SearchType
  <2>4. Types'
    BY <2>1, <2>2, <2>3 DEF Types
  <2>5. Protocol'
    BY <2>1, <2>2 DEF Protocol
  <2>6. Frontier'
    BY <2>2 DEF Frontier
  <2> QED BY <2>4, <2>5, <2>6
<1>7. CASE EditsTheScene
  <2>1. Types'
    BY <1>7 DEF EditsTheScene, explorer, Types
  <2>2. Protocol'
    BY <1>7 DEF EditsTheScene, explorer, Protocol
  <2>3. Frontier'
    BY <1>7 DEF EditsTheScene, Frontier, Seen
  <2> QED BY <2>1, <2>2, <2>3
<1>8. CASE Clicks
  <2>1. Types'
    BY <1>8 DEF Clicks, Types
  <2>2. Protocol'
    BY <1>8 DEF Clicks, Protocol
  <2>3. Frontier'
    BY <1>8 DEF Clicks, Frontier, Seen
  <2> QED BY <2>1, <2>2, <2>3
<1>9. CASE UNCHANGED vars
  BY <1>9 DEF vars, explorer, Types, Protocol, Frontier, Seen
<1> QED
  <2>1. Types
    OBVIOUS
  <2> QED BY <2>1, <1>1, <1>2, <1>3, <1>4, <1>5, <1>6, <1>7, <1>8, <1>9, EditSteps, ClickSteps
          DEF Next

-----------------------------------------------------------------------------
(* The invariant, of every reachable state. *)
THEOREM Invariant == Spec => []IInv
BY InitInv, NextInv, PTL DEF Spec

(* The view is never left disabled: not by a timer that elapses late, nor by a search given up.  *)
THEOREM NeverLeftDisabled == Spec => []DisabledOnlyWhileSearching
<1>1. IInv => DisabledOnlyWhileSearching
  BY DEF IInv, Protocol, DisabledOnlyWhileSearching
<1> QED BY Invariant, <1>1, PTL

(* A search of a scene that is edited meanwhile finds every match that stays where it is. *)
THEOREM NothingIsMissed == Spec => []SearchMissesNothing
<1>1. IInv => SearchMissesNothing
  <2> SUFFICES ASSUME IInv, search.state = "finished", search.filter # Empty,
                      NEW x \in Matches[search.filter] \cap stable, Seen(x)
               PROVE  x \in search.found
    BY DEF SearchMissesNothing, Seen
  <2>1. search.filter \in DOMAIN Matches
    BY DEF IInv, Types, SearchType, Filters
  <2>2. x # Root
    BY <2>1, TreeAssumption
  <2> QED BY <2>2 DEF IInv, Frontier
<1> QED BY Invariant, <1>1, PTL

(* The safety of SearchBox: results only ever change to those of the filter that is typed. *)
THEOREM RefinesSearchBox == Spec => Box!Init /\ [][Box!Next]_<<text, previousFilter>>
<1>1. Init => Box!Init
  BY DEF Init, Box!Init
<1>2. IInv /\ [Next]_vars => [Box!Next]_<<text, previousFilter>>
  <2> SUFFICES ASSUME IInv, [Next]_vars
               PROVE  Box!Next \/ UNCHANGED <<text, previousFilter>>
    OBVIOUS
  <2>1. ASSUME NEW f \in Filters, OnSearchFilterChanged(f) PROVE Box!Next
    <3>1. Box!Request(f)
      BY <2>1 DEF OnSearchFilterChanged, Box!Request
    <3> QED BY <3>1 DEF Box!Next
  <2>2. CASE ShowResults
    <3>1. /\ text = search.filter /\ search.filter \in Filters
          /\ previousFilter' = text /\ text' = text
      BY <2>2 DEF ShowResults, IInv, Protocol, Types, SearchType
    <3>2. CASE previousFilter # text
      BY <3>1, <3>2 DEF Box!Show, Box!Next
    <3> QED BY <3>1, <3>2
  <2>3. CASE WaitReturns \/ Timeout \/ Finish \/ UNCHANGED vars \/ \E x \in Items : Visit(x)
    BY <2>3 DEF WaitReturns, Timeout, Finish, Visit, vars, explorer
  <2>4. CASE EditsTheScene \/ Clicks
    BY <2>4 DEF EditsTheScene, Clicks, explorer
  <2>5. Types
    BY DEF IInv
  <2> QED BY <2>1, <2>2, <2>3, <2>4, <2>5, EditSteps, ClickSteps DEF Next
<1> QED BY Invariant, <1>1, <1>2, PTL DEF Spec

-----------------------------------------------------------------------------
(* The view: it is always of the scene, and is complete when there is no search. *)

(* Nobody has a part of its children, whichever child filters there were. *)
Fetched(v, sc) ==
    /\ ~ v.search /\ Root \in v.items
    /\ \A y \in Items : FetchedRightly(v, sc, y)

(* And what is displayed as expanded shows all, if the child filter of the model is that which is *)
(* chosen now.                                                                                    *)
Complete(v, sc, on) == Fetched(v, sc) /\ (v.showInactive = on => Shows(v, sc))

TreeInv ==
    /\ Follows(view, scene)
    /\ search.state = "none" /\ text = Empty => Complete(view, scene, showInactive)

(* A view to which nothing is done stays complete when no child that it lets through came. *)
LEMMA UnchangedView ==
    ASSUME NEW sc \in Scenes, NEW v, Follows(v, sc), NEW sc2 \in Scenes, v.items \subseteq sc2,
           NEW on \in BOOLEAN,
           \A z \in sc2 \ sc : (z \in Inactive /\ ~ on) \/ Parent[z] \notin v.items
    PROVE  Follows(v, sc2) /\ (Complete(v, sc, on) => Complete(v, sc2, on))
<1>1. Follows(v, sc2)
  BY DEF Follows
<1>2. ASSUME Complete(v, sc, on)
      PROVE  \A y \in Items : FetchedRightly(v, sc2, y)
  <2>1. \A z \in sc2 \ sc : z \in Inactive \/ Parent[z] \notin v.items
    OBVIOUS
  <2>2. \A y \in Items : FetchedRightly(v, sc, y)
    BY <1>2 DEF Complete, Fetched
  <2> QED BY <2>1, <2>2, FetchedInAnother
<1>3. ASSUME Complete(v, sc, on), v.showInactive = on
      PROVE  Shows(v, sc2)
  <2>1. Shows(v, sc)
    BY <1>3 DEF Complete
  <2>2. \A z \in sc2 \ sc : (z \in Inactive /\ ~ v.showInactive) \/ Parent[z] \notin v.items
    BY <1>3
  <2> QED BY <2>1, <2>2, ShownInAnother
<1> QED BY <1>1, <1>2, <1>3 DEF Complete, Fetched

(* A rebuild from x down in a scene that changed below x leaves a view of it, and a complete one  *)
(* when there is no filter: even if the child filter is another, if x is in the tree.             *)
LEMMA RebuiltView ==
    ASSUME NEW sc \in Scenes, NEW v, Follows(v, sc), NEW sc2 \in Scenes, NEW x \in Items,
           \A z \in Items \ Below(x) : z \in sc2 <=> z \in sc,
           NEW filter \in Filters, NEW on \in BOOLEAN, NEW pathChange,
           NEW u, u = RebuildSubtree(v, sc2, x, filter, on, pathChange)
    PROVE  /\ Follows(u, sc2)
           /\ filter = Empty /\ Fetched(v, sc) /\ (x \in v.items \/ Complete(v, sc, on)) =>
                 Complete(u, sc2, on)
<1>1. /\ v \in Views /\ v.items \subseteq Items /\ v.items \subseteq sc /\ v.expanded \subseteq v.items
      /\ \A y \in v.items : Ancestors[y] \subseteq v.items
  BY ViewFields DEF Follows
<1>2. CASE x \notin v.items
  <2>1. u = v
    BY <1>2 DEF RebuildSubtree
  <2>2. v.items \cap ({x} \cup Below(x)) = {}
    BY <1>1, <1>2, NoneBelow
  <2>3. v.items \subseteq sc2
    BY <1>1, <2>2
  <2>4. ASSUME NEW z \in sc2 \ sc
        PROVE  Parent[z] \notin v.items
    <3>1. z \in Below(x) /\ z \in Items \ {Root}
      BY SceneClosed
    <3>2. Parent[z] \in {x} \cup Below(x)
      BY <3>1, ParentAbove DEF Below
    <3> QED BY <2>2, <3>2
  <2>5. Follows(v, sc2) /\ (Complete(v, sc, on) => Complete(v, sc2, on))
    BY <2>3, <2>4, UnchangedView
  <2> QED BY <1>2, <2>1, <2>5
<1>3. CASE x \in v.items
  <2>1. Rebuildable(v, sc2, x)
    BY <1>1, <1>3 DEF Rebuildable
  <2>2. Rebuilt(u, v, sc2, x, filter, on)
    BY <2>1, SubtreeRebuilt
  <2>3. ASSUME filter = Empty, Fetched(v, sc)
        PROVE  Complete(u, sc2, on)
    <3>1. ASSUME NEW y \in Items, y \notin {x} \cup Below(x)
          PROVE  FetchedRightly(v, sc2, y)
      <4>1. FetchedRightly(v, sc, y)
        BY <2>3 DEF Fetched
      <4>2. \A b \in BOOLEAN : FilteredChildren(sc2, b, y) = FilteredChildren(sc, b, y)
        BY <3>1, ChildrenOutside
      <4> QED BY <4>1, <4>2 DEF FetchedRightly
    <3>2. Shows(u, sc2)
      BY <2>1, <2>3, <3>1, SubtreeRebuilt
    <3>3. \A y \in Items : FetchedRightly(u, sc2, y)
      BY <2>2, <2>3, <3>1 DEF Rebuilt
    <3>4. Root \in u.items /\ ~ u.search
      <4>1. Root \in v.items /\ Root \notin Below(x)
        BY <2>3, TreeAssumption DEF Fetched, Below
      <4> QED BY <2>2, <2>3, <4>1 DEF Rebuilt
    <3> QED BY <3>2, <3>3, <3>4 DEF Complete, Fetched
  <2> QED BY <2>2, <2>3 DEF Rebuilt
<1> QED BY <1>2, <1>3

(* What an edit leaves of the view. *)
KeepsTree ==
    /\ Follows(view', scene')
    /\ text = Empty /\ Complete(view, scene, showInactive) => Complete(view', scene', showInactive)

(* That is enough, as it leaves the search and the filters as they are. *)
LEMMA TreeKept ==
    ASSUME TreeInv, KeepsTree, UNCHANGED <<search, text, showInactive>>
    PROVE  TreeInv'
BY DEF TreeInv, KeepsTree

(* One subtree is rebuilt, for what changed below its root. *)
LEMMA RebuildKeeps ==
    ASSUME Types, TreeInv, scene' \in Scenes, NEW x \in Items,
           \A z \in Items \ Below(x) : z \in scene' <=> z \in scene,
           NEW pathChange, view' = Rebuild(view, x, pathChange)
    PROVE  KeepsTree
<1>1. scene \in Scenes /\ text \in Filters /\ showInactive \in BOOLEAN
  BY DEF Types
<1>2. Follows(view, scene)
  BY DEF TreeInv
<1>3. view' = RebuildSubtree(view, scene', x, text, showInactive, pathChange)
  BY DEF Rebuild
<1>4. /\ Follows(view', scene')
      /\ text = Empty /\ Fetched(view, scene)
            /\ (x \in view.items \/ Complete(view, scene, showInactive)) =>
         Complete(view', scene', showInactive)
  BY <1>1, <1>2, <1>3, RebuiltView
<1> QED BY <1>4 DEF KeepsTree, Complete

(* An item that comes is shown if the tree has what it is right under, and lets it through. *)
LEMMA ObjectAddKeeps ==
    ASSUME Types, TreeInv, NEW x \in Items, ObjectAdd(x), scene' \in Scenes
    PROVE  KeepsTree
<1>1. /\ x \notin scene /\ Parent[x] \in scene /\ scene' = scene \cup {x}
      /\ view' = IF /\ Parent[x] \in view.items
                    /\ x \in FilteredChildren(scene', showInactive, Parent[x])
                 THEN Rebuild(view, Parent[x], <<>>) ELSE view
  BY DEF ObjectAdd, EditScene
<1>2. /\ scene \in Scenes /\ x \in Items \ {Root} /\ Parent[x] \in Items
      /\ showInactive \in BOOLEAN /\ Follows(view, scene)
  BY <1>1, SceneClosed DEF Types, TreeInv
<1>3. x \in Below(Parent[x])
  BY <1>2, ParentAbove DEF Below
<1>4. CASE Parent[x] \in view.items /\ x \in FilteredChildren(scene', showInactive, Parent[x])
  <2>1. view' = Rebuild(view, Parent[x], <<>>)
    BY <1>1, <1>4
  <2>2. \A z \in Items \ Below(Parent[x]) : z \in scene' <=> z \in scene
    BY <1>1, <1>3
  <2> QED BY <1>2, <2>1, <2>2, RebuildKeeps
<1>5. CASE ~ (Parent[x] \in view.items /\ x \in FilteredChildren(scene', showInactive, Parent[x]))
  <2>1. view' = view
    BY <1>1, <1>5
  <2>2. (x \in Inactive /\ ~ showInactive) \/ Parent[x] \notin view.items
    BY <1>1, <1>2, <1>5 DEF FilteredChildren
  <2>3. view.items \subseteq scene'
    BY <1>1, <1>2 DEF Follows
  <2>4. \A z \in scene' \ scene : (z \in Inactive /\ ~ showInactive) \/ Parent[z] \notin view.items
    BY <1>1, <2>2
  <2>5. /\ Follows(view, scene')
        /\ Complete(view, scene, showInactive) => Complete(view, scene', showInactive)
    BY <1>2, <2>3, <2>4, UnchangedView
  <2> QED BY <2>1, <2>5 DEF KeepsTree
<1> QED BY <1>4, <1>5

(* An item that goes is taken from the tree. *)
LEMMA ObjectDeleteKeeps ==
    ASSUME Types, TreeInv, NEW x \in Items, ObjectDelete(x), scene' \in Scenes
    PROVE  KeepsTree
<1>1. /\ x \in scene \ {Root} /\ scene' = scene \ ({x} \cup Below(x))
      /\ view' = IF x \in view.items THEN Rebuild(view, Parent[x], <<>>) ELSE view
  BY DEF ObjectDelete, EditScene
<1>2. /\ scene \in Scenes /\ x \in Items \ {Root} /\ Parent[x] \in Items
      /\ showInactive \in BOOLEAN /\ Follows(view, scene)
  BY <1>1, ParentAbove DEF Types, TreeInv
<1>3. CASE x \in view.items
  <2>1. \A z \in Items \ Below(Parent[x]) : z \in scene' <=> z \in scene
    BY <1>1, <1>2, BelowParent
  <2> QED BY <1>1, <1>2, <1>3, <2>1, RebuildKeeps
<1>4. CASE x \notin view.items
  <2>1. view.items \cap ({x} \cup Below(x)) = {}
    BY <1>2, <1>4, NoneBelow DEF Follows
  <2>2. view.items \subseteq scene'
    BY <1>1, <1>2, <2>1 DEF Follows
  <2>3. scene' \ scene = {}
    BY <1>1
  <2>4. /\ Follows(view, scene')
        /\ Complete(view, scene, showInactive) => Complete(view, scene', showInactive)
    BY <1>2, <2>2, <2>3, UnchangedView
  <2> QED BY <1>1, <1>4, <2>4 DEF KeepsTree
<1> QED BY <1>3, <1>4

(* An item that is renamed has its new path in the tree. *)
LEMMA ObjectRenameKeeps ==
    ASSUME Types, TreeInv, NEW x \in Items, NEW y \in Items, ObjectRename(x, y), scene' \in Scenes
    PROVE  KeepsTree
<1>1. /\ x \in scene \ {Root} /\ y # Root /\ Parent[x] = Parent[y]
      /\ scene' = (scene \ {x}) \cup {y}
      /\ view' = Rebuild(view, Parent[x], [z \in {x} |-> y])
  BY DEF ObjectRename, Moves, EditScene
<1>2. x \in Items \ {Root} /\ y \in Items \ {Root} /\ Parent[x] \in Items
  BY <1>1, ParentAbove
<1>3. x \in Below(Parent[x]) /\ y \in Below(Parent[x])
  BY <1>1, <1>2, ParentAbove DEF Below
<1>4. \A z \in Items \ Below(Parent[x]) : z \in scene' <=> z \in scene
  BY <1>1, <1>3
<1> QED BY <1>1, <1>2, <1>4, RebuildKeeps

(* Everything below an item is another. *)
LEMMA SubtreeInvalidateKeeps ==
    ASSUME Types, TreeInv, NEW x \in Items, NEW after \in Scenes, SubtreeInvalidate(x, after)
    PROVE  KeepsTree
<1>1. /\ after \ Below(x) = scene \ Below(x) /\ scene' = after
      /\ view' = Rebuild(view, x, <<>>)
  BY DEF SubtreeInvalidate, EditScene
<1>2. \A z \in Items \ Below(x) : z \in scene' <=> z \in scene
  BY <1>1
<1> QED BY <1>1, <1>2, RebuildKeeps

(* An item that moves from under p to under q has two subtrees rebuilt, in a scene where both     *)
(* changed: after the first, what is right under q may be wrong still.                            *)
LEMMA ReparentedView ==
    ASSUME NEW sc \in Scenes, NEW v, Follows(v, sc), NEW sc2 \in Scenes,
           NEW x \in Items \ {Root}, NEW y \in Items \ {Root}, sc2 = (sc \ {x}) \cup {y},
           Below(x) \cap sc = {},
           NEW p, p = Parent[x], NEW q, q = Parent[y], p \notin {q} \cup Ancestors[q],
           NEW filter \in Filters, NEW on \in BOOLEAN,
           NEW old, old = RebuildSubtree(v, sc2, p, filter, on, <<>>),
           NEW u, u = RebuildSubtree(old, sc2, q, filter, on, <<>>)
    PROVE  Follows(u, sc2) /\ (filter = Empty /\ Complete(v, sc, on) => Complete(u, sc2, on))
<1>1. /\ v \in Views /\ v.items \subseteq Items /\ v.items \subseteq sc /\ v.expanded \subseteq v.items
      /\ \A z \in v.items : Ancestors[z] \subseteq v.items
  BY ViewFields DEF Follows
<1>2. /\ p \in Items /\ q \in Items /\ sc \subseteq Items /\ sc2 \subseteq Items
      /\ x \in Below(p) /\ q \notin {p} \cup Below(p)
  BY SceneClosed, ParentAbove DEF Below
<1>3. ASSUME NEW z \in Items, z # p, z # q, NEW b \in BOOLEAN
      PROVE  FilteredChildren(sc2, b, z) = FilteredChildren(sc, b, z)
  BY <1>3 DEF FilteredChildren
<1>4. ASSUME NEW z \in Items, z # p, z # q, FetchedRightly(v, sc, z)
      PROVE  FetchedRightly(v, sc2, z)
  BY <1>3, <1>4 DEF FetchedRightly
<1>5. q \notin v.items => FetchedRightly(v, sc2, q)
  <2>1. ASSUME NEW z \in v.items \ {Root}, Parent[z] = q
        PROVE  q \in v.items
    BY <1>1, <2>1, ParentAbove
  <2> QED BY <2>1 DEF FetchedRightly, Children
<1>6. p \in v.items => Rebuildable(v, sc2, p)
  BY <1>1, <1>2 DEF Rebuildable
<1>7. Follows(old, sc2)
  <2>1. CASE p \in v.items
    BY <1>6, <2>1, SubtreeRebuilt DEF Rebuilt
  <2>2. CASE p \notin v.items
    <3>1. x \notin v.items /\ old = v
      BY <1>1, <2>2, ParentAbove DEF RebuildSubtree
    <3> QED BY <1>1, <3>1 DEF Follows
  <2> QED BY <2>1, <2>2
<1>8. old \in Views /\ (q \in old.items => Rebuildable(old, sc2, q))
  BY <1>7 DEF Follows, Rebuildable
<1>9. Follows(u, sc2)
  <2>1. CASE q \in old.items
    BY <1>8, <2>1, SubtreeRebuilt DEF Rebuilt
  <2>2. CASE q \notin old.items
    BY <1>7, <2>2 DEF RebuildSubtree
  <2> QED BY <2>1, <2>2
<1>10. ASSUME filter = Empty, Complete(v, sc, on)
       PROVE  Complete(u, sc2, on)
  <2>1. /\ ~ v.search /\ Root \in v.items /\ \A z \in Items : FetchedRightly(v, sc, z)
        /\ v.showInactive = on => Shows(v, sc)
    BY <1>10 DEF Complete, Fetched
  <2>2. \A z \in Items : z = p \/ z = q \/ FetchedRightly(v, sc2, z)
    BY <1>4, <2>1
  <2>3. /\ \A z \in Items \ {q} : FetchedRightly(old, sc2, z)
        /\ q \notin v.items => FetchedRightly(old, sc2, q)
        /\ Root \in old.items /\ ~ old.search
        /\ v.items \cap {q} \subseteq old.items
        /\ q \notin old.items /\ old.showInactive = on => Shows(old, sc2)
    <3>1. CASE p \in v.items
      <4>1. Rebuilt(old, v, sc2, p, filter, on)
        BY <1>6, <3>1, SubtreeRebuilt
      <4>2. \A z \in Items \ {q} : FetchedRightly(old, sc2, z)
        BY <1>10, <2>2, <4>1 DEF Rebuilt
      <4>3. q \notin v.items => FetchedRightly(old, sc2, q)
        BY <1>2, <1>5, <1>10, <4>1 DEF Rebuilt
      <4>4. Root \notin Below(p)
        BY TreeAssumption DEF Below
      <4>5. Root \in old.items /\ ~ old.search /\ v.items \cap {q} \subseteq old.items
        BY <1>2, <1>10, <2>1, <4>1, <4>4 DEF Rebuilt
      <4>6. q \notin old.items => Shows(old, sc2)
        <5>1. ASSUME q \notin old.items
              PROVE  \A z \in Items : z \in {p} \cup Below(p) \/ FetchedRightly(v, sc2, z)
          BY <1>5, <2>2, <4>5, <5>1
        <5> QED BY <1>6, <1>10, <3>1, <5>1, SubtreeRebuilt
      <4> QED BY <4>2, <4>3, <4>5, <4>6
    <3>2. CASE p \notin v.items
      <4>1. old = v
        BY <3>2 DEF RebuildSubtree
      <4>2. Children(v, p) = {}
        <5>1. ASSUME NEW z \in v.items \ {Root}, Parent[z] = p
              PROVE  FALSE
          BY <1>1, <3>2, <5>1, ParentAbove
        <5> QED BY <5>1 DEF Children
      <4>3. FetchedRightly(v, sc2, p)
        BY <4>2 DEF FetchedRightly
      <4>4. ASSUME q \notin v.items, v.showInactive = on
            PROVE  Shows(v, sc2)
        <5>1. \A z \in sc2 \ sc : Parent[z] \notin v.items
          BY <4>4
        <5> QED BY <2>1, <4>4, <5>1, ShownInAnother
      <4> QED BY <1>5, <2>1, <2>2, <4>1, <4>3, <4>4
    <3> QED BY <3>1, <3>2
  <2>4. CASE q \in old.items
    <3>1. Rebuilt(u, old, sc2, q, filter, on)
      BY <1>8, <2>4, SubtreeRebuilt
    <3>2. \A z \in Items : FetchedRightly(u, sc2, z)
      BY <1>10, <2>3, <3>1 DEF Rebuilt
    <3>3. Shows(u, sc2)
      BY <1>8, <1>10, <2>3, <2>4, SubtreeRebuilt
    <3>4. Root \notin Below(q)
      BY TreeAssumption DEF Below
    <3>5. Root \in u.items /\ ~ u.search
      BY <1>10, <2>3, <3>1, <3>4 DEF Rebuilt
    <3> QED BY <3>2, <3>3, <3>5 DEF Complete, Fetched
  <2>5. CASE q \notin old.items
    <3>1. u = old
      BY <2>5 DEF RebuildSubtree
    <3>2. \A z \in Items : FetchedRightly(old, sc2, z)
      BY <2>3, <2>5
    <3> QED BY <2>3, <2>5, <3>1, <3>2 DEF Complete, Fetched
  <2> QED BY <2>4, <2>5
<1> QED BY <1>9, <1>10

(* An item that moves is taken from where it was and shown where it is. *)
LEMMA ObjectReparentKeeps ==
    ASSUME Types, TreeInv, NEW x \in Items, NEW y \in Items, ObjectReparent(x, y), scene' \in Scenes
    PROVE  KeepsTree
<1> DEFINE p == Parent[x]
           q == Parent[y]
           old == Rebuild(view, p, <<>>)
<1>1. /\ x \in scene \ {Root} /\ Below(x) \cap scene = {} /\ y # Root /\ q \in scene \ {x}
      /\ scene' = (scene \ {x}) \cup {y}
      /\ view' = IF p \in {q} \cup Ancestors[q] THEN old ELSE Rebuild(old, q, <<>>)
  BY DEF ObjectReparent, Moves, EditScene
<1>2. /\ scene \in Scenes /\ Follows(view, scene) /\ text \in Filters /\ showInactive \in BOOLEAN
      /\ x \in Items \ {Root} /\ y \in Items \ {Root} /\ p \in Items /\ q \in Items
  BY <1>1, ParentAbove DEF Types, TreeInv
<1>3. CASE p \in {q} \cup Ancestors[q]
  <2>1. x \in Below(p) /\ y \in Below(p)
    BY <1>2, <1>3, ParentAbove DEF Below
  <2>2. \A z \in Items \ Below(p) : z \in scene' <=> z \in scene
    BY <1>1, <2>1
  <2>3. view' = Rebuild(view, p, <<>>)
    BY <1>1, <1>3
  <2> HIDE DEF p
  <2> QED BY <1>2, <2>2, <2>3, RebuildKeeps
<1>4. CASE p \notin {q} \cup Ancestors[q]
  <2>1. /\ old = RebuildSubtree(view, scene', p, text, showInactive, <<>>)
        /\ view' = RebuildSubtree(old, scene', q, text, showInactive, <<>>)
    BY <1>1, <1>4 DEF Rebuild
  <2>2. p = Parent[x] /\ q = Parent[y]
    OBVIOUS
  <2> HIDE DEF p, q, old
  <2>3. /\ Follows(view', scene')
        /\ text = Empty /\ Complete(view, scene, showInactive) => Complete(view', scene', showInactive)
    BY <1>1, <1>2, <1>4, <2>1, <2>2, ReparentedView
  <2> QED BY <2>3 DEF KeepsTree
<1> QED BY <1>3, <1>4

-----------------------------------------------------------------------------
(* The model that the search thread built has at most its root: what is below is fetched later. *)
LEMMA ResultsView ==
    ASSUME Types
    PROVE  /\ Follows(Results, scene) /\ Results.search = (search.filter # Empty)
           /\ Results.found = WithAncestors(search.found)
           /\ Results.showInactive = search.showInactive
           /\ search.found # {} => Results.items = {Root}
           /\ search.filter = Empty => Fetched(Results, scene)
<1>1. /\ scene \in Scenes /\ search.found \subseteq Items /\ search.showInactive \in BOOLEAN
  BY DEF Types, SearchType
<1>2. WithAncestors(search.found) \subseteq Items
  BY <1>1, TreeAssumption DEF WithAncestors
<1>3. (search.filter # Empty) \in BOOLEAN
  OBVIOUS
<1>4. /\ Results.search = (search.filter # Empty)
      /\ Results.found = WithAncestors(search.found)
      /\ Results.showInactive = search.showInactive /\ Results.expanded = {}
      /\ Results.items = IF search.filter = Empty \/ search.found # {} THEN {Root} ELSE {}
  BY DEF Results, NewModel
<1>5. Results \in Views
  BY <1>1, <1>2, <1>3, TreeAssumption DEF Results, NewModel, Views
<1>6. Results.items = {} => Follows(Results, scene)
  BY <1>4, <1>5 DEF Follows
<1>7. Results.items = {Root} =>
         Follows(Results, scene) /\ \A y \in Items : FetchedRightly(Results, scene, y)
  BY <1>1, <1>4, <1>5, NewView
<1> QED BY <1>4, <1>6, <1>7 DEF Fetched

(* What is shown of the results is a view of the scene as it is then, and is complete when they   *)
(* are those of no filter.                                                                        *)
LEMMA ShowResultsTree ==
    ASSUME IInv, ShowResults
    PROVE  TreeInv'
<1>1. PICK saved :
         view' = IF ~ (previousFilter # Empty /\ search.filter = Empty) THEN ExpandAll(Results, scene)
                 ELSE IF saved = {} THEN Layout(Results, scene)
                 ELSE ExpandPaths(SetExpanded(Results, scene, {Root}), scene, saved)
  BY DEF ShowResults
<1>2. /\ scene' = scene /\ text' = text /\ showInactive' = showInactive
      /\ main = "idle" /\ search.state = "finished"
  BY DEF ShowResults
<1>3. scene \in Scenes /\ search.filter = text /\ Types
  BY <1>2 DEF IInv, Types, Protocol
<1>4. /\ Follows(Results, scene) /\ Results.search = (search.filter # Empty)
      /\ search.filter = Empty => Fetched(Results, scene)
  BY <1>3, ResultsView
<1> HIDE DEF Results
<1>5. /\ Grows(view', Results, scene)
      /\ Fetched(Results, scene) => Shows(view', scene)
  <2>1. CASE view' = ExpandAll(Results, scene)
    BY <1>3, <1>4, <2>1, ExpandAllGrows, ExpandAllShows DEF Fetched
  <2>2. CASE view' = Layout(Results, scene)
    BY <1>3, <1>4, <2>2, LayoutGrows DEF Fetched
  <2>3. CASE view' = ExpandPaths(SetExpanded(Results, scene, {Root}), scene, saved)
    <3> DEFINE v == SetExpanded(Results, scene, {Root})
    <3>1. Grows(v, Results, scene)
      BY <1>3, <1>4, SetExpandedGrows
    <3>2. view' = ExpandPaths(v, scene, saved)
      BY <2>3
    <3> HIDE DEF v
    <3>3. Follows(v, scene)
      BY <3>1 DEF Grows
    <3>4. Grows(view', v, scene)
      BY <1>3, <3>2, <3>3, ExpandPathsGrows
    <3>5. ASSUME Fetched(Results, scene)
          PROVE  Shows(view', scene)
      <4>1. ~ v.search /\ \A y \in Items : FetchedRightly(v, scene, y)
        BY <3>1, <3>5 DEF Grows, Fetched
      <4> QED BY <1>3, <3>2, <3>3, <4>1, ExpandPathsGrows
    <3> QED BY <3>1, <3>4, <3>5, GrowsTwice
  <2> QED BY <1>1, <2>1, <2>2, <2>3
<1>6. Fetched(Results, scene) => Fetched(view', scene)
  BY <1>5 DEF Grows, Fetched
<1> QED BY <1>2, <1>3, <1>4, <1>5, <1>6 DEF TreeInv, Complete, Grows

(* A click in the tree, or on the child filter. *)
LEMMA ClickTree ==
    ASSUME Types, TreeInv, SetChildFilter \/ \E x \in Items : Expand(x) \/ Collapse(x)
    PROVE  TreeInv'
<1>1. /\ scene \in Scenes /\ text \in Filters /\ showInactive \in BOOLEAN /\ Follows(view, scene)
      /\ view \in Views
  BY DEF Types, TreeInv, Follows
<1>2. CASE SetChildFilter
  <2>1. /\ view' = RebuildSubtree(view, scene, Root, text, showInactive', <<>>)
        /\ scene' = scene /\ search' = search /\ text' = text /\ showInactive' \in BOOLEAN
    BY <1>1, <1>2 DEF SetChildFilter
  <2>2. Root \in Items
    BY TreeAssumption
  <2>3. /\ Follows(view', scene)
        /\ text = Empty /\ Fetched(view, scene)
              /\ (Root \in view.items \/ Complete(view, scene, showInactive')) =>
           Complete(view', scene, showInactive')
    BY <1>1, <2>1, <2>2, RebuiltView
  <2> QED BY <2>1, <2>3 DEF TreeInv, Complete, Fetched
<1>3. ASSUME NEW x \in Items, Expand(x)
      PROVE  TreeInv'
  <2>1. /\ view' = SetExpanded(view, scene, {x}) /\ scene' = scene /\ search' = search
        /\ text' = text /\ showInactive' = showInactive
    BY <1>3 DEF Expand, explorer
  <2>2. /\ Grows(view', view, scene)
        /\ ~ view.search /\ (\A y \in Items : FetchedRightly(view, scene, y)) => Shows(view', scene)
    BY <1>1, <2>1, SetExpandedGrows
  <2>3. Fetched(view, scene) => Fetched(view', scene) /\ Shows(view', scene)
    BY <2>2 DEF Grows, Fetched
  <2> QED BY <2>1, <2>2, <2>3 DEF TreeInv, Complete, Grows
<1>4. ASSUME NEW x \in Items, Collapse(x)
      PROVE  TreeInv'
  <2>1. /\ view' = [view EXCEPT !.expanded = view.expanded \ {x}] /\ scene' = scene
        /\ search' = search /\ text' = text /\ showInactive' = showInactive
    BY <1>4 DEF Collapse, explorer
  <2>2. /\ view' \in Views /\ view'.items = view.items /\ view'.search = view.search
        /\ view'.showInactive = view.showInactive /\ view'.expanded = view.expanded \ {x}
    BY <1>1, <2>1 DEF Views
  <2>3. Follows(view', scene)
    BY <1>1, <2>2 DEF Follows
  <2>4. Fetched(view, scene) => Fetched(view', scene)
    BY <2>2 DEF Fetched, FetchedRightly, Children
  <2>5. Shows(view, scene) => Shows(view', scene)
    BY <2>2 DEF Shows, Displayed
  <2> QED BY <2>1, <2>2, <2>3, <2>4, <2>5 DEF TreeInv, Complete
<1> QED BY <1>2, <1>3, <1>4

(* The tree that the explorer opens with is complete. *)
LEMMA TreeInit ==
    ASSUME Init
    PROVE  TreeInv
<1>1. /\ scene \in Scenes /\ showInactive \in BOOLEAN /\ view = OpenedView(scene, showInactive)
  BY DEF Init
<1>2. /\ Follows(view, scene) /\ ~ view.search /\ Root \in view.items
      /\ \A y \in Items : FetchedRightly(view, scene, y)
      /\ Shows(view, scene)
  BY <1>1, OpenedTree
<1> QED BY <1>2 DEF TreeInv, Complete, Fetched

(* Every step keeps what holds of the tree. *)
LEMMA TreeStep ==
    ASSUME IInv, TreeInv, [Next]_vars
    PROVE  TreeInv'
<1>1. Types
  BY DEF IInv
<1>2. ASSUME NEW f \in Filters, OnSearchFilterChanged(f)
      PROVE  TreeInv'
  <2>1. view' = view /\ scene' = scene /\ search'.state # "none"
    BY <1>2 DEF OnSearchFilterChanged, StartSearch
  <2> QED BY <2>1 DEF TreeInv
<1>3. CASE WaitReturns
  <2>1. view' = view /\ scene' = scene /\ search'.state # "none"
    BY <1>3 DEF WaitReturns, StartSearch
  <2> QED BY <2>1 DEF TreeInv
<1>4. CASE Timeout
  BY <1>4 DEF Timeout, TreeInv
<1>5. ASSUME NEW x \in Items, Visit(x)
      PROVE  TreeInv'
  <2>1. view' = view /\ scene' = scene /\ search'.state = "running"
    BY <1>1, <1>5 DEF Visit, Types, SearchType
  <2> QED BY <2>1 DEF TreeInv
<1>6. CASE Finish
  <2>1. view' = view /\ scene' = scene /\ search'.state = "finished"
    BY <1>1, <1>6 DEF Finish, Types, SearchType
  <2> QED BY <2>1 DEF TreeInv
<1>7. CASE ShowResults
  BY <1>7, ShowResultsTree
<1>8. CASE SetChildFilter \/ \E x \in Items : Expand(x) \/ Collapse(x)
  BY <1>1, <1>8, ClickTree
<1>9. CASE \/ \E x \in Items : ObjectAdd(x) \/ ObjectDelete(x)
           \/ \E x, y \in Items : ObjectRename(x, y) \/ ObjectReparent(x, y)
           \/ \E x \in Items, after \in Scenes : SubtreeInvalidate(x, after)
  <2>1. EditsTheScene
    BY <1>1, <1>9, EditSteps
  <2>2. scene' \in Scenes /\ UNCHANGED <<search, text, showInactive>>
    BY <2>1 DEF EditsTheScene, explorer
  <2>3. KeepsTree
    BY <1>1, <1>9, <2>2, ObjectAddKeeps, ObjectDeleteKeeps, ObjectRenameKeeps, ObjectReparentKeeps,
       SubtreeInvalidateKeeps
  <2> QED BY <2>2, <2>3, TreeKept
<1>10. CASE UNCHANGED vars
  BY <1>10 DEF vars, explorer, TreeInv
<1> QED BY <1>2, <1>3, <1>4, <1>5, <1>6, <1>7, <1>8, <1>9, <1>10 DEF Next

(* What holds of the tree holds always. *)
THEOREM TreeInvariant == Spec => []TreeInv
<1>1. Init => TreeInv
  BY TreeInit
<1>2. IInv /\ TreeInv /\ [Next]_vars => TreeInv'
  BY TreeStep
<1> QED BY <1>1, <1>2, Invariant, PTL DEF Spec

(* The tree never holds an item that has left the scene, or one without those above it, whatever *)
(* is rebuilt and whichever scene the results of a search are of.                                *)
THEOREM TreeIsOfTheScene == Spec => []TreeFollowsTheScene
<1>1. TreeInv => TreeFollowsTheScene
  BY DEF TreeInv, Follows, TreeFollowsTheScene
<1> QED BY <1>1, TreeInvariant, PTL

(* With no filter and no search what is displayed as expanded shows all its children, though the *)
(* tree only fetches when the numbers of children differ: no edit or search leaves a tree with as *)
(* many children as it should have, but not those; and no change of the child filter either, but *)
(* for those that leave the model of the other one (in a tree without root, or during a search). *)
THEOREM NothingIsHidden == Spec => []UnfilteredTreeIsComplete
<1>1. TreeInv => UnfilteredTreeIsComplete
  BY DEF TreeInv, Complete, Shows, UnfilteredTreeIsComplete
<1> QED BY <1>1, TreeInvariant, PTL

-----------------------------------------------------------------------------
(* A match that stays and is not hidden gets to the tree with the results, through all above it. *)
LEMMA ShownWithTheResults ==
    ASSUME IInv, ShowResults, search.filter # Empty,
           NEW x \in Matches[search.filter] \cap stable, Seen(x)
    PROVE  x \in Displayed(view')
<1> DEFINE fetched == UNION {FetchMore(Results, scene, y) : y \in Items}
           up == {x} \cup Ancestors[x]
<1>1. /\ view' = ExpandAll(Results, scene) /\ search.state = "finished" /\ Types
  BY DEF ShowResults, IInv
<1>2. scene \in Scenes /\ x \in scene /\ x \in Items /\ Ancestors[x] \subseteq scene /\ x # Root
  <2>1. search.filter \in DOMAIN Matches
    BY <1>1 DEF Types, SearchType, Filters
  <2>2. x # Root
    BY <2>1, TreeAssumption
  <2> QED BY <1>1, <2>2, SceneClosed DEF Types
<1>3. x \in search.found
  BY <1>1, <1>2 DEF IInv, Frontier
<1>4. /\ Follows(Results, scene) /\ Results.search /\ Results.items = {Root}
      /\ Results.found = WithAncestors(search.found)
      /\ Results.showInactive = search.showInactive
  BY <1>1, <1>3, ResultsView
<1>5. Results \in Views
  BY <1>4 DEF Follows
<1> HIDE DEF Results
<1>6. up \subseteq Results.found
  BY <1>3, <1>4 DEF WithAncestors
<1>7. ASSUME NEW z \in up
      PROVE  z \in {Root} \cup fetched
  <2>1. CASE z = Root
    BY <2>1
  <2>2. CASE z # Root
    <3> DEFINE p == Parent[z]
               children == FilteredChildren(scene, Results.showInactive, p) \cap Results.found
               current == {y \in Results.items \ {Root} : Parent[y] = p}
    <3>1. z \in Items \ {Root} /\ z \in scene /\ p \in Items
      BY <1>2, <2>2, AboveAbove, ParentAbove
    <3>2. search.showInactive \/ z \notin Inactive
      BY DEF Seen
    <3>3. z \in children
      BY <1>4, <1>6, <3>1, <3>2 DEF FilteredChildren
    <3>4. current = {}
      BY <1>4
    <3>5. IsFiniteSet(children)
      <4>1. children \subseteq Items
        BY <1>2, SceneClosed DEF FilteredChildren
      <4>2. IsFiniteSet(Items)
        BY TreeAssumption
      <4> QED BY <4>1, <4>2, FS_Subset
    <3>6. FetchMore(Results, scene, p) =
             IF Cardinality(children) = Cardinality(current) THEN {} ELSE children
      BY <1>4 DEF FetchMore
    <3> HIDE DEF children, current, p
    <3>7. Cardinality(children) # Cardinality(current)
      BY <3>3, <3>4, <3>5, FS_EmptySet
    <3>8. z \in FetchMore(Results, scene, p)
      BY <3>3, <3>6, <3>7
    <3> QED BY <3>1, <3>8
  <2> QED BY <2>1, <2>2
<1>8. Fetch(Results, scene, Items) =
         [Results EXCEPT !.items =
             {Root} \cup {y \in fetched : Ancestors[y] \subseteq {Root} \cup fetched}]
  BY <1>4 DEF Fetch
<1>9. view' = [Fetch(Results, scene, Items) EXCEPT !.expanded = Fetch(Results, scene, Items).items]
  BY <1>1 DEF ExpandAll
<1> HIDE DEF fetched
<1>10. /\ view'.items = {Root} \cup {y \in fetched : Ancestors[y] \subseteq {Root} \cup fetched}
       /\ view'.expanded = view'.items
  BY <1>5, <1>8, <1>9 DEF Views
<1>11. ASSUME NEW z \in up
       PROVE  z \in view'.items
  <2>1. Ancestors[z] \subseteq up
    BY <1>2, AboveAbove
  <2>2. Ancestors[z] \subseteq {Root} \cup fetched
    BY <1>7, <2>1
  <2> QED BY <1>7, <1>10, <2>2
<1> QED BY <1>10, <1>11 DEF Displayed

(* The user is shown every match that stays where it is while the scene is searched: the thread   *)
(* found it, and all that is above it is fetched and expanded, in the scene as it is by then.     *)
THEOREM MatchesAreShown == Spec => SearchFindsWhatStays
<1> DEFINE P == ShowsResults /\ text # Empty =>
                   \A x \in Matches[text] \cap stable :
                      search.showInactive \/ ({x} \cup Ancestors[x]) \cap Inactive = {} =>
                          x \in Displayed(view')
<1>1. IInv /\ [Next]_vars => [P]_vars
  <2> SUFFICES ASSUME IInv, [Next]_vars, ShowsResults, text # Empty,
                      NEW x \in Matches[text] \cap stable, Seen(x)
               PROVE  x \in Displayed(view')
    BY DEF Seen
  <2>1. Types /\ search.state = "finished" /\ search'.state = "none"
    BY DEF IInv, ShowsResults
  <2>2. CASE ShowResults
    <3>1. search.filter = text
      BY <2>2 DEF ShowResults, IInv, Protocol
    <3> QED BY <2>2, <3>1, ShownWithTheResults
  <2>3. ASSUME NEW f \in Filters, OnSearchFilterChanged(f)
        PROVE  FALSE
    BY <2>1, <2>3 DEF OnSearchFilterChanged, StartSearch
  <2>4. CASE WaitReturns \/ Timeout \/ Finish \/ UNCHANGED vars \/ \E y \in Items : Visit(y)
    BY <2>1, <2>4 DEF WaitReturns, StartSearch, Timeout, Finish, Visit, vars
  <2>5. CASE EditsTheScene \/ Clicks
    BY <2>1, <2>5 DEF EditsTheScene, Clicks
  <2> QED BY <2>1, <2>2, <2>3, <2>4, <2>5, EditSteps, ClickSteps DEF Next
<1>2. Spec => [][P]_vars
  BY <1>1, Invariant, PTL DEF Spec
<1> QED BY <1>2 DEF SearchFindsWhatStays
=============================================================================
