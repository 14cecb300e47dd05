--------------------------- MODULE ExplorerSearch ---------------------------
(***************************************************************************)
(* The search of the USD explorer, src/UFEUI/Views/explorer.cpp: the main    *)
(* thread of 3ds Max, which edits the scene, notifies the explorer and       *)
(* handles what the user types, and the thread that searches the scene       *)
(* meanwhile (src/UFEUI/explorerSearchThread.cpp).                           *)
(***************************************************************************)
EXTENDS ExplorerTree

CONSTANT MaxEdits   \* bound: all the edits of the scene and clicks in the tree

VARIABLES
    scene,           \* the items of the UFE scene
    text,            \* the text of the filter line
    showInactive,    \* the explorer's _childFilter
    view,            \* the tree model and the expansion of the tree view
    previousFilter,  \* _previousSearchFilter: the filter of the model on display
    preSearchExpanded,
    search,          \* _searchThread: what it was given, what it has yet to visit and has found
    main,            \* "idle", or "waiting" for the search thread to end
    timer,           \* whether _searchTimer is running
    enabled,         \* of the tree view; while it is not, the spinner turns
    edits,           \* those of them so far
    stable           \* the items that have been in the scene since the search began

explorer == <<text, showInactive, previousFilter, preSearchExpanded, main, timer, enabled>>
vars == <<scene, view, search, stable, edits, explorer>>

NoSearch == [state |-> "none", filter |-> Empty, showInactive |-> FALSE, todo |-> {}, found |-> {}]

Init ==
    /\ scene \in Scenes
    /\ text = Empty /\ previousFilter = Empty
    /\ showInactive \in BOOLEAN
    /\ view = OpenedView(scene, showInactive)
    /\ preSearchExpanded = {}
    /\ search = NoSearch
    /\ main = "idle" /\ timer = FALSE /\ enabled = TRUE
    /\ stable = {} /\ edits = 0

-----------------------------------------------------------------------------
(* What the user types. *)

(* The end of onSearchFilterChanged: a new timer and a new thread take the place of the old ones, *)
(* with which the signals they have not delivered go.                                             *)
StartSearch(f) ==
    /\ search' = [state |-> "running", filter |-> f, showInactive |-> showInactive,
                  todo |-> IF f = Empty THEN {} ELSE {Root}, found |-> {}]
    /\ timer' = TRUE
    /\ stable' = scene
    /\ main' = "idle"

(* The filter line changes.  A thread that is still searching is asked to quit, which it does not *)
(* hear, and waited for.                                                                          *)
OnSearchFilterChanged(f) ==
    /\ main = "idle" /\ f # text
    /\ text' = f
    /\ IF search.state = "running"
       THEN main' = "waiting" /\ UNCHANGED <<search, timer, stable>>
       ELSE StartSearch(f)
    /\ UNCHANGED <<scene, view, edits, showInactive, previousFilter, preSearchExpanded, enabled>>

(* A mutant: the search that was waited for is taken for the one that is wanted. *)
WaitReturnsOnly ==
    /\ main = "waiting" /\ search.state = "finished"
    /\ main' = "idle"
    /\ UNCHANGED <<scene, view, edits, text, showInactive, previousFilter, preSearchExpanded,
                   enabled, search, timer, stable>>

WaitReturns ==
    /\ main = "waiting" /\ search.state = "finished"
    /\ StartSearch(text)
    /\ UNCHANGED <<scene, view, edits, text, showInactive, previousFilter, preSearchExpanded, enabled>>

(* The timer elapses before the results are there. *)
Timeout ==
    /\ main = "idle" /\ timer
    /\ timer' = FALSE /\ enabled' = FALSE
    /\ UNCHANGED <<scene, view, search, stable, edits, text, showInactive, previousFilter,
                   preSearchExpanded, main>>

-----------------------------------------------------------------------------
(* The search thread. *)

(* A mutant: what was still to visit is forgotten. *)
VisitFirst(x) ==
    /\ search.state = "running" /\ x \in search.todo
    /\ LET children == FilteredChildren(scene, search.showInactive, x)
       IN  search' = [search EXCEPT !.todo = children,
                                    !.found = @ \cup (children \cap Matches[search.filter])]
    /\ UNCHANGED <<scene, view, stable, edits, explorer>>

(* findMatchingPaths visits one item: its children are looked up in the scene as it is now. *)
Visit(x) ==
    /\ search.state = "running" /\ x \in search.todo
    /\ LET children == FilteredChildren(scene, search.showInactive, x)
       IN  search' = [search EXCEPT !.todo = (@ \ {x}) \cup children,
                                    !.found = @ \cup (children \cap Matches[search.filter])]
    /\ UNCHANGED <<scene, view, stable, edits, explorer>>

(* All is visited: the thread builds a model of its own and ends. *)
Finish ==
    /\ search.state = "running" /\ search.todo = {}
    /\ search' = [search EXCEPT !.state = "finished"]
    /\ UNCHANGED <<scene, view, stable, edits, explorer>>

(* A mutant: only what matches is let into the tree. *)
ResultsOnly ==
    NewModel(search.filter = Empty \/ search.found # {}, search.filter # Empty,
             search.found, search.showInactive)

Results ==
    NewModel(search.filter = Empty \/ search.found # {}, search.filter # Empty,
             WithAncestors(search.found), search.showInactive)

(* Mutants: the timer goes on; the view stays disabled. *)
ResultsLeaveTimer == enabled' = TRUE /\ timer' = timer
ResultsLeaveView  == timer' = FALSE /\ enabled' = enabled

(* The spinner goes: the model has a row for its root, whether it has the item or not. *)
SearchYieldedResults == timer' = FALSE /\ enabled' = TRUE

(* The main thread handles the signal `finished`. *)
ShowResults ==
    /\ main = "idle" /\ search.state = "finished"
    /\ SearchYieldedResults
    /\ LET saved == IF previousFilter = Empty /\ search.filter # Empty /\ Root \in view.expanded
                    THEN FindExpandedPaths(view, Root) ELSE preSearchExpanded
           cleared == previousFilter # Empty /\ search.filter = Empty
       IN  /\ view' = IF ~ cleared THEN ExpandAll(Results, scene)
                      ELSE IF saved = {} THEN Layout(Results, scene)
                      ELSE ExpandPaths(SetExpanded(Results, scene, {Root}), scene, saved)
           /\ preSearchExpanded' = IF cleared THEN {} ELSE saved
    /\ previousFilter' = search.filter
    /\ search' = NoSearch
    /\ stable' = {}
    /\ UNCHANGED <<scene, edits, text, showInactive, main>>

-----------------------------------------------------------------------------
(* Edits of the scene, on the main thread, each with the notification it sends: the explorer     *)
(* rebuilds a subtree with the filter that is typed now.                                         *)

Rebuild(v, x, pathChange) == RebuildSubtree(v, scene', x, text, showInactive, pathChange)

Edit == main = "idle" /\ edits < MaxEdits /\ edits' = edits + 1

EditScene(after) ==
    /\ Edit
    /\ scene' = after
    /\ stable' = stable \cap after
    /\ UNCHANGED <<search, explorer>>

(* A mutant: what is added to an item with no other children is left out. *)
ObjectAddToParents(x) ==
    /\ x \notin scene /\ Parent[x] \in scene
    /\ EditScene(scene \cup {x})
    /\ view' = IF /\ Parent[x] \in view.items /\ Below(Parent[x]) \cap view.items # {}
                  /\ x \in FilteredChildren(scene', showInactive, Parent[x])
               THEN Rebuild(view, Parent[x], <<>>) ELSE view

ObjectAdd(x) ==
    /\ x \notin scene /\ Parent[x] \in scene
    /\ EditScene(scene \cup {x})
    /\ view' = IF Parent[x] \in view.items
                  /\ x \in FilteredChildren(scene', showInactive, Parent[x])
               THEN Rebuild(view, Parent[x], <<>>) ELSE view

(* A mutant: the subtree that is rebuilt is that of the item which is gone. *)
ObjectDeleteItself(x) ==
    /\ x \in scene \ {Root}
    /\ EditScene(scene \ ({x} \cup Below(x)))
    /\ view' = Rebuild(view, x, <<>>)

ObjectDelete(x) ==
    /\ x \in scene \ {Root}
    /\ EditScene(scene \ ({x} \cup Below(x)))
    /\ view' = IF x \in view.items THEN Rebuild(view, Parent[x], <<>>) ELSE view

(* An item without children gets the path of another, under the same parent or a different one. *)
Moves(x, y) == /\ x \in scene \ {Root} /\ Below(x) \cap scene = {}
               /\ y \notin scene /\ y # Root /\ Parent[y] \in scene \ {x}

ObjectRename(x, y) ==
    /\ Moves(x, y) /\ Parent[x] = Parent[y]
    /\ EditScene((scene \ {x}) \cup {y})
    /\ view' = Rebuild(view, Parent[x], [z \in {x} |-> y])

ObjectReparent(x, y) ==
    /\ Moves(x, y) /\ Parent[x] # Parent[y]
    /\ EditScene((scene \ {x}) \cup {y})
    /\ LET old == Rebuild(view, Parent[x], <<>>)
       IN  view' = IF Parent[x] \in {Parent[y]} \cup Ancestors[Parent[y]] THEN old
                   ELSE Rebuild(old, Parent[y], <<>>)

(* Everything below an item is replaced, by a reload for instance. *)
SubtreeInvalidate(x, after) ==
    /\ x \in scene /\ after \in Scenes /\ after \ Below(x) = scene \ Below(x)
    /\ after # scene
    /\ EditScene(after)
    /\ view' = Rebuild(view, x, <<>>)

-----------------------------------------------------------------------------
(* The rest of what the user may do. *)

SetChildFilter ==
    /\ Edit
    /\ showInactive' = ~ showInactive
    /\ view' = RebuildSubtree(view, scene, Root, text, showInactive', <<>>)
    /\ UNCHANGED <<scene, search, stable, text, previousFilter, preSearchExpanded, main, timer,
                   enabled>>

Expand(x) ==
    /\ Edit /\ enabled
    /\ x \in view.items \ view.expanded /\ FilteredChildren(scene, view.showInactive, x) # {}
    /\ view' = SetExpanded(view, scene, {x})
    /\ UNCHANGED <<scene, search, stable, explorer>>

Collapse(x) ==
    /\ Edit /\ enabled
    /\ x \in view.expanded
    /\ view' = [view EXCEPT !.expanded = @ \ {x}]
    /\ UNCHANGED <<scene, search, stable, explorer>>

Next ==
    \/ \E f \in Filters : OnSearchFilterChanged(f)
    \/ WaitReturns \/ Timeout
    \/ \E x \in Items : Visit(x)
    \/ Finish \/ ShowResults
    \/ \E x \in Items : ObjectAdd(x) \/ ObjectDelete(x) \/ Expand(x) \/ Collapse(x)
    \/ \E x, y \in Items : ObjectRename(x, y) \/ ObjectReparent(x, y)
    \/ \E x \in Items, after \in Scenes : SubtreeInvalidate(x, after)
    \/ SetChildFilter

(* The thread, which has time-critical priority, goes on, and the main thread handles what its    *)
(* event queue holds.  Nobody has to type or to edit.  ShowResults, the only step from a finished *)
(* search to none, is named by what it does to the search.                                        *)
Spec == /\ Init /\ [][Next]_vars
        /\ WF_vars(\E x \in Items : Visit(x)) /\ WF_vars(Finish)
        /\ WF_vars(WaitReturns)
        /\ WF_search(main = "idle" /\ search.state = "finished" /\ search' = NoSearch)

-----------------------------------------------------------------------------
(* The types; and what the thread has yet to visit, has found and what has stayed are items. *)
TypeOK ==
    /\ scene \in Scenes
    /\ text \in Filters /\ previousFilter \in Filters
    /\ {showInactive, timer, enabled} \subseteq BOOLEAN
    /\ view \in Views
    /\ preSearchExpanded \subseteq Items
    /\ search \in [state : {"none", "running", "finished"}, filter : Filters,
                   showInactive : BOOLEAN, todo : SUBSET Items, found : SUBSET Items]
    /\ main \in {"idle", "waiting"}
    /\ stable \subseteq scene
    /\ edits \in 0 .. MaxEdits

(* The tree holds no item that has left the scene, and none without those above it: what         *)
(* notifications, expansion and the results of a search that saw an older scene leave of it.      *)
TreeFollowsTheScene ==
    /\ view.items \subseteq scene
    /\ \A x \in view.items : Ancestors[x] \subseteq view.items
    /\ view.expanded \subseteq view.items

(* With no filter typed and no search on its way, whatever is displayed as expanded shows all the *)
(* children it has in the scene, whichever edits and searches came before; unless the model is    *)
(* one for another child filter: setChildFilter does not replace it in a tree without root, and   *)
(* a search that was on its way when the filter was toggled brings the model of the old one back. *)
UnfilteredTreeIsComplete ==
    search.state = "none" /\ text = Empty /\ view.showInactive = showInactive =>
        \A x \in Displayed(view) \cap view.expanded :
            FilteredChildren(scene, view.showInactive, x) \subseteq view.items

(* findMatchingPaths walks a scene that is edited meanwhile.  When it ends it has found every     *)
(* match that was there all the time, and that no inactive prim hid.                              *)
SearchMissesNothing ==
    search.state = "finished" /\ search.filter # Empty =>
        \A x \in Matches[search.filter] \cap stable :
            search.showInactive \/ ({x} \cup Ancestors[x]) \cap Inactive = {} => x \in search.found

ShowsResults == search.state = "finished" /\ search'.state = "none"

(* And the user sees each of them once the results are shown: all that is above it is in the      *)
(* model, is fetched and expanded.                                                                *)
SearchFindsWhatStays ==
    [][ShowsResults /\ text # Empty =>
         \A x \in Matches[text] \cap stable :
            search.showInactive \/ ({x} \cup Ancestors[x]) \cap Inactive = {} =>
                x \in Displayed(view')]_vars

(* A timer that elapses late never disables a view for good: the view is only disabled while a    *)
(* search will enable it again.                                                                   *)
DisabledOnlyWhileSearching == ~ enabled => search.state # "none"

Box == INSTANCE SearchBox WITH wanted <- text, shown <- previousFilter

(* However fast filters are typed and searches given up, results are only ever replaced by those  *)
(* of the filter that is typed, and are those of the last one in the end.                         *)
ImplementsSearchBox == Box!Spec

(* A user who stops typing gets back a tree that is enabled, and a main thread that does not wait. *)
TreeIsUsableAgain ==
    \A f \in Filters : text = f /\ (~ enabled \/ main = "waiting")
                          ~> ((enabled /\ main = "idle") \/ text # f)
=============================================================================
