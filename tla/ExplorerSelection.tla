-------------------------- MODULE ExplorerSelection --------------------------
(***************************************************************************)
(* The selection of the USD explorer, src/UFEUI/Views/explorer.cpp: the tree *)
(* view has a selection of its own, which follows the UFE selection of 3ds   *)
(* Max, and which the user changes.  In pick mode it belongs to whoever      *)
(* asked for a pick, and the UFE selection is left alone.  Each change is    *)
(* signalled at once, in the middle of the change, so that the handlers of   *)
(* the two selections call each other.  Undo and redo of a selection replace   *)
(* the UFE selection by an earlier one: to the explorer it is one made         *)
(* elsewhere, of which some items may be gone.                                 *)
(***************************************************************************)
EXTENDS ExplorerTree

CONSTANTS Outside,    \* UFE items that are not of the explorer's stage
          MaxEdits    \* bound: edits of the scene

ASSUME SelectionAssumption == Outside \cap Items = {}

VARIABLES
    scene, view,
    selected,   \* the tree items selected in the tree view
    global,     \* the UFE selection
    picking,    \* whether _pickMode is alive
    picks,      \* _pickModeSelection
    heard,      \* what the callbacks of the pick mode were told is picked
    released,   \* the pick mode went away and the tree was not brought back since
    edits

state == <<selected, global, picking, picks, heard, released>>
vars == <<scene, view, state, edits>>

(* The handlers take and return what they may change. *)
Now == [view |-> view, selected |-> selected, global |-> global, picking |-> picking,
        picks |-> picks, heard |-> heard, released |-> released]

Become(s) ==
    /\ view' = s.view /\ selected' = s.selected /\ global' = s.global
    /\ picking' = s.picking /\ picks' = s.picks /\ heard' = s.heard
    /\ released' = s.released

-----------------------------------------------------------------------------
(* A mutant: the callbacks only hear of what is selected. *)
ToldOfNew(s, new) == s.heard \cup (new \ s.picks)

(* The callbacks hear of each pick that comes, then of each that goes. *)
Told(s, new) == (s.heard \cup (new \ s.picks)) \ (s.picks \ new)

(* onTreeViewSelectionChanged: the signal of the tree view, whoever changed its selection. *)
OnTreeViewSelectionChanged(s, on, off) ==
    LET current == IF s.picking THEN s.picks ELSE s.global
        new     == (current \ off) \cup on
        shown   == new \cap (s.view.items \cup Outside)
    IN  IF new = current THEN s
        ELSE IF s.picking
        THEN [s EXCEPT !.picks = shown, !.heard = Told(s, shown)]
        ELSE (* The command selects, and the tree, notified, follows. *)
             [s EXCEPT !.global = shown, !.selected = shown \cap Items, !.released = FALSE]

SelectInTree(s, items) ==
    IF items = s.selected THEN s
    ELSE OnTreeViewSelectionChanged([s EXCEPT !.selected = items],
                                    items \ s.selected, s.selected \ items)

(* A mutant: only what is in the tree already is selected. *)
UpdateWhatIsFetched(sc, s) ==
    LET paths == s.global \cap Items
    IN  IF s.global = {} THEN SelectInTree([s EXCEPT !.released = FALSE], {})
        ELSE IF paths = s.selected THEN [s EXCEPT !.released = FALSE]
        ELSE SelectInTree([s EXCEPT !.released = FALSE], paths \cap s.view.items)

(* updateTreeSelection: items are fetched up to what is selected. *)
UpdateTreeSelection(sc, s) ==
    LET paths   == s.global \cap Items
        fetched == Fetch(s.view, sc, UNION {Ancestors[x] : x \in paths \ s.view.items})
    IN  IF s.global = {} THEN SelectInTree([s EXCEPT !.released = FALSE], {})
        ELSE IF paths = s.selected THEN [s EXCEPT !.released = FALSE]
        ELSE SelectInTree([s EXCEPT !.view = fetched, !.released = FALSE], paths \cap fetched.items)

(* A mutant: the rows which are removed are signalled as deselected. *)
RebuildSignalled(sc, s, x, pathChange) ==
    IF x \notin s.view.items THEN s
    ELSE LET rebuilt == RebuildSubtree(s.view, sc, x, Empty, s.view.showInactive, pathChange)
         IN  UpdateTreeSelection(sc, [SelectInTree(s, s.selected \ Below(x)) EXCEPT !.view = rebuilt])

(* rebuildSubtree: what is selected below is lost without a signal (_ignoreTreeSelectionChanged). *)
Rebuild(sc, s, x, pathChange) ==
    IF x \notin s.view.items THEN s
    ELSE UpdateTreeSelection(sc,
            [s EXCEPT !.view = RebuildSubtree(@, sc, x, Empty, s.view.showInactive, pathChange),
                      !.selected = @ \ Below(x)])

(* The UFE selection changes, and its observers are notified. *)
ReplaceGlobal(sc, s, items) == UpdateTreeSelection(sc, [s EXCEPT !.global = items])

-----------------------------------------------------------------------------
Init ==
    /\ scene \in Scenes
    /\ view = OpenedView(scene, FALSE)
    /\ selected = {} /\ global = {} /\ picking = FALSE /\ picks = {} /\ heard = {}
    /\ released = FALSE /\ edits = 0

(* The user selects in the tree. *)
Select(items) ==
    /\ items \subseteq Displayed(view) /\ items # selected
    /\ Become(SelectInTree(Now, items))
    /\ UNCHANGED <<scene, edits>>

(* Something else selects. *)
SelectElsewhere(items) ==
    /\ items # global
    /\ Become(ReplaceGlobal(scene, Now, items))
    /\ UNCHANGED <<scene, edits>>

EnterPickMode ==
    /\ ~ picking
    /\ Become(SelectInTree([Now EXCEPT !.picking = TRUE, !.picks = {}, !.heard = {}], {}))
    /\ UNCHANGED <<scene, edits>>

ExitPickMode ==
    /\ picking
    /\ Become(UpdateTreeSelection(scene,
           [Now EXCEPT !.picking = FALSE, !.picks = {}, !.heard = {}]))
    /\ UNCHANGED <<scene, edits>>

(* The last reference to the pick mode goes: exitPickMode, called by its destructor, finds that it *)
(* has expired.                                                                                    *)
ReleasePickMode ==
    /\ picking
    /\ Become([Now EXCEPT !.picking = FALSE, !.heard = {}, !.released = TRUE])
    /\ UNCHANGED <<scene, edits>>

-----------------------------------------------------------------------------
EditScene(after) == edits < MaxEdits /\ edits' = edits + 1 /\ scene' = after

ObjectAdd(x) ==
    /\ x \notin scene /\ Parent[x] \in scene
    /\ EditScene(scene \cup {x})
    /\ Become(IF x \in Inactive THEN Now ELSE Rebuild(scene', Now, Parent[x], <<>>))

ObjectDelete(x) ==
    /\ x \in scene \ {Root}
    /\ EditScene(scene \ ({x} \cup Below(x)))
    /\ Become(IF x \in view.items THEN Rebuild(scene', Now, Parent[x], <<>>) ELSE Now)

(* A rename also corrects the UFE selection. *)
ObjectRename(x, y) ==
    /\ x \in scene \ {Root} /\ Below(x) \cap scene = {}
    /\ y \notin scene /\ y # Root /\ Parent[x] = Parent[y]
    /\ EditScene((scene \ {x}) \cup {y})
    /\ LET rebuilt == Rebuild(scene', Now, Parent[x], [z \in {x} |-> y])
           removed == IF x \in rebuilt.global
                      THEN ReplaceGlobal(scene', rebuilt, rebuilt.global \ {x}) ELSE rebuilt
       IN  Become(ReplaceGlobal(scene', removed, removed.global \cup {y}))

Toggle(x) ==
    /\ x \in view.items /\ FilteredChildren(scene, view.showInactive, x) # {}
    /\ view' = IF x \in view.expanded THEN [view EXCEPT !.expanded = @ \ {x}]
               ELSE SetExpanded(view, scene, {x})
    /\ UNCHANGED <<scene, state, edits>>

Next ==
    \/ \E items \in SUBSET Items : Select(items)
    \/ \E items \in SUBSET (Items \cup Outside) : SelectElsewhere(items)
    \/ EnterPickMode \/ ExitPickMode \/ ReleasePickMode
    \/ \E x \in Items : ObjectAdd(x) \/ ObjectDelete(x) \/ Toggle(x)
    \/ \E x, y \in Items : ObjectRename(x, y)

Spec == Init /\ [][Next]_vars

-----------------------------------------------------------------------------
(* Out of pick mode the tree shows the UFE selection, of every item it has: also of those it      *)
(* fetches later, after any rebuild, and whoever selected.  Not so after the last reference to a  *)
(* pick mode was released, until the next change.                                                 *)
TreeShowsTheSelection == ~ picking /\ ~ released => selected = global \cap view.items

(* What the callbacks of a pick mode were told, pick by pick, adds up to what is picked.          *)
CallbacksKnowThePicks == picking => heard = picks

(* The handlers of the two selections call each other: that must not take anything out of the     *)
(* UFE selection, or add to it, but when the user selects in the tree; nor may an edit of the     *)
(* scene or a pick.  The rename of an item is the exception the code makes.                       *)
SelectionIsTheUsers ==
    [][global' # global =>
         \/ SelectElsewhere(global')
         \/ ~ picking /\ \E items \in SUBSET Displayed(view) : Select(items)
         \/ \E x, y \in Items : /\ scene' = (scene \ {x}) \cup {y}
                               /\ global' = (global \ {x}) \cup {y}]_vars

(* In pick mode the tree does not follow the UFE selection, as enterPickMode says: a selection    *)
(* made elsewhere leaves the picks of the user alone.                                             *)
PicksAreTheUsers ==
    [][picking /\ picking' /\ global' # global => picks' = picks]_vars
=============================================================================
