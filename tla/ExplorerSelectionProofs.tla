------------------------ MODULE ExplorerSelectionProofs ------------------------
(***************************************************************************)
(* Theorems about ExplorerSelection, for any tree of items and any number   *)
(* of edits: the tree shows the UFE selection, the callbacks of a pick mode *)
(* know the picks, and only the user changes the UFE selection.             *)
(*                                                                         *)
(* The handlers take and return a record, and the invariant is said of one. *)
(* Sound: the view is of the scene, has no inactive prims and no part of    *)
(* anybody's children, and what is selected in the tree is in it.  InStep:  *)
(* out of pick mode the tree shows what it has of the UFE selection, and    *)
(* what it does not have of it (or of what is above) is not in the scene    *)
(* without inactive prims.  An edit breaks InStep, in the middle of its     *)
(* handler; updateTreeSelection, at the end of it, brings it back from      *)
(* Sound alone.                                                             *)
(***************************************************************************)
EXTENDS ExplorerSelection, ExplorerTreeProofs

(* The view without a filter, with no inactive prims. *)
Plain(v, sc) ==
    /\ Follows(v, sc) /\ ~ v.search /\ ~ v.showInactive
    /\ Root \in v.items /\ v.items \cap Inactive = {}
    /\ \A y \in Items : FetchedRightly(v, sc, y)

States == [view : Views, selected : SUBSET Items, global : SUBSET (Items \cup Outside),
           picking : BOOLEAN, picks : SUBSET (Items \cup Outside),
           heard : SUBSET (Items \cup Outside), released : BOOLEAN]

(* The items the tree may come to show. *)
Visible(sc) == {y \in sc : ({y} \cup Ancestors[y]) \cap Inactive = {}}

Sound(s, sc) ==
    /\ s \in States /\ Plain(s.view, sc)
    /\ s.selected \subseteq s.view.items
    /\ s.picking => s.heard = s.picks

(* What the tree lacks of the selection it cannot have. *)
Reaches(s, sc) == WithAncestors(s.global \cap Items) \cap Visible(sc) \subseteq s.view.items

InStep(s, sc) ==
    ~ s.picking /\ ~ s.released =>
        s.selected = s.global \cap s.view.items /\ Reaches(s, sc)

SelectionInv == scene \in Scenes /\ Sound(Now, scene) /\ InStep(Now, scene)

-----------------------------------------------------------------------------
(* The fields of the record that the handlers take. *)
LEMMA StateFields ==
    ASSUME NEW s \in States
    PROVE  /\ s.view \in Views /\ s.selected \subseteq Items /\ s.global \subseteq Items \cup Outside
           /\ s.picking \in BOOLEAN /\ s.picks \subseteq Items \cup Outside
           /\ s.heard \subseteq Items \cup Outside /\ s.released \in BOOLEAN
BY DEF States

(* A plain view that grows stays plain. *)
LEMMA PlainGrows ==
    ASSUME NEW sc \in Scenes, NEW v, NEW u, Plain(v, sc), Grows(u, v, sc)
    PROVE  Plain(u, sc)
<1>1. Follows(u, sc) /\ ~ u.search /\ ~ u.showInactive /\ Root \in u.items
  BY DEF Plain, Grows
<1>2. u.items \cap Inactive = {}
  BY <1>1 DEF Plain, Grows
<1>3. \A y \in Items : FetchedRightly(u, sc, y)
  BY DEF Plain, Grows
<1> QED BY <1>1, <1>2, <1>3 DEF Plain

(* An item that may be shown is, once all that is above it has fetched. *)
LEMMA FetchReaches ==
    ASSUME NEW sc \in Scenes, NEW v, Plain(v, sc), NEW parents, NEW x \in Visible(sc),
           Ancestors[x] \subseteq parents, NEW u, u = Fetch(v, sc, parents)
    PROVE  x \in u.items
<1> DEFINE fetched == UNION {FetchMore(v, sc, y) : y \in parents}
<1>1. v \in Views /\ Follows(v, sc) /\ ~ v.search /\ v.showInactive = FALSE /\ Root \in v.items
  BY ViewFields DEF Plain, Follows
<1>2. x \in sc /\ x \in Items /\ Ancestors[x] \subseteq sc /\ ({x} \cup Ancestors[x]) \cap Inactive = {}
  BY SceneClosed DEF Visible
<1>3. ASSUME NEW z \in {x} \cup Ancestors[x]
      PROVE  z \in v.items \cup fetched
  <2>1. CASE z = Root
    BY <1>1, <2>1
  <2>2. CASE z # Root
    <3>1. z \in Items \ {Root} /\ z \in sc /\ z \notin Inactive /\ Ancestors[z] \subseteq Ancestors[x]
      BY <1>2, <2>2, AboveAbove
    <3>2. Parent[z] \in Ancestors[x] /\ Parent[z] \in Items
      BY <3>1, ParentAbove
    <3>3. z \in FilteredChildren(sc, FALSE, Parent[z])
      BY <3>1 DEF FilteredChildren
    <3>4. FetchedRightly(v, sc, Parent[z])
      BY <3>2 DEF Plain
    <3>5. CASE FetchMore(v, sc, Parent[z]) = {}
      BY <1>1, <3>3, <3>4, <3>5, NoMoreToFetch
    <3>6. CASE FetchMore(v, sc, Parent[z]) # {}
      <4>1. z \in FetchMore(v, sc, Parent[z])
        BY <1>1, <3>3, <3>6, FetchedAll
      <4> QED BY <3>2, <4>1
    <3> QED BY <3>5, <3>6
  <2> QED BY <2>1, <2>2
<1>4. u = [v EXCEPT !.items = v.items \cup {y \in fetched : Ancestors[y] \subseteq v.items \cup fetched}]
  BY DEF Fetch
<1> HIDE DEF fetched
<1>5. u.items = v.items \cup {y \in fetched : Ancestors[y] \subseteq v.items \cup fetched}
  BY <1>1, <1>4 DEF Views
<1> QED BY <1>3, <1>5

-----------------------------------------------------------------------------
(* What the signal of the tree view changes: the picks, or the UFE selection. *)
SignalChanges(t, s, on, off) ==
    /\ t \in States /\ t.view = s.view /\ t.picking = s.picking
    /\ s.picking => /\ t.selected = s.selected /\ t.global = s.global
                    /\ s.heard = s.picks => t.heard = t.picks
    /\ ~ s.picking =>
          LET new == (s.global \ off) \cup on
          IN  \/ t = s /\ new = s.global
              \/ /\ new # s.global
                 /\ t.global = new \cap (s.view.items \cup Outside)
                 /\ t.selected = t.global \cap Items /\ ~ t.released

(* onTreeViewSelectionChanged changes that and nothing else. *)
LEMMA Signalled ==
    ASSUME NEW s \in States, NEW on \in SUBSET Items, NEW off \in SUBSET Items,
           NEW t, t = OnTreeViewSelectionChanged(s, on, off)
    PROVE  SignalChanges(t, s, on, off)
<1> DEFINE current == IF s.picking THEN s.picks ELSE s.global
           new == (current \ off) \cup on
           shown == new \cap (s.view.items \cup Outside)
<1>1. /\ s.view \in Views /\ s.selected \subseteq Items /\ s.global \subseteq Items \cup Outside
      /\ s.picking \in BOOLEAN /\ s.picks \subseteq Items \cup Outside
      /\ s.heard \subseteq Items \cup Outside /\ s.view.items \subseteq Items
  BY StateFields, ViewFields
<1>2. CASE new = current
  <2>1. t = s
    BY <1>2 DEF OnTreeViewSelectionChanged
  <2> QED BY <1>1, <1>2, <2>1 DEF SignalChanges
<1>3. CASE new # current /\ s.picking
  <2>1. t = [s EXCEPT !.picks = shown, !.heard = Told(s, shown)]
    BY <1>3 DEF OnTreeViewSelectionChanged
  <2>2. shown \subseteq Items \cup Outside /\ Told(s, shown) \subseteq Items \cup Outside
    BY <1>1 DEF Told
  <2>3. s.heard = s.picks => Told(s, shown) = shown
    BY DEF Told
  <2> HIDE DEF shown
  <2>4. /\ t \in States /\ t.view = s.view /\ t.picking = s.picking /\ t.selected = s.selected
        /\ t.global = s.global /\ t.picks = shown /\ t.heard = Told(s, shown)
    BY <2>1, <2>2 DEF States
  <2> QED BY <1>3, <2>3, <2>4 DEF SignalChanges
<1>4. CASE new # current /\ ~ s.picking
  <2>1. t = [s EXCEPT !.global = shown, !.selected = shown \cap Items, !.released = FALSE]
    BY <1>4 DEF OnTreeViewSelectionChanged
  <2>2. shown \subseteq Items \cup Outside /\ shown \cap Items \subseteq Items
    BY <1>1
  <2>3. shown = new \cap (s.view.items \cup Outside)
    OBVIOUS
  <2> HIDE DEF shown
  <2>4. /\ t \in States /\ t.view = s.view /\ t.picking = s.picking /\ t.selected = shown \cap Items
        /\ t.global = shown /\ t.released = FALSE
    BY <2>1, <2>2 DEF States
  <2> QED BY <1>4, <2>3, <2>4 DEF SignalChanges
<1> QED BY <1>1, <1>2, <1>3, <1>4

(* Items of the tree are selected in it: out of pick mode they become the UFE selection. *)
LEMMA SelectedInTree ==
    ASSUME NEW sc \in Scenes, NEW s, Sound(s, sc), InStep(s, sc), NEW items \in SUBSET s.view.items,
           NEW t, t = SelectInTree(s, items)
    PROVE  /\ Sound(t, sc) /\ InStep(t, sc)
           /\ s.picking => t.global = s.global
<1> DEFINE w == [s EXCEPT !.selected = items]
           on == items \ s.selected
           off == s.selected \ items
<1>1. /\ s \in States /\ Plain(s.view, sc) /\ s.selected \subseteq s.view.items
      /\ s.picking => s.heard = s.picks
  BY DEF Sound
<1>2. /\ s.view \in Views /\ s.selected \subseteq Items /\ s.global \subseteq Items \cup Outside
      /\ s.picking \in BOOLEAN /\ s.view.items \subseteq Items
  BY <1>1, StateFields, ViewFields
<1>3. CASE items = s.selected
  BY <1>3 DEF SelectInTree
<1>4. CASE items # s.selected
  <2>1. t = OnTreeViewSelectionChanged(w, on, off)
    BY <1>4 DEF SelectInTree
  <2>2. /\ w \in States /\ w.view = s.view /\ w.picking = s.picking /\ w.selected = items
        /\ w.global = s.global /\ w.picks = s.picks /\ w.heard = s.heard /\ w.released = s.released
    BY <1>1, <1>2 DEF States
  <2>3. on \in SUBSET Items /\ off \in SUBSET Items
    BY <1>2
  <2> HIDE DEF w, on, off
  <2>8. SignalChanges(t, w, on, off)
    BY <2>1, <2>2, <2>3, Signalled
  <2>4. /\ t \in States /\ t.view = s.view /\ t.picking = s.picking
        /\ s.picking => /\ t.selected = items /\ t.global = s.global
                        /\ s.heard = s.picks => t.heard = t.picks
        /\ ~ s.picking =>
              \/ t = w /\ (s.global \ off) \cup on = s.global
              \/ /\ t.global = ((s.global \ off) \cup on) \cap (s.view.items \cup Outside)
                 /\ t.selected = t.global \cap Items /\ ~ t.released
    BY <2>2, <2>8 DEF SignalChanges
  <2>5. CASE s.picking
    BY <1>1, <2>4, <2>5 DEF Sound, InStep
  <2>6. CASE ~ s.picking /\ t = w /\ (s.global \ off) \cup on = s.global
    <3>1. Sound(t, sc)
      BY <1>1, <2>2, <2>6 DEF Sound
    <3>2. ASSUME ~ s.released
          PROVE  FALSE
      <4>1. s.selected = s.global \cap s.view.items
        BY <2>6, <3>2 DEF InStep
      <4> QED BY <1>4, <2>6, <4>1 DEF on, off
    <3> QED BY <2>2, <2>6, <3>1, <3>2 DEF InStep
  <2>7. CASE /\ ~ s.picking
             /\ t.global = ((s.global \ off) \cup on) \cap (s.view.items \cup Outside)
             /\ t.selected = t.global \cap Items /\ ~ t.released
    <3>1. t.global \cap Items \subseteq s.view.items
      BY <2>7, SelectionAssumption
    <3>2. \A x \in s.view.items : Ancestors[x] \subseteq s.view.items
      BY <1>1 DEF Plain, Follows
    <3>3. WithAncestors(t.global \cap Items) \subseteq s.view.items
      BY <3>1, <3>2 DEF WithAncestors
    <3>4. t.selected = t.global \cap t.view.items
      BY <1>2, <2>4, <2>7, <3>1
    <3>5. Sound(t, sc)
      BY <1>1, <2>4, <2>7, <3>1 DEF Sound
    <3> QED BY <2>4, <2>7, <3>3, <3>4, <3>5 DEF InStep, Reaches
  <2> QED BY <1>2, <2>4, <2>5, <2>6, <2>7
<1> QED BY <1>3, <1>4

(* The tree selects what it has of the UFE selection: nobody changes that. *)
LEMMA FollowedInTree ==
    ASSUME NEW sc \in Scenes, NEW s, Sound(s, sc), NEW items, items = s.global \cap s.view.items,
           NEW t, t = SelectInTree(s, items)
    PROVE  /\ Sound(t, sc) /\ t.view = s.view /\ t.global = s.global /\ t.picking = s.picking
           /\ ~ s.picking => t.selected = items
<1> DEFINE w == [s EXCEPT !.selected = items]
           on == items \ s.selected
           off == s.selected \ items
<1>1. /\ s \in States /\ Plain(s.view, sc) /\ s.selected \subseteq s.view.items
      /\ s.picking => s.heard = s.picks
  BY DEF Sound
<1>2. /\ s.view \in Views /\ s.selected \subseteq Items /\ s.global \subseteq Items \cup Outside
      /\ s.picking \in BOOLEAN /\ s.view.items \subseteq Items
  BY <1>1, StateFields, ViewFields
<1>3. CASE items = s.selected
  BY <1>3 DEF SelectInTree
<1>4. CASE items # s.selected
  <2>1. t = OnTreeViewSelectionChanged(w, on, off)
    BY <1>4 DEF SelectInTree
  <2>2. /\ w \in States /\ w.view = s.view /\ w.picking = s.picking /\ w.selected = items
        /\ w.global = s.global /\ w.picks = s.picks /\ w.heard = s.heard
    BY <1>1, <1>2 DEF States
  <2>3. on \in SUBSET Items /\ off \in SUBSET Items /\ (s.global \ off) \cup on = s.global
    BY <1>1, <1>2
  <2> HIDE DEF w, on, off
  <2>6. SignalChanges(t, w, on, off)
    BY <2>1, <2>2, <2>3, Signalled
  <2>4. /\ t \in States /\ t.view = s.view /\ t.picking = s.picking
        /\ s.picking => /\ t.selected = items /\ t.global = s.global
                        /\ s.heard = s.picks => t.heard = t.picks
        /\ ~ s.picking => t = w
    BY <2>2, <2>3, <2>6 DEF SignalChanges
  <2>5. t.selected = items /\ t.global = s.global
    BY <1>2, <2>2, <2>4
  <2> QED BY <1>1, <2>4, <2>5 DEF Sound
<1> QED BY <1>3, <1>4

(* What a handler that brings the tree back leaves: all is sound and in step, and the UFE         *)
(* selection is as it was.                                                                        *)
BroughtBack(t, s, sc) ==
    Sound(t, sc) /\ InStep(t, sc) /\ t.global = s.global /\ t.picking = s.picking

(* updateTreeSelection brings the tree back, whatever it showed. *)
LEMMA TreeSelectionUpdated ==
    ASSUME NEW sc \in Scenes, NEW s, Sound(s, sc), NEW t, t = UpdateTreeSelection(sc, s)
    PROVE  BroughtBack(t, s, sc)
<1> DEFINE paths == s.global \cap Items
           parents == UNION {Ancestors[x] : x \in paths \ s.view.items}
           fetched == Fetch(s.view, sc, parents)
           back == [s EXCEPT !.released = FALSE]
           grown == [s EXCEPT !.view = fetched, !.released = FALSE]
<1>1. /\ s \in States /\ Plain(s.view, sc) /\ s.selected \subseteq s.view.items
      /\ s.picking => s.heard = s.picks
  BY DEF Sound
<1>2. /\ s.view \in Views /\ s.selected \subseteq Items /\ s.global \subseteq Items \cup Outside
      /\ s.picking \in BOOLEAN /\ s.view.items \subseteq Items
  BY <1>1, StateFields, ViewFields
<1>3. Follows(s.view, sc)
  BY <1>1 DEF Plain
<1>4. /\ back \in States /\ back.view = s.view /\ back.selected = s.selected
      /\ back.global = s.global /\ back.picking = s.picking /\ back.picks = s.picks
      /\ back.heard = s.heard /\ ~ back.released
  BY <1>1 DEF States
<1>5. Grows(fetched, s.view, sc)
  BY <1>3, FetchGrows
<1>6. Plain(fetched, sc) /\ fetched \in Views /\ s.view.items \subseteq fetched.items
  <2> HIDE DEF fetched
  <2> QED BY <1>1, <1>5, PlainGrows DEF Grows, Follows
<1>7. WithAncestors(paths) \cap Visible(sc) \subseteq fetched.items
  <2>1. ASSUME NEW x \in WithAncestors(paths), x \in Visible(sc)
        PROVE  x \in fetched.items
    <3>1. PICK p \in paths : x \in {p} \cup Ancestors[p]
      BY <2>1 DEF WithAncestors
    <3>2. CASE p \in s.view.items
      BY <1>3, <1>6, <3>1, <3>2 DEF Follows
    <3>3. CASE p \notin s.view.items
      <4>1. Ancestors[p] \subseteq parents
        BY <3>1, <3>3
      <4>2. Ancestors[x] \subseteq Ancestors[p]
        BY <3>1, AboveAbove
      <4>3. Ancestors[x] \subseteq parents
        BY <4>1, <4>2
      <4> HIDE DEF parents
      <4> QED BY <1>1, <2>1, <4>3, FetchReaches
    <3> QED BY <3>2, <3>3
  <2> QED BY <2>1
<1> HIDE DEF fetched
<1>8. /\ grown \in States /\ grown.view = fetched /\ grown.selected = s.selected
      /\ grown.global = s.global /\ grown.picking = s.picking /\ grown.picks = s.picks
      /\ grown.heard = s.heard /\ ~ grown.released
  BY <1>1, <1>6 DEF States
<1>9. t = IF s.global = {} THEN SelectInTree(back, {})
          ELSE IF paths = s.selected THEN back ELSE SelectInTree(grown, paths \cap fetched.items)
  BY DEF UpdateTreeSelection, fetched
<1> HIDE DEF back, grown
<1>10. Sound(back, sc) /\ Sound(grown, sc)
  BY <1>1, <1>4, <1>6, <1>8 DEF Sound
<1>11. CASE s.global = {}
  <2>1. t = SelectInTree(back, {}) /\ {} = back.global \cap back.view.items
    BY <1>4, <1>9, <1>11
  <2>2. /\ Sound(t, sc) /\ t.view = back.view /\ t.global = back.global /\ t.picking = back.picking
        /\ ~ back.picking => t.selected = {}
    BY <1>10, <2>1, FollowedInTree
  <2>3. WithAncestors({}) = {}
    BY DEF WithAncestors
  <2>4. Reaches(t, sc)
    BY <1>4, <1>11, <2>2, <2>3 DEF Reaches
  <2> QED BY <1>4, <1>11, <2>2, <2>4 DEF BroughtBack, InStep
<1>12. CASE s.global # {} /\ paths = s.selected
  <2>1. t = back
    BY <1>9, <1>12
  <2>2. WithAncestors(paths) \subseteq s.view.items
    BY <1>1, <1>3, <1>12 DEF Follows, WithAncestors
  <2>3. s.selected = s.global \cap s.view.items
    BY <1>1, <1>2, <1>12
  <2> QED BY <1>4, <1>10, <2>1, <2>2, <2>3 DEF BroughtBack, InStep, Reaches
<1>13. CASE s.global # {} /\ paths # s.selected
  <2>1. t = SelectInTree(grown, paths \cap fetched.items)
    BY <1>9, <1>13
  <2>2. fetched.items \subseteq Items
    BY <1>6, ViewFields
  <2>3. paths \cap fetched.items = grown.global \cap grown.view.items
    BY <1>8, <2>2
  <2>4. /\ Sound(t, sc) /\ t.view = grown.view /\ t.global = grown.global
        /\ t.picking = grown.picking
        /\ ~ grown.picking => t.selected = paths \cap fetched.items
    BY <1>10, <2>1, <2>3, FollowedInTree
  <2>5. Reaches(t, sc)
    BY <1>7, <1>8, <2>4 DEF Reaches
  <2> QED BY <1>8, <2>3, <2>4, <2>5 DEF BroughtBack, InStep
<1> QED BY <1>11, <1>12, <1>13

(* What may be rebuilt from x down in a scene: outside of that, the view is plain in it. *)
PlainOutside(v, sc, x) ==
    /\ Rebuildable(v, sc, x) /\ ~ v.search /\ ~ v.showInactive
    /\ Root \in v.items /\ v.items \cap Inactive = {}
    /\ \A y \in Items : y \in {x} \cup Below(x) \/ FetchedRightly(v, sc, y)

(* rebuildSubtree brings the tree back, in a scene that changed from x down. *)
LEMMA RebuiltAndBack ==
    ASSUME NEW sc \in Scenes, NEW s \in States, NEW x, PlainOutside(s.view, sc, x),
           s.selected \subseteq s.view.items, s.picking => s.heard = s.picks,
           NEW pathChange, NEW t, t = Rebuild(sc, s, x, pathChange)
    PROVE  BroughtBack(t, s, sc)
<1> DEFINE v == s.view
           u == RebuildSubtree(v, sc, x, Empty, v.showInactive, pathChange)
           w == [s EXCEPT !.view = u, !.selected = s.selected \ Below(x)]
<1>1. /\ x \in v.items /\ v \in Views /\ v.items \subseteq Items /\ s.selected \subseteq Items
      /\ v.showInactive = FALSE
  BY StateFields, ViewFields DEF PlainOutside, Rebuildable
<1>2. t = UpdateTreeSelection(sc, w)
  BY <1>1 DEF Rebuild
<1>3. Rebuilt(u, v, sc, x, Empty, FALSE)
  <2>1. Empty \in Filters /\ FALSE \in BOOLEAN
    BY DEF Filters
  <2> QED BY <1>1, <2>1, SubtreeRebuilt DEF PlainOutside
<1> HIDE DEF u
<1>4. Root \in u.items
  <2>1. Root \notin Below(x)
    BY TreeAssumption DEF Below
  <2> QED BY <1>3, <2>1 DEF Rebuilt, PlainOutside
<1>5. u.items \cap Inactive = {}
  BY <1>3 DEF Rebuilt, PlainOutside
<1>6. \A y \in Items : FetchedRightly(u, sc, y)
  BY <1>3 DEF Rebuilt, PlainOutside
<1>7. Plain(u, sc) /\ u \in Views
  BY <1>3, <1>4, <1>5, <1>6 DEF Plain, Rebuilt, Follows
<1>8. /\ w \in States /\ w.view = u /\ w.selected = s.selected \ Below(x)
      /\ w.global = s.global /\ w.picking = s.picking /\ w.picks = s.picks
      /\ w.heard = s.heard
  BY <1>1, <1>7 DEF States
<1> HIDE DEF w
<1>9. w.selected \subseteq u.items
  BY <1>3, <1>8 DEF Rebuilt
<1>10. Sound(w, sc)
  BY <1>7, <1>8, <1>9 DEF Sound
<1>11. BroughtBack(t, w, sc)
  BY <1>2, <1>10, TreeSelectionUpdated
<1> QED BY <1>8, <1>11 DEF BroughtBack

(* The UFE selection is replaced: the tree follows, whatever it showed. *)
LEMMA GlobalReplaced ==
    ASSUME NEW sc \in Scenes, NEW s, Sound(s, sc), NEW items \in SUBSET (Items \cup Outside),
           NEW t, t = ReplaceGlobal(sc, s, items)
    PROVE  Sound(t, sc) /\ InStep(t, sc) /\ t.global = items /\ t.picking = s.picking
<1> DEFINE w == [s EXCEPT !.global = items]
<1>1. t = UpdateTreeSelection(sc, w)
  BY DEF ReplaceGlobal
<1>2. s \in States
  BY DEF Sound
<1>3. /\ w \in States /\ w.view = s.view /\ w.selected = s.selected /\ w.global = items
      /\ w.picking = s.picking /\ w.picks = s.picks /\ w.heard = s.heard
  BY <1>2 DEF States
<1> HIDE DEF w
<1>4. Sound(w, sc)
  BY <1>3 DEF Sound
<1>5. BroughtBack(t, w, sc)
  BY <1>1, <1>4, TreeSelectionUpdated
<1> QED BY <1>3, <1>5 DEF BroughtBack

-----------------------------------------------------------------------------
(* What a handler returns is what there is after it. *)
LEMMA AfterHandler ==
    ASSUME NEW s \in States, Become(s)
    PROVE  Now' = s
<1>1. Now' = [view |-> s.view, selected |-> s.selected, global |-> s.global,
              picking |-> s.picking, picks |-> s.picks, heard |-> s.heard, released |-> s.released]
  BY DEF Now, Become
<1> QED BY <1>1 DEF States

(* The invariant is said of the record that the handlers take. *)
LEMMA BeforeHandler ==
    ASSUME SelectionInv
    PROVE  /\ scene \in Scenes /\ Now \in States /\ Plain(view, scene) /\ selected \subseteq view.items
           /\ picking => heard = picks
           /\ Now.view = view /\ Now.selected = selected /\ Now.global = global
           /\ Now.picking = picking /\ Now.picks = picks /\ Now.heard = heard
           /\ Now.released = released /\ Sound(Now, scene) /\ InStep(Now, scene)
BY DEF SelectionInv, Sound, Now

(* After a handler that leaves all sound and in step the invariant holds. *)
LEMMA HandlerKeeps ==
    ASSUME NEW s, Sound(s, scene'), InStep(s, scene'), Become(s), scene' \in Scenes
    PROVE  SelectionInv' /\ global' = s.global
<1>1. s \in States
  BY DEF Sound
<1>2. Now' = s
  BY <1>1, AfterHandler
<1>3. SelectionInv' <=> scene' \in Scenes /\ Sound(Now', scene') /\ InStep(Now', scene')
  BY DEF SelectionInv, Sound, InStep, Plain, Reaches
<1> QED BY <1>2, <1>3 DEF Become

(* The explorer opens with nothing selected. *)
LEMMA SelectionInit ==
    ASSUME Init
    PROVE  SelectionInv
<1>1. /\ scene \in Scenes /\ view = OpenedView(scene, FALSE) /\ selected = {} /\ global = {}
      /\ picking = FALSE /\ picks = {} /\ heard = {} /\ released = FALSE
  BY DEF Init
<1>2. /\ Follows(view, scene) /\ ~ view.search /\ view.showInactive = FALSE /\ Root \in view.items
      /\ \A y \in view.items : FALSE \/ y \notin Inactive
      /\ \A y \in Items : FetchedRightly(view, scene, y)
  BY <1>1, OpenedTree
<1>3. Plain(view, scene) /\ view \in Views
  BY <1>2 DEF Plain, Follows
<1>4. Now \in States /\ Now.view = view /\ Now.selected = {} /\ Now.global = {} /\ Now.picking = FALSE
  BY <1>1, <1>3 DEF Now, States
<1>5. Sound(Now, scene)
  BY <1>3, <1>4 DEF Sound
<1>6. WithAncestors({} \cap Items) = {}
  BY DEF WithAncestors
<1> QED BY <1>1, <1>4, <1>5, <1>6 DEF SelectionInv, InStep, Reaches

-----------------------------------------------------------------------------
(* The user selects in the tree: in pick mode that leaves the UFE selection alone. *)
LEMMA SelectStep ==
    ASSUME SelectionInv, NEW items, Select(items)
    PROVE  SelectionInv' /\ (picking => global' = global)
<1> DEFINE t == SelectInTree(Now, items)
<1>1. scene' = scene /\ Become(t) /\ items \subseteq view.items
  BY DEF Select, Displayed
<1>2. scene \in Scenes /\ items \in SUBSET Now.view.items
  BY <1>1, BeforeHandler
<1>3. Sound(t, scene) /\ InStep(t, scene) /\ (Now.picking => t.global = Now.global)
  BY <1>2, BeforeHandler, SelectedInTree
<1> HIDE DEF t
<1>4. SelectionInv' /\ global' = t.global
  BY <1>1, <1>2, <1>3, HandlerKeeps
<1> QED BY <1>3, <1>4, BeforeHandler

(* Something else selects. *)
LEMMA SelectElsewhereStep ==
    ASSUME SelectionInv, NEW items \in SUBSET (Items \cup Outside), SelectElsewhere(items)
    PROVE  SelectionInv' /\ global' = items
<1> DEFINE t == ReplaceGlobal(scene, Now, items)
<1>1. scene' = scene /\ Become(t)
  BY DEF SelectElsewhere
<1>2. Sound(t, scene) /\ InStep(t, scene) /\ t.global = items
  BY BeforeHandler, GlobalReplaced
<1> HIDE DEF t
<1> QED BY <1>1, <1>2, BeforeHandler, HandlerKeeps

(* A pick mode begins with nothing selected in the tree. *)
LEMMA EnterPickModeStep ==
    ASSUME SelectionInv, EnterPickMode
    PROVE  SelectionInv' /\ global' = global
<1> DEFINE s == [Now EXCEPT !.picking = TRUE, !.picks = {}, !.heard = {}]
           t == SelectInTree(s, {})
<1>1. scene' = scene /\ Become(t)
  BY DEF EnterPickMode
<1>2. /\ s \in States /\ s.view = view /\ s.selected = selected /\ s.global = global
      /\ s.picking /\ s.picks = {} /\ s.heard = {}
  BY BeforeHandler DEF States
<1> HIDE DEF s
<1>3. Sound(s, scene) /\ InStep(s, scene)
  BY <1>2, BeforeHandler DEF Sound, InStep
<1>4. {} \in SUBSET s.view.items
  OBVIOUS
<1>5. Sound(t, scene) /\ InStep(t, scene) /\ (s.picking => t.global = s.global)
  BY <1>3, <1>4, BeforeHandler, SelectedInTree
<1> HIDE DEF t
<1>6. SelectionInv' /\ global' = t.global
  BY <1>1, <1>5, BeforeHandler, HandlerKeeps
<1> QED BY <1>2, <1>5, <1>6

(* A pick mode ends, and the tree shows the UFE selection again. *)
LEMMA ExitPickModeStep ==
    ASSUME SelectionInv, ExitPickMode
    PROVE  SelectionInv' /\ global' = global
<1> DEFINE s == [Now EXCEPT !.picking = FALSE, !.picks = {}, !.heard = {}]
           t == UpdateTreeSelection(scene, s)
<1>1. scene' = scene /\ Become(t)
  BY DEF ExitPickMode
<1>2. /\ s \in States /\ s.view = view /\ s.selected = selected /\ s.global = global
      /\ ~ s.picking
  BY BeforeHandler DEF States
<1> HIDE DEF s
<1>3. Sound(s, scene)
  BY <1>2, BeforeHandler DEF Sound
<1>4. BroughtBack(t, s, scene)
  BY <1>3, BeforeHandler, TreeSelectionUpdated
<1> HIDE DEF t
<1> QED BY <1>1, <1>2, <1>4, BeforeHandler, HandlerKeeps DEF BroughtBack

(* A pick mode whose last reference goes leaves the tree as it is. *)
LEMMA ReleasePickModeStep ==
    ASSUME SelectionInv, ReleasePickMode
    PROVE  SelectionInv' /\ global' = global
<1> DEFINE s == [Now EXCEPT !.picking = FALSE, !.heard = {}, !.released = TRUE]
<1>1. scene' = scene /\ Become(s)
  BY DEF ReleasePickMode
<1>2. /\ s \in States /\ s.view = view /\ s.selected = selected /\ s.global = global
      /\ ~ s.picking /\ s.released
  BY BeforeHandler DEF States
<1> HIDE DEF s
<1>3. Sound(s, scene) /\ InStep(s, scene)
  BY <1>2, BeforeHandler DEF Sound, InStep
<1> QED BY <1>1, <1>2, <1>3, BeforeHandler, HandlerKeeps

(* An item is expanded or collapsed: what it fetches is not in the UFE selection. *)
LEMMA ToggleStep ==
    ASSUME SelectionInv, NEW x \in Items, Toggle(x)
    PROVE  SelectionInv' /\ global' = global
<1> DEFINE closed == [view EXCEPT !.expanded = view.expanded \ {x}]
           opened == SetExpanded(view, scene, {x})
           s == [Now EXCEPT !.view = view']
<1>1. /\ scene' = scene /\ selected' = selected /\ global' = global /\ picking' = picking
      /\ picks' = picks /\ heard' = heard /\ released' = released
      /\ view' = closed \/ view' = opened
  BY DEF Toggle, state
<1>2. Plain(view, scene) /\ Follows(view, scene) /\ view \in Views /\ scene \in Scenes
  BY BeforeHandler DEF Plain, Follows
<1>3. Plain(view', scene) /\ view.items \subseteq view'.items
  <2>1. CASE view' = closed
    <3>1. /\ closed \in Views /\ closed.items = view.items /\ closed.search = view.search
          /\ closed.showInactive = view.showInactive /\ closed.expanded = view.expanded \ {x}
      BY <1>2 DEF Views
    <3> HIDE DEF closed
    <3>2. Follows(closed, scene)
      BY <1>2, <3>1 DEF Follows
    <3>3. \A y \in Items : FetchedRightly(closed, scene, y)
      BY <1>2, <3>1 DEF Plain, FetchedRightly, Children
    <3> QED BY <1>2, <2>1, <3>1, <3>2, <3>3 DEF Plain
  <2>2. CASE view' = opened
    <3>1. Grows(opened, view, scene)
      BY <1>2, SetExpandedGrows
    <3> HIDE DEF opened
    <3>2. Plain(opened, scene) /\ view.items \subseteq opened.items
      BY <1>2, <3>1, PlainGrows DEF Grows
    <3> QED BY <2>2, <3>2
  <2> QED BY <1>1, <2>1, <2>2
<1>4. view' \in Views /\ Follows(view', scene) /\ view'.items \cap Inactive = {}
  BY <1>3 DEF Plain, Follows
<1>5. /\ s \in States /\ s.view = view' /\ s.selected = selected /\ s.global = global
      /\ s.picking = picking /\ s.picks = picks /\ s.heard = heard /\ s.released = released
  BY <1>4, BeforeHandler DEF States
<1>6. Become(s)
  BY <1>1, <1>5 DEF Become
<1> HIDE DEF s
<1>7. Sound(s, scene)
  BY <1>3, <1>5, BeforeHandler DEF Sound
<1>8. InStep(s, scene)
  <2>1. ASSUME ~ picking, ~ released
        PROVE  selected = global \cap view'.items /\ Reaches(s, scene)
    <3>1. /\ selected = global \cap view.items
          /\ WithAncestors(global \cap Items) \cap Visible(scene) \subseteq view.items
      BY <2>1, BeforeHandler DEF InStep, Reaches
    <3>2. view'.items \subseteq Visible(scene) /\ view'.items \subseteq Items
      BY <1>4, ViewFields DEF Follows, Visible
    <3>3. global \cap view'.items \subseteq WithAncestors(global \cap Items)
      BY <3>2 DEF WithAncestors
    <3> QED BY <1>3, <1>5, <3>1, <3>2, <3>3 DEF Reaches
  <2> QED BY <1>5, <2>1 DEF InStep
<1> QED BY <1>1, <1>2, <1>6, <1>7, <1>8, HandlerKeeps

-----------------------------------------------------------------------------
(* A view stays plain in a scene where no active child came to what it has. *)
LEMMA PlainInAnother ==
    ASSUME NEW sc \in Scenes, NEW v, Plain(v, sc), NEW sc2 \in Scenes, v.items \subseteq sc2,
           \A z \in sc2 \ sc : z \in Inactive \/ Parent[z] \notin v.items
    PROVE  Plain(v, sc2)
<1>1. Follows(v, sc) /\ v \in Views /\ v.items \subseteq Items /\ sc2 \subseteq Items
  BY ViewFields, SceneClosed DEF Plain, Follows
<1>2. Follows(v, sc2)
  BY <1>1 DEF Follows
<1>3. \A y \in Items : FetchedRightly(v, sc2, y)
  BY <1>1, FetchedInAnother DEF Plain
<1> QED BY <1>2, <1>3 DEF Plain

(* A view may be rebuilt from x down in a scene that differs below x only. *)
LEMMA OutsidePlain ==
    ASSUME NEW sc \in Scenes, NEW v, Plain(v, sc), NEW sc2 \in Scenes, NEW x \in v.items,
           \A z \in Items \ Below(x) : z \in sc2 <=> z \in sc
    PROVE  PlainOutside(v, sc2, x)
<1>1. Follows(v, sc) /\ v \in Views /\ v.items \subseteq Items /\ v.items \subseteq sc
  BY ViewFields DEF Plain, Follows
<1>2. Rebuildable(v, sc2, x)
  BY <1>1 DEF Rebuildable, Follows
<1>3. ASSUME NEW y \in Items, y \notin {x} \cup Below(x)
      PROVE  FetchedRightly(v, sc2, y)
  <2>1. \A on \in BOOLEAN : FilteredChildren(sc2, on, y) = FilteredChildren(sc, on, y)
    BY <1>1, <1>3, ChildrenOutside
  <2>2. FetchedRightly(v, sc, y)
    BY DEF Plain
  <2> QED BY <2>1, <2>2 DEF FetchedRightly
<1> QED BY <1>2, <1>3 DEF PlainOutside, Plain

(* Rebuilding from x down in such a scene brings the tree back; where x is not in the tree       *)
(* nothing is done.                                                                               *)
LEMMA RebuildStep ==
    ASSUME SelectionInv, NEW sc2 \in Scenes, NEW x \in Items,
           \A z \in Items \ Below(x) : z \in sc2 <=> z \in scene,
           NEW pathChange, NEW t, t = Rebuild(sc2, Now, x, pathChange)
    PROVE  /\ x \in view.items => BroughtBack(t, Now, sc2)
           /\ x \notin view.items => t = Now /\ Sound(Now, sc2)
<1>1. /\ scene \in Scenes /\ Now \in States /\ Plain(view, scene) /\ Now.view = view
      /\ selected \subseteq view.items /\ Now.selected = selected
      /\ Now.picking => Now.heard = Now.picks
  BY BeforeHandler
<1>2. CASE x \in view.items
  <2>1. PlainOutside(view, sc2, x)
    BY <1>1, <1>2, OutsidePlain
  <2> QED BY <1>1, <1>2, <2>1, RebuiltAndBack
<1>3. CASE x \notin view.items
  <2>1. t = Now
    BY <1>1, <1>3 DEF Rebuild
  <2>2. /\ view.items \subseteq Items /\ view.items \subseteq scene
        /\ \A z \in view.items : Ancestors[z] \subseteq view.items
    BY <1>1, ViewFields DEF Plain, Follows
  <2>3. view.items \cap Below(x) = {}
    BY <1>1, <1>3, <2>2, NoneBelow DEF Plain, Follows
  <2>4. view.items \subseteq sc2
    BY <2>2, <2>3
  <2>5. ASSUME NEW z \in sc2 \ scene
        PROVE  Parent[z] \notin view.items
    <3>1. z \in Below(x) /\ z \in Items \ {Root}
      BY <1>1, SceneClosed
    <3>2. Parent[z] = x \/ Parent[z] \in Below(x)
      BY <3>1, ParentAbove DEF Below
    <3> QED BY <1>3, <2>3, <3>2
  <2>6. Plain(view, sc2)
    BY <1>1, <2>4, <2>5, PlainInAnother
  <2> QED BY <1>1, <1>3, <2>1, <2>6 DEF Sound
<1> QED BY <1>2, <1>3

(* What is above an item of the scene is visible when the item is. *)
LEMMA VisibleAbove ==
    ASSUME NEW sc \in Scenes, NEW y \in Visible(sc), NEW x \in Ancestors[y]
    PROVE  x \in Visible(sc)
<1>1. y \in Items /\ y \in sc /\ Ancestors[y] \subseteq sc
  BY SceneClosed DEF Visible
<1>2. Ancestors[x] \subseteq Ancestors[y]
  BY <1>1, AboveAbove
<1> QED BY <1>1, <1>2 DEF Visible

(* An item comes to the scene. *)
LEMMA ObjectAddStep ==
    ASSUME SelectionInv, NEW x \in Items, ObjectAdd(x)
    PROVE  SelectionInv' /\ global' = global
<1> DEFINE t == Rebuild(scene', Now, Parent[x], <<>>)
<1>1. /\ x \notin scene /\ Parent[x] \in scene /\ scene' = scene \cup {x}
      /\ Become(IF x \in Inactive THEN Now ELSE t)
  BY DEF ObjectAdd, EditScene
<1>2. scene \in Scenes /\ x \in Items \ {Root} /\ Parent[x] \in Items
  BY <1>1, BeforeHandler, SceneClosed
<1>3. scene' \in Scenes
  BY <1>1, <1>2, AddedScene
<1>4. x \in Below(Parent[x])
  BY <1>2, ParentAbove DEF Below
<1>5. Plain(view, scene) /\ view.items \subseteq scene
  BY BeforeHandler DEF Plain, Follows
<1>6. CASE x \in Inactive
  <2>1. Plain(view, scene')
    BY <1>1, <1>2, <1>3, <1>5, <1>6, PlainInAnother
  <2>2. Sound(Now, scene')
    BY <2>1, BeforeHandler DEF Sound
  <2>3. Visible(scene') \subseteq Visible(scene)
    BY <1>1, <1>6 DEF Visible
  <2>4. InStep(Now, scene')
    BY <2>3, BeforeHandler DEF InStep, Reaches
  <2> QED BY <1>1, <1>3, <1>6, <2>2, <2>4, BeforeHandler, HandlerKeeps
<1>7. CASE x \notin Inactive
  <2>1. \A z \in Items \ Below(Parent[x]) : z \in scene' <=> z \in scene
    BY <1>1, <1>4
  <2>2. /\ Parent[x] \in view.items => BroughtBack(t, Now, scene')
        /\ Parent[x] \notin view.items => t = Now /\ Sound(Now, scene')
    BY <1>2, <1>3, <2>1, RebuildStep
  <2>3. Become(t)
    BY <1>1, <1>7
  <2> HIDE DEF t
  <2>4. CASE Parent[x] \in view.items
    BY <1>3, <2>2, <2>3, <2>4, BeforeHandler, HandlerKeeps DEF BroughtBack
  <2>5. CASE Parent[x] \notin view.items
    <3>1. ASSUME InStep(Now, scene), ~ picking, ~ released
          PROVE  Reaches(Now, scene')
      <4>1. WithAncestors(global \cap Items) \cap Visible(scene) \subseteq view.items
        BY <3>1, BeforeHandler DEF InStep, Reaches
      <4>2. Visible(scene') \subseteq Visible(scene) \cup {x}
        BY <1>1 DEF Visible
      <4>3. ASSUME x \in WithAncestors(global \cap Items), x \in Visible(scene')
            PROVE  FALSE
        <5>1. Parent[x] \in Ancestors[x]
          BY <1>2, ParentAbove
        <5>2. Parent[x] \in Visible(scene)
          <6>1. Parent[x] \in Visible(scene')
            BY <1>3, <4>3, <5>1, VisibleAbove
          <6> QED BY <1>1, <6>1 DEF Visible
        <5>3. Parent[x] \in WithAncestors(global \cap Items)
          <6>1. PICK p \in global \cap Items : x \in {p} \cup Ancestors[p]
            BY <4>3 DEF WithAncestors
          <6>2. Parent[x] \in Ancestors[p]
            BY <5>1, <6>1, AboveAbove
          <6> QED BY <6>2 DEF WithAncestors
        <5> QED BY <2>5, <4>1, <5>2, <5>3
      <4> QED BY <4>1, <4>2, <4>3, BeforeHandler DEF Reaches
    <3>2. InStep(Now, scene')
      BY <3>1, BeforeHandler DEF InStep
    <3> QED BY <1>3, <2>2, <2>3, <2>5, <3>2, BeforeHandler, HandlerKeeps
  <2> QED BY <2>4, <2>5
<1> QED BY <1>6, <1>7

(* An item goes from the scene, with all that is below it. *)
LEMMA ObjectDeleteStep ==
    ASSUME SelectionInv, NEW x \in Items, ObjectDelete(x)
    PROVE  SelectionInv' /\ global' = global
<1> DEFINE t == Rebuild(scene', Now, Parent[x], <<>>)
<1>1. /\ x \in scene \ {Root} /\ scene' = scene \ ({x} \cup Below(x))
      /\ Become(IF x \in view.items THEN t ELSE Now)
  BY DEF ObjectDelete, EditScene
<1>2. scene \in Scenes /\ x \in Items \ {Root} /\ Parent[x] \in Items
  BY <1>1, BeforeHandler, ParentAbove
<1>3. scene' \in Scenes
  BY <1>1, <1>2, RemovedScene
<1>4. {x} \cup Below(x) \subseteq Below(Parent[x])
  BY <1>2, BelowParent
<1>5. Plain(view, scene) /\ view.items \subseteq scene
      /\ \A y \in view.items : Ancestors[y] \subseteq view.items
  BY BeforeHandler DEF Plain, Follows
<1>6. CASE x \in view.items
  <2>1. \A z \in Items \ Below(Parent[x]) : z \in scene' <=> z \in scene
    BY <1>1, <1>4
  <2>2. Parent[x] \in view.items
    BY <1>2, <1>5, <1>6, ParentAbove
  <2>3. BroughtBack(t, Now, scene')
    BY <1>2, <1>3, <2>1, <2>2, RebuildStep
  <2>4. Become(t)
    BY <1>1, <1>6
  <2> HIDE DEF t
  <2> QED BY <1>3, <2>3, <2>4, BeforeHandler, HandlerKeeps DEF BroughtBack
<1>7. CASE x \notin view.items
  <2>1. view.items \subseteq scene'
    BY <1>1, <1>5, <1>7 DEF Below
  <2>2. Plain(view, scene')
    BY <1>1, <1>2, <1>3, <1>5, <2>1, PlainInAnother
  <2>3. Sound(Now, scene')
    BY <2>2, BeforeHandler DEF Sound
  <2>4. Visible(scene') \subseteq Visible(scene)
    BY <1>1 DEF Visible
  <2>5. InStep(Now, scene')
    BY <2>4, BeforeHandler DEF InStep, Reaches
  <2> QED BY <1>1, <1>3, <1>7, <2>3, <2>5, BeforeHandler, HandlerKeeps
<1> QED BY <1>6, <1>7

(* An item is renamed: its new path takes its place in the UFE selection. *)
LEMMA ObjectRenameStep ==
    ASSUME SelectionInv, NEW x \in Items, NEW y \in Items, ObjectRename(x, y)
    PROVE  /\ SelectionInv' /\ scene' = (scene \ {x}) \cup {y}
           /\ global' = (global \ {x}) \cup {y}
<1> DEFINE rebuilt == Rebuild(scene', Now, Parent[x], [z \in {x} |-> y])
           removed == IF x \in rebuilt.global
                      THEN ReplaceGlobal(scene', rebuilt, rebuilt.global \ {x}) ELSE rebuilt
           t == ReplaceGlobal(scene', removed, removed.global \cup {y})
<1>1. /\ x \in scene \ {Root} /\ Below(x) \cap scene = {}
      /\ y \notin scene /\ y # Root /\ Parent[x] = Parent[y]
      /\ scene' = (scene \ {x}) \cup {y}
      /\ Become(t)
  BY DEF ObjectRename, EditScene
<1>2. /\ scene \in Scenes /\ x \in Items \ {Root} /\ y \in Items \ {Root}
      /\ Parent[x] \in Items
  BY <1>1, BeforeHandler, ParentAbove
<1>3. scene' \in Scenes
  <2>1. Parent[y] \in scene \ {x}
    BY <1>1, <1>2, SceneClosed, ParentAbove
  <2> QED BY <1>1, <1>2, <2>1, MovedScene
<1>4. x \in Below(Parent[x]) /\ y \in Below(Parent[x])
  BY <1>1, <1>2, ParentAbove DEF Below
<1>5. Sound(rebuilt, scene') /\ rebuilt.global = global
  <2>1. \A z \in Items \ Below(Parent[x]) : z \in scene' <=> z \in scene
    BY <1>1, <1>4
  <2>2. /\ Parent[x] \in view.items => BroughtBack(rebuilt, Now, scene')
        /\ Parent[x] \notin view.items => rebuilt = Now /\ Sound(Now, scene')
    BY <1>2, <1>3, <2>1, RebuildStep
  <2> HIDE DEF rebuilt
  <2> QED BY <2>2, BeforeHandler DEF BroughtBack
<1>6. global \subseteq Items \cup Outside
  BY BeforeHandler, StateFields
<1> HIDE DEF rebuilt
<1>7. Sound(removed, scene') /\ removed.global = global \ {x}
  <2>1. CASE x \in global
    <3>1. global \ {x} \in SUBSET (Items \cup Outside)
      BY <1>6
    <3>2. removed = ReplaceGlobal(scene', rebuilt, global \ {x})
      BY <1>5, <2>1
    <3> HIDE DEF removed
    <3> QED BY <1>3, <1>5, <3>1, <3>2, GlobalReplaced
  <2>2. CASE x \notin global
    BY <1>5, <2>2
  <2> QED BY <2>1, <2>2
<1>8. Sound(t, scene') /\ InStep(t, scene') /\ t.global = (global \ {x}) \cup {y}
  <2>1. (global \ {x}) \cup {y} \in SUBSET (Items \cup Outside)
    BY <1>6
  <2>2. t = ReplaceGlobal(scene', removed, (global \ {x}) \cup {y})
    BY <1>7
  <2> HIDE DEF removed, t
  <2> QED BY <1>3, <1>7, <2>1, <2>2, GlobalReplaced
<1> HIDE DEF t
<1> QED BY <1>1, <1>3, <1>8, HandlerKeeps

-----------------------------------------------------------------------------
(* What a step may do to the UFE selection. *)
UsersStep ==
    global' # global =>
        \/ SelectElsewhere(global')
        \/ ~ picking /\ \E items \in SUBSET Displayed(view) : Select(items)
        \/ \E x, y \in Items : /\ scene' = (scene \ {x}) \cup {y}
                              /\ global' = (global \ {x}) \cup {y}

(* Every step keeps the invariant, and changes the UFE selection for the user only. *)
LEMMA SelectionStep ==
    ASSUME SelectionInv, [Next]_vars
    PROVE  SelectionInv' /\ [UsersStep]_vars
<1>1. ASSUME NEW items \in SUBSET Items, Select(items)
      PROVE  SelectionInv' /\ UsersStep
  <2>1. SelectionInv' /\ (picking => global' = global)
    BY <1>1, SelectStep
  <2>2. items \in SUBSET Displayed(view)
    BY <1>1 DEF Select
  <2> QED BY <1>1, <2>1, <2>2 DEF UsersStep
<1>2. ASSUME NEW items \in SUBSET (Items \cup Outside), SelectElsewhere(items)
      PROVE  SelectionInv' /\ UsersStep
  BY <1>2, SelectElsewhereStep DEF UsersStep
<1>3. CASE EnterPickMode
  BY <1>3, EnterPickModeStep DEF UsersStep
<1>4. CASE ExitPickMode
  BY <1>4, ExitPickModeStep DEF UsersStep
<1>5. CASE ReleasePickMode
  BY <1>5, ReleasePickModeStep DEF UsersStep
<1>6. ASSUME NEW x \in Items, ObjectAdd(x)
      PROVE  SelectionInv' /\ UsersStep
  BY <1>6, ObjectAddStep DEF UsersStep
<1>7. ASSUME NEW x \in Items, ObjectDelete(x)
      PROVE  SelectionInv' /\ UsersStep
  BY <1>7, ObjectDeleteStep DEF UsersStep
<1>8. ASSUME NEW x \in Items, Toggle(x)
      PROVE  SelectionInv' /\ UsersStep
  BY <1>8, ToggleStep DEF UsersStep
<1>9. ASSUME NEW x \in Items, NEW y \in Items, ObjectRename(x, y)
      PROVE  SelectionInv' /\ UsersStep
  BY <1>9, ObjectRenameStep DEF UsersStep
<1>10. CASE UNCHANGED vars
  <2>1. scene' = scene /\ Now' = Now
    BY <1>10 DEF vars, state, Now
  <2>2. SelectionInv'
    BY <2>1 DEF SelectionInv, Sound, InStep, Plain, Reaches
  <2> QED BY <1>10, <2>2
<1> QED BY <1>1, <1>2, <1>3, <1>4, <1>5, <1>6, <1>7, <1>8, <1>9, <1>10 DEF Next

(* The invariant holds always. *)
THEOREM SelectionInvariant == Spec => []SelectionInv
<1>1. Init => SelectionInv
  BY SelectionInit
<1>2. SelectionInv /\ [Next]_vars => SelectionInv'
  BY SelectionStep
<1> QED BY <1>1, <1>2, PTL DEF Spec

(* Out of pick mode the tree always shows the UFE selection, of every item it has, whoever      *)
(* selected and whatever was rebuilt: Explorer::updateTreeSelection is called at the end of all *)
(* that may take an item of the selection from the tree, or bring one back.                     *)
THEOREM TreeIsInStep == Spec => []TreeShowsTheSelection
<1>1. SelectionInv => TreeShowsTheSelection
  BY BeforeHandler DEF InStep, TreeShowsTheSelection
<1> QED BY <1>1, SelectionInvariant, PTL

(* What the callbacks of a pick mode were told always adds up to what is picked, though the     *)
(* signal of the tree comes in the middle of changes that are not picks.                        *)
THEOREM CallbacksAreTold == Spec => []CallbacksKnowThePicks
<1>1. SelectionInv => CallbacksKnowThePicks
  BY BeforeHandler DEF CallbacksKnowThePicks
<1> QED BY <1>1, SelectionInvariant, PTL

(* The handlers of the two selections call each other, and no step changes the UFE selection    *)
(* but one of the user, or the rename of an item.                                               *)
THEOREM OnlyTheUserSelects == Spec => SelectionIsTheUsers
<1>1. SelectionInv /\ [Next]_vars => [UsersStep]_vars
  BY SelectionStep
<1>2. Spec => [][UsersStep]_vars
  BY <1>1, SelectionInvariant, PTL DEF Spec
<1> QED BY <1>2 DEF SelectionIsTheUsers, UsersStep
================================================================================
