----------------------------- MODULE HdMaxEngine -----------------------------
(***************************************************************************)
(* HdMaxEngine draws a USD stage in a 3ds Max viewport.  Between frames    *)
(* the scene is edited and hydra's change tracker collects what is dirty;  *)
(* a frame (Render) lets hydra sync the dirty prims, brings consolidation  *)
(* up to date and draws what is consolidated as consolidated meshes and    *)
(* the rest mesh by mesh.  RenderToMesh syncs as well, for another purpose *)
(* and at another time, and draws nothing.                                 *)
(*                                                                         *)
(* Frames and edits run on the main thread of 3ds Max, one at a time.      *)
(***************************************************************************)
EXTENDS HdMaxConsolidator

CONSTANTS Paths,          \* the paths rprims may have
          Times,          \* the time codes: 0 among them
          RenderTagSets,  \* the lists of render tags a frame may ask for
          Views,          \* what a camera may see: sets of paths
          Configs,        \* the consolidation settings a frame may come with
          Animations,     \* the values of a points attribute: shapes over time
          Bindings,       \* the material bindings: functions from faces
          Colors,         \* the display colors
          DisplayModes,   \* the display modes
          RenderTags,     \* the purposes a prim may have
          Selections,     \* the selections the user makes
          FirstPrim,      \* the prim hydra finds under a path, when it is populated
          Edits,          \* the kinds of edits made
          SubsetsMayAppear,  \* whether an edited mesh may be bound to a new material
          MaxEdits        \* bound: the edits between two frames

ASSUME EngineAssumption ==
    /\ 0 \in Times
    /\ DOMAIN FirstPrim = Paths
    /\ SubsetsMayAppear \in BOOLEAN
    /\ MaxEdits \in Nat
    /\ \A setting \in Configs : setting.strategy \in Strategies
    /\ DisplayModes \subseteq {"USDPreviewSurface", "USDDisplayColor", "WireColor"}
    /\ \A paths \in Selections : paths \subseteq Paths

\* What a mesh may be bound to: some of the faces, each to a material or to none.
IsBinding(b) ==
    DOMAIN b \subseteq Faces /\ \A f \in DOMAIN b : b[f] \in Materials \cup {NoMaterial}

ASSUME SceneAssumption ==
    /\ IsFiniteSet(Faces) /\ IsFiniteSet(Paths)
    /\ \A b \in Bindings : IsBinding(b)
    /\ \A p \in Paths : "binding" \in DOMAIN FirstPrim[p] /\ IsBinding(FirstPrim[p].binding)

VARIABLES scene,      \* the prims of the stage, by path
          selection,  \* the selected paths
          displayMode,  \* HdMaxDisplaySettings::displayMode
          hydra,      \* hydra's dirty bits of every rprim
          sceneTime,  \* the time of the scene delegate
          order,      \* meshRenderDataVector: the paths, in the order of the vector
          data,       \* the render data of every path
          renderTags,           \* prevRenderTags, and the task controller's
          authoredTagsChanged,  \* the version of the render tags is not authoredTagsVer
          cache,      \* consolidationCache
          config,     \* the consolidator's Config
          lastVpRenderTime,
          staticDelayStarted,
          frame,      \* the last frame: its camera, and the items drawn
          edits       \* the edits since the last frame

sceneVars == <<scene, selection, displayMode>>
engineVars == <<renderTags, authoredTagsChanged, cache, config, lastVpRenderTime,
                staticDelayStarted>>
vars == <<sceneVars, hydra, sceneTime, order, data, engineVars, frame, edits>>

NoCamera == [time |-> 0, tags |-> {}, view |-> {}]

NoFrame == [camera |-> NoCamera, items |-> {}]

Init ==
    /\ scene = FirstPrim
    /\ selection = {}
    /\ displayMode = "USDPreviewSurface"
    /\ hydra = [p \in Paths |-> HydraBits]
    /\ sceneTime = 0
    /\ order = SetToSeq(Paths)
    /\ data = [p \in Paths |-> NewRenderData]
    /\ renderTags = {}
    /\ authoredTagsChanged = TRUE
    /\ cache = << >>
    /\ config = [strategy |-> "Off", delayed |-> TRUE, mode |-> "USDPreviewSurface"]
    /\ lastVpRenderTime = 0
    /\ staticDelayStarted = FALSE
    /\ frame = NoFrame
    /\ edits = 0

-----------------------------------------------------------------------------
(* Edits.  The scene changes and hydra marks what depends on it. *)

Edit(kind) == kind \in Edits /\ edits < MaxEdits /\ edits' = edits + 1

MarkRprimDirty(p, bits) == hydra' = [hydra EXCEPT ![p] = @ \cup bits]

EditPrim(p, field, value, bits) ==
    /\ scene[p][field] # value
    /\ scene' = [scene EXCEPT ![p] = [@ EXCEPT ![field] = value]]
    /\ MarkRprimDirty(p, bits)
    /\ UNCHANGED <<selection, displayMode, sceneTime, order, data, engineVars, frame>>

SetPoints(p, animation) ==
    Edit("points") /\ EditPrim(p, "points", animation, {"DirtyPoints"})

SetVisible(p, visible) ==
    Edit("visibility") /\ EditPrim(p, "visible", visible, {"DirtyVisibility"})

SetDisplayColor(p, color) ==
    Edit("color") /\ EditPrim(p, "color", color, {"DirtyPrimvar"})

\* The geom subsets of a mesh are edited, or its faces.
SetBinding(p, binding) ==
    /\ Edit("binding")
    /\ \/ SubsetsMayAppear
       \/ {binding[f] : f \in DOMAIN binding}
            \subseteq {scene[p].binding[f] : f \in DOMAIN scene[p].binding}
    /\ EditPrim(p, "binding", binding, {"DirtyTopology"})

EditInstances(p) ==
    /\ Edit("instances")
    /\ MarkRprimDirty(p, {"DirtyInstanceIndex"})
    /\ UNCHANGED <<sceneVars, sceneTime, order, data, engineVars, frame>>

\* The purpose of a prim: hydra only counts the version of the render tags up.
SetRenderTag(p, tag) ==
    /\ Edit("renderTag")
    /\ scene[p].tag # tag
    /\ scene' = [scene EXCEPT ![p].tag = tag]
    /\ authoredTagsChanged' = TRUE
    /\ UNCHANGED <<selection, displayMode, hydra, sceneTime, order, data, renderTags, cache,
                   config, lastVpRenderTime, staticDelayStarted, frame>>

\* Mutant: only what is selected now is marked.
MarkNewlySelected(paths) ==
    hydra' = [p \in DOMAIN hydra |->
                IF p \in paths THEN hydra[p] \cup {"DirtySelectionHighlight"} ELSE hydra[p]]

MarkSelectionDirty(paths) ==
    hydra' = [p \in DOMAIN hydra |->
                IF p \in selection \cup paths
                THEN hydra[p] \cup {"DirtySelectionHighlight"} ELSE hydra[p]]

\* HdMaxEngine::SetSelection: nothing when the selection is the same.
SetSelection(paths) ==
    /\ Edit("selection")
    /\ paths # selection
    /\ selection' = paths
    /\ MarkSelectionDirty(paths)
    /\ UNCHANGED <<scene, displayMode, sceneTime, order, data, engineVars, frame>>

\* HdMaxDisplaySettings::SetDisplayMode.
SetDisplayMode(mode) ==
    /\ Edit("displayMode")
    /\ displayMode # mode
    /\ displayMode' = mode
    /\ hydra' = [p \in DOMAIN hydra |-> hydra[p] \cup {"DirtyPrimvar", "DirtyMaterialId"}]
    /\ UNCHANGED <<scene, selection, sceneTime, order, data, engineVars, frame>>

\* f with the value v for p, which it did not have.
With(f, p, v) == [q \in DOMAIN f \cup {p} |-> IF q = p THEN v ELSE f[q]]

\* HdMaxRenderDelegate::CreateRprim, when a prim appears.
CreateRprim(p) ==
    /\ Edit("create")
    /\ p \notin DOMAIN scene
    /\ scene' = With(scene, p, FirstPrim[p])
    /\ hydra' = With(hydra, p, HydraBits)
    /\ data' = With(data, p, NewRenderData)
    /\ order' = Append(order, p)
    /\ UNCHANGED <<selection, displayMode, sceneTime, engineVars, frame>>

\* Mutant: the last entry goes, whichever was to be freed.
PoppedFrom(paths, p) == Front(paths)

\* The last entry takes the freed slot.
RemovedFrom(paths, p) ==
    [n \in 1 .. Len(paths) - 1 |-> IF paths[n] = p THEN Last(paths) ELSE paths[n]]

\* HdMaxRenderDelegate::DestroyRprim.
DestroyRprim(p) ==
    /\ Edit("destroy")
    /\ order' = RemovedFrom(order, p)
    /\ scene' = [q \in DOMAIN scene \ {p} |-> scene[q]]
    /\ hydra' = [q \in DOMAIN scene \ {p} |-> hydra[q]]
    /\ data' = [q \in DOMAIN scene \ {p} |-> data[q]]
    /\ UNCHANGED <<selection, displayMode, sceneTime, engineVars, frame>>

-----------------------------------------------------------------------------
(* Hydra's part of a frame. *)

IsAnimated(p) == \E t, u \in Times : scene[p].points[t] # scene[p].points[u]

\* The scene delegate marks the prims whose points vary when the time changes.
SetTime(h, t) ==
    [p \in DOMAIN h |->
        h[p] \cup (IF t # sceneTime /\ IsAnimated(p) THEN {"DirtyPoints"} ELSE {})]

HasTagIn(p, tags) == scene[p].tag \in tags

\* Other render tags start consolidation from scratch.
PrepareBatch(tags) ==
    IF tags = renderTags THEN [data |-> data, cache |-> cache] ELSE Reset(data, cache)

\* The rprims whose tag becomes active or inactive: all of their bits are marked.
ApplyActiveRenderTags(d, tags) ==
    IF tags = renderTags /\ ~authoredTagsChanged THEN {}
    ELSE {p \in DOMAIN d : d[p].renderTagActive # HasTagIn(p, tags)}

\* Hydra only syncs the dirty rprims whose tag is asked for.
RenderBatch(d, h, t, tags) ==
    [p \in DOMAIN d |->
        IF HasTagIn(p, tags) /\ h[p] # {}
        THEN Sync(d[p], h[p], scene[p], p \in selection, displayMode, t)
        ELSE [data |-> d[p], bits |-> h[p]]]

HydraRender(t, tags) ==
    LET prepared == PrepareBatch(tags)
        flipped == ApplyActiveRenderTags(prepared.data, tags)
        active == [p \in DOMAIN data |->
                     IF p \in flipped
                     THEN [prepared.data[p] EXCEPT !.renderTagActive = ~@]
                     ELSE prepared.data[p]]
        marked == [p \in DOMAIN hydra |-> IF p \in flipped THEN HydraBits ELSE hydra[p]]
        synced == RenderBatch(active, SetTime(marked, t), t, tags)
    IN [data |-> [p \in DOMAIN synced |-> synced[p].data],
        hydra |-> [p \in DOMAIN synced |-> synced[p].bits],
        cache |-> prepared.cache]

\* HdMaxRenderDelegate::GetMeshRenderData.
GetMeshRenderData(d) ==
    Sift(order, {p \in DOMAIN d : d[p].renderTagActive /\ d[p].visible
                                    /\ d[p].shadedSubsets # << >>})

-----------------------------------------------------------------------------
(* HdMaxEngine::Consolidate. *)

\* isSameSourceData: the listed subsets, prim after prim, are the ones the output
\* was offered; it may have been offered more at the end.
IsSameSourceData(out, list, d) ==
    LET now == SubsetsOf(list, d)
    IN /\ Len(now) <= Len(out.source)
       /\ \A n \in DOMAIN now : out.source[n][1] = now[n][1]

\* staticDelayStarted after this frame, and whether the time has stood still for
\* the delay: "elapsed" when the clock says so.
DelayStarted(cfg, t) ==
    IF cfg.delayed THEN lastVpRenderTime = t ELSE staticDelayStarted

IsStatic(cfg, t, elapsed) ==
    cfg.delayed => lastVpRenderTime = t /\ staticDelayStarted /\ elapsed

\* What the dirty bits of the consolidated subsets become.
Clean(s) == [s EXCEPT !.dirtyBits = {}]

\* Mutant: the new settings are taken over without starting from scratch.
UpdatedKeepingCache(list, d, c, cfg, t, lost) ==
    UpdateConsolidation(list, d, c, cfg, lastVpRenderTime, t, lost)

\* New settings start consolidation from scratch.
Updated(list, d, c, cfg, t, lost) ==
    IF cfg # config THEN Reset(d, c)
    ELSE UpdateConsolidation(list, d, c, cfg, lastVpRenderTime, t, lost)

\* Returns the render data, the cache, and the outputs to draw: at most one.
Consolidate(list, d, c, cfg, t, elapsed, lost) ==
    LET now == Updated(list, d, c, cfg, t, lost)
        builds == cfg.strategy # "Off"
                    /\ (IsStatic(cfg, t, elapsed) \/ cfg.strategy = "Dynamic")
                    /\ ~(t \in DOMAIN now.cache
                           /\ IsSameSourceData(now.cache[t], list, now.data))
        built == IF builds THEN BuildConsolidation(list, now.data, now.cache, cfg.mode, t)
                 ELSE now
        outs == {built.cache[u] : u \in {t} \cap DOMAIN built.cache}
    IN IF cfg.strategy = "Off" THEN [data |-> now.data, cache |-> now.cache, outs |-> {}]
       ELSE [data |-> MapSubsets(built.data, UNION {out.consolidated : out \in outs}, Clean),
             cache |-> built.cache,
             outs |-> outs]

-----------------------------------------------------------------------------
(* Drawing.  An item is what is seen of one face; its source tells the items    *)
(* of a face drawn twice apart.  Gizmos are wires, whose color shows selection. *)

GeomItems(g) ==
    UNION {{[path |-> g.inputs[n].subset[1], face |-> f,
             look |-> IF g.inputs[n].subset[1] \in Gizmos
                      THEN <<"gizmo", g.hasActiveSelection>> ELSE g.material,
             points |-> g.points[g.inputs[n].subset[1]],
             highlight |-> /\ g.inputs[n].subset[1] \notin Gizmos
                           /\ g.hasActiveSelection
                           /\ g.highlight[g.inputs[n].subset[1]],
             source |-> <<"geom", g.inputs[n].subset>>]
            : f \in g.inputs[n].faces} : n \in DOMAIN g.inputs}

\* A geometry without vertex buffers shows nothing.
MeshItems(p, d, mode) ==
    UNION {{[path |-> p, face |-> f,
             look |-> ResolveViewportMaterial(p, d, d.shadedSubsets[i], mode),
             points |-> d.pointsBuffer,
             highlight |-> /\ p \notin Gizmos
                           /\ d.selected
                           /\ d.shadedSubsets[i].streams = 3
                           /\ d.selectionBuffer = [lit |-> TRUE, size |-> CountOf(d.points)],
             source |-> <<"mesh", <<p, i>>>>]
            : f \in d.shadedSubsets[i].indexBuffer}
           : i \in {j \in DOMAIN d.shadedSubsets :
                      ~d.shadedSubsets[j].inConsolidation /\ d.shadedSubsets[j].streams > 0}}

AllInConsolidation(list, d, outs) ==
    \E out \in outs : Cardinality(out.consolidated) = Len(SubsetsOf(list, d))

\* The listed meshes that are drawn mesh by mesh: not all consolidated, not culled.
DrawnAlone(list, d, outs, view) ==
    IF AllInConsolidation(list, d, outs) THEN {}
    ELSE {p \in ToSet(list) \cap view :
            \E i \in DOMAIN d[p].shadedSubsets : ~d[p].shadedSubsets[i].inConsolidation}

-----------------------------------------------------------------------------
(* HdMaxEngine::Render. *)

\* The settings of a frame, with the display mode.
ConfigOf(setting) ==
    [strategy |-> setting.strategy, delayed |-> setting.delayed, mode |-> displayMode]

RenderNothing(h, camera) ==
    /\ frame' = [camera |-> camera, items |-> {}]
    /\ data' = h.data
    /\ cache' = h.cache
    /\ UNCHANGED <<config, lastVpRenderTime, staticDelayStarted>>

RenderList(h, list, cfg, camera, elapsed, lost) ==
    \E c \in {Consolidate(list, h.data, h.cache, cfg, camera.time, elapsed, lost)} :
      LET alone == DrawnAlone(list, c.data, c.outs, camera.view)
          geoms == UNION {out.geoms : out \in c.outs}
      IN /\ cache' = c.cache
         /\ data' = [p \in DOMAIN c.data |->
                       IF p \in alone THEN UpdateRenderGeometry(c.data[p]) ELSE c.data[p]]
         /\ frame' = [camera |-> camera,
                      items |-> UNION {GeomItems(g) : g \in geoms}
                                  \cup UNION {MeshItems(p, data'[p], displayMode) : p \in alone}]
         /\ config' = cfg
         /\ lastVpRenderTime' = camera.time
         /\ staticDelayStarted' = DelayStarted(cfg, camera.time)

\* The first frames, and those where everything is hidden, find nothing to draw.
\* The delay can only be over once it has started.
Render(camera) ==
    /\ \E h \in {HydraRender(camera.time, camera.tags)} :
         LET list == GetMeshRenderData(h.data)
             stray == StrayMeshes(list, h.data, h.cache, displayMode, lastVpRenderTime)
         IN /\ hydra' = h.hydra
            /\ \/ list = << >> /\ RenderNothing(h, camera)
               \/ /\ list # << >>
                  /\ \E setting \in Configs, elapsed \in {FALSE, staticDelayStarted},
                        lost \in SUBSET stray :
                       RenderList(h, list, ConfigOf(setting), camera, elapsed, lost)
    /\ sceneTime' = camera.time
    /\ renderTags' = camera.tags
    /\ authoredTagsChanged' = FALSE
    /\ edits' = 0
    /\ UNCHANGED <<sceneVars, order>>

\* Only syncs: what it makes of the render data is read by somebody else.
RenderToMesh(t, tags) ==
    /\ \E h \in {HydraRender(t, tags)} :
         data' = h.data /\ hydra' = h.hydra /\ cache' = h.cache
    /\ sceneTime' = t
    /\ renderTags' = tags
    /\ authoredTagsChanged' = FALSE
    /\ UNCHANGED <<sceneVars, order, config, lastVpRenderTime, staticDelayStarted, frame, edits>>

Cameras == [time : Times, tags : RenderTagSets, view : Views]

EditMesh(p) ==
    \/ \E a \in Animations : SetPoints(p, a)
    \/ \E visible \in BOOLEAN : SetVisible(p, visible)
    \/ \E c \in Colors : SetDisplayColor(p, c)
    \/ \E b \in Bindings : SetBinding(p, b)
    \/ \E tag \in RenderTags : SetRenderTag(p, tag)
    \/ EditInstances(p)
    \/ DestroyRprim(p)

EditStage ==
    \/ \E p \in Paths : CreateRprim(p)
    \/ \E paths \in Selections : SetSelection(paths)
    \/ \E mode \in DisplayModes : SetDisplayMode(mode)

Next ==
    \/ \E p \in DOMAIN scene : EditMesh(p)
    \/ EditStage
    \/ \E camera \in Cameras : Render(camera)
    \/ \E t \in Times, tags \in RenderTagSets : RenderToMesh(t, tags)

Spec == Init /\ [][Next]_vars

-----------------------------------------------------------------------------
(* Properties. *)

TypeOK ==
    /\ DOMAIN scene \subseteq Paths
    /\ {ToSet(order), DOMAIN hydra, DOMAIN data} = {DOMAIN scene}
    /\ Len(order) = Cardinality(DOMAIN scene)
    /\ selection \subseteq Paths
    /\ displayMode \in {"USDPreviewSurface", "USDDisplayColor", "WireColor"}
    /\ \A p \in DOMAIN scene : hydra[p] \subseteq HydraBits
    /\ \A p \in DOMAIN scene : \A k \in SubsetKeys(data, p) :
         SubsetAt(data, k).dirtyBits \subseteq AllDirty
    /\ DOMAIN cache \subseteq Times
    /\ {lastVpRenderTime, sceneTime} \subseteq Times
    /\ config.strategy \in Strategies

LastOutput == Outputs(cache, lastVpRenderTime)

LiveKeys == UNION {SubsetKeys(data, p) : p \in DOMAIN data}

\* Of every mesh, no more subsets are flagged "in consolidation", which nothing draws
\* on its own, than the consolidation of the last frame holds.  The flag is a copy "for
\* performance reasons" of what the output knows, across syncs that rebuild and
\* renumber the subsets and resets that go by number.
FlaggedSubsetsAreConsolidated ==
    \A p \in DOMAIN data :
      Cardinality({k \in SubsetKeys(data, p) : SubsetAt(data, k).inConsolidation})
        <= Cardinality({k \in LastOutput.consolidated : k[1] = p})

\* There are no consolidated meshes but those of the last frame: the cache never
\* brings back meshes made for another time, whatever the sequence of times.
OneConsolidation ==
    \A t \in DOMAIN cache \ {lastVpRenderTime} : cache[t].geoms = {}

OwnBuffersAreLoaded(d, s) ==
    /\ s.indexBuffer = s.faces
    /\ s.streams = 3
    /\ d.pointsBuffer = d.points
    /\ d.selected => d.selectionBuffer = [lit |-> TRUE, size |-> CountOf(d.points)]

GeomIsLoaded(d, s, k) ==
    \E g \in LastOutput.geoms :
      /\ k[1] \in DOMAIN g.points
      /\ [subset |-> k, faces |-> s.faces] \in ToSet(g.inputs)
      /\ g.points[k[1]] = d.points
      /\ g.highlight[k[1]] = d.selected

\* A subset without dirty bits is loaded where it is drawn from: in the
\* consolidated mesh if it is flagged, in its own buffers otherwise.  Nothing else
\* remembers what was not loaded when the subset was culled, hidden or consolidated.
CleanSubsetsAreLoaded ==
    \A k \in LiveKeys :
      LET d == data[k[1]] s == SubsetAt(data, k) IN
      s.dirtyBits = {} =>
        IF s.inConsolidation THEN GeomIsLoaded(d, s, k) ELSE OwnBuffersAreLoaded(d, s)

\* A consolidated mesh is drawn with the item that shows highlights exactly when
\* one of its meshes is highlighted, although the flag is only computed from the
\* meshes whose selection is dirty.
HighlightFlagIsRight ==
    \A g \in LastOutput.geoms :
      g.hasActiveSelection <=> \E p \in DOMAIN g.highlight : g.highlight[p]

\* A consolidated mesh merges several subsets, all of one material, and no more
\* triangles than the limit; no subset is in two.
CellsRespectLimits ==
    LET FacesOf(g) == Cardinality(UNION {{n} \X g.inputs[n].faces : n \in DOMAIN g.inputs})
        Keys(g) == {g.inputs[n].subset : n \in DOMAIN g.inputs}
    IN /\ \A g \in LastOutput.geoms : Len(g.inputs) > 1 /\ FacesOf(g) <= MaxCellSize
       /\ \A g, h \in LastOutput.geoms : g = h \/ Keys(g) \cap Keys(h) = {}

\* The subsets merged in each consolidated mesh.
Groups(c) ==
    UNION {{{g.inputs[n].subset : n \in DOMAIN g.inputs} : g \in c[t].geoms} : t \in DOMAIN c}

OnlyDirty(bits) == \A p \in DOMAIN hydra : hydra[p] \subseteq bits

GizmoGroups(c) == {group \in Groups(c) : \E k \in group : k[1] \in Gizmos}

SameView == renderTags' = renderTags /\ ~authoredTagsChanged /\ config' = config

OnlySelectionDirty ==
    /\ OnlyDirty({"DirtySelectionHighlight"})
    /\ \A k \in LiveKeys : SubsetAt(data, k).dirtyBits = {}
    /\ LastOutput.consolidated \subseteq LiveKeys

SameTime == {sceneTime', lastVpRenderTime'} = {sceneTime, lastVpRenderTime}

\* A frame drawn at the same time after nothing but the selection has changed keeps
\* the consolidated meshes; only those of gizmos may go.
SelectionKeepsConsolidation ==
    [][OnlySelectionDirty /\ SameView /\ SameTime
         => Groups(cache) \ GizmoGroups(cache) \subseteq Groups(cache')]_vars

-----------------------------------------------------------------------------
(* What a viewport promises. *)

\* The picture of a scene: every face of every visible prim that is asked for, in
\* the camera's view, once.
LookOf(s, p, f) ==
    CASE p \in Gizmos -> <<"gizmo", p \in s.selection>>
      [] p \notin Gizmos /\ s.mode = "USDPreviewSurface"
           /\ s.prims[p].binding[f] # NoMaterial -> <<"material", s.prims[p].binding[f]>>
      [] p \notin Gizmos /\ s.mode = "WireColor" -> <<"wireColor">>
      [] OTHER -> <<"displayColor", s.prims[p].color>>

PictureOf(s, c) ==
    UNION {{[path |-> p, face |-> f, look |-> LookOf(s, p, f),
             points |-> s.prims[p].points[c.time],
             highlight |-> p \notin Gizmos /\ p \in s.selection,
             drawn |-> 1] : f \in DOMAIN s.prims[p].binding}
           : p \in {q \in DOMAIN s.prims \cap c.view :
                      s.prims[q].visible /\ s.prims[q].tag \in c.tags}}

NoImage == [camera |-> NoCamera, shown |-> {}]

\* What the camera sees of the items drawn, and how often; nothing that counts
\* once the scene has been edited.
Image ==
    IF edits > 0 THEN NoImage ELSE
    [camera |-> frame.camera,
     shown |-> {[path |-> i.path, face |-> i.face, look |-> i.look, points |-> i.points,
                 highlight |-> i.highlight,
                 drawn |-> Cardinality({j \in frame.items : j.path = i.path /\ j.face = i.face})]
                : i \in {j \in frame.items : j.path \in frame.camera.view}}]

Display == INSTANCE ViewportDisplay
             WITH Picture <- PictureOf, image <- Image,
                  scene <- [prims |-> scene, selection |-> selection, mode |-> displayMode]

\* Every frame shows the scene as it is, at the time of the frame, each face once
\* with its material, its points and its highlight: through dirty bits, syncs made
\* for other purposes, culling and consolidation.
ViewportShowsTheScene == Display!Spec
=============================================================================
