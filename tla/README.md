# USD for 3ds Max: TLA+ models of the viewport, saving, the explorer and export

This directory holds TLA+ modules, TLC configurations and TLAPS proofs about the USD plugins for 3ds
Max in `src/`. Paths below are relative to `src/src/` unless they start with `src/`.

1. [The system](#1-the-system)
2. [Modules](#2-modules)
3. [How state and actions correspond to the code](#3-how-state-and-actions-correspond-to-the-code)
4. [Runs, bounds, and what they show](#4-runs-bounds-and-what-they-show)
5. [Disagreements between the code and what it says](#5-disagreements-between-the-code-and-what-it-says)
6. [Proofs](#6-proofs)
7. [What is not modelled](#7-what-is-not-modelled)
8. [Plan](#8-plan)

## 1. The system

The plugins show a USD stage as one object of a 3ds Max scene, draw it in the viewports, edit it
through UFE and the USD explorer, save its layers with the scene, and import and export USD files.

| Component | State it keeps | Operations | Interacts with |
|---|---|---|---|
| Render data tables, `RenderDelegate/Imaging/HdMaxRenderDelegate.cpp` | a vector of render data per kind of rprim, a map from paths to positions | `CreateRprim`, `DestroyRprim`, `SafeGet*RenderData`, `Get*RenderData`, `Clear` | hydra creates and destroys rprims; consolidator, engine and rprims remember positions |
| Mesh render data and `HdMaxMesh`, `RenderDelegate/HdMaxMeshRenderData.cpp`, `RenderDelegate/Imaging/HdMaxMesh.cpp` | source data, subsets per material with dirty bits, vertex and index buffers | `Sync` (hydra's bits to the subsets' bits), `UpdateRenderGeometry` (bits to buffers), `ResolveViewportMaterial` | hydra calls `Sync` in parallel over rprims; the engine loads buffers on the main thread |
| Consolidator, `RenderDelegate/HdMaxConsolidator.cpp` | settings, outputs by time | `UpdateConsolidation`, `BuildConsolidation`, `Reset`, `UnconsolidatePrims`, `UpdateVertexBuffers` | reads and writes dirty bits and `inConsolidation` of subsets |
| Engine, `RenderDelegate/HdMaxEngine.cpp` | render index, render tags, last time, static delay, selection | `Render`, `RenderToMesh`, `HydraRender`, `Consolidate`, `SetSelection`, `UpdateRootPrim` | called by the stage object for each viewport redraw and for each evaluation of its mesh |
| Display settings, `RenderDelegate/HdMaxDisplaySettings.cpp` | display mode | `SetDisplayMode` | marks all rprims dirty |
| Basis curves, materials, instancing, `RenderDelegate/` | as meshes; material data shared by subsets; instance transforms and selection | sync, register, update, release | engine and meshes |
| USD stage object, `MaxUsdObjects/Objects/USDStageObject.cpp` | stage, root layer parameters, engine, generated cameras, animation range | set, clear and reload the stage, undo and redo, save and load, display | everything else |
| Stage object map, stages subject, undo, `MaxUsdObjects/MaxUsdUfe/` | stage objects by stage, UFE observers, undoable commands | register, remove, notify | stage objects, UFE |
| Layer manager and session state, `MaxUsdObjects/LayerEditor/` | layers to save, whether a save is being handled | pre-save, status and post-save notifications, restoring layers | the scene's save and load |
| Picking, geom and camera objects, controllers, `MaxUsdObjects/` | references to prims | evaluation, picking | stage object |
| Scene export, `MaxUsd/Builders/USDSceneBuilder.cpp` | nodes to visit, names given, classes of shared objects, prims by node | preview pass, creation of prims, export pass, cancel | prim writers, stage, 3ds Max nodes |
| Animation export, `MaxUsd/Translators/AnimExportTask.cpp` | times at which something is due | `Execute` | the writers' validity intervals, 3ds Max's cache of one time |
| Writers, conversion, jobs, `MaxUsd/Translators/`, `translators/`, `MaxUsd/MeshConversion/` | a job's context | write prims, chasers | stage, 3ds Max nodes |
| Import, `MaxUsd/Builders/MaxSceneBuilder.cpp` | readers, imported nodes | build | stage, 3ds Max nodes |
| USD explorer, `UFEUI/` | tree of items fetched lazily, expansion, filter, search thread and timer, selection, pick mode | search, handlers of UFE notifications, rebuilds, picks | the UFE scene and the UFE selection of 3ds Max |
| Import and prim selection dialogs, `MaxUsd/Widgets/`, `MaxUsdObjects/Views/` | tree models, a search thread each | search, select | a stage nobody edits meanwhile |
| Options, dialogs, attribute editor, Python bindings | option values | get, set | export and import |

**What is hard.** Almost everything runs on the main thread of 3ds Max, one call at a time, so that
the hard behaviours are mostly not data races but *long sequences of legal calls over stale state*:

- hydra's dirty bits are consumed by the first sync, whatever asked for it (a redraw, a redraw that
  culls the mesh, `RenderToMesh`), and what they meant must survive in a second set of dirty bits,
  one per material subset, until the mesh is next drawn;
- a consolidated mesh is a copy of data of many meshes, kept up to date from the same bits, in the
  same frame in which those bits are cleared;
- positions, subset numbers, paths and times name things that move, are renumbered, disappear and come
  back;
- the consolidation cache is keyed by time and moved from one time to the next;
- a static delay, settings that come with each frame, and several cameras decide which of the two
  ways of drawing a mesh takes;
- hydra's sync and `UpdateVertexBuffers` do use several threads, each writing its own mesh or its own
  vertices only; the order of their writes shows in no state the model keeps, except for writes
  outside of the locked range of a vertex buffer, which may get lost (section 5);
- the explorer does have a thread of its own: it searches the scene while the main thread edits it,
  its results come when the filter may be another one, and a timer disables the tree meanwhile;
- the tree view's selection and the UFE selection change each other from handlers called in the
  middle of a change, while rows are removed and fetched;
- an export walks the scene twice and must come to the same prims, although names and classes depend
  on the nodes before; and it writes samples from a loop that adds to the map it walks.

What makes each modelled component correct:

- *tables*: map and vector stay inverse; a stale position never yields another rprim's data;
- *mesh render data*: a subset without dirty bits is loaded where it is drawn from;
- *consolidator*: a subset that claims to be consolidated is; no consolidated mesh survives the frame
  it was made for; cells stay within limits; highlights follow the selection;
- *engine*: every frame shows the scene as it is when it is drawn, each face once;
- *stage objects, their map, layer manager*: a save prompts once, a cancelled one writes nothing, no edit
  is lost without 3ds Max still asking to save, and opening a scene brings back what was saved of it;
- *explorer*: the tree holds what the scene holds, a search finds every match that stays, results are
  those of the filter typed last, the tree is never left disabled, and only the user changes selections;
- *export*: both passes agree, nodes do not share prims, the transforms that apply to a prim are those of
  its node's parents, every instance has its prototype, and at every frame the samples tell the data.

Hazards, at their lines, and the properties aimed at them, are listed in `PROJECT.json`.

## 2. Modules

| Module | What it is |
|---|---|
| `RenderDataTable` | the tables of the render delegate, a state machine of its own |
| `RenderDataTableProofs` | its theorems |
| `MeshRenderData` | the render data of a mesh: operators for sync, loading and materials |
| `HdMaxConsolidator` | the consolidator: operators on render data and cache |
| `HdMaxEngine` | the state machine: edits of the stage, frames, `RenderToMesh`; its properties |
| `HdMaxEngineProofs` | its theorems about consolidation |
| `ViewportDisplay` | the abstract specification of a viewport: an image is the picture of the scene at the time it is drawn, until an edit makes it obsolete |
| `StageObjectMap` | the registry of stage objects: its operations |
| `SceneSave` | the state machine of stage objects, root layers, the save protocol and the opening of a scene; its properties |
| `SceneSaveProofs` | its theorems about the save protocol, about types, the registry and edits, and about what opening restores |
| `ExplorerTree` | the explorer's tree: operators for fetching, rebuilding and expanding |
| `ExplorerTreeProofs` | the lemmas about them that both proofs below use |
| `SearchBox` | the abstract specification of a search with results computed in the background |
| `ExplorerSearch` | the state machine of typing, search thread, timer, results and edits of the scene |
| `ExplorerSearchProofs` | its theorems |
| `ExplorerSelection` | the state machine of the tree's selection, the UFE selection and pick mode |
| `ExplorerSelectionProofs` | its theorems |
| `SceneExport` | the state machine of an export: preview pass, creation of prims, export pass |
| `SceneExportProofs` | its theorems |
| `AnimExport` | the state machine of the loop that writes samples |
| `AnimExportProofs` | its theorems |
| `MCRenderDataTable`, `MCHdMaxEngine`, `MCExplorerSearch`, `MCExplorerSelection`, `MCSceneExport`, `MCAnimExport` | values for the runs |

`HdMaxEngine` extends `HdMaxConsolidator`, which extends `MeshRenderData`: these two have no
concurrency of their own and are called synchronously, so they are operators that return what the
code leaves behind. `HdMaxEngine` implements `ViewportDisplay` under the refinement mapping at its end
(`Display == INSTANCE ViewportDisplay WITH ...`): the picture is computed from the stage alone, the
image from the items a frame draws, and *every* frame must show the picture.

`ExplorerSearch` and `ExplorerSelection` both extend `ExplorerTree`, which has no thread of its own: a
*view* is a record of what the tree model and the tree view keep. `ExplorerSearch` implements
`SearchBox` (`Box == INSTANCE SearchBox WITH ...`), its liveness included: the filter wanted is the
text, the filter shown is `_previousSearchFilter`.

## 3. How state and actions correspond to the code

### RenderDataTable

`vector` and `indexMap` are `meshRenderDataVector` and `meshRenderDataIndexMap`, and those of basis
curves; `rprims` is what hydra holds, with the position it was given. `DestroyRprim` tells the kind of
a path by looking in the basis curves' map first, as the code does. `SafeGet` is the lookup with a
remembered position. Positions count from 1. In `HdMaxEngine`, where lookups by stale position were
shown harmless by this module, render data is a function of paths and the order of the vector is the
sequence `order`.

### MeshRenderData

A mesh is a set of faces of one triangle each, bound to materials; its points at a time are a *shape*,
of which only the identity and the number of points matter. `shadedSubsets` is the vector of
subsets sorted by material path. A subset keeps its dirty bits, `inConsolidation`, the faces its index
buffer holds and how many of the vertex buffers (points, normals, selection, in this order) its
geometry was given: `SetVertexBuffer` drops a buffer when one before it is missing.

`Sync` is `HdMaxMesh::Sync`: the early return when the render tag is inactive, the rebuild of the
subsets, the early return without subsets, and the bits that each of hydra's bits becomes in each
display mode. `UpdateRenderGeometry` loads the shared vertex buffers from the bits of any subset, and
cleans all of them.

Left out: uvs, vertex colors, transforms and the contents of normals; wireframe
indices; instancers (every mesh has one instance).

### HdMaxConsolidator

An output's `geoms`, `consolidated` and `source` are `geoms`, the keys of `primToGeom`
(`consolidatedRenderData` lists the same subsets) and `sourceRenderData`. A subset is named by
path and index, as in the code. `UpdateConsolidation` follows the function: nothing to
do without geometries, break (`Reset`), take gizmos out, write the dirty subsets in the vertex buffers
of each geometry of their material, move the output to the new time. The range of vertices that
`UpdateVertexBuffers` locks ends with the last input; what the graphics SDK makes of writes outside of
it is not known, and every subset of them may get lost.

Cells are filled first-fit by number of triangles. The cells of one mesh's instances are left out.

### HdMaxEngine

One action per operation:

| Action | Code |
|---|---|
| `Render` | `HdMaxEngine::Render`: `HydraRender`, the early return without render data, `Consolidate`, drawing |
| `RenderToMesh` | `HdMaxEngine::RenderToMesh`: `HydraRender` for another purpose |
| `SetSelection`, `SetDisplayMode` | the functions of these names |
| `CreateRprim`, `DestroyRprim` | of the render delegate, when prims appear or go |
| `SetPoints`, `SetVisible`, `SetDisplayColor`, `SetBinding`, `EditInstances`, `SetRenderTag` | edits of the stage, as UsdImaging reports them to hydra's change tracker (external) |

A frame comes with a camera (time, render tags, and the paths it does not cull) and with settings,
and the clock says whether the static delay has elapsed. `MaxEdits` bounds the edits between two
frames. `hydra` holds the dirty bits of hydra's change tracker, `frame` what the last frame drew.

`HydraRender`, in order: other render tags start consolidation over; the scene delegate marks animated
points when the time changes; rprims whose render tag flips get all bits; the dirty rprims with an
active tag are synced.

### SceneSave

A root layer (it stands for the layer stack of its stage) is a file or a numbered anonymous layer, with
the number of its last edit and whether it is dirty. A stage has an identity of its own, since stages may
share a root layer and the map and the stage cache go by stages. `layers` are the layers in memory: USD
drops a layer, and what was not saved of it, when no stage has it, and stages live in the cache, in
stage objects and in the `StageRestoreObj` records of the undo stack (`LiveStages`, `KeepLive`).

| Action | Code |
|---|---|
| `Create`, `Clone`, `SetRootLayer`, `SetStageFromCache`, `Undo`, `Redo` | `MaxUsdObjects/Objects/USDStageObject.cpp`; each ends in `SetUSDStage`, which moves the entries of the map and of the cache |
| `SaveAnonymousRoot` | the layer editor writes an anonymous root, then its callback in `MaxUsdObjects/LayerEditor/MaxLayerEditor.cpp:175` |
| `FilePreSave`, `FilePostSave`, `NeedSaveRequest` | `USDLayerManager::NotifyFileSave` for the notifications of 3ds Max, and the task it posts |
| `SpecifySaveReferences` | of each stage object of the scene, in any order: `HandleMaxSceneSave`, with what users may answer (`CancelSave`, `KeepEdits`, `SaveAll`) and the files that cannot be written |
| `SaveObject`, `SaveClassData` | `USDStageObject::Save` of each object in any order, then `USDStageObjectclassDesc::Save` |
| `FileOpen` | `USDStageObjectclassDesc::Load`, then `USDItemPostLoadCB::proc` per object |
| `EditRoot`, `ToggleNode`, `InsertInCache` | edits of a layer, deletion of a node and its undo, a script that puts a stage into the cache (external) |

A save is several steps, one per call from 3ds Max; in between nobody edits, since the calls and the modal
dialogs run on the main thread. The posted task runs after the save, before or after further edits. Taken
from how the code uses 3ds Max: an auto-save sends no check-status notification, post-save comes before
the reset of the flag `SaveRequiredFlag` (the comment at `MaxUsdObjects/LayerEditor/USDLayerManager.cpp:246`),
and it also comes after an interrupted save. A save that ended without it would leave `isAutoSave` FALSE,
and the next auto-save would prompt.

The component `own` of an object is no state of the code: it says that the object was neither copied nor
given a stage from the cache, for `LoadRestoresOwnStages`. `requests`, `MaxRequests`, `MaxId` and
`MaxUndo` are bounds. Left out: sublayers, session layers, payload rules, layer locks, merging scenes.

### ExplorerTree

`items` are the scene items in `_treeItemMap`, `search` and `found` are `_useSearchItems` and
`_searchItemsPaths`, `expanded` what the `QTreeView` has expanded. `FetchMore` is `canFetchMore` with
`fetchMore`: an item fetches only if the number of its children is not what it should be. `Layout` is
what Qt does next: what is displayed as expanded fetches. `RebuildSubtree` is `Explorer::rebuildSubtree`
with its `ExpandStateGuard`: the expanded paths are found, the subtree is rebuilt, and they are expanded
again, under their new names after a rename. Paths are model values with their parents and ancestors;
the child filter is one bit, whether inactive prims show.

### ExplorerSearch

| Action | Code |
|---|---|
| `OnSearchFilterChanged`, `WaitReturns` | `Explorer::onSearchFilterChanged`: `quit` and `wait` for a thread that is still running, then (`StartSearch`) a new timer and a new thread |
| `Visit`, `Finish` | the search thread: `ItemSearch::findMatchingPaths`, one item per step, in any order, so that edits fall between any two; then the thread builds its model and ends |
| `Timeout` | `_searchTimer` elapses: the view is disabled and the spinner turns |
| `ShowResults` | the slot of the thread's `finished`: spinner off, expansion saved or brought back, `setTreeModel` |
| `ObjectAdd`, `ObjectDelete`, `ObjectRename`, `ObjectReparent`, `SubtreeInvalidate` | edits of the UFE scene with the notification and its handler in `Explorer::operator()` |
| `SetChildFilter`, `Expand`, `Collapse` | the function of this name; clicks in the tree, only while it is enabled |

`quit()` is not heard by the thread: it has no event loop. While the main thread waits, nothing else
happens on it (`main = "waiting"`). A finished thread whose signal was not delivered is replaced by the
next search, and its signal goes with it. `stable`, the items in the scene since the search began,
is for the properties only. `MaxEdits` bounds the edits and clicks.

### ExplorerSelection

The handlers are operators on a record of what they may change, since they call each other:
`UpdateTreeSelection` selects in the tree, which signals `OnTreeViewSelectionChanged`, which changes the
UFE selection or, in pick mode, the picks. `Rebuild` loses the selection below without a signal
(`_ignoreTreeSelectionChanged`) and then updates it. Actions: `Select` (the user, in the tree),
`SelectElsewhere` (any other change of the UFE selection), `EnterPickMode`, `ExitPickMode`,
`ReleasePickMode` (the last reference goes), edits of the scene and `Toggle` of a branch. `heard` adds up
what the callbacks of a pick mode were told.

### SceneExport

| Action | Code |
|---|---|
| `PreviewNode` | one round of the loop over `nodeToExportStack`: name, `ProcessNode` in preview, children pushed |
| `CreatePrims` | the batch creation of prims, then `PrepareExportPass` |
| `ExportNode` | one round of the loop over `translationItems`: `ProcessNode` again, prims fetched, the object written, transform, instance, material to bind |
| `Cancel`, `Finish` | `GetCancel()` between two nodes; the end |

`ProcessNode` is the same operator in both passes, as it is the same function in the code: what differs
is what it knows of classes (`classes`, which the code resets in between). A scene is a record:
ordered children, kind, object, name, what is exported, offsets, guides, hidden nodes, and the prims the
stage has before, some of them of classes. A name is the sequence of its words, split at underscores, each
with the number it ends in: `Numbered` is `GetNextName`, `ObjectName` puts the suffix of the object's writer
behind the node's name, and `ClassName` the prefix before it. All are names of one kind, as they are strings in the code, so
that a node may be called like the prim of an object or of a class. Left out: attributes, kinds and
metadata (also that `ReuseParentPrimForInstancing` gives up when the metadata of the two nodes conflict),
contents of materials, variants, world space modifiers, baked offsets other than the default,
`UseWorldspaceRoot`, name overrides by writers, leading zeros in names, other suffixes than three.

### AnimExport

`framesLeft` and `due` are the map `exportTimes`: the frames at which transforms are due and the time at
which each object is due next. `ExportObject` and `ExportTransforms` handle the earliest entry, objects
first; `PostExport` ends. `Candidate` follows the code from `getValidityInterval` to
`nextCandidateTime`; `Never` stands for an object that is not added again. The flag `firstFrame`, which
tells the writers when to write what does not change, is left out with what they write.

## 4. Runs, bounds, and what they show

TLC checks each of these completely. *Bounds* of the engine: two to four meshes of one to three triangles; two
times; at most one edit (two in *Structure*) between frames, and any number of frames.

| Run | Actors and bounds | Shows |
|---|---|---|
| `RenderDataTable` | 5 paths, symmetric | the tables' invariants through any mix of creation, removal and clearing; five rprims give a freed slot in the middle, at the end, and a second removal that moves an entry moved before |
| `Animation` | 2 meshes, one moving; 2 times; a camera that culls; settings "static after a delay" and "dynamic"; points (also their number) and visibility edited | consolidation follows time: no consolidated mesh of another time comes back, culled meshes keep their bits |
| `Structure` | 3 meshes of 2 faces and 2 materials; cells of 3 triangles; strategies "static" and "off"; faces rebound or deleted, prims destroyed and created, two edits per frame | subsets, render data and consolidation stay together when they are renumbered, and when a prim is created anew before a frame sees that it was destroyed |
| `Selection` | 2 meshes and 2 gizmos; selection and visibility edited; static delay | highlights follow the selection in both ways of drawing, gizmos leave consolidation when selected, meshes do not |
| `Appearance` | 2 meshes; 3 display modes, 2 colors, 2 purposes, 2 lists of render tags; a camera that culls | what a prim looks like follows display mode, color, instances and purpose, whichever of `Render` and `RenderToMesh` consumes hydra's bits |
| `SceneSave` | 2 stage objects; 2 files, one of them on disk; 5 requests (edits, saves, openings), an undo stack of 1 | no edit is lost without a warning whatever is answered and whatever fails, one prompt per save, cancelled saves write nothing and leave no flag, opening restores; the map is right through undo and copies |
| `ExplorerSearch` | a tree r > A > a, r > b, b inactive; one filter (that matches a and b) and none; 2 edits or clicks; any number of filters typed | the tree follows the scene, a search finds what stays, the view is only disabled while a search is on; with fairness: results are those of the last filter, and the tree is usable in the end |
| `ExplorerSelection` | the same tree and one item outside of it; 1 edit; any number of selections, branches opened or closed, pick modes | tree and UFE selection agree, callbacks add up to the picks, and nothing but the user changes the UFE selection |
| `SceneExport` | every tree of 4 nodes with 3 kinds, objects shared by 2 or 3 nodes, conflicting names, names like those of object prims, any set of nodes to export; hidden nodes, guides, offsets, a stage with prims | both passes agree, prims and transforms are right, every instance has its prototype, with a cancel anywhere |
| `AnimExport` | 2 objects with any keyed animation over 13 ticks; ranges of 1, 3 and 4 frames, one with its end off the frames | frames are exact, each time is exported in one go, the loop ends |

In `SceneSave` a request is one call of a user, a script or the auto-save; each save takes up to eight
steps besides. Five are enough to create, edit, save, open and save again, to undo and redo before a
save, or to cancel a save and let an auto-save follow. With six requests (5,158,239 states) the same
properties hold.

The bounds of the other runs are small because the hazards need few actors: two meshes make a
consolidated mesh, a third one a second cell or a swapped order, a second time makes the cache move.
Frames at the same time, frames that draw nothing, and `RenderToMesh` may come any number of times
anywhere.

In `ExplorerSearch` (159,869 states) two edits can add and remove, or rename what was just added, before,
during and after a search, and the smallest tree with a branch, a leaf below it and a hidden sibling has
all the cases of rebuilding; a second non-empty filter adds nothing, since results are computed from one
filter only. In `ExplorerSelection` (40,992 states) one edit is enough because selections, branches and
pick modes come any number of times before and after it. `SceneExport` (466,172 states) starts from each
scene: four nodes are a chain of four, or a helper with an instanced child beside another instance. In
`AnimExport` (88,564 states) the intervals are all those of keyed data: stretches without a change begin
at a key on a frame, and the data may change at every tick otherwise.

Type invariants of `HdMaxEngine` and `AnimExport` are not part of these runs: both are proved, like the
types of `ExplorerSearch`; the configuration `EngineTypes` checks the first by hand.
`OneConsolidation` and the invariants about flags and cells are each checked by the instances that can
disturb them most; `ViewportShowsTheScene` by all of them.

What the passing runs leave out, because the property fails there (section 5, and the hazards with a
note in `PROJECT.json`):

- a mesh never gets a new material (`SubsetsMayAppear = FALSE`), nor loses its first subset of three:
  `NewSubset`. The second case has no run: let the first faces of a mesh of three materials be bound to
  the third one while the second one is consolidated with another mesh. The index of the output then names
  the subset of the third, whose bits are cleared before its new faces are loaded, so that
  `CleanSubsetsAreLoaded` fails. With a third mesh of that material, so do `FlaggedSubsetsAreConsolidated` and
  `CellsRespectLimits`, for the subset is consolidated again under its new number. Losing the first of three
  materials is what renumbers subsets, and what the hypothesis `StableSubsets` of the theorems about these
  two invariants (section 6) excludes;
- the display color of a mesh shown by it for want of a material is not edited: `FallbackColor`;
- no prim is removed while meshes move or are highlighted: `SwappedOrder`;
- instances do not change while meshes are highlighted: `SelectedInstance`. A subset that was
  renumbered stays dirty for good and leads to the same, so that faces are not deleted either while
  meshes are highlighted;
- stages are not shared (`Sharing = FALSE`): `SharedStage`; `LoadRestoresOwnStages` says nothing of copies
  and of stages from the cache: `ClonedStage`;
- no node is exported without the point helper whose only child it is (`KeptHelpers`): `SharedRootPrim`;
- no child is called like its parent's object prim: `ObjectNamesake`. No node and no prim on the stage has
  the name of a class; in the code nothing keeps these apart from the names of nodes, either;
- the data of animated objects is keyed. For arbitrary intervals (`All` of `MCAnimExport`) `FramesAreExact`
  fails: data held until one tick before a key and then moving is sampled one tick off its frames.

Random simulation of `HdMaxEngine` with all other kinds of edits at once finds no violation.

In `SceneSave`, `CHECK_DEADLOCK FALSE` is for the end of the requests. It also stands in the runs of
`HdMaxEngine` although a frame is always possible: a stage may stay as it is, and nothing has to be
drawn.

`ExplorerSearch` and `ExplorerSelection` check for deadlock. `SceneExport` and `AnimExport` end.

**Fairness and liveness.** In `ExplorerSearch` the search thread goes on (`WF` of `Visit` and `Finish`): it
runs with time-critical priority (`UFEUI/Views/explorer.cpp`, `start(QThread::TimeCriticalPriority)`) and
waits for nothing. The main thread returns from `wait()` when the thread has ended (`WF` of `WaitReturns`)
and handles the signal in its event queue (`WF` of `ShowResults`, named by what it does to the search).
Nothing is assumed of users, of edits or of the timer. Then a user who stops typing gets the results of
the last filter, in a tree that is enabled. In `AnimExport` one thread runs the loop to its end:
`WF(Next)`; that it ends is not obvious, since it adds to what it walks.

None is assumed and none is claimed of the viewport, of a selection, of saving or of the passes of an
export. The engine draws when 3ds Max asks for a frame. After the static delay, consolidation waits for
another frame that nothing in the code asks for (`RenderDelegate/HdMaxEngine.cpp:164`); no liveness
property about consolidation is true of the code alone. `ViewportShowsTheScene` is a safety property of
every frame.

## 5. Disagreements between the code and what it says

Two have a run among those of `PROJECT.json`, with the quotes:

| Run | What happens |
|---|---|
| `PickMode` | The comment on pick modes says that the tree does not follow the UFE selection meanwhile. The observer of the UFE selection updates the tree's selection all the same, and the signal of the tree view makes that the picks. |
| `SharedRootPrim` | An instanced node reuses the prim of its parent, a point helper without other children, even if the helper is not exported. The prim it is placed under is then the root prim of the export, which becomes an instance, and what else is exported lies below it and is ignored. |

Seven more have a configuration of the same name that TLC refutes in a few steps (for example
`tlc -config NewSubset.cfg MCHdMaxEngine`, and `tlc -config SharedStage.cfg SceneSave`):

| Configuration | What happens |
|---|---|
| `NewSubset` | A face is bound to a material that sorts before the one consolidated. `Reset` hands back by index and reaches the new subset; the consolidated one keeps `inConsolidation`, and nothing draws it. |
| `FallbackColor` | In USDPreviewSurface mode a mesh without material shows its display color, but a change of that color breaks consolidation in USDDisplayColor mode only: the old color stays. |
| `SwappedOrder` | The locked range ends with the last input, not with the farthest one. After a removal has swapped the order of render data, moving meshes are written outside of it. |
| `SelectedInstance` | The highlight flag of a consolidated mesh is recomputed from the dirty inputs alone: a change of instances of one mesh switches off the highlight of another. |
| `SharedStage` | Two stage objects show one stage of the cache; the map keeps one of them. Edits of the other are neither offered for saving nor flagged after the save. |
| `ClonedStage` | A copy has `AnonRootId` of its original, although its anonymous root layer is another one: after a save of both layers in the scene file and an opening, both objects show the original's. |
| `ObjectNamesake` | "ensured unique amongst siblings", says `MaxUsd/Translators/PrimWriter.h:121` of the name suggested for a prim. That of an object's prim is made from the node's name (`MaxUsd/Builders/USDSceneBuilder.cpp:1642`) without the generator of the children's names (`:489`, `:656`): a child `Box_Shape` of a node `Box` is written to the prim of the object of `Box`. |

## 6. Proofs

TLAPS checks the proofs for any set of paths, any number of rprims, any settings and times.

**`RenderDataTableProofs`.** The inductive invariant `IInv` says of each table that vector and map are
inverse (`TableOK`), and that the live rprims of each kind are the domain of its map and of no other.
The type invariant alone is not inductive: `DestroyRprim` reads the last entry's path from the vector
and writes its position in the map, which is a live path only because both are inverse; and it guesses
the kind from one map, which is right only because no path is in both. Two lemmas say that appending
and swap-removing keep a table consistent; each action then only has to say which table it changes.
From `IInv` follow `TypeCorrect`, `TablesStayInverse`, `RprimsStayInTheirTable`,
`StalePositionsAreHarmless` (for a position of any size, the bound `MaxIndex` notwithstanding), and
`OthersStayInPlace`, an action property. The only assumption is `TableAssumption`.

**`HdMaxEngineProofs`.** The module has theorems about the cache, the flags, the cells and the
types. `OneConsolidation` is inductive by itself: `OnlyAt(t, cache)` says it of any
cache and time, and one lemma per operation shows what it becomes: `Reset` empties the cache,
`UpdateConsolidation` carries `OnlyAt` from the last time to the new one (also when it returns early,
because then there is nothing at the last time), `BuildConsolidation` adds at the time of the frame.
A frame changes `lastVpRenderTime` to the same time, and the early return of `Render` changes neither.
This theorem uses no assumption.

`FlagsAreConsolidated`: `Spec => []FlaggedSubsetsAreConsolidated`, for any meshes, instances, settings, times
and tags, under the hypothesis `StableSubsets`: edits leave a mesh the materials it came with, or it has two
at most and gets no other. (All passing runs satisfy it, most because bindings are not edited; without it the
property fails, see section 4.) The flag of a subset lives with the mesh and goes when a sync rebuilds its subsets; the output
lives in the cache and names subsets by number. `EngineInv` relates the two: an output *backs* a mesh
(`Backed`) if all subsets of a flagged mesh were offered to it, and it holds those that are flagged; or, after
a sync that left the mesh one subset, whose flag comes from a subset of another number, it holds some of that
mesh. That is inductive only together with what numbers subsets: `AreNumbered` and `Settled` say that the subsets of a
mesh are those of its materials in ascending order, whatever has been edited. The rest of
`EngineInv` says what the vector lists (`OrderInv`), that the index of an output holds the inputs of its
consolidated meshes (`IsOutput`), and `OneConsolidation`, since `Reset` and `UpdateConsolidation` go by the output of one time and
would leave the flags of another behind. One lemma per operation shows what becomes of flags and output:
`SyncKeepsOrRebuilds`, `ResetAgrees`, `UpdateAgrees`, `BuildAgrees`, `HydraAgrees`, `DrawingAgrees`.

`CellsStayInLimits`: `Spec => []CellsRespectLimits`, under the same hypothesis. That cells have several inputs and
respect the limit is a property of `BuildConsolidationCells` (`CellsProperties`, `CellsFit`). That no subset is in
two is one of flags again: cells are filled with subsets that are not flagged, and every subset that the
output still holds is flagged. The second part holds where it is needed only:
`UpdateConsolidation` compares numbers of flagged subsets and starts again where the output has more, so
that where it does not, none of the output is missing from the list (`NothingOutsideTheList`); where
the frame ends before, nothing is added.

`SelectionLeavesConsolidation`: `Spec => SelectionKeepsConsolidation`, an action property, under the same
hypothesis. A frame may keep its consolidated meshes only if the list still offers what they were made of,
and the property assumes of the state that nothing is dirty but selection, not that what the meshes hold is
listed. The invariant `ShowInv` adds this: a subset that the output holds and that is clean is flagged and its
mesh is visible (`ShownIn`), and a mesh whose render tag is inactive still has `DirtyTopology`
(`InactiveAreDirty`), so that in a state with selection bits only every mesh is active. `HydraTrace` says that a
sync that changes a mesh leaves dirty bits behind, and that with selection bits it changes the selection only.
The flagged subsets of the list are then exactly those of the output (`FlaggedAreMerged`),
`UpdateConsolidation` finds as many of them as before, and no selection bit breaks a mesh
(`UpdateKeepsGroups`); gizmos, which it takes out for their wires, are the exception.

`TypesAreRight`: `Spec => []TypeOK`, without any hypothesis about edits. `TypeInv` adds to the types that the
vector has no path twice, which swapping the last entry into a freed slot has to keep (`DestroyOrders`),
and that bindings bind faces to materials, from which a sync makes its subsets (`SyncKeepsOrRebuilds`).

Of these theorems the assumptions are `EngineAssumption` (settings, display modes and selections are of those
there are), `SceneAssumption` (finitely many paths and faces,
bindings bind faces to materials), `MeshAssumption` and `LimitAssumption`. The loops over vectors
(`Sift`, `SubsetsOf`, `BuildConsolidationCells`) are recursive functions; lemma `RecursionExists` shows once, from
the natural numbers, that a function defined by steps exists, and the lemmas about each loop rest on it.

**`SceneSaveProofs`.** `SavePromptsOnce`: `Spec => []PromptsOnce` for any number of stage objects, files
and requests. `PromptsOnce` is not inductive: `PromptInv` adds that a prompt clears `mustHandleSave`, that
an auto-save never has it set, and, between saves, that it is clear and `isAutoSave` is TRUE, without
which an auto-save after a cancelled save could prompt. Lemma `PromptStep` has one step per action and,
under `SpecifySaveReferences`, one for all the answers that prompt.

On it rest `NoInterruptIsLeft` and `CancelledSavesWriteNothing`. The cancel is a flag on one stage object,
and the scene is written only after every object of it was, so the invariant `SaveInv` follows that object:
during a save at most one object is flagged; it is in the scene and not yet written; there is one
if the save was cancelled, and only if the prompt was used up; and outside of a save there is none. The
last part depends on everything users do between saves, which may set stages and parameters of any object
in any way: `Keeps` says of an operation that it leaves flags and nodes alone, and the lemmas from
`FieldSet` to `OpenUnflagged` show it of each. No assumption is used.

The second half of the module is about edits. `NoEditIsLostSilently`: `Spec => []EditsAreKept`, for any number of objects, files,
undo levels and requests, as long as no stage is given to two objects (`~ Sharing`: with sharing it is
false, see the run `SharedStage`). A save goes by the registry, so the invariant has to say that the
registry knows every object and its stage. That is not inductive: undo and redo give objects stages back,
and an object that loses its stage takes the entry away, whoever it is of. `Apart` therefore says that no
two objects have a *claim* to a stage, be it the one shown or one that a record would restore, and that
what is found in the cache is claimed by nobody else; it is why new identifiers are fresh (`NewIds`) and
why the layers are always finitely many. Then every stage is either dirty, with 3ds Max knowing that the
scene has to be saved, or as it is on disk or in the scene file (`LayersOK`, `Kept`). The type invariant
`StagesAreTyped` needs no hypothesis about sharing; `EveryStageObjectIsFound` is the registry alone. The
assumption is `SceneSaveAssumption`: files, objects, identifiers and `None` are different values, and the
bounds are numbers.

The last part is about opening a scene. `OwnStagesAreRestored`: `Spec => LoadRestoresOwnStages`, an action
property, under the same assumptions. What is restored depends on the two parameters `StageFile` and
`AnonRootId` that the scene file keeps of an object, and users, undo and redo change them apart from the
stage. The invariant `LoadInv`, which TLC checked first (all states of a small instance, and simulation with
three objects and fourteen requests), has four parts. The parameters of each own object lead to its root
(`ParametersLead`), and will after every undo and redo that may come first (`HistoryOK`): a record restores
the file that the record before it gave, so the records of an object form a chain through both stacks. No
other object has the name of an own object's anonymous root or a claim to a stage on it (`RootsOwn`), and a
stage of the cache that nobody shows is on no root that is known (`CacheRight`): the layer written under
that name is the object's own, and a layer found again at load is not an older one. The same holds of the scene file
(`ScenesLead`), because nothing changes between the first and the last object a save writes
(`WrittenRight`). Opening then takes each root from the scene file, from the disk, or from nothing
(lemmas `FromScene`, `FromFile`, `FromNothing`), under new names that are unused and differ.

`~ Sharing` is needed here too. With sharing TLC finds a counterexample of nine requests: two objects are made and the
root of the first is edited; the second takes the first one's stage from the cache; both get a file, and
undo brings the second back to the old root; the scene is saved with all edits and opened. The scene file then
still has the old anonymous root, of which the first object still has the name, and `USDItemPostLoadCB::proc` opens
that one for the first object and not its file.

**`ExplorerTreeProofs`.** What the operators of the tree leave behind, for any tree of items. `Follows`
says that a view is of the scene and closed upwards, `FetchedRightly` that an item has fetched all its
children or none (and of inactive children any part, as a child filter changes without a rebuild),
`Shows` that what is displayed as expanded has fetched. Fetching, expanding and opening only add
(`Grows`); a rebuild puts right what is at and below its root, and shows all that is expanded if the rest
was right (`SubtreeRebuilt`). There is no induction: `Fetch` is the set of the items whose way up to the
items that are there is open. `AddedScene`, `RemovedScene` and `MovedScene` say what an
edit does to what is below and above an item.

**`ExplorerSelectionProofs`.** The handlers call each other within a step, so the invariant is said of the
record they hand on, in two parts. `Sound`: the view is one of the scene, without inactive prims or parts
of children, and what is selected in the tree is in it. `InStep`: out of pick mode the tree selects what it
has of the UFE selection, and what it does not have of that, or of what is above it, is not visible. An
edit keeps `Sound` and breaks `InStep` within its handler; `updateTreeSelection` at its end establishes
`InStep` from `Sound` alone, which is why no rebuild has to restore a selection. The second half of
`InStep` is what `TreeIsInStep` rests on when the scene changes elsewhere: an item fetched for some other
reason is in the UFE selection only if it was shown before. `CallbacksAreTold` and `OnlyTheUserSelects`
follow. The assumptions are `TreeAssumption`, and `SelectionAssumption`: what the explorer does not show is
not an item of its tree.

**`ExplorerSearchProofs`.** For any tree, any filters and any number of edits. `IInv` is `Types`,
`Protocol` and `Frontier`. `Protocol` ties the main thread, the timer and the search: while the main thread
is idle a search is for the text that is typed, and a timer or a disabled view only lives with a search;
`NeverLeftDisabled` and `RefinesSearchBox`, the safety half of the refinement, follow. `Frontier` is the
invariant of the walk: every match that has stayed since the search began is found, or below an item still
to be visited. An edit keeps it because it can only take items out of `stable`; a visit keeps it because
what stays below the item visited is one of its children now, or below one (`Visited`). `NothingIsMissed`
follows when nothing is left to visit. The view has an
invariant of its own, `TreeInv`: it always `Follows` the scene (`TreeIsOfTheScene`); and when there is no
search and no text it is `Complete`: nothing is filtered, nobody has a part of its active children, and all
that is expanded shows its children, if the view is for the child filter that is set. The last condition
is the code's: `setChildFilter` does nothing in a tree without a root, and a search begun before brings the old
filter's model back. `NothingIsHidden` is a part of it.
`MatchesAreShown`, an action property, combines `Frontier` with what the results add to the view
(`ShownWithTheResults`).
The proofs use `TreeAssumption`, that paths form a tree.

**`AnimExportProofs`.** `TypeOK /\ OneGoPerTime` is inductive because the next sample of an object is
always later (`NextSampleIsLater`), whatever interval its writer reports, and within the range
(`FirstSampleInRange`, `RangeInTimes`). `SamplesStayInRange` and `TimesAreExportedInOneGo` hold for any
objects, ranges, steps and intervals, under the assumptions on the constants.

`FramesAreExact` is false for arbitrary intervals; `KeyedFramesAreExact` proves it under `KeyedData`, the
condition that the run's instance satisfies too. The invariant `ExactInv` says that frames between two
samples have the data of both (`Linked`), those before the first and after the last that of the one
(`ExactSoFar`). It needs to know where an object may be due (`Place`): on a frame, or at the last tick before
another stretch, and at an end of its own stretch, for if it were due in the middle of one the loop
would stop there. `StretchAhead` is the heart of it: between a sample and the beginning of the
stretch of the next frame there is no frame. The arithmetic of frames is in `MultiplesApart`.

**`SceneExportProofs`.** The theorems hold for any finite tree of nodes, any names, kinds, shared objects,
prims on the stage and options.

`PassesComeToTheSame`: `Spec => []PassesAgree`. The invariant `ReplayInv` says that processing the items
that are left, one after the other, from the classes known now, leads to the prims that were noted
(`Leads`, a chain of classes from item to item): in the preview from no classes to those known, in the
export from those known on. `CreatePrims` gives all of the chain back because `PrepareExportPass` resets the
classes to what the preview started from. It needs that no node is processed twice (`NodesOnce`), and this
that the walk comes to a node once: `Walk` says that there is a set of nodes that were popped, that none of
them is on the stack, and that all that was popped or pushed is a child of these or of the root. That
pushing children in the order of `pushNodeChildrensToExportStack`, the first of each name before the others,
pushes each of them once is lemma `EveryPlaceIsTaken`, a counting argument.

`PrimsAreOfOneNode`: `OrdinaryScenes => (Spec => []NodesHavePrimsOfTheirOwn)`. `OrdinaryScenes` excludes
what breaks the property: point helpers left out with their only child exported (the run
`SharedRootPrim`), children called like their parent's object prim (`IsObjectNamesake`; the configuration
`ObjectNamesake`), and class names among those of nodes and of prims on the stage before; it also says that
what is on a stage has its parents there. These are conditions on the names that the scene has, before they
are numbered. Nothing else keeps names apart: they are all sequences of words. `MCSceneExport` assumes
the same of the scenes of the run (`KeptAreOrdinary`), some of which have a node called like an object prim elsewhere. The invariant `PreviewKnows` says of every item on the stack or previewed that it is
below the place of its parent, which was previewed before, and that its name comes from the generator that
serves this place, which was given the names on the stage there. Two nodes of one generator have different
names; two of different generators have different places (`PathIsNew`), because a node is only below the
root's place if its generator is the root's, and nodes that have children never share their first prim
(`PlaceOfParents`). A node with the path of another's object would be its child, by the path it is below, and
called like the object, by what numbering does to names: only the last word changes, and a suffix
that ends without a number was not numbered (`NumberedName`, `NotNamedLikeObject`, `ObjectPathIsFree`). The
paths of nodes never have a class name right below the root (`NodePaths`, `NumberedClassName`), and those
of classes differ by the class names given out (`ClassPrimKinds`). What one node shares with another is
then the first prim, and only by `ReuseParentPrimForInstancing` (`SameFirstPrim`).

`TransformsApplyInOrder`: `OrdinaryScenes => (Spec => []TransformsCompose)`. From what the preview knows,
a node's first prim is one name below the first prim of its exported parent, or the same if the node is
its only child and has none itself, or one name below the root if there is no such parent
(`ArePlaced`). The invariant `Composed` says that among the nodes left to do none comes before its
parent, that the parents of exported nodes are exported, and that the queue of a prim holds the nodes
exported to it: one, or a helper and then its only child (`QueuesRight`). The order matters when a queue
gets its second transform: would the child be exported first, it would come before the helper's. Along a
path the queues are joined by `FlattenSeq`, which the community modules define by recursion;
`FlattenAppend` and `FlattenElements` say what it does with one more sequence and what is in the result,
by the least length for which they would fail. The parent's transform is then the last along the path of
the parent (`LastIsOfParent`), and no other node of the prim is found before (`PositionOf`).

`PrototypesServeAll`: `Spec => []PrototypesServeTheirInstances`, assuming `OrdinaryScenes` and
`NothingOverwritten`: with `AllowPrimOverwrites` the stage is empty before. The run has `AllowPrimOverwrites =
FALSE`, which satisfies this. Without it the property fails: where a node takes over a prim which has a
child on the stage, `findPrototypePrim` (`MaxUsd/Builders/USDSceneBuilder.cpp:796`), which looks at the first
child only, does not come to the instance below, and the second instance of an object gets no material. The
argument has three parts. First, every node of the content is walked: it was noted or is below one on the
stack (`Reached`), at first because all nodes hang from the root (`AllHangFromRoot`, assumed of scenes), so
that at the end of the preview every one is noted (`ReachesAll`).
Second, what `ProcessNode` makes of a node (`Makes`) is on the stage in that order, because `WithPrims` keeps
what there was and adds what is new in the order of the nodes (`WithPrimsExtends`, and `FlattenBlocks` for
what is in a sequence of sequences): the object, or its instance, is the first child of the transform prim
(`ObjectComesFirst`, `FirstBelow`) before any node below it, and it stays first. So the class of an instance
is found from the node's first prim (`PrototypeIsFound`). Third, the invariant `Serves` says what the
nodes exported so far have given (`Served`): every class has its object, written by the node that was the
first to need the class, which recorded whether it needs a material; every instance, whose path no
other node has (`InstanceIsNew`), inherits the class of its object; and every prim to bind is recorded.

Only model-checked: of the engine `CleanSubsetsAreLoaded`, `HighlightFlagIsRight` and the refinement
of `ViewportDisplay`; and liveness (`TreeIsUsableAgain`, `Terminates`, the liveness half of
`ImplementsSearchBox`), which is out of the prover's reach. The first two and the refinement are false for
some instances (section 4): a theorem would have to exclude edits of instances, removals and
fallback colors, each of which the run that shows the violation describes, and to say of all
buffers of a mesh what each dirty bit stands for.

## 7. What is not modelled

`PROJECT.json` lists every component with the reason. Within the render delegate: materials and their
registry, basis curves (their protocol of bits is that of meshes, without subsets and consolidation),
instancers, `UpdateRootPrim` with its new render index (the stage object makes a new engine whenever it
takes another stage, `FullStageReset` at `MaxUsdObjects/Objects/USDStageObject.cpp:1964`, and always draws
from the pseudo-root: `Init` is the state of that new engine, once its first frame has populated it, and no
engine of the program changes its root later), several nodes per engine, wireframe
representation, `RenderToMesh`'s own meshes, memory. Hydra and UsdImaging are external: the model takes
from them which bits an edit marks and that only rprims with an active render tag are synced. Prims
that geom objects display in place of the stage (`geomObjectSource`) are left out of frames.

Of the explorer: the hidden root, columns, type filters, menus, drag and drop, ctrl-click expansion,
highlighted parents of the selection. Of export: the jobs, writers and conversions, which are arithmetic
on data or one call deep; the undo of an export to a stage object, which is that of an external library
(`Cancel` leaves the prims made so far). Import, controllers, dialogs, attribute editors and registries
are user interface, tables filled once, or conversions of values.

Known weak points no property covers, beside the hazards with a note in `PROJECT.json`:

- viewport: ranges of consolidated meshes without dirty inputs (`RenderDelegate/HdMaxConsolidator.cpp:800`),
  a division by the triangles of a material (`:84`), instances taken for the same by the values of their
  transforms (`:297`), the size of the selection buffer (`RenderDelegate/HdMaxMeshRenderData.cpp:158`),
  `RenderDelegate/Imaging/HdMaxMesh.cpp:334` and `:1169`, the frame after the static delay
  (`RenderDelegate/HdMaxEngine.cpp:177`), instance indices (`:664`), bits of `RenderToMesh` (`:753`);
- explorer: the saved expansion is lost when a character is typed and erased before results come
  (`UFEUI/Views/explorer.cpp:672`); `setChildFilter` does nothing in a tree without root, and a search begun
  before brings the old child filter back; a pick mode whose last reference goes leaves the tree's
  selection as it was until the next change (`released` in `ExplorerSelection`); a rename selects the
  renamed item whether or not it was selected (`:1233`); a rebuild replaces the search results of the whole
  tree by those of the subtree (`UFEUI/treeModel.cpp:568`); the model always has a row for its root, so
  that "No results found." does not show; destructors do not wait for the thread (`:225`);
- export: a class name that a node has, prims of classes already on a stage (both outside of
  `IsOrdinary`), an overwritten prim whose first child is not the instance
  (`MaxUsd/Builders/USDSceneBuilder.cpp:808`), nodes of an instanced object that are not renderable.

## 8. Plan

Done, in this order: the tables with proofs, mesh render data, consolidator, engine with the abstract
viewport, the engine's theorems about its cache, its flags, its cells and its types, stage objects with the save protocol and its theorems, the
explorer's tree, search and selection with the abstract search box and its theorems, the placement of
prims in an export, the times of animated samples with their theorems, and the theorems about edits and what opening a scene restores,
the explorer's tree and its selections, and the prims, transforms and prototypes of an export.

Next, the most important first:

1. The rest of the layer manager: sublayers shared by stages and remapped at load, session layers; an
   abstract specification "no edit lost silently" that `SceneSave` implements.
2. The rest of the stage object: generated cameras, animation range.
3. `ConsolidationCells`: the instances of a mesh split over cells (`multipartIndex`), as a pure
   algorithm with a reference definition.
4. `MaterialCollection` and `RenderToMesh`: the dirtiness of materials shared by subsets, and the meshes
   built for evaluation.
5. Import: the order of readers and the nodes they make; the life cycle of a job.
6. Proofs: `CleanSubsetsAreLoaded` where instances are not edited; the initial
   states and stuttering steps of the refinement of `ViewportDisplay`.
