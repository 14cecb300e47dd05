------------------------------ MODULE SceneSave ------------------------------
(***************************************************************************)
(* Stage objects, their root layers, and how a 3ds Max scene that holds    *)
(* them is saved and opened: USDStageObject (stage, undo of the root       *)
(* layer, Save), USDLayerManager (what to do with dirty layers), the class *)
(* data of USDStageObjectclassDesc (layers kept in the .max file) and the  *)
(* callback after a load (UsdAssetAccessor.h).                             *)
(*                                                                         *)
(* A layer is known by its identifier: a file, or the number of an         *)
(* anonymous layer.  Its data is the number of the last edit it holds.     *)
(* A stage has its own identity, two stages may share a root layer.  Root  *)
(* layers stand for the whole layer stack.  3ds Max calls everything here  *)
(* from its main thread: a step is one call.                               *)
(***************************************************************************)
EXTENDS Integers, Sequences, FiniteSets, SequencesExt, StageObjectMap

CONSTANTS
    Objects,    \* the stage objects that may be created
    Files,      \* the paths a root layer may have
    OnDisk,     \* those where there is a file to begin with
    None,       \* no file, no anonymous root, no stage
    MaxId,      \* bound: anonymous layers and stages alive or remembered
    MaxRequests, \* bound: what users, scripts and the auto-save ask for
    MaxUndo,    \* the levels of the undo stack
    Sharing     \* may an object take the stage of another from the cache?

ASSUME SceneSaveAssumption ==
    /\ OnDisk \subseteq Files
    /\ Files \cap 1 .. MaxId = {} /\ Objects \cap 1 .. MaxId = {}
    /\ None \notin Files \cup 1 .. MaxId \cup [id : 1 .. MaxId, root : Files \cup 1 .. MaxId]
    /\ MaxId \in Nat \ {0} /\ MaxRequests \in Nat /\ MaxUndo \in Nat \ {0}
    /\ Sharing \in BOOLEAN

VARIABLES
    objects,        \* the stage objects, each with its stage, the parameters
                    \* StageFile and AnonRootId, whether a node shows it,
                    \* interruptSave; own: its stage was made for it and its file
    map,            \* StageObjectMap
    cache,          \* UsdUtilsStageCache: the stages it keeps alive
    layers,         \* the layers in memory
    disk,           \* the files
    undo, redo,     \* the StageRestoreObj records of theHold
    requests,       \* how many requests were made
    manager,        \* the members of USDLayerManager
    saving,         \* the save that 3ds Max is doing
    saveRequired,   \* the SaveRequiredFlag of 3ds Max
    posted,         \* is a NeedSaveRequest task waiting?
    maxFile         \* the scene file last saved

stageVars == <<objects, map, cache, layers, disk, undo, redo>>
saveVars  == <<manager, saving, saveRequired, posted, maxFile>>
vars      == <<stageVars, saveVars, requests>>

Ids       == 1 .. MaxId
Layers    == Files \cup Ids
Stages    == [id : Ids, root : Layers]
SaveModes == {"SaveAll", "SaveAllEditsMax", "Save3dsMaxOnly"}

Root(o)       == objects[o].stage.root
IsAnonymous(l) == l \notin Files
NoSave        == [phase |-> "idle"]
NoFile        == [objects |-> << >>, layers |-> << >>]

(* A function with a value for one more argument. *)
With(f, x, value) == [y \in DOMAIN f \cup {x} |-> IF y = x THEN value ELSE f[y]]

(* f where it has a value, and g elsewhere. *)
Over(f, g) == [x \in DOMAIN f \cup DOMAIN g |-> IF x \in DOMAIN f THEN f[x] ELSE g[x]]

------------------------------------------------------------------------------
(* Stages and what keeps them alive. *)

LiveStages == cache \cup {objects[o].stage : o \in DOMAIN objects}
                    \cup ((UNION {{r.oldStage, r.newStage} : r \in Range(undo) \cup Range(redo)}) \ {None})

(* A mutant: layers stay in memory for good. *)
KeepAll(ls) == ls

(* A layer is dropped, with what was not saved of it, when no stage has it. *)
KeepLive(ls) == Restrict(ls, {s.root : s \in LiveStages'})

UsedIds == {s.id : s \in LiveStages}
               \cup {objects[o].anonRootId : o \in DOMAIN objects}
               \cup {maxFile.objects[o].anonRootId : o \in DOMAIN maxFile.objects}
               \cup {s.root : s \in LiveStages} \cup DOMAIN maxFile.layers

(* A new identity for each member of S. *)
CanName(S) == Cardinality(S) <= Cardinality(Ids \ UsedIds)
NewIds(S)  == CHOOSE name \in Injection(S, Ids \ UsedIds) : TRUE

World == [objects |-> objects, map |-> map, cache |-> cache]
Becomes(w) == objects' = w.objects /\ map' = w.map /\ cache' = w.cache

Registered(m, o, old, stage) == SetObject(RemoveObject(m, o, old), o, stage)

SetUSDStage(w, o, stage) ==
    LET old == w.objects[o].stage
    IN [objects |-> [w.objects EXCEPT ![o].stage = stage],
        map     |-> Registered(w.map, o, old, stage),
        cache   |-> (w.cache \ {old}) \cup {stage}]

(* FindOrOpen: a layer in memory, or the file. *)
CanOpen(f) == f \in DOMAIN layers \cup DOMAIN disk
FindOrOpen(ls, f) ==
    IF f \in DOMAIN disk \ DOMAIN ls
    THEN With(ls, f, [data |-> disk[f], dirty |-> FALSE])
    ELSE ls

LoadUSDStage(w, o, f, id) ==
    IF CanOpen(f) THEN SetUSDStage(w, o, [id |-> id, root |-> f]) ELSE w

(* The constructor: a stage with an anonymous root layer of its own. *)
InMemoryStage(id) == [id |-> id, root |-> id]
CreateInMemoryStage(w, o, id) ==
    [objects |-> With(w.objects, o,
                      [stage |-> InMemoryStage(id), file |-> None, anonRootId |-> id,
                       inScene |-> TRUE, interruptSave |-> FALSE, own |-> TRUE]),
     map     |-> SetObject(w.map, o, InMemoryStage(id)),
     cache   |-> w.cache \cup {InMemoryStage(id)}]

NewLayer == [data |-> 0, dirty |-> TRUE]

------------------------------------------------------------------------------
(* What users and scripts do between saves.  3ds Max flags the scene.       *)

Request ==
    /\ saving = NoSave
    /\ requests < MaxRequests
    /\ requests' = requests + 1

SceneEdit ==
    /\ Request
    /\ saveRequired' = TRUE
    /\ UNCHANGED <<manager, saving, posted, maxFile>>

Create(o) ==
    /\ o \in Objects \ DOMAIN objects
    /\ CanName({o})
    /\ LET id == NewIds({o})[o]
       IN /\ Becomes(CreateInMemoryStage(World, o, id))
          /\ layers' = With(layers, id, NewLayer)
    /\ UNCHANGED <<disk, undo, redo>>

(* The copy has the parameters of the original, AnonRootId included. *)
Clone(o, copy) ==
    /\ o \in DOMAIN objects /\ copy \in Objects \ DOMAIN objects
    /\ CanName({o, copy})
    /\ UNCHANGED <<disk, undo, redo>>
    /\ LET id  == NewIds({o, copy})
           w   == CreateInMemoryStage(World, copy, id[copy])
           pb  == [w.objects[copy] EXCEPT !.file = objects[o].file,
                                          !.anonRootId = objects[o].anonRootId,
                                          !.own = FALSE]
       IN /\ Becomes(LoadUSDStage([w EXCEPT !.objects = [@ EXCEPT ![copy] = pb, ![o].own = FALSE]],
                                  copy, pb.file, id[o]))
          /\ layers' = KeepLive(With(FindOrOpen(layers, pb.file), id[copy], NewLayer))

(* theHold.Put(new StageRestoreObj(...)). *)
Put(o, newFile) ==
    LET record == [object   |-> o,
                   oldStage |-> objects[o].stage, oldFile |-> objects[o].file,
                   newStage |-> None, newFile |-> newFile]
    IN /\ undo' = Append(IF Len(undo) = MaxUndo THEN Tail(undo) ELSE undo, record)
       /\ redo' = << >>

(* A file that cannot be opened is still what the parameter names. *)
SetRootLayer(o, f) ==
    /\ o \in DOMAIN objects
    /\ objects[o].file # f
    /\ CanName({o})
    /\ Put(o, f)
    /\ UNCHANGED disk
    /\ LET w == [World EXCEPT !.objects[o].file = f,
                              !.objects[o].own = @ /\ CanOpen(f)]
       IN Becomes(LoadUSDStage(w, o, f, NewIds({o})[o]))
    /\ layers' = KeepLive(FindOrOpen(layers, f))

StagesOfOthers(o) == {objects[x].stage : x \in DOMAIN objects \ {o}}

SetStageFromCache(o, stage) ==
    /\ o \in DOMAIN objects
    /\ stage \in cache
    /\ Sharing \/ stage \notin StagesOfOthers(o)
    /\ UNCHANGED disk
    /\ LET file == IF IsAnonymous(stage.root) THEN None ELSE stage.root
       IN /\ Put(o, file)
          /\ Becomes(SetUSDStage(
                 [World EXCEPT !.objects[o].file = file, !.objects[o].own = FALSE], o, stage))
    /\ layers' = KeepLive(layers)

(* A script opens a stage in memory and inserts it into the cache. *)
InsertInCache ==
    /\ CanName({None})
    /\ LET id == NewIds({None})[None]
       IN /\ cache' = cache \cup {InMemoryStage(id)}
          /\ layers' = With(layers, id, NewLayer)
    /\ UNCHANGED <<objects, map, disk, undo, redo>>

(* StageRestoreObj: what was undone keeps the stage it had then. *)
Restore(o, stage, file) ==
    /\ UNCHANGED disk
    /\ Becomes(SetUSDStage([World EXCEPT !.objects[o].file = file], o, stage))
    /\ layers' = KeepLive(layers)

Undo ==
    /\ undo # << >>
    /\ LET r == Last(undo)
       IN /\ undo' = Front(undo)
          /\ redo' = Append(redo, [r EXCEPT !.newStage = objects[r.object].stage])
          /\ Restore(r.object, r.oldStage, r.oldFile)

Redo ==
    /\ redo # << >>
    /\ LET r == Last(redo)
       IN /\ redo' = Front(redo)
          /\ undo' = Append(undo, r)
          /\ Restore(r.object, r.newStage, r.newFile)

(* The layer editor writes an anonymous root layer to a file, and a new stage *)
(* on that file replaces the stage; the undo stack is not told.               *)
MayBecome(o, f) == IsAnonymous(Root(o)) /\ f \notin DOMAIN layers

UpdateRootLayer(w, o, f, id) ==
    SetUSDStage([w EXCEPT !.objects[o].file = f, !.objects[o].anonRootId = None],
                o, [id |-> id, root |-> f])

SaveAnonymousRoot(o, f) ==
    /\ o \in DOMAIN objects
    /\ MayBecome(o, f)
    /\ CanName({o})
    /\ UNCHANGED <<undo, redo>>
    /\ Becomes(UpdateRootLayer(World, o, f, NewIds({o})[o]))
    /\ disk' = With(disk, f, layers[Root(o)].data)
    /\ layers' = KeepLive(With(layers, f, [data |-> layers[Root(o)].data, dirty |-> FALSE]))

EditRoot(o) ==
    /\ o \in DOMAIN objects
    /\ layers' = [layers EXCEPT ![Root(o)] = [data |-> requests + 1, dirty |-> TRUE]]
    /\ UNCHANGED <<objects, map, cache, disk, undo, redo>>

(* The node is deleted or the deletion is undone: the object stays. *)
ToggleNode(o) ==
    /\ o \in DOMAIN objects
    /\ objects' = [objects EXCEPT ![o].inScene = ~@]
    /\ UNCHANGED <<map, cache, layers, disk, undo, redo>>

UserEdit ==
    /\ SceneEdit
    /\ \/ \E o \in Objects : Create(o) \/ EditRoot(o) \/ ToggleNode(o)
       \/ \E o, copy \in Objects : Clone(o, copy)
       \/ \E o \in Objects, f \in Files : SetRootLayer(o, f) \/ SaveAnonymousRoot(o, f)
       \/ \E o \in Objects, stage \in cache : SetStageFromCache(o, stage)
       \/ InsertInCache
       \/ Undo
       \/ Redo

------------------------------------------------------------------------------
(* Saving the scene. *)

GetDirtyLayersToSave ==
    {<<o, Root(o)>> : o \in {x \in GetAllStageObjects(map) :
                                 /\ objects[x].inScene
                                 /\ layers[Root(x)].dirty \/ IsAnonymous(Root(x))}}

InScene == {o \in DOMAIN objects : objects[o].inScene}

(* NOTIFY_FILE_CHECK_STATUS, which an auto-save does not send, then *)
(* NOTIFY_FILE_PRE_SAVE.                                             *)
FilePreSave(auto, quiet) ==
    /\ Request
    /\ ~(auto /\ quiet)
    /\ InScene # {}
    /\ LET isAutoSave == auto /\ manager.isAutoSave
       IN manager' = [manager EXCEPT !.isAutoSave = isAutoSave, !.mustHandleSave = ~isAutoSave]
    /\ saving' = [phase |-> "references", auto |-> auto, quiet |-> quiet, refs |-> InScene,
                  written |-> << >>, prompts |-> 0, cancelled |-> FALSE]
    /\ UNCHANGED <<stageVars, saveRequired, posted, maxFile>>

(* HandleMaxSceneSave returned TRUE, or FALSE. *)
Proceeds(o)   == saving' = [saving EXCEPT !.refs = @ \ {o}]
Prompted(o)   == saving' = [saving EXCEPT !.refs = @ \ {o}, !.prompts = @ + 1]
Interrupts(o) == saving' = [saving EXCEPT !.refs = @ \ {o}, !.prompts = @ + 1, !.cancelled = TRUE]

NoPrompt(o) ==
    /\ \/ ~manager.mustHandleSave
       \/ GetDirtyLayersToSave = {}
       \/ saving.quiet
    /\ manager' = [manager EXCEPT !.mustHandleSave = FALSE]
    /\ Proceeds(o)
    /\ UNCHANGED stageVars

(* The radio buttons of the dialog set the mode at once, a cancelled dialog *)
(* does not take it back.  The batch dialog may be given up too.            *)
MustPrompt == manager.mustHandleSave /\ GetDirtyLayersToSave # {} /\ ~saving.quiet

(* A mutant: every stage object of the scene asks again. *)
HandledOnce(mode) == manager' = [manager EXCEPT !.saveMode = mode]

Handled(mode) == manager' = [manager EXCEPT !.mustHandleSave = FALSE, !.saveMode = mode]

CancelSave(o, mode) ==
    /\ MustPrompt
    /\ Handled(mode)
    /\ Interrupts(o)
    /\ objects' = [objects EXCEPT ![o].interruptSave = TRUE]
    /\ UNCHANGED <<map, cache, layers, disk, undo, redo>>

KeepEdits(o, mode) ==
    /\ MustPrompt
    /\ mode # "SaveAll"
    /\ Handled(mode)
    /\ Prompted(o)
    /\ UNCHANGED stageVars

(* The batch dialog may have written anonymous root layers; then each dirty *)
(* layer found before it is saved: SdfLayer::Save fails for anonymous ones, *)
(* may fail for files, and nobody looks at what it returns.                 *)
SaveDirty(ls, saved) ==
    [l \in DOMAIN ls |-> IF l \in saved THEN [ls[l] EXCEPT !.dirty = FALSE] ELSE ls[l]]

SaveAll(o, failing) ==
    /\ MustPrompt
    /\ Handled("SaveAll")
    /\ Prompted(o)
    /\ LET saved == {d[2] : d \in GetDirtyLayersToSave} \cap (Files \ failing)
       IN \/ /\ disk' = Over([l \in saved |-> layers[l].data], disk)
             /\ layers' = SaveDirty(layers, saved)
             /\ UNCHANGED <<objects, map, cache, undo, redo>>
          \/ \E d \in GetDirtyLayersToSave, f \in Files :
                /\ MayBecome(d[1], f)
                /\ CanName({o})
                /\ UNCHANGED <<undo, redo>>
                /\ Becomes(UpdateRootLayer(World, d[1], f, NewIds({o})[o]))
                /\ LET data == layers[d[2]].data
                   IN /\ disk' = Over([l \in saved |-> layers[l].data], With(disk, f, data))
                      /\ layers' = KeepLive(With(SaveDirty(layers, saved), f,
                                                [data |-> data, dirty |-> FALSE]))

SpecifySaveReferences(o) ==
    /\ saving.phase = "references"
    /\ o \in saving.refs
    /\ \/ NoPrompt(o)
       \/ \E mode \in SaveModes : CancelSave(o, mode) \/ KeepEdits(o, mode)
       \/ \E failing \in SUBSET (Files \cap DOMAIN layers) : SaveAll(o, failing)
    /\ UNCHANGED <<requests, saveRequired, posted, maxFile>>

(* USDStageObject::Save, in the order 3ds Max likes. *)
MayWrite(o) ==
    /\ saving.phase = "references" /\ saving.refs = {}
    /\ o \in InScene \ DOMAIN saving.written

(* A mutant: the flag survives the save. *)
InterruptEveryWrite(o) ==
    /\ MayWrite(o)
    /\ objects[o].interruptSave
    /\ saving' = [saving EXCEPT !.phase = "interrupted"]
    /\ UNCHANGED stageVars

InterruptWrite(o) ==
    /\ MayWrite(o)
    /\ objects[o].interruptSave
    /\ objects' = [objects EXCEPT ![o].interruptSave = FALSE]
    /\ saving' = [saving EXCEPT !.phase = "interrupted"]
    /\ UNCHANGED <<map, cache, layers, disk, undo, redo>>

(* A mutant: the answer of the dialog is not looked at. *)
WriteAnyway(o) ==
    /\ MayWrite(o)
    /\ saving' = [saving EXCEPT !.written = With(@, o, [objects[o] EXCEPT !.interruptSave = FALSE])]
    /\ UNCHANGED stageVars

Write(o) ==
    /\ MayWrite(o)
    /\ ~objects[o].interruptSave
    /\ saving' = [saving EXCEPT !.written = With(@, o, [objects[o] EXCEPT !.interruptSave = FALSE])]
    /\ UNCHANGED stageVars

SaveObject(o) ==
    /\ Write(o) \/ InterruptWrite(o)
    /\ UNCHANGED <<requests, manager, saveRequired, posted, maxFile>>

(* USDStageObjectclassDesc::Save is called last.  An auto-save writes a file *)
(* of its own, which is not followed here.                                   *)
SaveClassData ==
    /\ saving.phase = "references" /\ saving.refs = {}
    /\ InScene = DOMAIN saving.written
    /\ saving' = [saving EXCEPT !.phase = "saved"]
    /\ IF saving.auto
       THEN UNCHANGED maxFile
       ELSE maxFile' = [objects |-> saving.written,
                        layers  |-> IF manager.saveMode = "SaveAllEditsMax"
                                    THEN [l \in {d[2] : d \in GetDirtyLayersToSave} |-> layers[l].data]
                                    ELSE << >>]
    /\ UNCHANGED <<requests, stageVars, manager, saveRequired, posted>>

(* A mutant: what was not saved is forgotten. *)
FilePostSaveOnly ==
    /\ saving.phase \in {"saved", "interrupted"}
    /\ manager' = [manager EXCEPT !.mustHandleSave = FALSE, !.isAutoSave = TRUE]
    /\ saveRequired' = (saveRequired /\ (saving.auto \/ saving.phase = "interrupted"))
    /\ saving' = NoSave
    /\ UNCHANGED <<requests, stageVars, posted, maxFile>>

(* NOTIFY_FILE_POST_SAVE; then 3ds Max resets its flag if it wrote the scene. *)
FilePostSave ==
    /\ saving.phase \in {"saved", "interrupted"}
    /\ manager' = [manager EXCEPT !.mustHandleSave = FALSE, !.isAutoSave = TRUE]
    /\ posted' = (posted \/ GetDirtyLayersToSave # {})
    /\ saveRequired' = (saveRequired /\ (saving.auto \/ saving.phase = "interrupted"))
    /\ saving' = NoSave
    /\ UNCHANGED <<requests, stageVars, maxFile>>

(* The main loop of 3ds Max executes the NeedSaveRequest. *)
NeedSaveRequest ==
    /\ saving = NoSave
    /\ posted
    /\ saveRequired' = TRUE
    /\ posted' = FALSE
    /\ UNCHANGED <<requests, stageVars, manager, saving, maxFile>>

(* setDefaultSaveMode of the script interface. *)
SetSaveMode(mode) ==
    /\ Request
    /\ mode # manager.saveMode
    /\ manager' = [manager EXCEPT !.saveMode = mode]
    /\ UNCHANGED <<stageVars, saving, saveRequired, posted, maxFile>>

------------------------------------------------------------------------------
(* Opening the scene last saved. *)

(* The class data is read first: each saved layer is made anew, an anonymous *)
(* one under a new identifier, and loadedLayerMap finds it by the old one.   *)
(* (Find does not find one of them in memory: a stage leaves the cache with  *)
(* its object, those left there were never saved.)                           *)
LoadedLayerMap(name) ==
    [l \in DOMAIN maxFile.layers |-> IF IsAnonymous(l) THEN name[l] ELSE l]

LoadedLayers(loaded) ==
    [k \in {loaded[l] : l \in DOMAIN loaded} |->
         [data |-> maxFile.layers[CHOOSE l \in DOMAIN loaded : loaded[l] = k], dirty |-> TRUE]]

(* What the callback leaves of a saved object: its parameters, on a stage. *)
Loaded(o, anonRootId, stage) ==
    [stage |-> stage, file |-> maxFile.objects[o].file, anonRootId |-> anonRootId,
     inScene |-> TRUE, interruptSave |-> FALSE, own |-> maxFile.objects[o].own]

(* A mutant: roots saved with the scene are not looked for. *)
PostLoadFiles(o, id, loaded) ==
    LET saved == maxFile.objects[o]
    IN IF saved.file \in DOMAIN disk
       THEN Loaded(o, saved.anonRootId, [id |-> id, root |-> saved.file])
       ELSE Loaded(o, id, InMemoryStage(id))

(* USDItemPostLoadCB::proc: the anonymous root saved with the scene, or the *)
(* file, or else the stage the constructor made.                            *)
PostLoad(o, id, loaded) ==
    LET saved == maxFile.objects[o]
    IN IF saved.anonRootId \in DOMAIN loaded
       THEN LET root == loaded[saved.anonRootId]
            IN Loaded(o, root, [id |-> id, root |-> root])
       ELSE IF saved.file \in DOMAIN disk
       THEN Loaded(o, saved.anonRootId, [id |-> id, root |-> saved.file])
       ELSE Loaded(o, id, InMemoryStage(id))

(* What registering each object leaves, first with the stage of the constructor *)
(* and then with the one that replaces it; no two of these are the same.        *)
LoadedMap(opened) ==
    [pathToObject  |-> DOMAIN opened,
     stageToObject |-> [s \in {opened[o].stage : o \in DOMAIN opened} |->
                            CHOOSE o \in DOMAIN opened : opened[o].stage = s]]

FileOpen ==
    LET anonymous == {l \in DOMAIN maxFile.layers : IsAnonymous(l)}
        saved     == DOMAIN maxFile.objects
        kept      == cache \ {objects[o].stage : o \in DOMAIN objects}
    IN /\ Request
       /\ maxFile # NoFile
       /\ CanName(anonymous \cup saved)
       /\ LET name   == NewIds(anonymous \cup saved)
              loaded == LoadedLayerMap(name)
              open   == Over(LoadedLayers(loaded), Restrict(layers, {s.root : s \in kept}))
          IN /\ undo' = << >> /\ redo' = << >>
             /\ objects' = [o \in saved |-> PostLoad(o, name[o], loaded)]
             /\ map' = LoadedMap(objects')
             /\ cache' = kept \cup {objects'[o].stage : o \in saved}
             /\ layers' = KeepLive(Over(Over(open, [f \in DOMAIN disk |-> [data |-> disk[f], dirty |-> FALSE]]),
                                     [i \in {name[o] : o \in saved} |-> NewLayer]))
       /\ saveRequired' = FALSE
       /\ UNCHANGED <<disk, manager, saving, posted, maxFile>>

------------------------------------------------------------------------------

Init ==
    /\ objects = << >> /\ map = EmptyMap /\ cache = {}
    /\ layers = << >>
    /\ disk = [f \in OnDisk |-> 0]
    /\ undo = << >> /\ redo = << >> /\ requests = 0
    /\ \E mode \in SaveModes :   \* not initialised; other values act as Save3dsMaxOnly
          manager = [mustHandleSave |-> FALSE, isAutoSave |-> TRUE, saveMode |-> mode]
    /\ saving = NoSave
    /\ saveRequired = FALSE /\ posted = FALSE
    /\ maxFile = NoFile

Next ==
    \/ UserEdit
    \/ \E auto, quiet \in BOOLEAN : FilePreSave(auto, quiet)
    \/ \E o \in Objects : SpecifySaveReferences(o) \/ SaveObject(o)
    \/ SaveClassData
    \/ FilePostSave
    \/ NeedSaveRequest
    \/ \E mode \in SaveModes : SetSaveMode(mode)
    \/ FileOpen

Spec == Init /\ [][Next]_vars

------------------------------------------------------------------------------
(* Properties. *)

(* Types, with what ties them: the layers in memory are the roots of the     *)
(* stages that the cache, an object or the undo stack keeps alive, and no    *)
(* stage is kept by anything else (USDStageObject::SetUSDStage and           *)
(* FullStageReset, StageRestoreObj).                                         *)
TypeOK ==
    /\ DOMAIN objects \subseteq Objects
    /\ \A o \in DOMAIN objects :
          objects[o] \in [stage : Stages, file : Files \cup {None}, anonRootId : Ids \cup {None},
                         inScene : BOOLEAN, interruptSave : BOOLEAN, own : BOOLEAN]
    /\ cache \subseteq Stages
    /\ DOMAIN layers = {s.root : s \in LiveStages}
    /\ \A l \in DOMAIN layers : layers[l] \in [data : 0 .. MaxRequests, dirty : BOOLEAN]
    /\ DOMAIN disk \subseteq Files
    /\ Len(undo) + Len(redo) <= MaxUndo
    /\ requests \in 0 .. MaxRequests
    /\ manager \in [mustHandleSave : BOOLEAN, isAutoSave : BOOLEAN, saveMode : SaveModes]
    /\ saveRequired \in BOOLEAN /\ posted \in BOOLEAN

(* Through creations, copies, changes of stage, undo, redo and openings the  *)
(* registry finds each stage object by its path and by its current stage     *)
(* (StageObjectMap::Set and Remove): the save of dirty layers goes by it.    *)
MapFindsEveryStageObject ==
    /\ map.pathToObject = DOMAIN objects
    /\ DOMAIN map.stageToObject = {objects[o].stage : o \in DOMAIN objects}
    /\ GetAllStageObjects(map) = DOMAIN objects

(* A save of a scene prompts at most once, however many stage objects take   *)
(* part in it; auto-saves and quiet saves do not prompt (mustHandleSave and  *)
(* isAutoSave of USDLayerManager, over all the saves before).                *)
PromptsOnce ==
    saving # NoSave => saving.prompts <= IF saving.auto \/ saving.quiet THEN 0 ELSE 1

(* A save that the user cancelled in the prompt of one stage object leaves   *)
(* the scene file alone, although another object may be written first        *)
(* (USDStageObject::SpecifySaveReferences, then Save).                       *)
CancelledSaveWritesNothing ==
    [][maxFile' # maxFile => ~saving.cancelled]_vars

(* No stage object is left with interruptSave once a save has ended: it would *)
(* silently interrupt the next one, an auto-save perhaps.                     *)
InterruptsEndWithTheSave ==
    saving = NoSave => \A o \in DOMAIN objects : ~objects[o].interruptSave

(* Once 3ds Max takes the scene for saved, and no task is waiting to say     *)
(* otherwise, the last edit of every stage of the scene is in a file or in   *)
(* the scene file, whatever the prompts, the save modes and the writes that  *)
(* failed (USDLayerManager::NotifyFileSave, GetDirtyLayersToSave).           *)
EditsAreKept ==
    saving = NoSave /\ ~posted /\ ~saveRequired =>
        \A o \in InScene :
            layers[Root(o)].data \in {0} \cup Range(disk) \cup Range(maxFile.layers)

(* What the stage of o showed when it was saved, or nothing for a root that  *)
(* was saved nowhere.                                                        *)
Restored(o) ==
    LET root == maxFile.objects[o].stage.root
    IN layers'[objects'[o].stage.root].data =
          IF root \in DOMAIN maxFile.layers THEN maxFile.layers[root]
          ELSE IF root \in DOMAIN disk THEN disk[root] ELSE 0
OwnRoot(o) ==
    LET saved == maxFile.objects[o]
    IN saved.own /\ (IsAnonymous(saved.stage.root) => saved.anonRootId # None)

(* Opening the scene restores, for each stage object that was neither copied *)
(* nor given a stage of the cache, the root layer kept in the scene file or  *)
(* the one on disk, through any number of saves and openings (AnonRootId,    *)
(* loadedLayerMap and USDItemPostLoadCB::proc).                              *)
LoadRestoresOwnStages ==
    [][FileOpen => \A o \in DOMAIN maxFile.objects : OwnRoot(o) => Restored(o)]_vars

(* The same for every stage object: AnonRootId "drives the process of        *)
(* recreating the stage correctly" (USDStageObject.cpp:1814).                *)
LoadRestoresEveryStage ==
    [][FileOpen => \A o \in DOMAIN maxFile.objects : Restored(o)]_vars
=============================================================================
