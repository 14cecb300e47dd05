-------------------------- MODULE SceneSaveProofs --------------------------
(***************************************************************************)
(* Saving the scene, for any number of stage objects, files, undo levels   *)
(* and requests, and whatever users answer.                                *)
(*                                                                         *)
(* First, a save prompts at most once.  That no second prompt comes does   *)
(* not follow from PromptsOnce itself: one has to know that a prompt       *)
(* clears mustHandleSave, that the flag is clear and the next save taken   *)
(* for an auto-save whenever no save runs, and that an auto-save never     *)
(* sets it.  On this rests the second part: a cancelled save writes        *)
(* nothing and leaves no flag behind.                                      *)
(*                                                                         *)
(* Third, no edit is lost silently: SceneSave keeps EditsAreKept as long   *)
(* as no stage is given to two objects.  The save goes by the registry, so *)
(* that the registry has to know every object; it does because no two      *)
(* objects ever lay claim to one stage: the one they have, or one that     *)
(* undo or redo would give back to them.  And a layer that is not dirty is *)
(* on disk.                                                                *)
(*                                                                         *)
(* Fourth, opening the scene restores what is kept of the root of each     *)
(* object of its own.  Its parameters have to lead there when it is saved, *)
(* so they have to after every undo and redo that may come first; and no   *)
(* other object may bring the root of that name into the scene file.       *)
(***************************************************************************)
EXTENDS SceneSave, FiniteSetTheorems, SequenceTheorems, TLAPS

SaveFields ==
    {"phase", "auto", "quiet", "refs", "written", "prompts", "cancelled"}

ManagerOK ==
    manager \in [mustHandleSave : BOOLEAN, isAutoSave : BOOLEAN, saveMode : SaveModes]

IdleInv == saving = NoSave => ~manager.mustHandleSave /\ manager.isAutoSave

SavingInv ==
    saving # NoSave =>
        /\ saving = [f \in SaveFields |-> saving[f]]
        /\ saving.phase # "idle"
        /\ saving.auto \in BOOLEAN /\ saving.quiet \in BOOLEAN
        /\ saving.prompts \in {0, 1}
        /\ saving.prompts = 1 => ~manager.mustHandleSave /\ ~saving.auto /\ ~saving.quiet
        /\ manager.mustHandleSave => ~saving.auto

PromptInv == ManagerOK /\ IdleInv /\ SavingInv

(* Before the first call no save runs. *)
LEMMA InitPrompt == Init => PromptInv
BY DEF Init, PromptInv, ManagerOK, IdleInv, SavingInv, SaveModes

(* Whatever leaves the layer manager and the save alone keeps the invariant. *)
LEMMA UntouchedPrompt ==
    PromptInv /\ UNCHANGED <<manager, saving>> => PromptInv'
BY DEF PromptInv, ManagerOK, IdleInv, SavingInv

(* Every step keeps it: calls during a save keep the flag or clear it, and  *)
(* prompt only while it is set.                                              *)
LEMMA PromptStep ==
    ASSUME PromptInv, [Next]_vars
    PROVE  PromptInv'
<1> USE DEF PromptInv
<1>1. CASE UserEdit
  BY <1>1, UntouchedPrompt DEF UserEdit, SceneEdit
<1>2. ASSUME NEW auto \in BOOLEAN, NEW quiet \in BOOLEAN, FilePreSave(auto, quiet)
      PROVE  PromptInv'
  <2>1. ~manager.mustHandleSave /\ manager.isAutoSave
    BY <1>2 DEF FilePreSave, Request, IdleInv
  <2>2. manager' = [manager EXCEPT !.isAutoSave = auto, !.mustHandleSave = ~auto]
    BY <1>2, <2>1 DEF FilePreSave
  <2>3. /\ ManagerOK'
        /\ manager'.mustHandleSave = ~auto
    BY <2>2 DEF ManagerOK
  <2>4. saving' = [phase |-> "references", auto |-> auto, quiet |-> quiet, refs |-> InScene,
                   written |-> << >>, prompts |-> 0, cancelled |-> FALSE]
    BY <1>2 DEF FilePreSave
  <2>5. saving'.phase = "references"
    BY <2>4
  <2>6. saving' # NoSave
    BY <2>5 DEF NoSave
  <2>7. saving' = [f \in SaveFields |-> saving'[f]]
    BY <2>4 DEF SaveFields
  <2>8. saving'.auto = auto /\ saving'.quiet = quiet /\ saving'.prompts = 0
    BY <2>4
  <2>9. IdleInv'
    BY <2>6 DEF IdleInv
  <2>10. saving'.phase # "idle" /\ saving'.prompts \in {0, 1} /\ saving'.prompts # 1
    BY <2>5, <2>8
  <2>11. /\ saving'.auto \in BOOLEAN /\ saving'.quiet \in BOOLEAN
         /\ manager'.mustHandleSave => ~saving'.auto
    BY <2>3, <2>8
  <2>12. SavingInv'
    BY <2>7, <2>10, <2>11 DEF SavingInv
  <2> QED BY <2>3, <2>9, <2>12
<1>3. ASSUME NEW o \in Objects, SpecifySaveReferences(o)
      PROVE  PromptInv'
  <2>1. saving.phase = "references" /\ saving # NoSave
    BY <1>3 DEF SpecifySaveReferences, NoSave
  <2>2. CASE NoPrompt(o)
    <3>1. /\ manager' = [manager EXCEPT !.mustHandleSave = FALSE]
          /\ saving' = [saving EXCEPT !.refs = @ \ {o}]
      BY <2>2 DEF NoPrompt, Proceeds
    <3>2. ManagerOK' /\ ~manager'.mustHandleSave
      BY <3>1 DEF ManagerOK
    <3>3. /\ saving' = [f \in SaveFields |-> saving'[f]]
          /\ saving'.phase = saving.phase /\ saving'.auto = saving.auto
          /\ saving'.quiet = saving.quiet /\ saving'.prompts = saving.prompts
      BY <2>1, <3>1 DEF SavingInv, SaveFields
    <3>4. saving' # NoSave
      BY <2>1, <3>3 DEF NoSave
    <3> QED BY <2>1, <3>2, <3>3, <3>4 DEF IdleInv, SavingInv
  <2>3. ASSUME NEW mode \in SaveModes, MustPrompt, Handled(mode), Prompted(o) \/ Interrupts(o)
        PROVE  PromptInv'
    <3>1. manager.mustHandleSave /\ ~saving.quiet
      BY <2>3 DEF MustPrompt
    <3>2. ManagerOK' /\ ~manager'.mustHandleSave
      BY <2>3 DEF Handled, ManagerOK
    <3>3. /\ saving' = [f \in SaveFields |-> saving'[f]]
          /\ saving'.phase = saving.phase /\ saving'.auto = saving.auto
          /\ saving'.quiet = saving.quiet /\ saving'.prompts = saving.prompts + 1
      BY <2>1, <2>3 DEF SavingInv, SaveFields, Prompted, Interrupts
    <3>4. saving.prompts = 0 /\ ~saving.auto
      BY <2>1, <3>1 DEF SavingInv
    <3>5. saving' # NoSave
      BY <2>1, <3>3 DEF NoSave
    <3> QED BY <2>1, <3>1, <3>2, <3>3, <3>4, <3>5 DEF IdleInv, SavingInv
  <2>4. ASSUME NEW mode \in SaveModes, CancelSave(o, mode) \/ KeepEdits(o, mode)
        PROVE  PromptInv'
    BY <2>3, <2>4 DEF CancelSave, KeepEdits
  <2>5. ASSUME NEW failing, SaveAll(o, failing)
        PROVE  PromptInv'
    <3>1. "SaveAll" \in SaveModes
      BY DEF SaveModes
    <3>2. MustPrompt /\ Handled("SaveAll") /\ Prompted(o)
      BY <2>5 DEF SaveAll
    <3> QED BY <2>3, <3>1, <3>2
  <2> QED BY <1>3, <2>2, <2>4, <2>5 DEF SpecifySaveReferences
<1>4. ASSUME NEW o \in Objects, SaveObject(o)
      PROVE  PromptInv'
  <2>1. saving.phase = "references" /\ saving # NoSave /\ manager' = manager
    BY <1>4 DEF SaveObject, Write, InterruptWrite, MayWrite, NoSave
  <2>2. /\ saving' = [f \in SaveFields |-> saving'[f]]
        /\ saving'.phase \in {"references", "interrupted"} /\ saving'.auto = saving.auto
        /\ saving'.quiet = saving.quiet /\ saving'.prompts = saving.prompts
    BY <1>4, <2>1 DEF SaveObject, Write, InterruptWrite, SavingInv, SaveFields
  <2>3. saving' # NoSave
    BY <2>2 DEF NoSave
  <2> QED BY <2>1, <2>2, <2>3 DEF ManagerOK, IdleInv, SavingInv
<1>5. CASE SaveClassData
  <2>1. saving.phase = "references" /\ saving # NoSave /\ manager' = manager
    BY <1>5 DEF SaveClassData, NoSave
  <2>2. /\ saving' = [f \in SaveFields |-> saving'[f]]
        /\ saving'.phase = "saved" /\ saving'.auto = saving.auto
        /\ saving'.quiet = saving.quiet /\ saving'.prompts = saving.prompts
    BY <1>5, <2>1 DEF SaveClassData, SavingInv, SaveFields
  <2>3. saving' # NoSave
    BY <2>2 DEF NoSave
  <2> QED BY <2>1, <2>2, <2>3 DEF ManagerOK, IdleInv, SavingInv
<1>6. CASE FilePostSave
  BY <1>6 DEF FilePostSave, ManagerOK, IdleInv, SavingInv
<1>7. CASE NeedSaveRequest
  BY <1>7, UntouchedPrompt DEF NeedSaveRequest
<1>8. ASSUME NEW mode \in SaveModes, SetSaveMode(mode)
      PROVE  PromptInv'
  BY <1>8 DEF SetSaveMode, Request, ManagerOK, IdleInv, SavingInv
<1>9. CASE FileOpen
  BY <1>9, UntouchedPrompt DEF FileOpen
<1>10. CASE UNCHANGED vars
  BY <1>10, UntouchedPrompt DEF vars, saveVars
<1> QED
  BY <1>1, <1>2, <1>3, <1>4, <1>5, <1>6, <1>7, <1>8, <1>9, <1>10 DEF Next

(* However many stage objects the scene holds and however saves, auto-saves, *)
(* quiet saves and cancelled saves follow each other, HandleMaxSceneSave     *)
(* shows its dialog at most once in a save, and never in an auto-save or in  *)
(* quiet mode.                                                               *)
THEOREM SavePromptsOnce == Spec => []PromptsOnce
<1>1. PromptInv => PromptsOnce
  BY DEF PromptInv, SavingInv, PromptsOnce
<1> QED
  BY InitPrompt, PromptStep, <1>1, PTL DEF Spec

-----------------------------------------------------------------------------
(* A cancelled save.  The cancel is remembered by one stage object, and the  *)
(* scene is only written once every object in it was: so that object must    *)
(* be in the scene, not yet written, and must keep its flag, through all the *)
(* changes that the prompts of the others make to the objects.               *)

ObjectFields == {"stage", "file", "anonRootId", "inScene", "interruptSave", "own"}

AreObjects(objs) ==
    /\ objs = [o \in DOMAIN objs |-> objs[o]]
    /\ \A o \in DOMAIN objs : objs[o] = [f \in ObjectFields |-> objs[o][f]]

(* The objects that are to interrupt a save. *)
Flagged(objs) == {o \in DOMAIN objs : objs[o].interruptSave}

(* Two sets of objects that differ in their stages and parameters only. *)
Alike(a, b) ==
    /\ DOMAIN a = DOMAIN b
    /\ \A o \in DOMAIN a : /\ a[o].interruptSave = b[o].interruptSave
                           /\ a[o].inScene = b[o].inScene

(* What depends on the requests of users: no flag is left between saves. *)
FlagInv ==
    /\ AreObjects(objects)
    /\ saving = NoSave => Flagged(objects) = {}

(* The save: nothing is written while references are asked for, flags come   *)
(* from the one cancel, and a flagged object is neither gone nor written.    *)
CancelInv ==
    saving # NoSave =>
        /\ saving.phase \in {"references", "interrupted", "saved"}
        /\ saving.phase # "references" => Flagged(objects) = {}
        /\ saving.phase = "references" =>
              /\ saving.refs \subseteq InScene
              /\ saving.refs # {} => DOMAIN saving.written = {}
              /\ saving.cancelled => Flagged(objects) # {}
              /\ Flagged(objects) # {} => saving.prompts = 1
              /\ Flagged(objects) \subseteq InScene \ DOMAIN saving.written
              /\ \A p, q \in Flagged(objects) : p = q

SaveInv == PromptInv /\ FlagInv /\ CancelInv

(* What an operation may do to the objects without touching the flags. *)
WithStage(objs, o, e) == [objs EXCEPT ![o].stage = e]
WithFile(objs, o, e)  == [objs EXCEPT ![o].file = e]
WithRoot(objs, o, e)  == [objs EXCEPT ![o].anonRootId = e]
WithOwn(objs, o, e)   == [objs EXCEPT ![o].own = e]

Keeps(a, b) == AreObjects(a) => AreObjects(b) /\ Alike(a, b)

(* A stage or a parameter of an object changes: the flags do not. *)
LEMMA FieldSet ==
    ASSUME NEW objs, NEW o, NEW e
    PROVE  /\ Keeps(objs, WithStage(objs, o, e))
           /\ Keeps(objs, WithFile(objs, o, e))
           /\ Keeps(objs, WithRoot(objs, o, e))
           /\ Keeps(objs, WithOwn(objs, o, e))
<1>1. Keeps(objs, WithStage(objs, o, e))
  BY DEF AreObjects, Alike, ObjectFields, WithStage, Keeps
<1>2. Keeps(objs, WithFile(objs, o, e))
  BY DEF AreObjects, Alike, ObjectFields, WithFile, Keeps
<1>3. Keeps(objs, WithRoot(objs, o, e))
  BY DEF AreObjects, Alike, ObjectFields, WithRoot, Keeps
<1>4. Keeps(objs, WithOwn(objs, o, e))
  BY DEF AreObjects, Alike, ObjectFields, WithOwn, Keeps
<1> QED BY <1>1, <1>2, <1>3, <1>4

(* One such change after another. *)
LEMMA KeepsTwice ==
    ASSUME NEW a, NEW b, NEW c, Keeps(a, b), Keeps(b, c)
    PROVE  Keeps(a, c)
BY DEF Keeps, Alike

(* SetUSDStage changes the stage of an object of the world it is given. *)
LEMMA StageSet ==
    ASSUME NEW w, NEW o, NEW stage
    PROVE  Keeps(w.objects, SetUSDStage(w, o, stage).objects)
<1>1. SetUSDStage(w, o, stage).objects = WithStage(w.objects, o, stage)
  BY DEF SetUSDStage, WithStage
<1> QED BY <1>1, FieldSet

(* LoadUSDStage too, or nothing. *)
LEMMA StageLoaded ==
    ASSUME NEW w, NEW o, NEW f, NEW id
    PROVE  Keeps(w.objects, LoadUSDStage(w, o, f, id).objects)
<1>1. CASE CanOpen(f)
  BY <1>1, StageSet DEF LoadUSDStage
<1>2. CASE ~ CanOpen(f)
  BY <1>2 DEF LoadUSDStage, Keeps, Alike
<1> QED BY <1>1, <1>2

(* UpdateRootLayer changes the stage and two parameters. *)
LEMMA RootUpdated ==
    ASSUME NEW o, NEW f, NEW id
    PROVE  Keeps(objects, UpdateRootLayer(World, o, f, id).objects)
<1> DEFINE both == WithRoot(WithFile(objects, o, f), o, None)
           stage == [id |-> id, root |-> f]
<1>1. Keeps(objects, both)
  BY FieldSet, KeepsTwice
<1>2. UpdateRootLayer(World, o, f, id).objects = WithStage(both, o, stage)
  BY DEF UpdateRootLayer, SetUSDStage, World, WithStage, WithRoot, WithFile
<1> HIDE DEF both, stage
<1> QED BY <1>1, <1>2, FieldSet, KeepsTwice

(* Between saves no object is flagged, and none is by what users do. *)
Unflagged(objs) == AreObjects(objs) /\ Flagged(objs) = {}

LEMMA KeptUnflagged ==
    ASSUME NEW a, NEW b, Unflagged(a), Keeps(a, b)
    PROVE  Unflagged(b)
BY DEF Unflagged, Keeps, Alike, Flagged

(* An object is created without a flag. *)
LEMMA CreatedUnflagged ==
    ASSUME Unflagged(objects), NEW o, NEW id
    PROVE  /\ Unflagged(CreateInMemoryStage(World, o, id).objects)
           /\ o \in DOMAIN CreateInMemoryStage(World, o, id).objects
<1> DEFINE new == [stage |-> InMemoryStage(id), file |-> None, anonRootId |-> id,
                   inScene |-> TRUE, interruptSave |-> FALSE, own |-> TRUE]
           objs == With(objects, o, new)
<1>1. CreateInMemoryStage(World, o, id).objects = objs
  BY DEF CreateInMemoryStage, World
<1>2. new = [f \in ObjectFields |-> new[f]] /\ ~ new.interruptSave
  BY DEF ObjectFields
<1>3. /\ DOMAIN objs = DOMAIN objects \cup {o}
      /\ objs = [p \in DOMAIN objs |-> objs[p]]
      /\ objs[o] = new
      /\ \A p \in DOMAIN objects \ {o} : objs[p] = objects[p]
  BY DEF With
<1> HIDE DEF new, objs
<1>4. Unflagged(objs)
  BY <1>2, <1>3 DEF Unflagged, AreObjects, Flagged
<1> QED BY <1>1, <1>3, <1>4

(* So is a copy: the flag is no parameter. *)
LEMMA ClonedUnflagged ==
    ASSUME Unflagged(objects), NEW o, NEW copy, Clone(o, copy)
    PROVE  Unflagged(objects')
<1> DEFINE id == NewIds({o, copy})
           w == CreateInMemoryStage(World, copy, id[copy])
           pb == [w.objects[copy] EXCEPT !.file = objects[o].file,
                                         !.anonRootId = objects[o].anonRootId,
                                         !.own = FALSE]
           copied == [w.objects EXCEPT ![copy] = pb]
           world == [w EXCEPT !.objects = [@ EXCEPT ![copy] = pb, ![o].own = FALSE]]
<1>1. objects' = LoadUSDStage(world, copy, pb.file, id[o]).objects
  BY DEF Clone, Becomes
<1>2. Unflagged(w.objects) /\ copy \in DOMAIN w.objects
  BY CreatedUnflagged
<1>3. world.objects = WithOwn(copied, o, FALSE)
  BY DEF WithOwn, CreateInMemoryStage
<1>4. Unflagged(copied)
  <2> HIDE DEF w
  <2>1. pb = [f \in ObjectFields |-> pb[f]] /\ ~ pb.interruptSave
    <3>1. PICK c : c = w.objects[copy]
      OBVIOUS
    <3>2. c = [f \in ObjectFields |-> c[f]] /\ ~ c.interruptSave
      BY <1>2, <3>1 DEF Unflagged, AreObjects, Flagged
    <3>3. pb = [c EXCEPT !.file = objects[o].file, !.anonRootId = objects[o].anonRootId,
                         !.own = FALSE]
      BY <3>1
    <3> HIDE DEF pb
    <3> QED BY <3>2, <3>3 DEF ObjectFields
  <2> HIDE DEF pb
  <2> QED BY <1>2, <2>1 DEF Unflagged, AreObjects, Flagged
<1> HIDE DEF w, pb, copied, world, id
<1>5. Unflagged(world.objects)
  BY <1>3, <1>4, FieldSet, KeptUnflagged
<1> QED BY <1>1, <1>5, StageLoaded, KeptUnflagged

(* Nor do undo, redo or a change of stage flag one. *)
LEMMA RestoredUnflagged ==
    ASSUME Unflagged(objects), NEW o, NEW stage, NEW f, Restore(o, stage, f)
    PROVE  Unflagged(objects')
<1>1. objects' = WithStage(WithFile(objects, o, f), o, stage)
  BY DEF Restore, Becomes, SetUSDStage, World, WithStage, WithFile
<1> QED BY <1>1, FieldSet, KeepsTwice, KeptUnflagged

(* Nor does anything else that users do between saves. *)
LEMMA EditUnflagged ==
    ASSUME Unflagged(objects), UserEdit
    PROVE  Unflagged(objects')
<1>1. ASSUME NEW o \in Objects, Create(o) PROVE Unflagged(objects')
  BY <1>1, CreatedUnflagged DEF Create, Becomes
<1>2. ASSUME NEW o \in Objects, ToggleNode(o) PROVE Unflagged(objects')
  <2>1. objects' = [objects EXCEPT ![o].inScene = ~@] /\ o \in DOMAIN objects
    BY <1>2 DEF ToggleNode
  <2> QED BY <2>1 DEF Unflagged, AreObjects, Flagged, ObjectFields
<1>3. ASSUME NEW o \in Objects, NEW copy \in Objects, Clone(o, copy) PROVE Unflagged(objects')
  BY <1>3, ClonedUnflagged
<1>4. ASSUME NEW o \in Objects, NEW f \in Files, SetRootLayer(o, f) PROVE Unflagged(objects')
  <2> DEFINE file == WithFile(objects, o, f)
             own == objects[o].own /\ CanOpen(f)
             w == [World EXCEPT !.objects[o].file = f, !.objects[o].own = @ /\ CanOpen(f)]
  <2>1. objects' = LoadUSDStage(w, o, f, NewIds({o})[o]).objects /\ o \in DOMAIN objects
    BY <1>4 DEF SetRootLayer, Becomes
  <2>2. PICK g : g = file
    OBVIOUS
  <2>3. w.objects = [g EXCEPT ![o].own = @ /\ CanOpen(f)]
    BY <2>2 DEF World, WithFile
  <2>4. w.objects = WithOwn(file, o, g[o].own /\ CanOpen(f))
    BY <2>2, <2>3 DEF WithOwn
  <2>5. Unflagged(file)
    BY FieldSet, KeptUnflagged
  <2> HIDE DEF w, file
  <2>6. Unflagged(w.objects)
    BY <2>4, <2>5, FieldSet, KeptUnflagged
  <2> QED BY <2>1, <2>6, StageLoaded, KeptUnflagged
<1>5. ASSUME NEW o \in Objects, NEW f \in Files, SaveAnonymousRoot(o, f) PROVE Unflagged(objects')
  BY <1>5, RootUpdated, KeptUnflagged DEF SaveAnonymousRoot, Becomes
<1>6. ASSUME NEW o \in Objects, NEW stage \in cache, SetStageFromCache(o, stage)
      PROVE  Unflagged(objects')
  <2>1. PICK f : objects' = WithStage(WithOwn(WithFile(objects, o, f), o, FALSE), o, stage)
    BY <1>6 DEF SetStageFromCache, Becomes, SetUSDStage, World, WithStage, WithFile, WithOwn
  <2> QED BY <2>1, FieldSet, KeepsTwice, KeptUnflagged
<1>7. CASE InsertInCache
  BY <1>7 DEF InsertInCache
<1>8. CASE Undo \/ Redo
  BY <1>8, RestoredUnflagged DEF Undo, Redo
<1>9. ASSUME NEW o \in Objects, EditRoot(o) PROVE Unflagged(objects')
  BY <1>9 DEF EditRoot
<1> QED
  BY <1>1, <1>2, <1>3, <1>4, <1>5, <1>6, <1>7, <1>8, <1>9 DEF UserEdit

(* Opening a scene makes its objects anew, without flags. *)
LEMMA OpenUnflagged ==
    ASSUME FileOpen
    PROVE  Unflagged(objects')
<1>1. PICK name, loaded :
         objects' = [o \in DOMAIN maxFile.objects |-> PostLoad(o, name[o], loaded)]
  BY DEF FileOpen
<1>2. ASSUME NEW o, NEW root, NEW stage
      PROVE  /\ Loaded(o, root, stage) = [f \in ObjectFields |-> Loaded(o, root, stage)[f]]
             /\ ~ Loaded(o, root, stage).interruptSave
  BY DEF Loaded, ObjectFields
<1>3. ASSUME NEW o, NEW id
      PROVE  /\ PostLoad(o, id, loaded) = [f \in ObjectFields |-> PostLoad(o, id, loaded)[f]]
             /\ ~ PostLoad(o, id, loaded).interruptSave
  BY <1>2 DEF PostLoad
<1> QED BY <1>1, <1>3 DEF Unflagged, AreObjects, Flagged

(* A flag is set or reset: nothing else changes. *)
LEMMA FlagSet ==
    ASSUME AreObjects(objects), NEW o \in DOMAIN objects, NEW e \in BOOLEAN,
           objects' = [objects EXCEPT ![o].interruptSave = e]
    PROVE  /\ AreObjects(objects')
           /\ Flagged(objects') = IF e THEN Flagged(objects) \cup {o} ELSE Flagged(objects) \ {o}
           /\ DOMAIN objects' = DOMAIN objects
           /\ \A p \in DOMAIN objects : objects'[p].inScene = objects[p].inScene
<1>1. objects[o] = [f \in ObjectFields |-> objects[o][f]]
  BY DEF AreObjects
<1>2. /\ DOMAIN objects' = DOMAIN objects
      /\ objects' = [p \in DOMAIN objects' |-> objects'[p]]
      /\ objects'[o] = [objects[o] EXCEPT !.interruptSave = e]
      /\ \A p \in DOMAIN objects \ {o} : objects'[p] = objects[p]
  BY <1>1 DEF AreObjects
<1>3. /\ objects'[o] = [f \in ObjectFields |-> objects'[o][f]]
      /\ objects'[o].interruptSave = e /\ objects'[o].inScene = objects[o].inScene
  BY <1>1, <1>2 DEF ObjectFields
<1>4. AreObjects(objects')
  BY <1>2, <1>3 DEF AreObjects
<1>5. Flagged(objects') = IF e THEN Flagged(objects) \cup {o} ELSE Flagged(objects) \ {o}
  BY <1>2, <1>3 DEF Flagged
<1> QED BY <1>2, <1>3, <1>4, <1>5

(* While a prompt is still to come nothing is flagged. *)
LEMMA PromptUnflagged ==
    ASSUME SaveInv, saving.phase = "references", MustPrompt
    PROVE  Unflagged(objects) /\ saving.prompts = 0
<1>1. saving # NoSave
  BY DEF NoSave
<1>2. saving.prompts = 0
  BY <1>1 DEF SaveInv, PromptInv, SavingInv, MustPrompt
<1> QED BY <1>1, <1>2 DEF SaveInv, CancelInv, FlagInv, Unflagged

(* The answers to a request for references keep the invariant: only a cancel flags an object, and *)
(* only when none is flagged.                                                                     *)
LEMMA ReferencesStep ==
    ASSUME SaveInv, NEW o \in Objects, SpecifySaveReferences(o)
    PROVE  FlagInv' /\ CancelInv'
<1>1. /\ saving.phase = "references" /\ o \in saving.refs /\ saving # NoSave
      /\ saving.refs \subseteq InScene /\ DOMAIN saving.written = {}
      /\ saving = [f \in SaveFields |-> saving[f]]
      /\ AreObjects(objects)
  BY DEF SpecifySaveReferences, NoSave, SaveInv, PromptInv, SavingInv, CancelInv, FlagInv
<1>2. CASE NoPrompt(o)
  <2>1. UNCHANGED objects /\ saving' = [saving EXCEPT !.refs = @ \ {o}]
    BY <1>2 DEF NoPrompt, Proceeds, stageVars
  <2>2. /\ saving'.phase = saving.phase /\ saving'.refs = saving.refs \ {o}
        /\ saving'.written = saving.written /\ saving'.cancelled = saving.cancelled
        /\ saving'.prompts = saving.prompts
    BY <1>1, <2>1 DEF SaveFields
  <2>3. saving' # NoSave
    BY <1>1, <2>2 DEF NoSave
  <2> QED BY <1>1, <2>1, <2>2, <2>3 DEF SaveInv, FlagInv, CancelInv, InScene
<1>3. ASSUME NEW mode \in SaveModes, CancelSave(o, mode)
      PROVE  FlagInv' /\ CancelInv'
  <2>1. Unflagged(objects) /\ saving.prompts = 0
    BY <1>1, <1>3, PromptUnflagged DEF CancelSave
  <2>2. /\ saving' = [saving EXCEPT !.refs = @ \ {o}, !.prompts = @ + 1, !.cancelled = TRUE]
        /\ objects' = [objects EXCEPT ![o].interruptSave = TRUE]
    BY <1>3 DEF CancelSave, Interrupts
  <2>3. /\ saving'.phase = "references" /\ saving'.refs = saving.refs \ {o}
        /\ saving'.written = saving.written /\ saving'.prompts = 1
    BY <1>1, <2>1, <2>2 DEF SaveFields
  <2>4. saving' # NoSave
    BY <2>3 DEF NoSave
  <2>5. o \in DOMAIN objects /\ objects[o].inScene
    BY <1>1 DEF InScene
  <2>6. /\ AreObjects(objects') /\ Flagged(objects') = Flagged(objects) \cup {o}
        /\ InScene' = InScene
    BY <1>1, <2>2, <2>5, FlagSet DEF InScene
  <2>7. Flagged(objects') = {o}
    BY <2>1, <2>6 DEF Unflagged
  <2> QED BY <1>1, <2>3, <2>4, <2>6, <2>7 DEF FlagInv, CancelInv
<1>4. ASSUME MustPrompt, Prompted(o), Keeps(objects, objects')
      PROVE  FlagInv' /\ CancelInv'
  <2>1. Unflagged(objects) /\ saving.prompts = 0
    BY <1>1, <1>4, PromptUnflagged
  <2>2. saving' = [saving EXCEPT !.refs = @ \ {o}, !.prompts = @ + 1]
    BY <1>4 DEF Prompted
  <2>3. /\ saving'.phase = "references" /\ saving'.refs = saving.refs \ {o}
        /\ saving'.written = saving.written /\ saving'.cancelled = saving.cancelled
    BY <1>1, <2>2 DEF SaveFields
  <2>4. saving' # NoSave
    BY <2>3 DEF NoSave
  <2>5. Unflagged(objects') /\ InScene' = InScene
    BY <1>1, <1>4, <2>1, KeptUnflagged DEF Keeps, Alike, InScene
  <2>6. ~ saving.cancelled
    BY <1>1, <2>1 DEF SaveInv, CancelInv, Unflagged
  <2> QED BY <1>1, <2>3, <2>4, <2>5, <2>6 DEF FlagInv, CancelInv, Unflagged
<1>5. ASSUME NEW mode \in SaveModes, KeepEdits(o, mode)
      PROVE  FlagInv' /\ CancelInv'
  BY <1>4, <1>5 DEF KeepEdits, stageVars, Keeps, Alike
<1>6. ASSUME NEW failing, SaveAll(o, failing)
      PROVE  FlagInv' /\ CancelInv'
  <2>1. MustPrompt /\ Prompted(o)
    BY <1>6 DEF SaveAll
  <2>2. \/ UNCHANGED objects
        \/ \E d \in GetDirtyLayersToSave, f \in Files :
              objects' = UpdateRootLayer(World, d[1], f, NewIds({o})[o]).objects
    BY <1>6 DEF SaveAll, Becomes
  <2>3. Keeps(objects, objects')
    BY <2>2, RootUpdated DEF Keeps, Alike
  <2> QED BY <2>1, <2>3, <1>4
<1> QED BY <1>2, <1>3, <1>5, <1>6 DEF SpecifySaveReferences

(* Writing an object that is not flagged, or being interrupted by the one that is. *)
LEMMA WriteStep ==
    ASSUME SaveInv, NEW o \in Objects, SaveObject(o)
    PROVE  FlagInv' /\ CancelInv'
<1>1. /\ saving.phase = "references" /\ saving.refs = {} /\ saving # NoSave
      /\ o \in InScene
      /\ saving = [f \in SaveFields |-> saving[f]]
      /\ AreObjects(objects)
  BY DEF SaveObject, Write, InterruptWrite, MayWrite, NoSave, SaveInv, PromptInv, SavingInv, FlagInv
<1>2. CASE Write(o)
  <2>1. UNCHANGED objects /\ ~ objects[o].interruptSave
    BY <1>2 DEF Write, stageVars
  <2>2. /\ saving'.phase = "references" /\ saving'.refs = {}
        /\ DOMAIN saving'.written = DOMAIN saving.written \cup {o}
        /\ saving'.cancelled = saving.cancelled /\ saving'.prompts = saving.prompts
    BY <1>1, <1>2 DEF Write, With, SaveFields
  <2>3. saving' # NoSave
    BY <2>2 DEF NoSave
  <2>4. o \notin Flagged(objects)
    BY <2>1 DEF Flagged
  <2> QED BY <1>1, <2>1, <2>2, <2>3, <2>4 DEF SaveInv, FlagInv, CancelInv, InScene
<1>3. CASE InterruptWrite(o)
  <2>1. /\ objects' = [objects EXCEPT ![o].interruptSave = FALSE]
        /\ saving' = [saving EXCEPT !.phase = "interrupted"]
        /\ objects[o].interruptSave
    BY <1>3 DEF InterruptWrite
  <2>2. saving'.phase = "interrupted"
    BY <1>1, <2>1 DEF SaveFields
  <2>3. saving' # NoSave
    BY <2>2 DEF NoSave
  <2>4. Flagged(objects) = {o}
    BY <1>1, <2>1 DEF SaveInv, CancelInv, Flagged, InScene
  <2>5. o \in DOMAIN objects
    BY <1>1 DEF InScene
  <2>6. AreObjects(objects') /\ Flagged(objects') = Flagged(objects) \ {o}
    BY <1>1, <2>1, <2>5, FlagSet
  <2> QED BY <2>2, <2>3, <2>4, <2>6 DEF FlagInv, CancelInv
<1> QED BY <1>2, <1>3 DEF SaveObject

(* The class data is written last: by then a flagged object would have interrupted the save. *)
LEMMA ClassDataUnflagged ==
    ASSUME SaveInv, SaveClassData
    PROVE  Flagged(objects) = {} /\ ~ saving.cancelled
<1>1. saving.phase = "references" /\ saving # NoSave /\ InScene = DOMAIN saving.written
  BY DEF SaveClassData, NoSave
<1>2. Flagged(objects) = {}
  BY <1>1 DEF SaveInv, CancelInv
<1> QED BY <1>1, <1>2 DEF SaveInv, CancelInv

(* The invariant holds to begin with. *)
LEMMA InitSave == Init => SaveInv
<1> SUFFICES ASSUME Init PROVE SaveInv
  OBVIOUS
<1>1. objects = << >> /\ DOMAIN objects = {} /\ saving = NoSave
  BY DEF Init
<1>2. objects = [o \in DOMAIN objects |-> objects[o]]
  BY <1>1
<1> QED BY <1>1, <1>2, InitPrompt DEF SaveInv, FlagInv, CancelInv, AreObjects, Flagged

(* And every step keeps it. *)
LEMMA SaveStep ==
    ASSUME SaveInv, [Next]_vars
    PROVE  SaveInv'
<1>1. PromptInv'
  BY PromptStep DEF SaveInv
<1>2. saving = NoSave => Unflagged(objects)
  BY DEF SaveInv, FlagInv, Unflagged
<1>3. CASE UserEdit
  <2>1. saving = NoSave /\ saving' = NoSave
    BY <1>3 DEF UserEdit, SceneEdit, Request
  <2>2. Unflagged(objects')
    BY <1>2, <1>3, <2>1, EditUnflagged
  <2> QED BY <1>1, <2>1, <2>2 DEF SaveInv, FlagInv, CancelInv, Unflagged
<1>4. ASSUME NEW auto \in BOOLEAN, NEW quiet \in BOOLEAN, FilePreSave(auto, quiet)
      PROVE  SaveInv'
  <2>1. saving = NoSave /\ UNCHANGED objects
    BY <1>4 DEF FilePreSave, Request, stageVars
  <2>2. /\ saving'.phase = "references" /\ saving'.refs = InScene /\ saving'.written = << >>
        /\ ~ saving'.cancelled
    BY <1>4 DEF FilePreSave
  <2>3. saving' # NoSave
    BY <2>2 DEF NoSave
  <2>4. Unflagged(objects') /\ InScene' = InScene /\ DOMAIN saving'.written = {}
    BY <1>2, <2>1, <2>2 DEF InScene
  <2> QED BY <1>1, <2>2, <2>3, <2>4 DEF SaveInv, FlagInv, CancelInv, Unflagged
<1>5. ASSUME NEW o \in Objects, SpecifySaveReferences(o) PROVE SaveInv'
  BY <1>1, <1>5, ReferencesStep DEF SaveInv
<1>6. ASSUME NEW o \in Objects, SaveObject(o) PROVE SaveInv'
  BY <1>1, <1>6, WriteStep DEF SaveInv
<1>7. CASE SaveClassData
  <2>1. UNCHANGED objects /\ saving' = [saving EXCEPT !.phase = "saved"] /\ saving # NoSave
    BY <1>7 DEF SaveClassData, stageVars, NoSave
  <2>2. saving'.phase = "saved"
    BY <2>1 DEF SaveInv, PromptInv, SavingInv, SaveFields
  <2>3. saving' # NoSave
    BY <2>2 DEF NoSave
  <2> QED BY <1>1, <1>7, <2>1, <2>2, <2>3, ClassDataUnflagged DEF SaveInv, FlagInv, CancelInv
<1>8. CASE FilePostSave
  <2>1. UNCHANGED objects /\ saving' = NoSave /\ saving.phase # "references" /\ saving # NoSave
    BY <1>8 DEF FilePostSave, stageVars, NoSave
  <2> QED BY <1>1, <2>1 DEF SaveInv, FlagInv, CancelInv
<1>9. CASE FileOpen
  <2>1. saving = NoSave /\ saving' = NoSave
    BY <1>9 DEF FileOpen, Request
  <2> QED BY <1>1, <1>9, <2>1, OpenUnflagged DEF SaveInv, FlagInv, CancelInv, Unflagged
<1>10. ASSUME UNCHANGED <<objects, saving>> PROVE SaveInv'
  BY <1>1, <1>10 DEF SaveInv, FlagInv, CancelInv, InScene
<1>11. CASE NeedSaveRequest
  BY <1>10, <1>11 DEF NeedSaveRequest, stageVars
<1>12. ASSUME NEW mode \in SaveModes, SetSaveMode(mode) PROVE SaveInv'
  BY <1>10, <1>12 DEF SetSaveMode, stageVars
<1>13. CASE UNCHANGED vars
  BY <1>10, <1>13 DEF vars, stageVars, saveVars
<1> QED
  BY <1>3, <1>4, <1>5, <1>6, <1>7, <1>8, <1>9, <1>11, <1>12, <1>13 DEF Next

(* The invariant, of every reachable state. *)
THEOREM SaveInvariant == Spec => []SaveInv
BY InitSave, SaveStep, PTL DEF Spec

(* No stage object keeps the cancel of a save that has ended, so that a later save, of whatever   *)
(* kind, is not interrupted by it.                                                                *)
THEOREM NoInterruptIsLeft == Spec => []InterruptsEndWithTheSave
<1>1. SaveInv => InterruptsEndWithTheSave
  BY DEF SaveInv, FlagInv, Flagged, InterruptsEndWithTheSave
<1> QED BY SaveInvariant, <1>1, PTL

(* A save that was cancelled in the prompt of any stage object never gets to write the scene file, *)
(* whatever the order in which 3ds Max asks and writes the objects.                                *)
THEOREM CancelledSavesWriteNothing == Spec => CancelledSaveWritesNothing
<1>1. SaveInv /\ [Next]_vars => [maxFile' # maxFile => ~ saving.cancelled]_vars
  <2> SUFFICES ASSUME SaveInv, Next, maxFile' # maxFile
               PROVE  ~ saving.cancelled
    OBVIOUS
  <2>1. SaveClassData
    BY DEF Next, UserEdit, SceneEdit, FilePreSave, SpecifySaveReferences, SaveObject,
           FilePostSave, NeedSaveRequest, SetSaveMode, FileOpen
  <2> QED BY <2>1, ClassDataUnflagged
<1> QED BY SaveInvariant, <1>1, PTL DEF Spec, CancelledSaveWritesNothing

-----------------------------------------------------------------------------
(* Edits *)

ObjectType == [stage : Stages, file : Files \cup {None}, anonRootId : Ids \cup {None},
               inScene : BOOLEAN, interruptSave : BOOLEAN, own : BOOLEAN]

RecordType(objs, stages) ==
    [object : objs, oldStage : Stages, oldFile : Files \cup {None},
     newStage : stages, newFile : Files \cup {None}]

Records == Range(undo) \cup Range(redo)

(* An object has a claim to its stage and to those that undo and redo may give it. *)
Claims(w, records, o, s) ==
    \/ s = w.objects[o].stage
    \/ \E r \in records : r.object = o /\ s \in {r.oldStage, r.newStage}

(* Types of the objects and the cache; the registry holds objects only, and a *)
(* stage of the cache that no object shows has an anonymous root.             *)
WorldOK(w) ==
    /\ w = [objects |-> w.objects, map |-> w.map, cache |-> w.cache]
    /\ w.map = [pathToObject |-> w.map.pathToObject, stageToObject |-> w.map.stageToObject]
    /\ DOMAIN w.objects \subseteq Objects /\ IsFiniteSet(DOMAIN w.objects)
    /\ w.objects \in [DOMAIN w.objects -> ObjectType]
    /\ w.cache \subseteq Stages
    /\ \A s \in DOMAIN w.map.stageToObject : w.map.stageToObject[s] \in DOMAIN w.objects
    /\ \A s \in w.cache : s.root \in Files => \E o \in DOMAIN w.objects : s = w.objects[o].stage

(* The registry is the inverse of the objects' stages. *)
Registry(w) ==
    /\ w.map.pathToObject = DOMAIN w.objects
    /\ \A o \in DOMAIN w.objects :
          /\ w.objects[o].stage \in DOMAIN w.map.stageToObject
          /\ w.map.stageToObject[w.objects[o].stage] = o
    /\ \A s \in DOMAIN w.map.stageToObject : s = w.objects[w.map.stageToObject[s]].stage

(* No stage is claimed twice, and none can be taken from the cache while an object *)
(* that no longer shows it may get it back.                                        *)
Apart(w, records) ==
    /\ \A o, p \in DOMAIN w.objects : \A s \in Stages :
          Claims(w, records, o, s) /\ Claims(w, records, p, s) => o = p
    /\ \A o \in DOMAIN w.objects : \A s \in w.cache :
          Claims(w, records, o, s) => s = w.objects[o].stage

RecordsOK ==
    /\ undo \in Seq(RecordType(DOMAIN objects, Stages \cup {None}))
    /\ redo \in Seq(RecordType(DOMAIN objects, Stages))
    /\ Len(undo) + Len(redo) <= MaxUndo

(* A layer that is not dirty is on disk as it is. *)
LayersOK(ls, d) ==
    /\ DOMAIN ls \subseteq Layers
    /\ ls \in [DOMAIN ls -> [data : 0 .. MaxRequests, dirty : BOOLEAN]]
    /\ DOMAIN d \subseteq Files
    /\ d \in [DOMAIN d -> 0 .. MaxRequests]
    /\ \A l \in DOMAIN ls : ~ ls[l].dirty => l \in DOMAIN d /\ ls[l].data = d[l]

StageInv ==
    /\ WorldOK(World)
    /\ RecordsOK
    /\ LayersOK(layers, disk)
    /\ DOMAIN layers = {s.root : s \in LiveStages}

ObjectsOK(objs) ==
    /\ DOMAIN objs \subseteq Objects /\ IsFiniteSet(DOMAIN objs)
    /\ objs \in [DOMAIN objs -> ObjectType]

FileInv ==
    /\ maxFile = [objects |-> maxFile.objects, layers |-> maxFile.layers]
    /\ ObjectsOK(maxFile.objects)
    /\ DOMAIN maxFile.layers \subseteq Layers
    /\ maxFile.layers \in [DOMAIN maxFile.layers -> 0 .. MaxRequests]
    /\ saving # NoSave => ObjectsOK(saving.written)

FlagsOK == requests \in 0 .. MaxRequests /\ saveRequired \in BOOLEAN /\ posted \in BOOLEAN

TypeInv == SaveInv /\ StageInv /\ FileInv /\ FlagsOK

ApartInv == Registry(World) /\ Apart(World, Records)

KeptInv == TypeInv /\ ApartInv /\ EditsAreKept

-----------------------------------------------------------------------------
(* New identifiers. *)

(* As long as there are identifiers left, the new ones are different from each other and from *)
(* those in use.                                                                              *)
LEMMA NewIdsAreNew ==
    ASSUME NEW S, IsFiniteSet(S), CanName(S)
    PROVE  /\ NewIds(S) \in [S -> Ids \ UsedIds]
           /\ \A a, b \in S : NewIds(S)[a] = NewIds(S)[b] => a = b
<1> DEFINE T == Ids \ UsedIds
           m == Cardinality(S)
           n == Cardinality(T)
<1>1. IsFiniteSet(T)
  <2>1. IsFiniteSet(Ids)
    BY SceneSaveAssumption, FS_Interval DEF Ids
  <2> QED BY <2>1, FS_Subset
<1>2. /\ m \in Nat /\ n \in Nat /\ m <= n
      /\ ExistsBijection(1 .. m, S) /\ ExistsBijection(1 .. n, T)
  BY <1>1, FS_CardinalityType DEF CanName
<1>3. PICK f \in Bijection(1 .. m, S) : TRUE
  BY <1>2 DEF ExistsBijection
<1>4. PICK g \in Bijection(1 .. n, T) : TRUE
  BY <1>2 DEF ExistsBijection
<1> DEFINE at(s) == CHOOSE i \in 1 .. m : f[i] = s
           name == [s \in S |-> g[at(s)]]
<1> HIDE DEF m, n
<1>5. \A s \in S : at(s) \in 1 .. m /\ f[at(s)] = s
  BY <1>3 DEF Bijection, Surjection
<1>6. /\ g \in [1 .. n -> T]
      /\ \A i, j \in 1 .. n : g[i] = g[j] => i = j
  BY <1>4 DEF Bijection, Injection, IsInjective
<1>7. 1 .. m \subseteq 1 .. n
  BY <1>2
<1> HIDE DEF at
<1>8. name \in [S -> T]
  BY <1>5, <1>6, <1>7
<1>9. \A a, b \in S : name[a] = name[b] => a = b
  BY <1>5, <1>6, <1>7
<1>10. name \in Injection(S, T)
  BY <1>8, <1>9 DEF Injection, IsInjective
<1>11. NewIds(S) \in Injection(S, T)
  BY <1>10 DEF NewIds
<1> HIDE DEF T
<1>12. NewIds(S) \in [S -> T] /\ \A a, b \in S : NewIds(S)[a] = NewIds(S)[b] => a = b
  BY <1>11 DEF Injection, IsInjective
<1> QED BY <1>12 DEF T

(* One new identifier. *)
LEMMA NewIdIsNew ==
    ASSUME NEW x, CanName({x})
    PROVE  NewIds({x})[x] \in Ids \ UsedIds
<1>1. IsFiniteSet({x})
  BY FS_Singleton
<1> QED BY <1>1, NewIdsAreNew

(* Two new identifiers. *)
LEMMA TwoNewIds ==
    ASSUME NEW x, NEW y, x # y, CanName({x, y})
    PROVE  /\ NewIds({x, y})[x] \in Ids \ UsedIds /\ NewIds({x, y})[y] \in Ids \ UsedIds
           /\ NewIds({x, y})[x] # NewIds({x, y})[y]
<1>1. IsFiniteSet({x} \cup {y})
  BY FS_Singleton, FS_AddElement
<1>2. {x} \cup {y} = {x, y}
  OBVIOUS
<1> QED BY <1>1, <1>2, NewIdsAreNew

-----------------------------------------------------------------------------
(* What gives an object a stage. *)

(* The fields of what SetUSDStage makes. *)
GivenStage(w, o, stage, v) ==
    /\ DOMAIN v.objects = DOMAIN w.objects
    /\ v.objects[o] = [w.objects[o] EXCEPT !.stage = stage]
    /\ v.objects[o].stage = stage
    /\ \A p \in DOMAIN w.objects \ {o} : v.objects[p] = w.objects[p]
    /\ v.map.pathToObject = w.map.pathToObject \cup {o}
    /\ DOMAIN v.map.stageToObject =
          (DOMAIN w.map.stageToObject \ {w.objects[o].stage}) \cup {stage}
    /\ v.map.stageToObject[stage] = o
    /\ \A s \in DOMAIN v.map.stageToObject \ {stage} :
          v.map.stageToObject[s] = w.map.stageToObject[s]
    /\ v.cache = (w.cache \ {w.objects[o].stage}) \cup {stage}

(* It makes these, and it keeps the types. *)
LEMMA StageGiven ==
    ASSUME NEW w, WorldOK(w), NEW o \in DOMAIN w.objects, NEW stage \in Stages,
           NEW v, v = SetUSDStage(w, o, stage)
    PROVE  WorldOK(v) /\ GivenStage(w, o, stage, v)
<1> DEFINE old == w.objects[o].stage
           known == DOMAIN w.map.stageToObject \ {old}
<1>1. /\ v.objects = [w.objects EXCEPT ![o].stage = stage]
      /\ v.map = SetObject(RemoveObject(w.map, o, old), o, stage)
      /\ v.cache = (w.cache \ {old}) \cup {stage}
      /\ v = [objects |-> v.objects, map |-> v.map, cache |-> v.cache]
  BY DEF SetUSDStage, Registered
<1>2. w.objects \in [DOMAIN w.objects -> ObjectType]
  BY DEF WorldOK
<1>3. /\ DOMAIN v.objects = DOMAIN w.objects
      /\ v.objects[o] = [w.objects[o] EXCEPT !.stage = stage]
      /\ v.objects[o].stage = stage
      /\ v.objects \in [DOMAIN v.objects -> ObjectType]
      /\ \A p \in DOMAIN w.objects \ {o} : v.objects[p] = w.objects[p]
  BY <1>1, <1>2 DEF ObjectType
<1>4. /\ v.map.pathToObject = (w.map.pathToObject \ {o}) \cup {o}
      /\ v.map.stageToObject =
            [s \in known \cup {stage} |-> IF s = stage THEN o ELSE w.map.stageToObject[s]]
      /\ v.map = [pathToObject |-> v.map.pathToObject, stageToObject |-> v.map.stageToObject]
  BY <1>1 DEF SetObject, RemoveObject, Restrict
<1> HIDE DEF old, known
<1>5. /\ DOMAIN v.map.stageToObject = known \cup {stage}
      /\ v.map.stageToObject[stage] = o
      /\ \A s \in DOMAIN v.map.stageToObject \ {stage} :
            v.map.stageToObject[s] = w.map.stageToObject[s]
  BY <1>4
<1>6. \A s \in DOMAIN v.map.stageToObject : v.map.stageToObject[s] \in DOMAIN v.objects
  BY <1>3, <1>5 DEF WorldOK, known
<1>7. v.cache \subseteq Stages
  BY <1>1 DEF WorldOK
<1>8. \A s \in v.cache : s.root \in Files => \E p \in DOMAIN v.objects : s = v.objects[p].stage
  <2> SUFFICES ASSUME NEW s \in v.cache, s.root \in Files
               PROVE  \E p \in DOMAIN v.objects : s = v.objects[p].stage
    OBVIOUS
  <2>1. CASE s = stage
    BY <1>3, <2>1
  <2>2. CASE s # stage
    <3>1. s \in w.cache /\ s # old
      BY <1>1, <2>2
    <3>2. PICK p \in DOMAIN w.objects : s = w.objects[p].stage
      BY <3>1 DEF WorldOK
    <3>3. p # o
      BY <3>1, <3>2 DEF old
    <3> QED BY <1>3, <3>2, <3>3
  <2> QED BY <2>1, <2>2
<1>9. DOMAIN v.objects \subseteq Objects /\ IsFiniteSet(DOMAIN v.objects)
  BY <1>3 DEF WorldOK
<1>10. WorldOK(v)
  BY <1>1, <1>3, <1>4, <1>6, <1>7, <1>8, <1>9 DEF WorldOK
<1>11. v.map.pathToObject = w.map.pathToObject \cup {o}
  BY <1>4
<1> QED BY <1>1, <1>3, <1>5, <1>10, <1>11 DEF GivenStage, old, known

(* The registry stays the inverse of the stages, if the stage is no other object's. *)
LEMMA StageRegistered ==
    ASSUME NEW w, WorldOK(w), Registry(w), NEW o \in DOMAIN w.objects, NEW stage \in Stages,
           \A p \in DOMAIN w.objects \ {o} : stage # w.objects[p].stage,
           NEW v, v = SetUSDStage(w, o, stage)
    PROVE  Registry(v)
<1> DEFINE old == w.objects[o].stage
<1>0. WorldOK(v) /\ GivenStage(w, o, stage, v)
  BY StageGiven
<1>1. /\ DOMAIN v.objects = DOMAIN w.objects
      /\ v.objects[o].stage = stage
      /\ \A p \in DOMAIN w.objects \ {o} : v.objects[p] = w.objects[p]
      /\ v.map.pathToObject = w.map.pathToObject \cup {o}
      /\ DOMAIN v.map.stageToObject = (DOMAIN w.map.stageToObject \ {old}) \cup {stage}
      /\ v.map.stageToObject[stage] = o
      /\ \A s \in DOMAIN v.map.stageToObject \ {stage} :
            v.map.stageToObject[s] = w.map.stageToObject[s]
  BY <1>0 DEF GivenStage
<1>2. /\ w.map.pathToObject = DOMAIN w.objects
      /\ \A p \in DOMAIN w.objects :
            /\ w.objects[p].stage \in DOMAIN w.map.stageToObject
            /\ w.map.stageToObject[w.objects[p].stage] = p
      /\ \A s \in DOMAIN w.map.stageToObject : s = w.objects[w.map.stageToObject[s]].stage
  BY DEF Registry
<1>3. v.map.pathToObject = DOMAIN v.objects
  BY <1>1, <1>2
<1>4. ASSUME NEW p \in DOMAIN v.objects
      PROVE  /\ v.objects[p].stage \in DOMAIN v.map.stageToObject
             /\ v.map.stageToObject[v.objects[p].stage] = p
  <2>1. CASE p = o
    BY <1>1, <2>1
  <2>2. CASE p # o
    <3>1. v.objects[p].stage = w.objects[p].stage /\ w.objects[p].stage # stage
      BY <1>1, <2>2
    <3>2. w.objects[p].stage # old
      BY <1>1, <1>2, <2>2
    <3> QED BY <1>1, <1>2, <3>1, <3>2
  <2> QED BY <2>1, <2>2
<1>5. ASSUME NEW s \in DOMAIN v.map.stageToObject
      PROVE  s = v.objects[v.map.stageToObject[s]].stage
  <2>1. CASE s = stage
    BY <1>1, <2>1
  <2>2. CASE s # stage
    <3>1. s \in DOMAIN w.map.stageToObject /\ s # old
      BY <1>1, <2>2
    <3>2. s = w.objects[w.map.stageToObject[s]].stage /\ w.map.stageToObject[s] # o
      BY <1>2, <3>1
    <3>3. w.map.stageToObject[s] \in DOMAIN w.objects
      BY <3>1 DEF WorldOK
    <3> QED BY <1>1, <2>2, <3>2, <3>3
  <2> QED BY <2>1, <2>2
<1> QED BY <1>3, <1>4, <1>5 DEF Registry

(* The records of theHold after a change: nobody gets a claim, but o to the stage it is given. *)
OnlyClaim(w, records, after, o, stage) ==
    \A p \in DOMAIN w.objects : \A s \in Stages :
        (\E r \in after : r.object = p /\ s \in {r.oldStage, r.newStage}) =>
            Claims(w, records, p, s) \/ (p = o /\ s = stage)

(* The objects' claims stay apart, if nobody else has a claim to the stage. *)
LEMMA StageApart ==
    ASSUME NEW w, WorldOK(w), NEW records, NEW after, Apart(w, records),
           NEW o \in DOMAIN w.objects, NEW stage \in Stages,
           \A p \in DOMAIN w.objects \ {o} : ~ Claims(w, records, p, stage),
           OnlyClaim(w, records, after, o, stage),
           NEW v, v = SetUSDStage(w, o, stage)
    PROVE  Apart(v, after)
<1> DEFINE old == w.objects[o].stage
<1>0. WorldOK(v) /\ GivenStage(w, o, stage, v)
  BY StageGiven
<1>1. /\ DOMAIN v.objects = DOMAIN w.objects
      /\ v.objects[o].stage = stage
      /\ \A p \in DOMAIN w.objects \ {o} : v.objects[p] = w.objects[p]
      /\ v.cache = (w.cache \ {old}) \cup {stage}
      /\ v.cache \subseteq Stages
  BY <1>0 DEF GivenStage, WorldOK
<1>2. ASSUME NEW p \in DOMAIN w.objects, NEW s \in Stages, Claims(v, after, p, s)
      PROVE  Claims(w, records, p, s) \/ (p = o /\ s = stage)
  BY <1>1, <1>2 DEF Claims, OnlyClaim
<1>3. ASSUME NEW p \in DOMAIN v.objects, NEW q \in DOMAIN v.objects, NEW s \in Stages,
             Claims(v, after, p, s), Claims(v, after, q, s)
      PROVE  p = q
  <2>1. \/ p = o /\ s = stage
        \/ Claims(w, records, p, s)
    BY <1>1, <1>2, <1>3
  <2>2. \/ q = o /\ s = stage
        \/ Claims(w, records, q, s)
    BY <1>1, <1>2, <1>3
  <2> QED BY <1>1, <2>1, <2>2 DEF Apart
<1>4. ASSUME NEW p \in DOMAIN v.objects, NEW s \in v.cache, Claims(v, after, p, s)
      PROVE  s = v.objects[p].stage
  <2>1. CASE s = stage
    <3>1. p = o
      BY <1>1, <1>2, <1>4, <2>1
    <3> QED BY <1>1, <2>1, <3>1
  <2>2. CASE s # stage
    <3>1. s \in w.cache /\ s # old /\ Claims(w, records, p, s)
      BY <1>1, <1>2, <1>4, <2>2
    <3>2. s = w.objects[p].stage
      BY <1>1, <3>1 DEF Apart
    <3> QED BY <1>1, <3>1, <3>2
  <2> QED BY <2>1, <2>2
<1> QED BY <1>3, <1>4 DEF Apart

(* Parameters of objects change, and nothing else. *)
SameStages(w, v) ==
    /\ DOMAIN v.objects = DOMAIN w.objects
    /\ v.objects \in [DOMAIN w.objects -> ObjectType]
    /\ \A p \in DOMAIN w.objects : v.objects[p].stage = w.objects[p].stage
    /\ v = [objects |-> v.objects, map |-> w.map, cache |-> w.cache]

(* Then types, registry and claims are what they were. *)
LEMMA ParametersSet ==
    ASSUME NEW w, NEW v, WorldOK(w), SameStages(w, v)
    PROVE  /\ WorldOK(v)
           /\ Registry(w) => Registry(v)
           /\ \A records : \A p \in DOMAIN w.objects : \A s :
                 Claims(v, records, p, s) <=> Claims(w, records, p, s)
           /\ \A records : Apart(w, records) => Apart(v, records)
<1>1. v.map = w.map /\ v.cache = w.cache
  BY DEF SameStages
<1>2. WorldOK(v)
  BY <1>1 DEF SameStages, WorldOK
<1>3. Registry(w) => Registry(v)
  BY <1>1 DEF SameStages, WorldOK, Registry
<1>4. ASSUME NEW records, NEW p \in DOMAIN w.objects, NEW s
      PROVE  Claims(v, records, p, s) <=> Claims(w, records, p, s)
  BY DEF SameStages, Claims
<1>5. ASSUME NEW records, Apart(w, records)
      PROVE  Apart(v, records)
  BY <1>1, <1>4, <1>5 DEF SameStages, WorldOK, Apart
<1> QED BY <1>2, <1>3, <1>4, <1>5

(* The fields of what the constructor makes. *)
NewStage(w, o, id, v) ==
    /\ DOMAIN v.objects = DOMAIN w.objects \cup {o}
    /\ v.objects[o] = [stage |-> InMemoryStage(id), file |-> None, anonRootId |-> id,
                       inScene |-> TRUE, interruptSave |-> FALSE, own |-> TRUE]
    /\ v.objects[o].stage = InMemoryStage(id)
    /\ \A p \in DOMAIN w.objects : v.objects[p] = w.objects[p]
    /\ v.map.pathToObject = w.map.pathToObject \cup {o}
    /\ DOMAIN v.map.stageToObject = DOMAIN w.map.stageToObject \cup {InMemoryStage(id)}
    /\ v.map.stageToObject[InMemoryStage(id)] = o
    /\ \A s \in DOMAIN v.map.stageToObject \ {InMemoryStage(id)} :
          v.map.stageToObject[s] = w.map.stageToObject[s]
    /\ v.cache = w.cache \cup {InMemoryStage(id)}

(* An anonymous root is no file. *)
LEMMA InMemory ==
    ASSUME NEW id \in Ids
    PROVE  InMemoryStage(id) \in Stages /\ InMemoryStage(id).root = id /\ id \notin Files
BY SceneSaveAssumption DEF InMemoryStage, Stages, Layers, Ids

(* It keeps the types. *)
LEMMA StageCreated ==
    ASSUME NEW w, WorldOK(w), NEW o \in Objects \ DOMAIN w.objects, NEW id \in Ids,
           NEW v, v = CreateInMemoryStage(w, o, id)
    PROVE  WorldOK(v) /\ NewStage(w, o, id, v)
<1> DEFINE stage == InMemoryStage(id)
           new == [stage |-> stage, file |-> None, anonRootId |-> id,
                   inScene |-> TRUE, interruptSave |-> FALSE, own |-> TRUE]
<1>1. /\ v.objects = [p \in DOMAIN w.objects \cup {o} |-> IF p = o THEN new ELSE w.objects[p]]
      /\ v.map = SetObject(w.map, o, stage)
      /\ v.cache = w.cache \cup {stage}
      /\ v = [objects |-> v.objects, map |-> v.map, cache |-> v.cache]
  BY DEF CreateInMemoryStage, With
<1>2. stage \in Stages /\ stage.root \notin Files
  BY InMemory
<1>3. new \in ObjectType /\ new.stage = stage
  BY <1>2 DEF ObjectType
<1> HIDE DEF new
<1>4. /\ DOMAIN v.objects = DOMAIN w.objects \cup {o}
      /\ v.objects[o] = new
      /\ \A p \in DOMAIN w.objects : v.objects[p] = w.objects[p]
  BY <1>1
<1>5. /\ v.map.pathToObject = w.map.pathToObject \cup {o}
      /\ v.map.stageToObject = [s \in DOMAIN w.map.stageToObject \cup {stage} |->
                                    IF s = stage THEN o ELSE w.map.stageToObject[s]]
      /\ v.map = [pathToObject |-> v.map.pathToObject, stageToObject |-> v.map.stageToObject]
  BY <1>1 DEF SetObject
<1> HIDE DEF stage
<1>6. /\ DOMAIN v.map.stageToObject = DOMAIN w.map.stageToObject \cup {stage}
      /\ v.map.stageToObject[stage] = o
      /\ \A s \in DOMAIN v.map.stageToObject \ {stage} :
            v.map.stageToObject[s] = w.map.stageToObject[s]
  BY <1>5
<1>7. /\ v.objects \in [DOMAIN v.objects -> ObjectType]
      /\ DOMAIN v.objects \subseteq Objects /\ IsFiniteSet(DOMAIN v.objects)
  BY <1>1, <1>3, <1>4, FS_AddElement DEF WorldOK
<1>8. \A s \in DOMAIN v.map.stageToObject : v.map.stageToObject[s] \in DOMAIN v.objects
  BY <1>4, <1>6 DEF WorldOK
<1>9. \A s \in v.cache : s.root \in Files => \E p \in DOMAIN v.objects : s = v.objects[p].stage
  BY <1>1, <1>2, <1>4 DEF WorldOK
<1>10. v.cache \subseteq Stages
  BY <1>1, <1>2 DEF WorldOK
<1>11. WorldOK(v)
  BY <1>1, <1>5, <1>7, <1>8, <1>9, <1>10 DEF WorldOK
<1> QED BY <1>1, <1>3, <1>4, <1>5, <1>6, <1>11 DEF NewStage, stage, new

(* A new object is registered, and shares no claim, if its stage is new. *)
LEMMA StageCreatedApart ==
    ASSUME NEW w, WorldOK(w), Registry(w), NEW records, Apart(w, records),
           NEW o \in Objects \ DOMAIN w.objects, NEW id \in Ids,
           \A p \in DOMAIN w.objects : ~ Claims(w, records, p, InMemoryStage(id)),
           \A r \in records : r.object # o,
           NEW v, v = CreateInMemoryStage(w, o, id)
    PROVE  Registry(v) /\ Apart(v, records)
<1> DEFINE stage == InMemoryStage(id)
<1>0. WorldOK(v) /\ NewStage(w, o, id, v)
  BY StageCreated
<1>1. /\ DOMAIN v.objects = DOMAIN w.objects \cup {o}
      /\ v.objects[o].stage = stage
      /\ \A p \in DOMAIN w.objects : v.objects[p] = w.objects[p]
      /\ v.map.pathToObject = w.map.pathToObject \cup {o}
      /\ DOMAIN v.map.stageToObject = DOMAIN w.map.stageToObject \cup {stage}
      /\ v.map.stageToObject[stage] = o
      /\ \A s \in DOMAIN v.map.stageToObject \ {stage} :
            v.map.stageToObject[s] = w.map.stageToObject[s]
      /\ v.cache = w.cache \cup {stage}
      /\ v.cache \subseteq Stages
  BY <1>0 DEF NewStage, WorldOK
<1> HIDE DEF stage
<1>2. \A p \in DOMAIN w.objects : w.objects[p].stage # stage
  BY DEF Claims, stage
<1>3. Registry(v)
  <2>1. v.map.pathToObject = DOMAIN v.objects
    BY <1>1 DEF Registry
  <2>2. ASSUME NEW p \in DOMAIN v.objects
        PROVE  /\ v.objects[p].stage \in DOMAIN v.map.stageToObject
               /\ v.map.stageToObject[v.objects[p].stage] = p
    BY <1>1, <1>2 DEF Registry
  <2>3. ASSUME NEW s \in DOMAIN v.map.stageToObject
        PROVE  s = v.objects[v.map.stageToObject[s]].stage
    BY <1>1 DEF Registry, WorldOK
  <2> QED BY <2>1, <2>2, <2>3 DEF Registry
<1>4. ASSUME NEW p \in DOMAIN v.objects, NEW s \in Stages, Claims(v, records, p, s)
      PROVE  (p = o /\ s = stage) \/ (p \in DOMAIN w.objects /\ Claims(w, records, p, s))
  BY <1>1, <1>4 DEF Claims
<1>5. ASSUME NEW p \in DOMAIN v.objects, NEW q \in DOMAIN v.objects, NEW s \in Stages,
             Claims(v, records, p, s), Claims(v, records, q, s)
      PROVE  p = q
  <2>1. (p = o /\ s = stage) \/ (p \in DOMAIN w.objects /\ Claims(w, records, p, s))
    BY <1>4, <1>5
  <2>2. (q = o /\ s = stage) \/ (q \in DOMAIN w.objects /\ Claims(w, records, q, s))
    BY <1>4, <1>5
  <2> QED BY <2>1, <2>2 DEF Apart, stage
<1>6. ASSUME NEW p \in DOMAIN v.objects, NEW s \in v.cache, Claims(v, records, p, s)
      PROVE  s = v.objects[p].stage
  <2>1. CASE s = stage
    BY <1>1, <1>4, <1>6, <2>1 DEF stage
  <2>2. CASE s # stage
    BY <1>1, <1>4, <1>6, <2>2 DEF Apart
  <2> QED BY <2>1, <2>2
<1>7. Apart(v, records)
  BY <1>5, <1>6 DEF Apart
<1> QED BY <1>3, <1>7

(* What a script inserts into the cache is nobody's. *)
LEMMA StageInserted ==
    ASSUME NEW w, WorldOK(w), NEW id \in Ids,
           NEW v, v = [objects |-> w.objects, map |-> w.map,
                       cache |-> w.cache \cup {InMemoryStage(id)}]
    PROVE  /\ WorldOK(v)
           /\ Registry(w) => Registry(v)
           /\ \A records :
                 /\ Apart(w, records)
                 /\ \A p \in DOMAIN w.objects : ~ Claims(w, records, p, InMemoryStage(id))
                 => Apart(v, records)
<1> DEFINE stage == InMemoryStage(id)
<1>1. v.objects = w.objects /\ v.map = w.map /\ v.cache = w.cache \cup {stage}
  OBVIOUS
<1>2. stage \in Stages /\ stage.root \notin Files
  BY InMemory
<1> HIDE DEF stage
<1>3. WorldOK(v)
  BY <1>1, <1>2 DEF WorldOK
<1>4. Registry(w) => Registry(v)
  BY <1>1 DEF Registry
<1>5. \A records, p, s : Claims(v, records, p, s) <=> Claims(w, records, p, s)
  BY <1>1 DEF Claims
<1>6. ASSUME NEW records, Apart(w, records),
             \A p \in DOMAIN w.objects : ~ Claims(w, records, p, stage)
      PROVE  Apart(v, records)
  BY <1>1, <1>5, <1>6 DEF Apart
<1> QED BY <1>3, <1>4, <1>6 DEF stage

-----------------------------------------------------------------------------
(* The undo stack. *)

(* The last element of a sequence, and the rest. *)
LEMMA LastAndFront ==
    ASSUME NEW S, NEW seq \in Seq(S), seq # << >>
    PROVE  /\ Last(seq) \in S /\ Last(seq) \in Range(seq)
           /\ Front(seq) \in Seq(S) /\ Len(Front(seq)) = Len(seq) - 1
           /\ Range(Front(seq)) \subseteq Range(seq)
           /\ Len(seq) \in Nat \ {0}
<1>1. Len(seq) \in Nat \ {0} /\ DOMAIN seq = 1 .. Len(seq)
  BY EmptySeq, LenProperties
<1>2. Last(seq) \in S /\ Last(seq) \in Range(seq)
  BY <1>1, ElementOfSeq DEF Last, Range
<1>3. \A i \in 1 .. Len(seq) - 1 : seq[i] \in S
  BY <1>1, ElementOfSeq
<1>4. /\ Front(seq) \in Seq(S) /\ Len(Front(seq)) = Len(seq) - 1
      /\ \A i \in 1 .. Len(seq) - 1 : Front(seq)[i] = seq[i]
  BY <1>1, <1>3, SubSeqProperties DEF Front
<1>5. DOMAIN Front(seq) = 1 .. Len(seq) - 1
  BY <1>4, LenProperties
<1>6. Range(Front(seq)) \subseteq Range(seq)
  BY <1>1, <1>4, <1>5 DEF Range
<1> QED BY <1>1, <1>2, <1>4, <1>6

(* A sequence with one more element. *)
LEMMA OneMore ==
    ASSUME NEW S, NEW seq \in Seq(S), NEW e \in S
    PROVE  /\ Append(seq, e) \in Seq(S) /\ Len(Append(seq, e)) = Len(seq) + 1
           /\ Range(Append(seq, e)) = Range(seq) \cup {e}
<1>1. /\ Append(seq, e) \in Seq(S) /\ Len(Append(seq, e)) = Len(seq) + 1
      /\ \A i \in 1 .. Len(seq) : Append(seq, e)[i] = seq[i]
      /\ Append(seq, e)[Len(seq) + 1] = e
  BY AppendProperties
<1>2. /\ Len(seq) \in Nat /\ DOMAIN seq = 1 .. Len(seq)
      /\ DOMAIN Append(seq, e) = 1 .. Len(seq) + 1
  BY <1>1, LenProperties
<1>3. 1 .. Len(seq) + 1 = (1 .. Len(seq)) \cup {Len(seq) + 1}
  BY <1>2
<1>4. Range(Append(seq, e)) = Range(seq) \cup {e}
  BY <1>1, <1>2, <1>3 DEF Range
<1> QED BY <1>1, <1>4

(* A sequence without its head. *)
LEMMA WithoutHead ==
    ASSUME NEW S, NEW seq \in Seq(S), seq # << >>
    PROVE  /\ Tail(seq) \in Seq(S) /\ Len(Tail(seq)) = Len(seq) - 1
           /\ Range(Tail(seq)) \subseteq Range(seq)
<1>1. /\ Tail(seq) \in Seq(S) /\ Len(Tail(seq)) = Len(seq) - 1
      /\ \A i \in 1 .. Len(Tail(seq)) : Tail(seq)[i] = seq[i + 1]
  BY HeadTailProperties
<1>2. /\ Len(seq) \in Nat /\ DOMAIN seq = 1 .. Len(seq)
      /\ DOMAIN Tail(seq) = 1 .. Len(seq) - 1
  BY <1>1, LenProperties
<1>3. \A i \in 1 .. Len(seq) - 1 : i + 1 \in 1 .. Len(seq)
  BY <1>2
<1>4. Range(Tail(seq)) \subseteq Range(seq)
  BY <1>1, <1>2, <1>3 DEF Range
<1> QED BY <1>1, <1>4

(* What a record may name. *)
LEMMA RecordsType ==
    ASSUME RecordsOK, NEW r \in Records
    PROVE  /\ r \in RecordType(DOMAIN objects, Stages \cup {None})
           /\ r \in Range(redo) => r \in RecordType(DOMAIN objects, Stages)
<1>1. RecordType(DOMAIN objects, Stages) \subseteq RecordType(DOMAIN objects, Stages \cup {None})
  BY DEF RecordType
<1>2. /\ Range(undo) \subseteq RecordType(DOMAIN objects, Stages \cup {None})
      /\ Range(redo) \subseteq RecordType(DOMAIN objects, Stages)
  BY RangeOfSeq DEF RecordsOK
<1> QED BY <1>1, <1>2 DEF Records

(* theHold.Put: the oldest record may go, nothing is left to redo. *)
LEMMA PutRecords ==
    ASSUME WorldOK(World), RecordsOK, NEW o \in DOMAIN objects, NEW f \in Files \cup {None},
           Put(o, f), DOMAIN objects' = DOMAIN objects
    PROVE  /\ RecordsOK'
           /\ \A r \in Records' :
                 \/ r \in Records
                 \/ r.object = o /\ r.oldStage = objects[o].stage /\ r.newStage = None
<1> DEFINE record == [object   |-> o,
                      oldStage |-> objects[o].stage, oldFile |-> objects[o].file,
                      newStage |-> None, newFile |-> f]
           S == RecordType(DOMAIN objects, Stages \cup {None})
           kept == IF Len(undo) = MaxUndo THEN Tail(undo) ELSE undo
<1>1. undo' = Append(kept, record) /\ redo' = << >>
  BY DEF Put
<1>2. objects[o] \in ObjectType
  BY DEF WorldOK, World
<1>3. record \in S
  BY <1>2 DEF ObjectType, RecordType
<1>4. /\ undo \in Seq(S) /\ Len(undo) \in Nat /\ Len(undo) <= MaxUndo /\ MaxUndo \in Nat \ {0}
      /\ Len(redo) \in Nat
  BY SceneSaveAssumption, LenProperties DEF RecordsOK
<1>5. kept \in Seq(S) /\ Len(kept) < MaxUndo /\ Len(kept) \in Nat /\ Range(kept) \subseteq Range(undo)
  <2>1. CASE Len(undo) = MaxUndo
    <3>1. undo # << >>
      BY <1>4, <2>1, EmptySeq
    <3>2. /\ Tail(undo) \in Seq(S) /\ Len(Tail(undo)) = Len(undo) - 1
          /\ Range(Tail(undo)) \subseteq Range(undo)
      BY <1>4, <3>1, WithoutHead
    <3> QED BY <1>4, <2>1, <3>2
  <2>2. CASE Len(undo) # MaxUndo
    BY <1>4, <2>2
  <2> QED BY <2>1, <2>2
<1> HIDE DEF record, S, kept
<1>6. /\ undo' \in Seq(S) /\ Len(undo') = Len(kept) + 1 /\ Range(undo') = Range(kept) \cup {record}
  BY <1>1, <1>3, <1>5, OneMore
<1>7. redo' \in Seq(RecordType(DOMAIN objects, Stages)) /\ Len(redo') = 0 /\ Range(redo') = {}
  BY <1>1, EmptySeq DEF Range
<1>8. RecordsOK'
  BY <1>4, <1>5, <1>6, <1>7 DEF RecordsOK, S
<1>9. \A r \in Records' : r \in Records \/ r = record
  BY <1>5, <1>6, <1>7 DEF Records
<1> QED BY <1>8, <1>9 DEF record

(* Undo: the record moves to the other stack, with the stage its object has now. *)
LEMMA UndoRecords ==
    ASSUME WorldOK(World), RecordsOK, Undo, DOMAIN objects' = DOMAIN objects,
           NEW r, r = Last(undo)
    PROVE  /\ RecordsOK'
           /\ r \in Records /\ r.object \in DOMAIN objects
           /\ r.oldStage \in Stages /\ r.oldFile \in Files \cup {None}
           /\ \A q \in Records' :
                 \/ q \in Records
                 \/ /\ q.object = r.object /\ q.oldStage = r.oldStage
                    /\ q.newStage = objects[r.object].stage
<1> DEFINE S == RecordType(DOMAIN objects, Stages \cup {None})
           T == RecordType(DOMAIN objects, Stages)
           record == [r EXCEPT !.newStage = objects[r.object].stage]
<1>1. /\ undo \in Seq(S) /\ undo # << >> /\ redo \in Seq(T)
      /\ Len(undo) + Len(redo) <= MaxUndo /\ Len(redo) \in Nat
      /\ undo' = Front(undo) /\ redo' = Append(redo, record)
  BY LenProperties DEF RecordsOK, Undo
<1> HIDE DEF record
<1>2. /\ r \in S /\ r \in Range(undo) /\ undo' \in Seq(S)
      /\ Len(undo') = Len(undo) - 1 /\ Len(undo) \in Nat \ {0}
      /\ Range(undo') \subseteq Range(undo)
  <2> HIDE DEF S
  <2> QED BY <1>1, LastAndFront
<1>3. objects[r.object].stage \in Stages /\ r.object \in DOMAIN objects
  <2>1. r.object \in DOMAIN objects
    BY <1>2 DEF RecordType
  <2> QED BY <2>1 DEF WorldOK, World, ObjectType
<1>4. record \in T
  BY <1>2, <1>3 DEF RecordType, record
<1>5. /\ redo' \in Seq(T) /\ Len(redo') = Len(redo) + 1
      /\ Range(redo') = Range(redo) \cup {record}
  <2> HIDE DEF T
  <2> QED BY <1>1, <1>4, OneMore
<1>6. RecordsOK'
  BY <1>1, <1>2, <1>5, SceneSaveAssumption DEF RecordsOK
<1>7. r.oldStage \in Stages /\ r.oldFile \in Files \cup {None}
  BY <1>2 DEF RecordType
<1>8. \A q \in Records' : q \in Records \/ q = record
  BY <1>2, <1>5 DEF Records
<1>9. /\ record.object = r.object /\ record.oldStage = r.oldStage
      /\ record.newStage = objects[r.object].stage
  BY <1>2 DEF RecordType, record
<1> QED BY <1>2, <1>3, <1>6, <1>7, <1>8, <1>9 DEF Records

(* Redo: it moves back. *)
LEMMA RedoRecords ==
    ASSUME RecordsOK, Redo, DOMAIN objects' = DOMAIN objects, NEW r, r = Last(redo)
    PROVE  /\ RecordsOK'
           /\ r \in Records /\ r.object \in DOMAIN objects
           /\ r.newStage \in Stages /\ r.newFile \in Files \cup {None}
           /\ Records' \subseteq Records
<1> DEFINE S == RecordType(DOMAIN objects, Stages \cup {None})
           T == RecordType(DOMAIN objects, Stages)
<1>1. /\ undo \in Seq(S) /\ redo # << >> /\ redo \in Seq(T)
      /\ Len(undo) + Len(redo) <= MaxUndo /\ Len(undo) \in Nat
      /\ redo' = Front(redo) /\ undo' = Append(undo, r)
  BY LenProperties DEF RecordsOK, Redo
<1>2. T \subseteq S
  BY DEF RecordType
<1>3. r.object \in DOMAIN objects /\ r.newStage \in Stages /\ r.newFile \in Files \cup {None}
  <2>1. r \in T
    <3> HIDE DEF T
    <3> QED BY <1>1, LastAndFront
  <2> QED BY <2>1 DEF RecordType
<1> HIDE DEF S, T
<1>4. /\ r \in T /\ r \in Range(redo) /\ redo' \in Seq(T)
      /\ Len(redo') = Len(redo) - 1 /\ Len(redo) \in Nat \ {0}
      /\ Range(redo') \subseteq Range(redo)
  BY <1>1, LastAndFront
<1>5. /\ undo' \in Seq(S) /\ Len(undo') = Len(undo) + 1 /\ Range(undo') = Range(undo) \cup {r}
  BY <1>1, <1>2, <1>4, OneMore
<1>6. RecordsOK'
  BY <1>1, <1>4, <1>5, SceneSaveAssumption DEF RecordsOK, S, T
<1> QED BY <1>3, <1>4, <1>5, <1>6 DEF Records

-----------------------------------------------------------------------------
(* The layers. *)

(* What keeps a stage alive. *)
LiveIn(w, records, L) ==
    /\ w.cache \subseteq L
    /\ \A o \in DOMAIN w.objects : w.objects[o].stage \in L
    /\ \A r \in records : {r.oldStage, r.newStage} \subseteq L \cup {None}

(* The live stages are kept alive. *)
LEMMA LiveBefore == LiveIn(World, Records, LiveStages)
BY DEF LiveIn, World, Records, LiveStages

(* After a step nothing else is alive than what the step put into the world. *)
LEMMA LiveAfter ==
    ASSUME NEW v, World' = v, NEW L, LiveIn(v, Records', L)
    PROVE  LiveStages' \subseteq L
<1>1. v = [objects |-> objects', map |-> map', cache |-> cache']
  BY DEF World
<1>2. v.objects = objects' /\ v.cache = cache'
  BY <1>1
<1> QED BY <1>2 DEF LiveIn, Records, LiveStages

(* The stages that are alive are stages. *)
LEMMA LiveTypes ==
    ASSUME StageInv
    PROVE  /\ LiveStages \subseteq Stages
           /\ DOMAIN objects \subseteq Objects /\ cache \subseteq LiveStages
           /\ \A o \in DOMAIN objects :
                 /\ objects[o] \in ObjectType
                 /\ objects[o].stage \in LiveStages /\ Root(o) \in DOMAIN layers
<1>1. cache \subseteq Stages /\ DOMAIN objects \subseteq Objects
  BY DEF StageInv, WorldOK, World
<1>2. \A o \in DOMAIN objects : objects[o] \in ObjectType
  BY DEF StageInv, WorldOK, World
<1>3. \A o \in DOMAIN objects : objects[o].stage \in Stages
  BY <1>2 DEF ObjectType
<1>4. \A r \in Range(undo) \cup Range(redo) : {r.oldStage, r.newStage} \subseteq Stages \cup {None}
  BY RecordsType DEF StageInv, RecordType, Records
<1>5. LiveStages \subseteq Stages
  BY <1>1, <1>3, <1>4 DEF LiveStages
<1>6. cache \subseteq LiveStages /\ \A o \in DOMAIN objects : objects[o].stage \in LiveStages
  BY DEF LiveStages
<1>7. \A o \in DOMAIN objects : Root(o) \in DOMAIN layers
  BY <1>6 DEF StageInv, Root
<1> QED BY <1>1, <1>2, <1>5, <1>6, <1>7

(* A stage with a new identity is not alive, nobody has a claim to it, and there is no layer of *)
(* that name.                                                                                   *)
LEMMA FreshStage ==
    ASSUME StageInv, NEW id \in Ids \ UsedIds
    PROVE  /\ id \notin DOMAIN layers
           /\ \A root : [id |-> id, root |-> root] \notin LiveStages
           /\ \A root \in Layers : \A o \in DOMAIN objects :
                 ~ Claims(World, Records, o, [id |-> id, root |-> root])
<1>1. id \notin DOMAIN layers
  BY DEF StageInv, UsedIds
<1>2. \A s \in LiveStages : s.id # id
  BY DEF UsedIds
<1>3. \A root : [id |-> id, root |-> root] \notin LiveStages
  BY <1>2
<1>4. ASSUME NEW root \in Layers, NEW o \in DOMAIN objects,
             Claims(World, Records, o, [id |-> id, root |-> root])
      PROVE  FALSE
  <2> DEFINE s == [id |-> id, root |-> root]
  <2>1. s \in Stages /\ s # None
    BY SceneSaveAssumption DEF Stages, Layers, Ids
  <2> HIDE DEF s
  <2>2. s \in LiveStages
    BY <1>4, <2>1, LiveBefore DEF s, Claims, LiveIn, World
  <2> QED BY <1>3, <2>2 DEF s
<1> QED BY <1>1, <1>3, <1>4

(* One more layer, dirty or just written. *)
LEMMA LayerAdded ==
    ASSUME NEW ls, NEW d, LayersOK(ls, d), NEW l \in Layers,
           NEW layer \in [data : 0 .. MaxRequests, dirty : BOOLEAN],
           ~ layer.dirty => l \in DOMAIN d /\ layer.data = d[l]
    PROVE  LayersOK(With(ls, l, layer), d) /\ DOMAIN With(ls, l, layer) = DOMAIN ls \cup {l}
<1>1. /\ DOMAIN With(ls, l, layer) = DOMAIN ls \cup {l}
      /\ With(ls, l, layer)[l] = layer
      /\ \A k \in DOMAIN ls \ {l} : With(ls, l, layer)[k] = ls[k]
      /\ With(ls, l, layer) \in [DOMAIN ls \cup {l} -> [data : 0 .. MaxRequests, dirty : BOOLEAN]]
  BY DEF With, LayersOK
<1> QED BY <1>1 DEF LayersOK

(* FindOrOpen adds at most what is on disk. *)
LEMMA LayerOpened ==
    ASSUME LayersOK(layers, disk), NEW f
    PROVE  /\ LayersOK(FindOrOpen(layers, f), disk)
           /\ DOMAIN layers \subseteq DOMAIN FindOrOpen(layers, f)
           /\ CanOpen(f) => f \in DOMAIN FindOrOpen(layers, f)
<1>1. CASE f \in DOMAIN disk \ DOMAIN layers
  <2> DEFINE layer == [data |-> disk[f], dirty |-> FALSE]
  <2>1. /\ f \in Layers /\ layer \in [data : 0 .. MaxRequests, dirty : BOOLEAN]
        /\ layer.data = disk[f]
    BY <1>1 DEF LayersOK, Layers
  <2>2. FindOrOpen(layers, f) = With(layers, f, layer)
    BY <1>1 DEF FindOrOpen
  <2> HIDE DEF layer
  <2>3. /\ LayersOK(With(layers, f, layer), disk)
        /\ DOMAIN With(layers, f, layer) = DOMAIN layers \cup {f}
    BY <1>1, <2>1, LayerAdded
  <2> QED BY <2>2, <2>3
<1>2. CASE f \notin DOMAIN disk \ DOMAIN layers
  BY <1>2 DEF FindOrOpen, CanOpen
<1> QED BY <1>1, <1>2

(* Layers are dropped that no stage has. *)
LEMMA LayersKept ==
    ASSUME NEW ls, LayersOK(ls, disk'), \A s \in LiveStages' : s.root \in DOMAIN ls,
           layers' = KeepLive(ls)
    PROVE  LayersOK(layers', disk') /\ DOMAIN layers' = {s.root : s \in LiveStages'}
<1> DEFINE roots == {s.root : s \in LiveStages'}
<1>1. roots \subseteq DOMAIN ls
  OBVIOUS
<1>2. layers' = [l \in roots |-> ls[l]]
  BY DEF KeepLive, Restrict
<1> HIDE DEF roots
<1>3. LayersOK(layers', disk') /\ DOMAIN layers' = roots
  BY <1>1, <1>2 DEF LayersOK
<1> QED BY <1>3 DEF roots

(* An operation that may bring new stages into the world, with the layers of their roots. *)
LEMMA StagesChanged ==
    ASSUME StageInv, WorldOK(World'), RecordsOK',
           NEW ls, LayersOK(ls, disk'), DOMAIN layers \subseteq DOMAIN ls,
           \A s \in LiveStages' : s \in LiveStages \/ s.root \in DOMAIN ls,
           layers' = KeepLive(ls)
    PROVE  StageInv'
<1>1. \A s \in LiveStages' : s.root \in DOMAIN ls
  BY DEF StageInv
<1>2. LayersOK(layers', disk') /\ DOMAIN layers' = {s.root : s \in LiveStages'}
  BY <1>1, LayersKept
<1> QED BY <1>2 DEF StageInv

-----------------------------------------------------------------------------
(* What users and scripts do.  Each lemma has two parts: the types are kept, and so is what keeps *)
(* the objects apart.                                                                             *)

StagesKept == StageInv' /\ (ApartInv => ApartInv')

(* The new world is the one the operation made. *)
LEMMA WorldBecomes ==
    ASSUME NEW v, WorldOK(v), Becomes(v)
    PROVE  World' = v /\ objects' = v.objects /\ map' = v.map /\ cache' = v.cache
BY DEF Becomes, World, WorldOK

(* A stage with its own identity is added to those that are alive. *)
LEMMA LayersGrow ==
    ASSUME StageInv, NEW id \in Ids,
           cache' = cache \cup {InMemoryStage(id)}, UNCHANGED <<disk, undo, redo>>,
           {objects'[o].stage : o \in DOMAIN objects'} \cup {InMemoryStage(id)}
               = {objects[o].stage : o \in DOMAIN objects} \cup {InMemoryStage(id)},
           layers' = With(layers, id, NewLayer)
    PROVE  LayersOK(layers', disk') /\ DOMAIN layers' = {s.root : s \in LiveStages'}
<1>1. LiveStages' = LiveStages \cup {InMemoryStage(id)}
  BY DEF LiveStages
<1>2. NewLayer \in [data : 0 .. MaxRequests, dirty : BOOLEAN] /\ NewLayer.dirty
  BY SceneSaveAssumption DEF NewLayer
<1>3. id \in Layers /\ LayersOK(layers, disk) /\ DOMAIN layers = {s.root : s \in LiveStages}
  BY DEF Layers, StageInv
<1>4. LayersOK(layers', disk') /\ DOMAIN layers' = DOMAIN layers \cup {id}
  BY <1>2, <1>3, LayerAdded
<1> QED BY <1>1, <1>3, <1>4, InMemory

(* The constructor of a stage object. *)
LEMMA CreateKeeps ==
    ASSUME StageInv, NEW o \in Objects, Create(o)
    PROVE  StagesKept
<1> DEFINE id == NewIds({o})[o]
           v == CreateInMemoryStage(World, o, id)
<1>1. /\ o \notin DOMAIN objects /\ id \in Ids \ UsedIds
      /\ Becomes(v) /\ layers' = With(layers, id, NewLayer)
      /\ UNCHANGED <<disk, undo, redo>>
  BY NewIdIsNew DEF Create
<1> HIDE DEF id
<1>2. WorldOK(World) /\ World.objects = objects /\ World.cache = cache
  BY DEF StageInv, World
<1>3. WorldOK(v) /\ NewStage(World, o, id, v)
  BY <1>1, <1>2, StageCreated
<1> HIDE DEF v
<1>4. World' = v /\ objects' = v.objects /\ cache' = v.cache
  BY <1>1, <1>3, WorldBecomes
<1>5. /\ DOMAIN objects' = DOMAIN objects \cup {o}
      /\ objects'[o].stage = InMemoryStage(id)
      /\ \A p \in DOMAIN objects : objects'[p] = objects[p]
      /\ cache' = cache \cup {InMemoryStage(id)}
  BY <1>2, <1>3, <1>4 DEF NewStage
<1>6. LayersOK(layers', disk') /\ DOMAIN layers' = {s.root : s \in LiveStages'}
  BY <1>1, <1>5, LayersGrow
<1>7. RecordsOK'
  <2>1. /\ RecordType(DOMAIN objects, Stages \cup {None}) \subseteq RecordType(DOMAIN objects', Stages \cup {None})
        /\ RecordType(DOMAIN objects, Stages) \subseteq RecordType(DOMAIN objects', Stages)
    BY <1>5 DEF RecordType
  <2> QED BY <1>1, <2>1, SeqMonotonic DEF StageInv, RecordsOK
<1>8. StageInv'
  BY <1>3, <1>4, <1>6, <1>7 DEF StageInv
<1>9. ASSUME ApartInv PROVE ApartInv'
  <2>1. \A p \in DOMAIN objects : ~ Claims(World, Records, p, InMemoryStage(id))
    BY <1>1, FreshStage DEF InMemoryStage, Layers
  <2>2. \A r \in Records : r.object # o
    BY <1>1, RecordsType DEF StageInv, RecordType
  <2>3. Registry(v) /\ Apart(v, Records)
    BY <1>1, <1>2, <1>9, <2>1, <2>2, StageCreatedApart DEF ApartInv, v
  <2>4. Records' = Records
    BY <1>1 DEF Records
  <2> QED BY <1>4, <2>3, <2>4 DEF ApartInv
<1> QED BY <1>8, <1>9 DEF StagesKept

(* A stage that a script inserts into the cache. *)
LEMMA InsertKeeps ==
    ASSUME StageInv, InsertInCache
    PROVE  StagesKept
<1> DEFINE id == NewIds({None})[None]
           v == [objects |-> World.objects, map |-> World.map,
                 cache |-> World.cache \cup {InMemoryStage(id)}]
<1>1. /\ id \in Ids \ UsedIds
      /\ cache' = cache \cup {InMemoryStage(id)} /\ layers' = With(layers, id, NewLayer)
      /\ UNCHANGED <<objects, map, disk, undo, redo>>
  BY NewIdIsNew DEF InsertInCache
<1> HIDE DEF id
<1>2. WorldOK(World) /\ World.objects = objects
  BY DEF StageInv, World
<1>3. World' = v
  BY <1>1 DEF World
<1>4. /\ WorldOK(v)
      /\ Registry(World) => Registry(v)
      /\ \A records :
            /\ Apart(World, records)
            /\ \A p \in DOMAIN objects : ~ Claims(World, records, p, InMemoryStage(id))
            => Apart(v, records)
  BY <1>1, <1>2, StageInserted
<1> HIDE DEF v
<1>5. LayersOK(layers', disk') /\ DOMAIN layers' = {s.root : s \in LiveStages'}
  BY <1>1, LayersGrow
<1>6. RecordsOK' /\ Records' = Records
  BY <1>1 DEF StageInv, RecordsOK, Records
<1>7. StageInv'
  BY <1>3, <1>4, <1>5, <1>6 DEF StageInv
<1>8. ASSUME ApartInv PROVE ApartInv'
  <2>1. \A p \in DOMAIN objects : ~ Claims(World, Records, p, InMemoryStage(id))
    BY <1>1, FreshStage DEF InMemoryStage, Layers
  <2> QED BY <1>3, <1>4, <1>6, <1>8, <2>1 DEF ApartInv
<1> QED BY <1>7, <1>8 DEF StagesKept

(* Whatever sets parameters of objects and then the stage of one of them.  The stage may be new, *)
(* or one that is kept alive already; what matters for the registry is that nobody else has a    *)
(* claim to it.                                                                                  *)
LEMMA StageReplaced ==
    ASSUME StageInv, NEW u, SameStages(World, u), NEW o \in DOMAIN objects, NEW stage \in Stages,
           Becomes(SetUSDStage(u, o, stage))
    PROVE  /\ DOMAIN objects' = DOMAIN objects
           /\ \A ls :
                 /\ RecordsOK'
                 /\ \A r \in Records' : {r.oldStage, r.newStage} \subseteq LiveStages \cup {stage, None}
                 /\ LayersOK(ls, disk') /\ DOMAIN layers \subseteq DOMAIN ls
                 /\ stage.root \in DOMAIN ls /\ layers' = KeepLive(ls)
                 => StageInv'
           /\ /\ ApartInv
              /\ \A p \in DOMAIN objects \ {o} : ~ Claims(World, Records, p, stage)
              /\ OnlyClaim(World, Records, Records', o, stage)
              => ApartInv'
<1> DEFINE v == SetUSDStage(u, o, stage)
<1>1. WorldOK(World) /\ World.objects = objects /\ World.cache = cache
  BY DEF StageInv, World
<1>2. /\ DOMAIN u.objects = DOMAIN objects
      /\ \A p \in DOMAIN objects : u.objects[p].stage = objects[p].stage
      /\ u.cache = cache
  BY <1>1 DEF SameStages
<1>3. /\ WorldOK(u)
      /\ Registry(World) => Registry(u)
      /\ \A records : \A p \in DOMAIN objects : \A s :
            Claims(u, records, p, s) <=> Claims(World, records, p, s)
      /\ \A records : Apart(World, records) => Apart(u, records)
  BY <1>1, ParametersSet
<1>4. WorldOK(v) /\ GivenStage(u, o, stage, v)
  BY <1>2, <1>3, StageGiven
<1>5. World' = v /\ objects' = v.objects
  BY <1>4, WorldBecomes
<1> HIDE DEF v
<1>6. /\ DOMAIN objects' = DOMAIN objects
      /\ v.objects[o].stage = stage
      /\ \A p \in DOMAIN objects \ {o} : v.objects[p].stage = objects[p].stage
      /\ v.cache \subseteq cache \cup {stage}
  BY <1>2, <1>4, <1>5 DEF GivenStage
<1>7. ASSUME RecordsOK',
             \A r \in Records' : {r.oldStage, r.newStage} \subseteq LiveStages \cup {stage, None},
             NEW ls, LayersOK(ls, disk'), DOMAIN layers \subseteq DOMAIN ls,
             stage.root \in DOMAIN ls, layers' = KeepLive(ls)
      PROVE  StageInv'
  <2>1. LiveIn(v, Records', LiveStages \cup {stage})
    BY <1>5, <1>6, <1>7, LiveTypes DEF LiveIn
  <2>2. LiveStages' \subseteq LiveStages \cup {stage}
    BY <1>5, <2>1, LiveAfter
  <2> QED BY <1>4, <1>5, <1>7, <2>2, StagesChanged
<1>8. ASSUME ApartInv,
             \A p \in DOMAIN objects \ {o} : ~ Claims(World, Records, p, stage),
             OnlyClaim(World, Records, Records', o, stage)
      PROVE  ApartInv'
  <2>1. Registry(u) /\ Apart(u, Records)
    BY <1>3, <1>8 DEF ApartInv
  <2>2. \A p \in DOMAIN u.objects \ {o} : ~ Claims(u, Records, p, stage)
    BY <1>2, <1>3, <1>8
  <2>3. OnlyClaim(u, Records, Records', o, stage)
    BY <1>1, <1>2, <1>3, <1>8 DEF OnlyClaim
  <2>4. \A p \in DOMAIN u.objects \ {o} : stage # u.objects[p].stage
    BY <2>2 DEF Claims
  <2>5. Registry(v)
    BY <1>2, <1>3, <2>1, <2>4, StageRegistered DEF v
  <2>6. Apart(v, Records')
    BY <1>2, <1>3, <2>1, <2>2, <2>3, StageApart DEF v
  <2> QED BY <1>5, <2>5, <2>6 DEF ApartInv
<1> QED BY <1>6, <1>7, <1>8

(* The records after theHold.Put keep nothing else alive and give no claim. *)
LEMMA PutClaims ==
    ASSUME StageInv, NEW o \in DOMAIN objects, NEW f \in Files \cup {None},
           Put(o, f), DOMAIN objects' = DOMAIN objects, NEW stage
    PROVE  /\ RecordsOK'
           /\ \A r \in Records' : {r.oldStage, r.newStage} \subseteq LiveStages \cup {None}
           /\ OnlyClaim(World, Records, Records', o, stage)
<1>1. WorldOK(World) /\ RecordsOK /\ World.objects = objects
  BY DEF StageInv, World
<1>2. /\ RecordsOK'
      /\ \A r \in Records' :
            \/ r \in Records
            \/ r.object = o /\ r.oldStage = objects[o].stage /\ r.newStage = None
  BY <1>1, PutRecords
<1>3. \A r \in Records' : {r.oldStage, r.newStage} \subseteq LiveStages \cup {None}
  BY <1>2, LiveBefore, LiveTypes DEF LiveIn
<1>4. None \notin Stages
  BY SceneSaveAssumption DEF Stages, Layers, Ids
<1>5. OnlyClaim(World, Records, Records', o, stage)
  BY <1>1, <1>2, <1>4 DEF OnlyClaim, Claims
<1> QED BY <1>2, <1>3, <1>5

(* Fewer records, fewer claims. *)
LEMMA FewerClaims ==
    ASSUME NEW w, WorldOK(w), NEW records, NEW after, Apart(w, records),
           \A p \in DOMAIN w.objects : \A s \in Stages :
               Claims(w, after, p, s) => Claims(w, records, p, s)
    PROVE  Apart(w, after)
BY DEF Apart, WorldOK

(* One object is replaced by another with the same stage. *)
LEMMA ObjectSet ==
    ASSUME NEW objs, objs \in [DOMAIN objs -> ObjectType], NEW o \in DOMAIN objs,
           NEW new \in ObjectType, new.stage = objs[o].stage, NEW m, NEW c,
           NEW w, w = [objects |-> objs, map |-> m, cache |-> c],
           NEW v, v = [objects |-> [objs EXCEPT ![o] = new], map |-> m, cache |-> c]
    PROVE  SameStages(w, v)
<1>1. /\ w.objects = objs /\ w.map = m /\ w.cache = c
      /\ v.objects = [objs EXCEPT ![o] = new] /\ v.map = m /\ v.cache = c
  OBVIOUS
<1>2. /\ DOMAIN v.objects = DOMAIN objs /\ v.objects \in [DOMAIN objs -> ObjectType]
      /\ \A p \in DOMAIN objs : v.objects[p].stage = objs[p].stage
  BY <1>1
<1>3. v = [objects |-> v.objects, map |-> w.map, cache |-> w.cache]
  BY <1>1
<1> QED BY <1>1, <1>2, <1>3 DEF SameStages

(* The parameters that change together. *)
LEMMA FileSet ==
    ASSUME NEW objs, objs \in [DOMAIN objs -> ObjectType], NEW o \in DOMAIN objs,
           NEW f \in Files \cup {None}, NEW own \in BOOLEAN, NEW m, NEW c,
           NEW w, w = [objects |-> objs, map |-> m, cache |-> c]
    PROVE  /\ SameStages(w, [w EXCEPT !.objects[o].file = f, !.objects[o].own = own])
           /\ SameStages(w, [w EXCEPT !.objects[o].file = f])
           /\ SameStages(w, [w EXCEPT !.objects[o].file = f, !.objects[o].anonRootId = None])
<1> DEFINE filed == [objs[o] EXCEPT !.file = f]
           owned == [filed EXCEPT !.own = own]
           saved == [filed EXCEPT !.anonRootId = None]
           u == [objects |-> [objs EXCEPT ![o] = filed], map |-> m, cache |-> c]
<1>1. objs[o] \in ObjectType
  OBVIOUS
<1>2. filed \in ObjectType /\ filed.stage = objs[o].stage
  BY <1>1 DEF ObjectType
<1>3. w.objects = objs /\ [objs EXCEPT ![o].file = f] = [objs EXCEPT ![o] = filed]
  OBVIOUS
<1>4. [w EXCEPT !.objects[o].file = f] = u
  BY <1>3
<1> HIDE DEF filed
<1>5. /\ owned \in ObjectType /\ owned.stage = objs[o].stage
      /\ saved \in ObjectType /\ saved.stage = objs[o].stage
  BY <1>2 DEF ObjectType
<1>6. /\ [u EXCEPT !.objects[o].own = own]
            = [objects |-> [objs EXCEPT ![o] = owned], map |-> m, cache |-> c]
      /\ [u EXCEPT !.objects[o].anonRootId = None]
            = [objects |-> [objs EXCEPT ![o] = saved], map |-> m, cache |-> c]
  <2>1. /\ [objs EXCEPT ![o] = filed][o] = filed
        /\ \A x : [[objs EXCEPT ![o] = filed] EXCEPT ![o] = x] = [objs EXCEPT ![o] = x]
    OBVIOUS
  <2>2. u.objects = [objs EXCEPT ![o] = filed]
    OBVIOUS
  <2> QED BY <2>1, <2>2
<1>7. /\ [w EXCEPT !.objects[o].file = f, !.objects[o].own = own]
            = [[w EXCEPT !.objects[o].file = f] EXCEPT !.objects[o].own = own]
      /\ [w EXCEPT !.objects[o].file = f, !.objects[o].anonRootId = None]
            = [[w EXCEPT !.objects[o].file = f] EXCEPT !.objects[o].anonRootId = None]
  OBVIOUS
<1>8. ASSUME NEW new \in ObjectType, new.stage = objs[o].stage
      PROVE  SameStages(w, [objects |-> [objs EXCEPT ![o] = new], map |-> m, cache |-> c])
  BY <1>8, ObjectSet
<1> HIDE DEF owned, saved
<1>9. SameStages(w, [w EXCEPT !.objects[o].file = f])
  BY <1>2, <1>4, <1>8
<1> HIDE DEF u
<1>10. SameStages(w, [u EXCEPT !.objects[o].own = own])
  BY <1>5, <1>6, <1>8
<1>11. SameStages(w, [u EXCEPT !.objects[o].anonRootId = None])
  BY <1>5, <1>6, <1>8
<1> QED BY <1>4, <1>7, <1>9, <1>10, <1>11

(* SetRootLayer. *)
LEMMA SetRootLayerKeeps ==
    ASSUME StageInv, NEW o \in Objects, NEW f \in Files, SetRootLayer(o, f)
    PROVE  StagesKept
<1> DEFINE id == NewIds({o})[o]
           u == [World EXCEPT !.objects[o].file = f, !.objects[o].own = @ /\ CanOpen(f)]
           stage == [id |-> id, root |-> f]
           ls == FindOrOpen(layers, f)
<1>1. /\ o \in DOMAIN objects /\ id \in Ids \ UsedIds /\ Put(o, f)
      /\ Becomes(LoadUSDStage(u, o, f, id))
      /\ layers' = KeepLive(ls) /\ disk' = disk
  BY NewIdIsNew DEF SetRootLayer
<1>2. WorldOK(World) /\ World.objects = objects
  BY DEF StageInv, World
<1>3. objects \in [DOMAIN objects -> ObjectType]
  BY <1>2 DEF WorldOK
<1>4. SameStages(World, u)
  <2> DEFINE own == objects[o].own /\ CanOpen(f)
  <2>1. u = [World EXCEPT !.objects[o].file = f, !.objects[o].own = own]
    BY DEF World
  <2>2. own \in BOOLEAN /\ f \in Files \cup {None}
    OBVIOUS
  <2> HIDE DEF own, u
  <2> QED BY <1>1, <1>3, <2>1, <2>2, FileSet DEF World
<1> HIDE DEF id, u
<1>5. stage \in Stages /\ stage.root = f /\ f \in Files \cup {None}
  BY <1>1 DEF Stages, Layers
<1>6. /\ LayersOK(ls, disk') /\ DOMAIN layers \subseteq DOMAIN ls
      /\ CanOpen(f) => f \in DOMAIN ls
  BY <1>1, LayerOpened DEF StageInv
<1>7. \A p \in DOMAIN objects : ~ Claims(World, Records, p, stage)
  BY <1>1, FreshStage DEF Layers
<1> HIDE DEF stage, ls
<1>8. CASE CanOpen(f)
  <2>1. Becomes(SetUSDStage(u, o, stage))
    BY <1>1, <1>8 DEF LoadUSDStage, stage
  <2>2. DOMAIN objects' = DOMAIN objects
    BY <1>1, <1>4, <1>5, <2>1, StageReplaced
  <2>3. /\ RecordsOK'
        /\ \A r \in Records' : {r.oldStage, r.newStage} \subseteq LiveStages \cup {None}
        /\ OnlyClaim(World, Records, Records', o, stage)
    BY <1>1, <1>5, <2>2, PutClaims
  <2>4. StageInv'
    BY <1>1, <1>4, <1>5, <1>6, <1>8, <2>1, <2>3, StageReplaced
  <2>5. ApartInv => ApartInv'
    BY <1>1, <1>4, <1>5, <1>7, <2>1, <2>3, StageReplaced
  <2> QED BY <2>4, <2>5 DEF StagesKept
<1>9. CASE ~ CanOpen(f)
  <2>1. Becomes(u)
    BY <1>1, <1>9 DEF LoadUSDStage
  <2>2. /\ WorldOK(u)
        /\ Registry(World) => Registry(u)
        /\ \A records : \A p \in DOMAIN objects : \A s :
              Claims(u, records, p, s) <=> Claims(World, records, p, s)
        /\ \A records : Apart(World, records) => Apart(u, records)
    BY <1>2, <1>4, ParametersSet
  <2>3. World' = u /\ objects' = u.objects
    BY <2>1, <2>2, WorldBecomes
  <2>4. /\ DOMAIN objects' = DOMAIN objects /\ u.cache = cache
        /\ \A p \in DOMAIN objects : u.objects[p].stage = objects[p].stage
    BY <1>2, <1>4, <2>3 DEF SameStages, World
  <2>5. /\ RecordsOK'
        /\ \A r \in Records' : {r.oldStage, r.newStage} \subseteq LiveStages \cup {None}
        /\ OnlyClaim(World, Records, Records', o, None)
    BY <1>1, <1>5, <2>4, PutClaims
  <2>6. LiveIn(u, Records', LiveStages)
    BY <2>3, <2>4, <2>5, LiveTypes DEF LiveIn
  <2>7. StageInv'
    BY <1>1, <1>6, <2>2, <2>3, <2>5, <2>6, LiveAfter, StagesChanged
  <2>8. ASSUME ApartInv PROVE ApartInv'
    <3>1. Registry(u) /\ Apart(u, Records)
      BY <2>2, <2>8 DEF ApartInv
    <3>2. None \notin Stages
      BY SceneSaveAssumption DEF Stages, Layers, Ids
    <3>3. \A p \in DOMAIN u.objects : \A s \in Stages :
             Claims(u, Records', p, s) => Claims(u, Records, p, s)
      BY <1>2, <2>2, <2>3, <2>4, <2>5, <3>2 DEF OnlyClaim, Claims
    <3>4. Apart(u, Records')
      BY <2>2, <3>1, <3>3, FewerClaims
    <3> QED BY <2>3, <3>1, <3>4 DEF ApartInv
  <2> QED BY <2>7, <2>8 DEF StagesKept
<1> QED BY <1>8, <1>9

(* Stages that are kept alive already, and that the objects' world has anyway. *)
LEMMA ActualWorld ==
    ASSUME StageInv
    PROVE  /\ WorldOK(World) /\ World = [objects |-> objects, map |-> map, cache |-> cache]
           /\ World.objects = objects /\ World.map = map /\ World.cache = cache
           /\ objects \in [DOMAIN objects -> ObjectType]
           /\ DOMAIN objects \subseteq Objects /\ IsFiniteSet(DOMAIN objects)
           /\ LayersOK(layers, disk) /\ RecordsOK
<1>1. WorldOK(World) /\ World.objects = objects /\ World.map = map /\ World.cache = cache
  BY DEF StageInv, World
<1> QED BY <1>1 DEF StageInv, World, WorldOK

(* SetStageFromCache.  That nobody shows the stage is not enough by itself: another object might *)
(* get it back with undo.  But then it would still show it, by the second part of Apart.         *)
LEMMA SetStageFromCacheKeeps ==
    ASSUME StageInv, NEW o \in Objects, NEW stage \in cache, SetStageFromCache(o, stage)
    PROVE  StageInv' /\ (~ Sharing /\ ApartInv => ApartInv')
<1> DEFINE file == IF IsAnonymous(stage.root) THEN None ELSE stage.root
           u == [World EXCEPT !.objects[o].file = file, !.objects[o].own = FALSE]
<1>1. /\ o \in DOMAIN objects /\ Put(o, file) /\ disk' = disk
      /\ Becomes(SetUSDStage(u, o, stage)) /\ layers' = KeepLive(layers)
      /\ Sharing \/ stage \notin StagesOfOthers(o)
  BY DEF SetStageFromCache
<1>2. stage \in Stages /\ stage \in LiveStages /\ stage.root \in DOMAIN layers
  BY LiveTypes DEF StageInv
<1>3. file \in Files \cup {None}
  BY DEF IsAnonymous
<1>4. SameStages(World, u)
  <2> HIDE DEF file
  <2> QED BY <1>1, <1>3, ActualWorld, FileSet
<1> HIDE DEF file, u
<1>5. DOMAIN objects' = DOMAIN objects
  BY <1>1, <1>2, <1>4, StageReplaced
<1>6. /\ RecordsOK'
      /\ \A r \in Records' : {r.oldStage, r.newStage} \subseteq LiveStages \cup {None}
      /\ OnlyClaim(World, Records, Records', o, stage)
  BY <1>1, <1>3, <1>5, PutClaims
<1>7. StageInv'
  BY <1>1, <1>2, <1>4, <1>6, ActualWorld, StageReplaced
<1>8. ASSUME ~ Sharing, ApartInv PROVE ApartInv'
  <2>1. ASSUME NEW p \in DOMAIN objects \ {o}, Claims(World, Records, p, stage) PROVE FALSE
    <3>1. stage = objects[p].stage
      BY <1>8, <2>1, ActualWorld DEF ApartInv, Apart
    <3> QED BY <1>1, <1>8, <3>1 DEF StagesOfOthers
  <2> QED BY <1>1, <1>2, <1>4, <1>6, <1>8, <2>1, StageReplaced
<1> QED BY <1>7, <1>8

(* A record of an object is a claim of it. *)
LEMMA RecordClaims ==
    ASSUME StageInv, NEW r \in Records, NEW s \in {r.oldStage, r.newStage}
    PROVE  Claims(World, Records, r.object, s) /\ (s \in Stages => s \in LiveStages)
<1>1. None \notin Stages
  BY SceneSaveAssumption DEF Stages, Layers, Ids
<1> QED BY <1>1, LiveBefore DEF Claims, LiveIn

(* Undo and redo give a stage back to the object that has a claim to it. *)
LEMMA RestoreKeeps ==
    ASSUME StageInv, NEW o \in DOMAIN objects, NEW stage \in Stages, NEW f \in Files \cup {None},
           Restore(o, stage, f)
    PROVE  /\ DOMAIN objects' = DOMAIN objects
           /\ /\ RecordsOK' /\ stage \in LiveStages
              /\ \A r \in Records' : {r.oldStage, r.newStage} \subseteq LiveStages \cup {None}
              => StageInv'
           /\ /\ ApartInv /\ Claims(World, Records, o, stage)
              /\ OnlyClaim(World, Records, Records', o, stage)
              => ApartInv'
<1> DEFINE u == [World EXCEPT !.objects[o].file = f]
<1>1. /\ Becomes(SetUSDStage(u, o, stage)) /\ layers' = KeepLive(layers) /\ disk' = disk
  BY DEF Restore
<1>2. SameStages(World, u)
  BY ActualWorld, FileSet
<1> HIDE DEF u
<1>3. DOMAIN objects' = DOMAIN objects
  BY <1>1, <1>2, StageReplaced
<1>4. ASSUME RecordsOK', stage \in LiveStages,
             \A r \in Records' : {r.oldStage, r.newStage} \subseteq LiveStages \cup {None}
      PROVE  StageInv'
  <2>1. stage.root \in DOMAIN layers
    BY <1>4 DEF StageInv
  <2> QED BY <1>1, <1>2, <1>4, <2>1, ActualWorld, StageReplaced
<1>5. ASSUME ApartInv, Claims(World, Records, o, stage),
             OnlyClaim(World, Records, Records', o, stage)
      PROVE  ApartInv'
  <2>1. \A p \in DOMAIN objects \ {o} : ~ Claims(World, Records, p, stage)
    BY <1>5, ActualWorld DEF ApartInv, Apart
  <2> QED BY <1>1, <1>2, <1>5, <2>1, StageReplaced
<1> QED BY <1>3, <1>4, <1>5

(* Undo gives back the stage from before the change. *)
LEMMA UndoKeeps ==
    ASSUME StageInv, Undo
    PROVE  StagesKept
<1> DEFINE r == Last(undo)
           o == r.object
<1>1. Restore(o, r.oldStage, r.oldFile)
  BY DEF Undo
<1>2. undo # << >> /\ undo \in Seq(RecordType(DOMAIN objects, Stages \cup {None}))
  BY DEF Undo, StageInv, RecordsOK
<1>3. r \in RecordType(DOMAIN objects, Stages \cup {None}) /\ r \in Records
  BY <1>2, LastAndFront DEF Records
<1> HIDE DEF r
<1>4. /\ o \in DOMAIN objects /\ r.oldStage \in Stages /\ r.oldFile \in Files \cup {None}
      /\ r = Last(undo)
  BY <1>3 DEF RecordType, r
<1> HIDE DEF o
<1>5. DOMAIN objects' = DOMAIN objects
  BY <1>1, <1>4, RestoreKeeps
<1>6. /\ RecordsOK'
      /\ \A q \in Records' :
            \/ q \in Records
            \/ q.object = o /\ q.oldStage = r.oldStage /\ q.newStage = objects[o].stage
  BY <1>4, <1>5, ActualWorld, UndoRecords DEF o
<1>7. Claims(World, Records, o, r.oldStage) /\ r.oldStage \in LiveStages
  BY <1>3, <1>4, RecordClaims DEF o
<1>8. \A q \in Records' : {q.oldStage, q.newStage} \subseteq LiveStages \cup {None}
  BY <1>4, <1>6, <1>7, LiveBefore, LiveTypes DEF LiveIn
<1>9. OnlyClaim(World, Records, Records', o, r.oldStage)
  BY <1>6, ActualWorld DEF OnlyClaim, Claims
<1> QED BY <1>1, <1>4, <1>6, <1>7, <1>8, <1>9, RestoreKeeps DEF StagesKept

(* Redo gives back the stage that was undone. *)
LEMMA RedoKeeps ==
    ASSUME StageInv, Redo
    PROVE  StagesKept
<1> DEFINE r == Last(redo)
           o == r.object
<1>1. Restore(o, r.newStage, r.newFile)
  BY DEF Redo
<1>2. redo # << >> /\ redo \in Seq(RecordType(DOMAIN objects, Stages))
  BY DEF Redo, StageInv, RecordsOK
<1>3. r \in RecordType(DOMAIN objects, Stages) /\ r \in Records
  BY <1>2, LastAndFront DEF Records
<1> HIDE DEF r
<1>4. /\ o \in DOMAIN objects /\ r.newStage \in Stages /\ r.newFile \in Files \cup {None}
      /\ r = Last(redo)
  BY <1>3 DEF RecordType, r
<1> HIDE DEF o
<1>5. DOMAIN objects' = DOMAIN objects
  BY <1>1, <1>4, RestoreKeeps
<1>6. RecordsOK' /\ Records' \subseteq Records
  BY <1>4, <1>5, ActualWorld, RedoRecords
<1>7. Claims(World, Records, o, r.newStage) /\ r.newStage \in LiveStages
  BY <1>3, <1>4, RecordClaims DEF o
<1>8. \A q \in Records' : {q.oldStage, q.newStage} \subseteq LiveStages \cup {None}
  BY <1>6, LiveBefore DEF LiveIn
<1>9. OnlyClaim(World, Records, Records', o, r.newStage)
  BY <1>6 DEF OnlyClaim, Claims
<1> QED BY <1>1, <1>4, <1>6, <1>7, <1>8, <1>9, RestoreKeeps DEF StagesKept

(* The undo stack knows the objects there were. *)
LEMMA RecordsStay ==
    ASSUME RecordsOK, UNCHANGED <<undo, redo>>, DOMAIN objects \subseteq DOMAIN objects'
    PROVE  RecordsOK' /\ Records' = Records
<1>1. /\ RecordType(DOMAIN objects, Stages \cup {None}) \subseteq RecordType(DOMAIN objects', Stages \cup {None})
      /\ RecordType(DOMAIN objects, Stages) \subseteq RecordType(DOMAIN objects', Stages)
  BY DEF RecordType
<1> QED BY <1>1, SeqMonotonic DEF RecordsOK, Records

(* One parameters change after another. *)
LEMMA SameStagesTwice ==
    ASSUME NEW w, NEW x, NEW v, SameStages(w, x), SameStages(x, v)
    PROVE  SameStages(w, v)
BY DEF SameStages

(* The copy of an object before it gets a stage of its file. *)
LEMMA CopyMade ==
    ASSUME NEW w, WorldOK(w), NEW o \in DOMAIN w.objects, NEW copy \in DOMAIN w.objects,
           NEW pb \in ObjectType, pb.stage = w.objects[copy].stage, o # copy
    PROVE  SameStages(w, [w EXCEPT !.objects = [@ EXCEPT ![copy] = pb, ![o].own = FALSE]])
<1> DEFINE objs == [w.objects EXCEPT ![copy] = pb]
           new == [w.objects[o] EXCEPT !.own = FALSE]
           x == [objects |-> objs, map |-> w.map, cache |-> w.cache]
           v == [w EXCEPT !.objects = [@ EXCEPT ![copy] = pb, ![o].own = FALSE]]
<1>1. w = [objects |-> w.objects, map |-> w.map, cache |-> w.cache]
  BY DEF WorldOK
<1>2. w.objects \in [DOMAIN w.objects -> ObjectType]
  BY DEF WorldOK
<1>3. SameStages(w, x)
  BY <1>1, <1>2, ObjectSet
<1>4. w.objects[o] \in ObjectType
  BY <1>2
<1>5. new \in ObjectType /\ new.stage = w.objects[o].stage
  BY <1>4 DEF ObjectType
<1>6. /\ objs \in [DOMAIN objs -> ObjectType] /\ o \in DOMAIN objs
      /\ objs[o] = w.objects[o]
  BY <1>2
<1>7. v.objects = [objs EXCEPT ![o] = new]
  <2>1. v.objects = [objs EXCEPT ![o].own = FALSE]
    BY <1>1
  <2> HIDE DEF objs, v
  <2>2. [objs EXCEPT ![o].own = FALSE] = [objs EXCEPT ![o] = new]
    BY <1>6
  <2> QED BY <2>1, <2>2
<1>8. v = [objects |-> [objs EXCEPT ![o] = new], map |-> w.map, cache |-> w.cache]
  <2>1. v = [w EXCEPT !.objects = [objs EXCEPT ![o].own = FALSE]]
    BY <1>1
  <2> HIDE DEF v
  <2>2. v.objects = [objs EXCEPT ![o].own = FALSE]
    BY <1>1, <2>1
  <2> QED BY <1>1, <1>7, <2>1, <2>2
<1> HIDE DEF objs, new, v
<1>9. SameStages(x, v)
  BY <1>5, <1>6, <1>8, ObjectSet
<1> HIDE DEF x
<1>10. SameStages(w, v)
  BY <1>3, <1>9, SameStagesTwice
<1> QED BY <1>10 DEF v

(* Cloning: the copy gets a stage from the constructor and then, if the original has a file that *)
(* can be opened, one of its own on that file.                                                   *)
LEMMA CloneKeeps ==
    ASSUME StageInv, NEW o \in Objects, NEW copy \in Objects, Clone(o, copy)
    PROVE  StagesKept
<1> DEFINE id == NewIds({o, copy})
           ic == id[copy]
           io == id[o]
           w == CreateInMemoryStage(World, copy, id[copy])
           pb == [w.objects[copy] EXCEPT !.file = objects[o].file,
                                         !.anonRootId = objects[o].anonRootId,
                                         !.own = FALSE]
           u == [w EXCEPT !.objects = [@ EXCEPT ![copy] = pb, ![o].own = FALSE]]
           stage == [id |-> io, root |-> pb.file]
           ls == With(FindOrOpen(layers, pb.file), ic, NewLayer)
<1>1. /\ o \in DOMAIN objects /\ copy \notin DOMAIN objects
      /\ ic \in Ids \ UsedIds /\ io \in Ids \ UsedIds /\ ic # io
      /\ Becomes(LoadUSDStage(u, copy, pb.file, io)) /\ layers' = KeepLive(ls)
      /\ UNCHANGED <<disk, undo, redo>>
  BY TwoNewIds DEF Clone
<1> HIDE DEF id, ic, io
<1>2. WorldOK(w) /\ NewStage(World, copy, ic, w)
  <2> HIDE DEF w
  <2>1. w = CreateInMemoryStage(World, copy, ic)
    BY DEF w, ic
  <2> QED BY <1>1, <2>1, ActualWorld, StageCreated
<1>3. ApartInv => Registry(w) /\ Apart(w, Records)
  <2>1. \A p \in DOMAIN objects : ~ Claims(World, Records, p, InMemoryStage(ic))
    BY <1>1, FreshStage DEF InMemoryStage, Layers
  <2>2. \A r \in Records : r.object # copy
    BY <1>1, RecordsType DEF StageInv, RecordType
  <2> HIDE DEF w
  <2>3. w = CreateInMemoryStage(World, copy, ic)
    BY DEF w, ic
  <2> QED BY <1>1, <2>1, <2>2, <2>3, ActualWorld, StageCreatedApart DEF ApartInv
<1> HIDE DEF w
<1>4. /\ DOMAIN w.objects = DOMAIN objects \cup {copy}
      /\ w.objects[copy] = [stage |-> InMemoryStage(ic), file |-> None, anonRootId |-> ic,
                            inScene |-> TRUE, interruptSave |-> FALSE, own |-> TRUE]
      /\ \A p \in DOMAIN objects : w.objects[p] = objects[p]
      /\ w.cache = cache \cup {InMemoryStage(ic)}
  BY <1>2, ActualWorld DEF NewStage
<1>5. pb \in ObjectType /\ pb.stage = InMemoryStage(ic) /\ pb.file \in Files \cup {None}
  <2>1. objects[o] \in ObjectType /\ w.objects[copy] \in ObjectType
    BY <1>1, <1>2, <1>4, ActualWorld DEF WorldOK
  <2>2. objects[o].file \in Files \cup {None} /\ objects[o].anonRootId \in Ids \cup {None}
    BY <2>1 DEF ObjectType
  <2>3. PICK c \in ObjectType : c = w.objects[copy]
    BY <2>1
  <2>4. pb = [c EXCEPT !.file = objects[o].file, !.anonRootId = objects[o].anonRootId, !.own = FALSE]
    BY <2>3
  <2>5. c.stage = InMemoryStage(ic)
    BY <1>4, <2>3
  <2> HIDE DEF pb
  <2> QED BY <2>2, <2>4, <2>5 DEF ObjectType
<1>6. SameStages(w, u)
  <2> HIDE DEF pb
  <2> QED BY <1>1, <1>2, <1>4, <1>5, CopyMade
<1> HIDE DEF pb, u
<1>7. /\ WorldOK(u)
      /\ Registry(w) => Registry(u)
      /\ \A records : \A p \in DOMAIN w.objects : \A s :
            Claims(u, records, p, s) <=> Claims(w, records, p, s)
      /\ \A records : Apart(w, records) => Apart(u, records)
  BY <1>2, <1>6, ParametersSet
<1>8. /\ DOMAIN u.objects = DOMAIN objects \cup {copy}
      /\ u.objects[copy].stage = InMemoryStage(ic)
      /\ \A p \in DOMAIN objects : u.objects[p].stage = objects[p].stage
      /\ u.cache = cache \cup {InMemoryStage(ic)}
  BY <1>4, <1>6 DEF SameStages
<1>9. /\ LayersOK(ls, disk) /\ DOMAIN layers \subseteq DOMAIN ls
      /\ CanOpen(pb.file) => pb.file \in DOMAIN ls
      /\ InMemoryStage(ic).root \in DOMAIN ls
  <2> DEFINE found == FindOrOpen(layers, pb.file)
  <2>1. /\ LayersOK(found, disk) /\ DOMAIN layers \subseteq DOMAIN found
        /\ CanOpen(pb.file) => pb.file \in DOMAIN found
    BY ActualWorld, LayerOpened
  <2>2. NewLayer \in [data : 0 .. MaxRequests, dirty : BOOLEAN] /\ NewLayer.dirty /\ ic \in Layers
    BY <1>1, SceneSaveAssumption DEF NewLayer, Layers
  <2> HIDE DEF found
  <2>3. LayersOK(With(found, ic, NewLayer), disk) /\ DOMAIN With(found, ic, NewLayer) = DOMAIN found \cup {ic}
    BY <2>1, <2>2, LayerAdded
  <2> QED BY <1>1, <2>1, <2>3, InMemory DEF found
<1> HIDE DEF ls
<1>10. ASSUME NEW v, WorldOK(v), Becomes(v), NEW new,
              DOMAIN v.objects = DOMAIN u.objects,
              v.cache \subseteq cache \cup {InMemoryStage(ic), new},
              v.objects[copy].stage \in {InMemoryStage(ic), new},
              \A p \in DOMAIN objects : v.objects[p].stage = objects[p].stage,
              new = InMemoryStage(ic) \/ new.root \in DOMAIN ls
       PROVE  StageInv' /\ World' = v /\ Records' = Records
  <2>1. World' = v /\ objects' = v.objects /\ WorldOK(World')
    BY <1>10, WorldBecomes
  <2>2. RecordsOK' /\ Records' = Records
    BY <1>1, <1>8, <1>10, <2>1, ActualWorld, RecordsStay
  <2>3. LiveIn(v, Records', LiveStages \cup {InMemoryStage(ic), new})
    BY <1>8, <1>10, <2>2, LiveBefore, LiveTypes DEF LiveIn
  <2>4. LiveStages' \subseteq LiveStages \cup {InMemoryStage(ic), new}
    BY <2>1, <2>3, LiveAfter
  <2>5. \A s \in LiveStages' : s \in LiveStages \/ s.root \in DOMAIN ls
    BY <1>9, <1>10, <2>4
  <2>6. StageInv'
    BY <1>1, <1>9, <2>1, <2>2, <2>5, StagesChanged
  <2> QED BY <2>1, <2>2, <2>6
<1>11. CASE CanOpen(pb.file)
  <2> DEFINE v == SetUSDStage(u, copy, stage)
  <2>1. Becomes(v)
    BY <1>1, <1>11 DEF LoadUSDStage
  <2>2. pb.file \in Layers /\ stage \in Stages /\ stage.root = pb.file
    BY <1>1, <1>9, <1>11 DEF Stages, LayersOK
  <2> HIDE DEF stage
  <2>3. WorldOK(v) /\ GivenStage(u, copy, stage, v)
    BY <1>7, <1>8, <2>2, StageGiven
  <2>4. \A p \in DOMAIN u.objects \ {copy} : ~ Claims(u, Records, p, stage)
    <3> SUFFICES ASSUME NEW p \in DOMAIN objects, Claims(u, Records, p, stage) PROVE FALSE
      BY <1>8
    <3>1. Claims(w, Records, p, stage)
      BY <1>4, <1>7
    <3>2. Claims(World, Records, p, stage)
      BY <1>4, <3>1, ActualWorld DEF Claims
    <3> QED BY <1>1, <2>2, <3>2, FreshStage DEF stage
  <2>5. ApartInv => Registry(v) /\ Apart(v, Records)
    <3>1. \A p \in DOMAIN u.objects \ {copy} : stage # u.objects[p].stage
      BY <2>4 DEF Claims
    <3>2. OnlyClaim(u, Records, Records, copy, stage)
      BY DEF OnlyClaim, Claims
    <3> HIDE DEF v
    <3>3. v = SetUSDStage(u, copy, stage)
      BY DEF v
    <3> QED BY <1>3, <1>7, <1>8, <2>2, <2>4, <3>1, <3>2, <3>3, StageRegistered, StageApart
  <2> HIDE DEF v
  <2>6. /\ DOMAIN v.objects = DOMAIN u.objects
        /\ v.cache \subseteq cache \cup {InMemoryStage(ic), stage}
        /\ v.objects[copy].stage = stage
        /\ \A p \in DOMAIN objects : v.objects[p].stage = objects[p].stage
    BY <1>1, <1>8, <2>3 DEF GivenStage
  <2>7. StageInv' /\ World' = v /\ Records' = Records
    BY <1>9, <1>10, <1>11, <2>1, <2>2, <2>3, <2>6
  <2> QED BY <2>5, <2>7 DEF StagesKept, ApartInv
<1>12. CASE ~ CanOpen(pb.file)
  <2>1. Becomes(u)
    BY <1>1, <1>12 DEF LoadUSDStage
  <2>2. StageInv' /\ World' = u /\ Records' = Records
    BY <1>7, <1>8, <1>10, <2>1
  <2> QED BY <1>3, <1>7, <2>2 DEF StagesKept, ApartInv
<1> QED BY <1>11, <1>12

(* UpdateRootLayer, whoever calls it: the new stage is on a file that nobody had open. *)
LEMMA UpdateRootLayerKeeps ==
    ASSUME StageInv, NEW o \in DOMAIN objects, NEW f \in Files, NEW id \in Ids \ UsedIds,
           Becomes(UpdateRootLayer(World, o, f, id)), UNCHANGED <<undo, redo>>,
           NEW ls, LayersOK(ls, disk'), DOMAIN layers \subseteq DOMAIN ls, f \in DOMAIN ls,
           layers' = KeepLive(ls)
    PROVE  StagesKept
<1> DEFINE u == [World EXCEPT !.objects[o].file = f, !.objects[o].anonRootId = None]
           stage == [id |-> id, root |-> f]
<1>1. Becomes(SetUSDStage(u, o, stage))
  BY DEF UpdateRootLayer
<1>2. SameStages(World, u)
  BY ActualWorld, FileSet
<1>3. stage \in Stages /\ stage.root = f
  BY DEF Stages, Layers
<1>4. \A p \in DOMAIN objects : ~ Claims(World, Records, p, stage)
  BY FreshStage DEF Layers
<1> HIDE DEF u, stage
<1>5. DOMAIN objects' = DOMAIN objects
  BY <1>1, <1>2, <1>3, StageReplaced
<1>6. RecordsOK' /\ Records' = Records
  BY <1>5, ActualWorld, RecordsStay
<1>7. \A r \in Records' : {r.oldStage, r.newStage} \subseteq LiveStages \cup {stage, None}
  BY <1>6, LiveBefore DEF LiveIn
<1>8. OnlyClaim(World, Records, Records', o, stage)
  BY <1>6 DEF OnlyClaim, Claims
<1>9. StageInv'
  BY <1>1, <1>2, <1>3, <1>6, <1>7, StageReplaced
<1>10. ApartInv => ApartInv'
  BY <1>1, <1>2, <1>3, <1>4, <1>8, StageReplaced
<1> QED BY <1>9, <1>10 DEF StagesKept

(* A file that no layer is about may be written. *)
LEMMA FileWritten ==
    ASSUME LayersOK(layers, disk), NEW f \in Files \ DOMAIN layers, NEW data \in 0 .. MaxRequests
    PROVE  /\ LayersOK(layers, With(disk, f, data))
           /\ f \in DOMAIN With(disk, f, data) /\ With(disk, f, data)[f] = data
<1>1. /\ DOMAIN With(disk, f, data) = DOMAIN disk \cup {f}
      /\ With(disk, f, data)[f] = data
      /\ \A l \in DOMAIN disk \ {f} : With(disk, f, data)[l] = disk[l]
      /\ With(disk, f, data) \in [DOMAIN disk \cup {f} -> 0 .. MaxRequests]
  BY DEF With, LayersOK
<1>2. \A l \in DOMAIN layers : ~ layers[l].dirty =>
          l \in DOMAIN With(disk, f, data) /\ layers[l].data = With(disk, f, data)[l]
  BY <1>1 DEF LayersOK
<1> QED BY <1>1, <1>2 DEF LayersOK

(* The layer editor writes an anonymous root. *)
LEMMA SaveAnonymousRootKeeps ==
    ASSUME StageInv, NEW o \in Objects, NEW f \in Files, SaveAnonymousRoot(o, f)
    PROVE  StagesKept
<1> DEFINE id == NewIds({o})[o]
           data == layers[Root(o)].data
           layer == [data |-> data, dirty |-> FALSE]
           ls == With(layers, f, layer)
<1>1. /\ o \in DOMAIN objects /\ f \notin DOMAIN layers /\ id \in Ids \ UsedIds
      /\ Becomes(UpdateRootLayer(World, o, f, id))
      /\ disk' = With(disk, f, data) /\ layers' = KeepLive(ls) /\ UNCHANGED <<undo, redo>>
  BY NewIdIsNew DEF SaveAnonymousRoot, MayBecome
<1> HIDE DEF id
<1>2. data \in 0 .. MaxRequests
  BY <1>1, LiveTypes DEF StageInv, LayersOK
<1>3. /\ LayersOK(layers, disk') /\ f \in DOMAIN disk' /\ disk'[f] = data
  BY <1>1, <1>2, ActualWorld, FileWritten
<1>4. /\ layer \in [data : 0 .. MaxRequests, dirty : BOOLEAN]
      /\ ~ layer.dirty => f \in DOMAIN disk' /\ layer.data = disk'[f]
      /\ f \in Layers
  BY <1>2, <1>3 DEF Layers
<1> HIDE DEF layer, data, ls
<1>5. LayersOK(With(layers, f, layer), disk') /\ DOMAIN With(layers, f, layer) = DOMAIN layers \cup {f}
  <2>1. LayersOK(layers, disk')
    BY <1>3
  <2>2. PICK now, after : now = layers /\ after = disk'
    OBVIOUS
  <2>3. /\ LayersOK(now, after)
        /\ ~ layer.dirty => f \in DOMAIN after /\ layer.data = after[f]
    BY <1>4, <2>1, <2>2
  <2>4. LayersOK(With(now, f, layer), after) /\ DOMAIN With(now, f, layer) = DOMAIN now \cup {f}
    BY <1>4, <2>3, LayerAdded
  <2> QED BY <2>2, <2>4
<1>6. LayersOK(ls, disk') /\ DOMAIN ls = DOMAIN layers \cup {f}
  BY <1>5 DEF ls
<1> QED BY <1>1, <1>6, UpdateRootLayerKeeps

(* What is saved by its own file is clean afterwards, and is then on disk. *)
LEMMA LayersSaved ==
    ASSUME NEW d, LayersOK(layers, d), NEW saved, saved \subseteq Files \cap DOMAIN layers,
           NEW after, after = Over([l \in saved |-> layers[l].data], d)
    PROVE  /\ LayersOK(SaveDirty(layers, saved), after)
           /\ DOMAIN SaveDirty(layers, saved) = DOMAIN layers
           /\ \A l \in DOMAIN d \ saved : l \in DOMAIN after /\ after[l] = d[l]
<1> DEFINE ls == SaveDirty(layers, saved)
<1>1. /\ DOMAIN after = saved \cup DOMAIN d
      /\ \A l \in saved : after[l] = layers[l].data
      /\ \A l \in DOMAIN d \ saved : after[l] = d[l]
      /\ after = [l \in DOMAIN after |-> after[l]]
  BY DEF Over
<1>2. after \in [DOMAIN after -> 0 .. MaxRequests] /\ DOMAIN after \subseteq Files
  BY <1>1 DEF LayersOK
<1>3. /\ DOMAIN ls = DOMAIN layers
      /\ ls = [l \in DOMAIN ls |-> ls[l]]
      /\ \A l \in saved : ls[l] = [layers[l] EXCEPT !.dirty = FALSE]
      /\ \A l \in DOMAIN layers \ saved : ls[l] = layers[l]
  BY DEF SaveDirty
<1> HIDE DEF ls
<1>4. \A l \in DOMAIN layers : layers[l] \in [data : 0 .. MaxRequests, dirty : BOOLEAN]
  BY DEF LayersOK
<1>5. \A l \in saved : /\ ls[l] \in [data : 0 .. MaxRequests, dirty : BOOLEAN]
                       /\ ls[l].data = layers[l].data
  BY <1>3, <1>4
<1>6. ls \in [DOMAIN ls -> [data : 0 .. MaxRequests, dirty : BOOLEAN]]
  BY <1>3, <1>4, <1>5
<1>7. \A l \in DOMAIN ls : ~ ls[l].dirty => l \in DOMAIN after /\ ls[l].data = after[l]
  BY <1>1, <1>3, <1>5 DEF LayersOK
<1>8. LayersOK(ls, after)
  BY <1>2, <1>3, <1>6, <1>7 DEF LayersOK
<1> QED BY <1>1, <1>3, <1>8 DEF ls

(* The layers that a save is about. *)
LEMMA DirtyLayers ==
    ASSUME StageInv, NEW d \in GetDirtyLayersToSave
    PROVE  d[1] \in DOMAIN objects /\ d[2] \in DOMAIN layers
<1>1. PICK o \in GetAllStageObjects(map) : d = <<o, Root(o)>>
  BY DEF GetDirtyLayersToSave
<1>2. o \in DOMAIN objects
  BY <1>1, ActualWorld DEF GetAllStageObjects, Range, WorldOK
<1> QED BY <1>1, <1>2, LiveTypes

(* "Save all": with or without an anonymous root that the batch dialog has written. *)
LEMMA SaveAllKeeps ==
    ASSUME StageInv, NEW o \in Objects, NEW failing, SaveAll(o, failing)
    PROVE  StagesKept
<1> DEFINE saved == {d[2] : d \in GetDirtyLayersToSave} \cap (Files \ failing)
           ls == SaveDirty(layers, saved)
           datas == [l \in saved |-> layers[l].data]
<1>1. saved \subseteq Files \cap DOMAIN layers
  BY DirtyLayers
<1>2. CASE /\ disk' = Over(datas, disk)
           /\ layers' = ls
           /\ UNCHANGED <<objects, map, cache, undo, redo>>
  <2> HIDE DEF saved
  <2>1. LayersOK(ls, disk') /\ DOMAIN ls = DOMAIN layers
    BY <1>1, <1>2, ActualWorld, LayersSaved
  <2>2. LayersOK(layers', disk') /\ DOMAIN layers' = DOMAIN layers
    BY <1>2, <2>1
  <2>3. /\ World' = World /\ Records' = Records /\ LiveStages' = LiveStages
        /\ RecordsOK'
    BY <1>2, ActualWorld DEF World, Records, LiveStages, RecordsOK
  <2> QED BY <2>2, <2>3 DEF StagesKept, StageInv, ApartInv
<1>3. ASSUME NEW d \in GetDirtyLayersToSave, NEW f \in Files,
             MayBecome(d[1], f), CanName({o}), UNCHANGED <<undo, redo>>,
             Becomes(UpdateRootLayer(World, d[1], f, NewIds({o})[o])),
             disk' = Over(datas, With(disk, f, layers[d[2]].data)),
             layers' = KeepLive(With(ls, f, [data |-> layers[d[2]].data, dirty |-> FALSE]))
      PROVE  StagesKept
  <2> HIDE DEF saved
  <2> DEFINE data == layers[d[2]].data
             layer == [data |-> data, dirty |-> FALSE]
             before == With(disk, f, data)
  <2>1. d[1] \in DOMAIN objects /\ d[2] \in DOMAIN layers /\ f \notin DOMAIN layers
    BY <1>3, DirtyLayers DEF MayBecome
  <2>2. data \in 0 .. MaxRequests
    BY <2>1 DEF StageInv, LayersOK
  <2>3. LayersOK(layers, before) /\ f \in DOMAIN before /\ before[f] = data
    BY <2>1, <2>2, ActualWorld, FileWritten
  <2> HIDE DEF before
  <2>4. disk' = Over(datas, before)
    BY <1>3 DEF before
  <2>5. /\ LayersOK(ls, disk') /\ DOMAIN ls = DOMAIN layers
        /\ \A l \in DOMAIN before \ saved : l \in DOMAIN disk' /\ disk'[l] = before[l]
    BY <1>1, <2>3, <2>4, LayersSaved
  <2>6. f \in DOMAIN disk' /\ disk'[f] = data
    BY <1>1, <2>1, <2>3, <2>5
  <2>7. /\ layer \in [data : 0 .. MaxRequests, dirty : BOOLEAN]
        /\ ~ layer.dirty => f \in DOMAIN disk' /\ layer.data = disk'[f]
        /\ f \in Layers
    BY <2>2, <2>6 DEF Layers
  <2> HIDE DEF layer, ls, data
  <2>8. LayersOK(With(ls, f, layer), disk') /\ DOMAIN With(ls, f, layer) = DOMAIN ls \cup {f}
    BY <2>5, <2>7, LayerAdded
  <2>9. layers' = KeepLive(With(ls, f, layer))
    BY <1>3 DEF layer, data
  <2>10. NewIds({o})[o] \in Ids \ UsedIds
    BY <1>3, NewIdIsNew
  <2> QED BY <1>3, <2>1, <2>5, <2>8, <2>9, <2>10, UpdateRootLayerKeeps
<1> HIDE DEF ls, datas
<1> QED BY <1>2, <1>3 DEF SaveAll, ls, datas

(* A parameter or a flag of an object changes. *)
LEMMA ParametersKeep ==
    ASSUME StageInv, SameStages(World, World'), UNCHANGED <<layers, disk, undo, redo>>
    PROVE  StagesKept
<1>1. /\ WorldOK(World')
      /\ Registry(World) => Registry(World')
      /\ \A records : Apart(World, records) => Apart(World', records)
  BY ActualWorld, ParametersSet
<1>2. /\ DOMAIN objects' = DOMAIN objects /\ cache' = cache
      /\ \A o \in DOMAIN objects : objects'[o].stage = objects[o].stage
  BY DEF SameStages, World
<1>3. LiveStages' = LiveStages
  BY <1>2 DEF LiveStages
<1>4. RecordsOK' /\ Records' = Records
  BY <1>2, ActualWorld, RecordsStay
<1>5. LayersOK(layers', disk') /\ DOMAIN layers' = {s.root : s \in LiveStages'}
  BY <1>3 DEF StageInv
<1>6. StageInv'
  BY <1>1, <1>4, <1>5 DEF StageInv
<1>7. ApartInv => ApartInv'
  BY <1>1, <1>4 DEF ApartInv
<1> QED BY <1>6, <1>7 DEF StagesKept

(* The node of an object comes or goes, its flag is set or reset. *)
LEMMA FlagKeeps ==
    ASSUME StageInv, NEW o \in DOMAIN objects, NEW e \in BOOLEAN,
           \/ objects' = [objects EXCEPT ![o].inScene = e]
           \/ objects' = [objects EXCEPT ![o].interruptSave = e],
           UNCHANGED <<map, cache, layers, disk, undo, redo>>
    PROVE  StagesKept
<1> DEFINE shown == [objects[o] EXCEPT !.inScene = e]
           flagged == [objects[o] EXCEPT !.interruptSave = e]
<1>1. objects[o] \in ObjectType
  BY ActualWorld
<1>2. /\ shown \in ObjectType /\ shown.stage = objects[o].stage
      /\ flagged \in ObjectType /\ flagged.stage = objects[o].stage
  BY <1>1 DEF ObjectType
<1>3. PICK new \in {shown, flagged} : objects' = [objects EXCEPT ![o] = new]
  OBVIOUS
<1> HIDE DEF shown, flagged
<1>4. new \in ObjectType /\ new.stage = objects[o].stage
  BY <1>2
<1>5. World' = [objects |-> [objects EXCEPT ![o] = new], map |-> map, cache |-> cache]
  BY <1>3 DEF World
<1>6. SameStages(World, World')
  BY <1>4, <1>5, ActualWorld, ObjectSet
<1> QED BY <1>6, ParametersKeep

(* The deletion of a node and its undo. *)
LEMMA ToggleKeeps ==
    ASSUME StageInv, NEW o \in Objects, ToggleNode(o)
    PROVE  StagesKept
<1>1. /\ o \in DOMAIN objects /\ objects' = [objects EXCEPT ![o].inScene = ~ objects[o].inScene]
      /\ UNCHANGED <<map, cache, layers, disk, undo, redo>>
  BY DEF ToggleNode
<1>2. (~ objects[o].inScene) \in BOOLEAN
  OBVIOUS
<1> QED BY <1>1, <1>2, FlagKeeps

(* An edit makes a layer dirty. *)
LEMMA EditKeeps ==
    ASSUME StageInv, requests \in 0 .. MaxRequests - 1, NEW o \in Objects, EditRoot(o)
    PROVE  StagesKept
<1> DEFINE layer == [data |-> requests + 1, dirty |-> TRUE]
<1>1. /\ o \in DOMAIN objects /\ layers' = [layers EXCEPT ![Root(o)] = layer]
      /\ UNCHANGED <<objects, map, cache, disk, undo, redo>>
  BY DEF EditRoot
<1>2. layer \in [data : 0 .. MaxRequests, dirty : BOOLEAN] /\ layer.dirty
  BY SceneSaveAssumption
<1>3. Root(o) \in DOMAIN layers
  BY <1>1, LiveTypes
<1> HIDE DEF layer
<1>4. /\ DOMAIN layers' = DOMAIN layers
      /\ layers'[Root(o)] = layer
      /\ \A l \in DOMAIN layers \ {Root(o)} : layers'[l] = layers[l]
      /\ layers' \in [DOMAIN layers -> [data : 0 .. MaxRequests, dirty : BOOLEAN]]
  BY <1>1, <1>2, <1>3, ActualWorld DEF LayersOK
<1>5. LayersOK(layers', disk')
  BY <1>1, <1>2, <1>4, ActualWorld DEF LayersOK
<1>6. /\ World' = World /\ Records' = Records /\ LiveStages' = LiveStages
      /\ RecordsOK'
  BY <1>1, ActualWorld DEF World, Records, LiveStages, RecordsOK
<1> QED BY <1>4, <1>5, <1>6 DEF StagesKept, StageInv, ApartInv

(* Whatever users and scripts do. *)
LEMMA UserEditKeeps ==
    ASSUME StageInv, FlagsOK, UserEdit
    PROVE  StageInv' /\ (~ Sharing /\ ApartInv => ApartInv')
<1>1. requests \in 0 .. MaxRequests - 1
  BY SceneSaveAssumption DEF UserEdit, SceneEdit, Request, FlagsOK
<1>2. ASSUME NEW o \in Objects, Create(o) \/ EditRoot(o) \/ ToggleNode(o) PROVE StagesKept
  BY <1>1, <1>2, CreateKeeps, EditKeeps, ToggleKeeps
<1>3. ASSUME NEW o \in Objects, NEW copy \in Objects, Clone(o, copy) PROVE StagesKept
  BY <1>3, CloneKeeps
<1>4. ASSUME NEW o \in Objects, NEW f \in Files, SetRootLayer(o, f) \/ SaveAnonymousRoot(o, f)
      PROVE  StagesKept
  BY <1>4, SetRootLayerKeeps, SaveAnonymousRootKeeps
<1>5. ASSUME NEW o \in Objects, NEW stage \in cache, SetStageFromCache(o, stage)
      PROVE  StageInv' /\ (~ Sharing /\ ApartInv => ApartInv')
  BY <1>5, SetStageFromCacheKeeps
<1>6. CASE InsertInCache \/ Undo \/ Redo
  BY <1>6, InsertKeeps, UndoKeeps, RedoKeeps DEF StagesKept
<1> QED BY <1>2, <1>3, <1>4, <1>5, <1>6 DEF UserEdit, StagesKept

(* Whatever is answered when references are asked for, and what writing does. *)
LEMMA SavingKeeps ==
    ASSUME StageInv, NEW o \in Objects,
           \/ SpecifySaveReferences(o) /\ saving.refs \subseteq InScene
           \/ SaveObject(o)
    PROVE  StagesKept
<1>1. ASSUME UNCHANGED stageVars PROVE StagesKept
  <2>1. UNCHANGED <<objects, map, cache, layers, disk, undo, redo>>
    BY <1>1 DEF stageVars
  <2>2. /\ World' = World /\ Records' = Records /\ LiveStages' = LiveStages
        /\ RecordsOK'
    BY <2>1, ActualWorld DEF World, Records, LiveStages, RecordsOK
  <2> QED BY <2>1, <2>2 DEF StagesKept, StageInv, ApartInv
<1>2. ASSUME NEW mode, CancelSave(o, mode), o \in DOMAIN objects PROVE StagesKept
  BY <1>2, FlagKeeps DEF CancelSave
<1>3. ASSUME InterruptWrite(o) PROVE StagesKept
  <2>1. o \in DOMAIN objects
    BY <1>3 DEF InterruptWrite, MayWrite, InScene
  <2> QED BY <1>3, <2>1, FlagKeeps DEF InterruptWrite
<1>4. CASE SaveObject(o)
  BY <1>1, <1>3, <1>4 DEF SaveObject, Write
<1>5. CASE SpecifySaveReferences(o) /\ saving.refs \subseteq InScene
  <2>1. o \in DOMAIN objects
    BY <1>5 DEF SpecifySaveReferences, InScene
  <2> QED
    BY <1>1, <1>2, <1>5, <2>1, SaveAllKeeps DEF SpecifySaveReferences, NoPrompt, KeepEdits
<1> QED BY <1>4, <1>5

-----------------------------------------------------------------------------
(* Opening the scene. *)

OpenedAs(o, id, loaded, object) ==
    /\ object \in ObjectType
    /\ object.stage = [id |-> id, root |-> object.stage.root]
    /\ object.stage.root \in Range(loaded) \cup DOMAIN disk \cup {id}

(* What is opened: a stage with a new identity for each saved object, on a root that is one of    *)
(* the layers of the scene file, a file on disk, or a new layer.                                   *)
LEMMA PostLoadOpens ==
    ASSUME StageInv, FileInv, NEW o \in DOMAIN maxFile.objects, NEW id \in Ids,
           NEW loaded, DOMAIN loaded \subseteq Layers, Range(loaded) \subseteq Layers,
           \A l \in Ids : l \in DOMAIN loaded => loaded[l] \in Ids
    PROVE  OpenedAs(o, id, loaded, PostLoad(o, id, loaded))
<1> DEFINE saved == maxFile.objects[o]
<1>1. saved \in ObjectType
  BY DEF FileInv, ObjectsOK
<1>2. /\ saved.file \in Files \cup {None} /\ saved.anonRootId \in Ids \cup {None}
      /\ saved.own \in BOOLEAN
  BY <1>1 DEF ObjectType
<1>3. None \notin Layers
  BY SceneSaveAssumption DEF Layers, Ids
<1>4. ASSUME NEW root \in Layers, NEW anonRootId \in Ids \cup {None}
      PROVE  /\ Loaded(o, anonRootId, [id |-> id, root |-> root]) \in ObjectType
             /\ Loaded(o, anonRootId, [id |-> id, root |-> root]).stage = [id |-> id, root |-> root]
  <2>1. [id |-> id, root |-> root] \in Stages
    BY DEF Stages
  <2> QED BY <1>2, <2>1 DEF Loaded, ObjectType
<1>5. CASE saved.anonRootId \in DOMAIN loaded
  <2> DEFINE root == loaded[saved.anonRootId]
  <2>1. saved.anonRootId \in Ids
    BY <1>2, <1>3, <1>5
  <2>2. root \in Ids /\ root \in Layers /\ root \in Range(loaded)
    BY <1>5, <2>1 DEF Layers, Range
  <2>3. PostLoad(o, id, loaded) = Loaded(o, root, [id |-> id, root |-> root])
    BY <1>5 DEF PostLoad
  <2> HIDE DEF root
  <2> QED BY <1>4, <2>2, <2>3 DEF OpenedAs
<1>6. CASE saved.anonRootId \notin DOMAIN loaded /\ saved.file \in DOMAIN disk
  <2>1. saved.file \in Layers
    BY <1>6 DEF StageInv, LayersOK, Layers
  <2>2. PostLoad(o, id, loaded) = Loaded(o, saved.anonRootId, [id |-> id, root |-> saved.file])
    BY <1>6 DEF PostLoad
  <2> QED BY <1>2, <1>4, <1>6, <2>1, <2>2 DEF OpenedAs
<1>7. CASE saved.anonRootId \notin DOMAIN loaded /\ saved.file \notin DOMAIN disk
  <2>1. PostLoad(o, id, loaded) = Loaded(o, id, [id |-> id, root |-> id])
    BY <1>7 DEF PostLoad, InMemoryStage
  <2>2. id \in Layers
    BY DEF Layers
  <2> QED BY <1>4, <2>1, <2>2 DEF OpenedAs
<1> QED BY <1>5, <1>6, <1>7

OpenedLayers(loaded, roots, new) ==
    Over(Over(Over(LoadedLayers(loaded), Restrict(layers, roots)),
              [f \in DOMAIN disk |-> [data |-> disk[f], dirty |-> FALSE]]),
         [i \in new |-> NewLayer])

DataOpened(ls, loaded, roots, new) ==
    /\ LayersOK(ls, disk)
    /\ DOMAIN ls = Range(loaded) \cup roots \cup DOMAIN disk \cup new
    /\ \A l \in Range(loaded) : ls[l].data \in Range(maxFile.layers)
    /\ \A l \in DOMAIN disk \ roots : ls[l].data \in Range(disk) \cup Range(maxFile.layers)
    /\ \A l \in new \ (roots \cup DOMAIN disk) : ls[l].data \in {0} \cup Range(maxFile.layers)

(* The layers of an opened scene: those of the scene file, those of the stages that stay in the   *)
(* cache, the files, and new ones.                                                                *)
LEMMA LayersOpened ==
    ASSUME StageInv, FileInv,
           NEW loaded, DOMAIN loaded \subseteq DOMAIN maxFile.layers, Range(loaded) \subseteq Layers,
           NEW roots, roots \subseteq DOMAIN layers, NEW new, new \subseteq Ids,
           NEW ls, ls = OpenedLayers(loaded, roots, new)
    PROVE  DataOpened(ls, loaded, roots, new)
<1> DEFINE Layer == [data : 0 .. MaxRequests, dirty : BOOLEAN]
           first == LoadedLayers(loaded)
           kept == Restrict(layers, roots)
           files == [f \in DOMAIN disk |-> [data |-> disk[f], dirty |-> FALSE]]
           fresh == [i \in new |-> NewLayer]
<1>1. /\ DOMAIN first = Range(loaded)
      /\ \A l \in Range(loaded) :
            first[l] \in Layer /\ first[l].dirty /\ first[l].data \in Range(maxFile.layers)
  <2>1. ASSUME NEW k \in Range(loaded)
        PROVE  /\ (CHOOSE l \in DOMAIN loaded : loaded[l] = k) \in DOMAIN maxFile.layers
    <3>1. \E l \in DOMAIN loaded : loaded[l] = k
      BY DEF Range
    <3> QED BY <3>1
  <2>2. first = [k \in Range(loaded) |->
                    [data |-> maxFile.layers[CHOOSE l \in DOMAIN loaded : loaded[l] = k], dirty |-> TRUE]]
    BY DEF LoadedLayers, Range
  <2>3. \A l \in DOMAIN maxFile.layers :
            maxFile.layers[l] \in 0 .. MaxRequests /\ maxFile.layers[l] \in Range(maxFile.layers)
    BY DEF FileInv, Range
  <2> HIDE DEF first
  <2> QED BY <2>1, <2>2, <2>3
<1>2. /\ DOMAIN kept = roots
      /\ \A l \in roots : kept[l] \in Layer /\ (~ kept[l].dirty => l \in DOMAIN disk /\ kept[l].data = disk[l])
  BY DEF StageInv, LayersOK, Restrict
<1>3. /\ DOMAIN files = DOMAIN disk
      /\ \A f \in DOMAIN disk : files[f] \in Layer /\ files[f].data = disk[f] /\ disk[f] \in Range(disk)
  BY DEF StageInv, LayersOK, Range
<1>4. /\ DOMAIN fresh = new
      /\ \A i \in new : fresh[i] \in Layer /\ fresh[i].data = 0 /\ fresh[i].dirty
  BY SceneSaveAssumption DEF NewLayer
<1>5. ls = Over(Over(Over(first, kept), files), fresh)
  BY DEF OpenedLayers
<1> HIDE DEF first, kept, files, fresh, Layer
<1>6. /\ DOMAIN ls = DOMAIN first \cup DOMAIN kept \cup DOMAIN files \cup DOMAIN fresh
      /\ ls = [l \in DOMAIN ls |-> ls[l]]
      /\ \A l \in DOMAIN ls :
            ls[l] = IF l \in DOMAIN first THEN first[l]
                    ELSE IF l \in DOMAIN kept THEN kept[l]
                    ELSE IF l \in DOMAIN files THEN files[l] ELSE fresh[l]
  BY <1>5 DEF Over
<1>7. DOMAIN ls = Range(loaded) \cup roots \cup DOMAIN disk \cup new
  BY <1>1, <1>2, <1>3, <1>4, <1>6
<1>8. DOMAIN ls \subseteq Layers
  BY <1>7, LiveTypes DEF StageInv, LayersOK, Layers
<1>9. \A l \in DOMAIN ls : ls[l] \in Layer
  BY <1>1, <1>2, <1>3, <1>4, <1>6
<1>10. \A l \in DOMAIN ls : ~ ls[l].dirty => l \in DOMAIN disk /\ ls[l].data = disk[l]
  BY <1>1, <1>2, <1>3, <1>4, <1>6
<1>11. LayersOK(ls, disk)
  BY <1>6, <1>8, <1>9, <1>10, ActualWorld DEF LayersOK, Layer
<1> QED BY <1>1, <1>2, <1>3, <1>4, <1>6, <1>7, <1>11 DEF DataOpened

(* Opening a scene: every object gets a stage of its own, the registry knows it, and what it shows *)
(* is in the scene file, in a file, or new.                                                       *)
LEMMA OpenKeeps ==
    ASSUME StageInv, FileInv, FileOpen
    PROVE  /\ StageInv' /\ ApartInv'
           /\ \A o \in DOMAIN objects' :
                 layers'[Root(o)'].data \in {0} \cup Range(disk') \cup Range(maxFile'.layers)
<1> DEFINE anonymous == {l \in DOMAIN maxFile.layers : IsAnonymous(l)}
           saved == DOMAIN maxFile.objects
           kept == cache \ {objects[o].stage : o \in DOMAIN objects}
           name == NewIds(anonymous \cup saved)
           loaded == LoadedLayerMap(name)
           roots == {s.root : s \in kept}
           new == {name[o] : o \in saved}
           ls == OpenedLayers(loaded, roots, new)
<1>1. /\ CanName(anonymous \cup saved)
      /\ undo' = << >> /\ redo' = << >>
      /\ objects' = [o \in saved |-> PostLoad(o, name[o], loaded)]
      /\ map' = LoadedMap(objects')
      /\ cache' = kept \cup {objects'[o].stage : o \in saved}
      /\ layers' = KeepLive(ls)
      /\ disk' = disk /\ maxFile' = maxFile
  BY DEF FileOpen, OpenedLayers
<1>2. IsFiniteSet(anonymous \cup saved)
  <2>1. IsFiniteSet(Ids)
    BY SceneSaveAssumption, FS_Interval DEF Ids
  <2>2. anonymous \in SUBSET Ids
    BY DEF FileInv, IsAnonymous, Layers
  <2>3. IsFiniteSet(anonymous)
    BY <2>1, <2>2, FS_Subset
  <2>4. IsFiniteSet(saved)
    BY DEF FileInv, ObjectsOK
  <2> HIDE DEF anonymous, saved
  <2> QED BY <2>3, <2>4, FS_Union
<1>3. /\ \A x \in anonymous \cup saved : name[x] \in Ids \ UsedIds
      /\ \A x, y \in saved : name[x] = name[y] => x = y
  <2> DEFINE S == anonymous \cup saved
  <2>1. IsFiniteSet(S) /\ CanName(S)
    BY <1>1, <1>2
  <2> HIDE DEF S
  <2>2. NewIds(S) \in [S -> Ids \ UsedIds] /\ \A x, y \in S : NewIds(S)[x] = NewIds(S)[y] => x = y
    BY <2>1, NewIdsAreNew
  <2> QED BY <2>2 DEF S
<1> HIDE DEF name
<1>4. /\ DOMAIN loaded = DOMAIN maxFile.layers
      /\ Range(loaded) \subseteq Layers /\ DOMAIN loaded \subseteq Layers
      /\ \A l \in Ids : l \in DOMAIN loaded => loaded[l] \in Ids
  <2>1. /\ DOMAIN loaded = DOMAIN maxFile.layers
        /\ \A l \in DOMAIN maxFile.layers : loaded[l] = IF IsAnonymous(l) THEN name[l] ELSE l
    BY DEF LoadedLayerMap
  <2>2. \A l \in DOMAIN maxFile.layers : IsAnonymous(l) => name[l] \in Ids
    BY <1>3
  <2>3. DOMAIN maxFile.layers \subseteq Layers
    BY DEF FileInv
  <2> HIDE DEF loaded
  <2>4. Range(loaded) \subseteq Layers
    BY <2>1, <2>2, <2>3 DEF Range, Layers, IsAnonymous
  <2>5. \A l \in Ids : IsAnonymous(l)
    BY SceneSaveAssumption DEF IsAnonymous, Ids
  <2>6. DOMAIN loaded \subseteq Layers
    BY <2>1, <2>3
  <2>7. ASSUME NEW l \in Ids, l \in DOMAIN loaded
        PROVE  loaded[l] \in Ids
    BY <2>1, <2>2, <2>5, <2>7
  <2> QED BY <2>1, <2>4, <2>6, <2>7
<1> HIDE DEF loaded
<1>5. /\ kept \subseteq cache /\ kept \subseteq LiveStages /\ kept \subseteq Stages
      /\ \A s \in kept : s.root \notin Files /\ s.root \in DOMAIN layers
  BY LiveTypes, ActualWorld DEF StageInv, WorldOK
<1>6. new \subseteq Ids /\ new \cap DOMAIN layers = {} /\ new \cap DOMAIN disk = {}
  <2>1. new \subseteq Ids /\ new \cap DOMAIN layers = {}
    BY <1>3, FreshStage
  <2>2. Ids \cap DOMAIN disk = {}
    BY SceneSaveAssumption DEF StageInv, LayersOK, Ids
  <2> QED BY <2>1, <2>2
<1>7. /\ LayersOK(ls, disk)
      /\ DOMAIN ls = Range(loaded) \cup roots \cup DOMAIN disk \cup new
      /\ \A l \in Range(loaded) : ls[l].data \in Range(maxFile.layers)
      /\ \A l \in DOMAIN disk \ roots :
            ls[l].data \in Range(disk) \cup Range(maxFile.layers)
      /\ \A l \in new \ (roots \cup DOMAIN disk) :
            ls[l].data \in {0} \cup Range(maxFile.layers)
  <2>1. roots \subseteq DOMAIN layers
    BY <1>5
  <2> HIDE DEF roots, new, ls
  <2>2. ls = OpenedLayers(loaded, roots, new)
    BY DEF ls
  <2>3. DOMAIN loaded \subseteq DOMAIN maxFile.layers /\ Range(loaded) \subseteq Layers
    BY <1>4
  <2>4. new \subseteq Ids
    BY <1>6
  <2>5. DataOpened(ls, loaded, roots, new)
    BY <2>1, <2>2, <2>3, <2>4, LayersOpened
  <2> QED BY <2>5 DEF DataOpened
<1> HIDE DEF ls, kept
<1>8. /\ DOMAIN objects' = saved
      /\ \A o \in saved : OpenedAs(o, name[o], loaded, objects'[o])
  <2>1. DOMAIN objects' = saved /\ \A o \in saved : objects'[o] = PostLoad(o, name[o], loaded)
    BY <1>1
  <2> QED BY <1>3, <1>4, <2>1, PostLoadOpens
<1>9. ASSUME NEW o \in saved
      PROVE  /\ objects'[o] \in ObjectType
             /\ objects'[o].stage \in Stages /\ objects'[o].stage \notin LiveStages
             /\ objects'[o].stage.id = name[o]
             /\ objects'[o].stage.root \in Range(loaded) \cup DOMAIN disk \cup {name[o]}
             /\ name[o] \in new
  <2>1. OpenedAs(o, name[o], loaded, objects'[o]) /\ name[o] \in Ids \ UsedIds
    BY <1>3, <1>8
  <2>2. /\ objects'[o] \in ObjectType
        /\ objects'[o].stage = [id |-> name[o], root |-> objects'[o].stage.root]
        /\ objects'[o].stage.root \in Range(loaded) \cup DOMAIN disk \cup {name[o]}
    BY <2>1 DEF OpenedAs
  <2>3. objects'[o].stage \in Stages
    BY <2>2 DEF ObjectType
  <2>4. objects'[o].stage \notin LiveStages
    BY <2>1, <2>2, FreshStage
  <2>5. objects'[o].stage.id = name[o]
    BY <2>2
  <2> QED BY <2>2, <2>3, <2>4, <2>5
<1>10. \A o, p \in saved : objects'[o].stage = objects'[p].stage => o = p
  BY <1>3, <1>9
<1>11. /\ map' = [pathToObject |-> saved, stageToObject |-> map'.stageToObject]
       /\ DOMAIN map'.stageToObject = {objects'[o].stage : o \in saved}
       /\ \A o \in saved : map'.stageToObject[objects'[o].stage] = o
  <2>1. map' = [pathToObject |-> saved,
                stageToObject |-> [s \in {objects'[o].stage : o \in saved} |->
                                       CHOOSE o \in saved : objects'[o].stage = s]]
    BY <1>1, <1>8 DEF LoadedMap
  <2>2. \A o \in saved : o = CHOOSE p \in saved : objects'[p].stage = objects'[o].stage
    BY <1>10
  <2>3. map'.stageToObject = [s \in {objects'[o].stage : o \in saved} |->
                                  CHOOSE o \in saved : objects'[o].stage = s]
    BY <2>1
  <2> QED BY <2>1, <2>2, <2>3
<1>12. /\ World' = [objects |-> objects', map |-> map', cache |-> cache']
       /\ World'.objects = objects' /\ World'.map = map' /\ World'.cache = cache'
  BY DEF World
<1>13. WorldOK(World')
  <2>1. saved \subseteq Objects /\ IsFiniteSet(saved)
    BY DEF FileInv, ObjectsOK
  <2>2. objects' \in [saved -> ObjectType]
    BY <1>1, <1>9
  <2>3. cache' \subseteq Stages
    BY <1>1, <1>5, <1>9
  <2>4. \A s \in DOMAIN map'.stageToObject : map'.stageToObject[s] \in saved
    BY <1>11
  <2>5. \A s \in cache' : s.root \in Files => \E o \in saved : s = objects'[o].stage
    BY <1>1, <1>5
  <2>6. map' = [pathToObject |-> map'.pathToObject, stageToObject |-> map'.stageToObject]
    BY <1>11
  <2> HIDE DEF saved
  <2> QED BY <1>8, <1>12, <2>1, <2>2, <2>3, <2>4, <2>5, <2>6 DEF WorldOK
<1>14. Registry(World')
  <2>1. map'.pathToObject = saved
    BY <1>11
  <2> QED BY <1>8, <1>11, <1>12, <2>1 DEF Registry
<1>15. RecordsOK' /\ Records' = {}
  BY <1>1, EmptySeq, SceneSaveAssumption DEF RecordsOK, Records, Range
<1>16. Apart(World', Records')
  <2>1. \A o, s : Claims(World', Records', o, s) <=> s = objects'[o].stage
    BY <1>12, <1>15 DEF Claims
  <2> QED BY <1>8, <1>10, <1>12, <2>1 DEF Apart
<1>17. LiveStages' = kept \cup {objects'[o].stage : o \in saved}
  <2>1. Range(undo') \cup Range(redo') = {}
    BY <1>15 DEF Records
  <2>2. LiveStages' = cache' \cup {objects'[o].stage : o \in DOMAIN objects'}
    BY <2>1 DEF LiveStages
  <2> QED BY <1>1, <1>8, <2>2
<1>18. \A s \in LiveStages' : s.root \in DOMAIN ls
  BY <1>7, <1>9, <1>17
<1>19. LayersOK(layers', disk') /\ DOMAIN layers' = {s.root : s \in LiveStages'}
  <2>1. LayersOK(ls, disk')
    BY <1>1, <1>7
  <2> QED BY <1>1, <1>18, <2>1, LayersKept
<1>20. ASSUME NEW o \in DOMAIN objects'
       PROVE  layers'[Root(o)'].data \in {0} \cup Range(disk') \cup Range(maxFile'.layers)
  <2> DEFINE root == objects'[o].stage.root
  <2>1. Root(o)' = root
    BY DEF Root
  <2>2. root \in Range(loaded) \cup DOMAIN disk \cup new
    BY <1>8, <1>9
  <2>3. root \in DOMAIN layers' /\ layers'[root] = ls[root]
    <3>1. objects'[o].stage \in LiveStages'
      BY DEF LiveStages
    <3> QED BY <1>1, <3>1 DEF KeepLive, Restrict
  <2>4. \A l \in roots : l \notin DOMAIN disk /\ l \notin new
    <3>1. DOMAIN disk \subseteq Files
      BY DEF StageInv, LayersOK
    <3> QED BY <1>5, <1>6, <3>1
  <2> HIDE DEF root, roots, new
  <2>5. CASE root \in Range(loaded)
    BY <1>1, <1>7, <2>1, <2>3, <2>5
  <2>6. CASE root \in DOMAIN disk
    BY <1>1, <1>7, <2>1, <2>3, <2>4, <2>6
  <2>7. CASE root \in new /\ root \notin DOMAIN disk
    BY <1>1, <1>7, <2>1, <2>3, <2>4, <2>7
  <2> QED BY <2>2, <2>5, <2>6, <2>7
<1>21. StageInv'
  BY <1>13, <1>15, <1>19 DEF StageInv
<1>22. ApartInv'
  BY <1>14, <1>16 DEF ApartInv
<1> QED BY <1>20, <1>21, <1>22

-----------------------------------------------------------------------------
(* The scene file. *)

(* An object is written as it is, but for a flag. *)
LEMMA ObjectWritten ==
    ASSUME StageInv, NEW o \in DOMAIN objects, NEW written, ObjectsOK(written)
    PROVE  ObjectsOK(With(written, o, [objects[o] EXCEPT !.interruptSave = FALSE]))
<1> DEFINE object == [objects[o] EXCEPT !.interruptSave = FALSE]
<1>1. object \in ObjectType
  BY ActualWorld DEF ObjectType
<1>2. o \in Objects
  BY ActualWorld DEF WorldOK
<1>3. IsFiniteSet(DOMAIN written \cup {o})
  BY FS_AddElement DEF ObjectsOK
<1> HIDE DEF object
<1>4. /\ DOMAIN With(written, o, object) = DOMAIN written \cup {o}
      /\ With(written, o, object) \in [DOMAIN written \cup {o} -> ObjectType]
  BY <1>1 DEF With, ObjectsOK
<1>5. DOMAIN written \cup {o} \subseteq Objects
  BY <1>2 DEF ObjectsOK
<1> QED BY <1>3, <1>4, <1>5 DEF ObjectsOK, object

(* Where a step leaves the scene file and what is written alone. *)
LEMMA FileStays ==
    ASSUME FileInv, maxFile' = maxFile,
           saving' # NoSave => saving # NoSave /\ saving'.written = saving.written
    PROVE  FileInv'
BY DEF FileInv

(* Every step of a save keeps the types of the scene file. *)
LEMMA FileStep ==
    ASSUME TypeInv, Next
    PROVE  FileInv'
<1> USE DEF TypeInv
<1>1. ASSUME saving' = NoSave, maxFile' = maxFile PROVE FileInv'
  BY <1>1, FileStays
<1>2. CASE UserEdit \/ FilePostSave \/ NeedSaveRequest \/ FileOpen
  BY <1>1, <1>2 DEF UserEdit, SceneEdit, Request, FilePostSave, NeedSaveRequest, FileOpen
<1>3. ASSUME NEW mode \in SaveModes, SetSaveMode(mode) PROVE FileInv'
  BY <1>1, <1>3 DEF SetSaveMode, Request
<1>4. ASSUME NEW auto, NEW quiet, FilePreSave(auto, quiet) PROVE FileInv'
  <2>1. saving'.written = << >> /\ maxFile' = maxFile
    BY <1>4 DEF FilePreSave
  <2>2. ObjectsOK(<< >>)
    BY FS_EmptySet DEF ObjectsOK
  <2> QED BY <2>1, <2>2 DEF FileInv
<1>5. ASSUME NEW o \in Objects, SpecifySaveReferences(o) PROVE FileInv'
  <2>1. saving # NoSave /\ maxFile' = maxFile
    BY <1>5 DEF SpecifySaveReferences, NoSave
  <2>2. saving = [f \in SaveFields |-> saving[f]]
    BY <2>1 DEF SaveInv, PromptInv, SavingInv
  <2>3. Proceeds(o) \/ Prompted(o) \/ Interrupts(o)
    BY <1>5 DEF SpecifySaveReferences, NoPrompt, CancelSave, KeepEdits, SaveAll
  <2>4. saving'.written = saving.written
    BY <2>2, <2>3 DEF Proceeds, Prompted, Interrupts, SaveFields
  <2> QED BY <2>1, <2>4, FileStays
<1>6. ASSUME NEW o \in Objects, SaveObject(o) PROVE FileInv'
  <2>1. saving # NoSave /\ maxFile' = maxFile /\ o \in DOMAIN objects
    BY <1>6 DEF SaveObject, Write, InterruptWrite, MayWrite, NoSave, InScene
  <2>2. saving = [f \in SaveFields |-> saving[f]]
    BY <2>1 DEF SaveInv, PromptInv, SavingInv
  <2>3. CASE Write(o)
    <3>1. saving'.written = With(saving.written, o, [objects[o] EXCEPT !.interruptSave = FALSE])
      BY <2>2, <2>3 DEF Write, SaveFields
    <3>2. ObjectsOK(saving.written)
      BY <2>1 DEF FileInv
    <3>3. ObjectsOK(saving'.written)
      BY <2>1, <3>1, <3>2, ObjectWritten
    <3> QED BY <2>1, <3>3 DEF FileInv
  <2>4. CASE InterruptWrite(o)
    <3>1. saving'.written = saving.written
      BY <2>2, <2>4 DEF InterruptWrite, SaveFields
    <3> QED BY <2>1, <3>1, FileStays
  <2> QED BY <1>6, <2>3, <2>4 DEF SaveObject
<1>7. CASE SaveClassData
  <2>1. saving # NoSave
    BY <1>7 DEF SaveClassData, NoSave
  <2>2. saving = [f \in SaveFields |-> saving[f]]
    BY <2>1 DEF SaveInv, PromptInv, SavingInv
  <2>3. saving'.written = saving.written
    BY <1>7, <2>2 DEF SaveClassData, SaveFields
  <2>4. CASE saving.auto
    BY <1>7, <2>1, <2>3, <2>4, FileStays DEF SaveClassData
  <2>5. CASE ~ saving.auto
    <3> DEFINE kept == IF manager.saveMode = "SaveAllEditsMax"
                       THEN [l \in {d[2] : d \in GetDirtyLayersToSave} |-> layers[l].data]
                       ELSE << >>
    <3>1. maxFile' = [objects |-> saving.written, layers |-> kept]
      BY <1>7, <2>5 DEF SaveClassData
    <3>2. \A l \in {d[2] : d \in GetDirtyLayersToSave} :
             l \in DOMAIN layers /\ l \in Layers /\ layers[l].data \in 0 .. MaxRequests
      BY DirtyLayers DEF StageInv, LayersOK
    <3>3. DOMAIN kept \subseteq Layers /\ kept \in [DOMAIN kept -> 0 .. MaxRequests]
      <4>1. CASE manager.saveMode = "SaveAllEditsMax"
        BY <3>2, <4>1
      <4>2. CASE manager.saveMode # "SaveAllEditsMax"
        BY <4>2
      <4> QED BY <4>1, <4>2
    <3> HIDE DEF kept
    <3>4. ObjectsOK(saving.written)
      BY <2>1 DEF FileInv
    <3> QED BY <2>3, <3>1, <3>3, <3>4 DEF FileInv
  <2> QED BY <2>4, <2>5
<1> QED BY <1>2, <1>3, <1>4, <1>5, <1>6, <1>7 DEF Next

(* The counter stays within its bound, the flags stay flags. *)
LEMMA FlagsStep ==
    ASSUME TypeInv, Next
    PROVE  FlagsOK'
<1> USE DEF TypeInv, FlagsOK
<1>1. Request => requests' \in 0 .. MaxRequests
  BY SceneSaveAssumption DEF Request
<1>2. CASE UserEdit
  BY <1>1, <1>2 DEF UserEdit, SceneEdit
<1>3. ASSUME NEW auto, NEW quiet, FilePreSave(auto, quiet) PROVE FlagsOK'
  BY <1>1, <1>3 DEF FilePreSave
<1>4. ASSUME NEW o, SpecifySaveReferences(o) \/ SaveObject(o) PROVE FlagsOK'
  BY <1>4 DEF SpecifySaveReferences, SaveObject
<1>5. CASE SaveClassData
  BY <1>5 DEF SaveClassData
<1>6. CASE FilePostSave
  BY <1>6 DEF FilePostSave
<1>7. CASE NeedSaveRequest
  BY <1>7 DEF NeedSaveRequest
<1>8. ASSUME NEW mode, SetSaveMode(mode) PROVE FlagsOK'
  BY <1>1, <1>8 DEF SetSaveMode
<1>9. CASE FileOpen
  BY <1>1, <1>9 DEF FileOpen
<1> QED BY <1>2, <1>3, <1>4, <1>5, <1>6, <1>7, <1>8, <1>9 DEF Next

(* The steps that touch no stage. *)
LEMMA StagesStay ==
    ASSUME StageInv, UNCHANGED stageVars
    PROVE  StagesKept
<1>1. UNCHANGED <<objects, map, cache, layers, disk, undo, redo>>
  BY DEF stageVars
<1>2. /\ World' = World /\ Records' = Records /\ LiveStages' = LiveStages
      /\ RecordsOK'
  BY <1>1, ActualWorld DEF World, Records, LiveStages, RecordsOK
<1> QED BY <1>1, <1>2 DEF StagesKept, StageInv, ApartInv

(* Every step keeps the types; and the claims apart, if no stage is given to two objects. *)
LEMMA StageStep ==
    ASSUME TypeInv, [Next]_vars
    PROVE  TypeInv' /\ (~ Sharing /\ ApartInv => ApartInv')
<1> USE DEF TypeInv
<1>1. SaveInv'
  BY SaveStep
<1>2. FileInv' /\ FlagsOK'
  <2>1. CASE Next
    BY <2>1, FileStep, FlagsStep
  <2>2. CASE UNCHANGED vars
    <3>1. UNCHANGED <<saving, maxFile, requests, saveRequired, posted>>
      BY <2>2 DEF vars, saveVars
    <3> QED BY <3>1, FileStays DEF FlagsOK
  <2> QED BY <2>1, <2>2
<1>3. ASSUME UserEdit PROVE StageInv' /\ (~ Sharing /\ ApartInv => ApartInv')
  BY <1>3, UserEditKeeps
<1>4. ASSUME FileOpen PROVE StageInv' /\ (~ Sharing /\ ApartInv => ApartInv')
  BY <1>4, OpenKeeps
<1>5. ASSUME NEW o \in Objects, SpecifySaveReferences(o) \/ SaveObject(o)
      PROVE  StagesKept
  <2>1. saving.phase = "references"
    BY <1>5 DEF SpecifySaveReferences, SaveObject, Write, InterruptWrite, MayWrite
  <2>2. saving # NoSave
    BY <2>1 DEF NoSave
  <2>3. saving.refs \subseteq InScene
    BY <2>1, <2>2 DEF SaveInv, CancelInv
  <2> QED BY <1>5, <2>3, SavingKeeps
<1>6. ASSUME UNCHANGED stageVars PROVE StagesKept
  BY <1>6, StagesStay
<1>7. ASSUME NEW auto, NEW quiet, FilePreSave(auto, quiet) PROVE UNCHANGED stageVars
  BY <1>7 DEF FilePreSave
<1>8. ASSUME SaveClassData \/ FilePostSave \/ NeedSaveRequest \/ UNCHANGED vars
      PROVE  UNCHANGED stageVars
  BY <1>8 DEF SaveClassData, FilePostSave, NeedSaveRequest, vars
<1>9. ASSUME NEW mode, SetSaveMode(mode) PROVE UNCHANGED stageVars
  BY <1>9 DEF SetSaveMode
<1>10. StageInv' /\ (~ Sharing /\ ApartInv => ApartInv')
  BY <1>3, <1>4, <1>5, <1>6, <1>7, <1>8, <1>9 DEF Next, StagesKept
<1> QED BY <1>1, <1>2, <1>10

(* When a save ends and nothing is posted, the save found no dirty layer: then the registry, which *)
(* knows every object, says that each root is a file and holds what is in it.                      *)
LEMMA PostSaveKeeps ==
    ASSUME TypeInv, ApartInv, FilePostSave
    PROVE  EditsAreKept'
<1>1. /\ UNCHANGED <<objects, map, cache, layers, disk, undo, redo>> /\ maxFile' = maxFile
      /\ posted' = (posted \/ GetDirtyLayersToSave # {})
  BY DEF FilePostSave, stageVars
<1>2. ASSUME ~ posted', NEW o \in InScene
      PROVE  layers[Root(o)].data \in Range(disk)
  <2>1. o \in DOMAIN objects /\ objects[o].inScene
    BY DEF InScene
  <2>2. /\ objects[o].stage \in DOMAIN map.stageToObject
        /\ map.stageToObject[objects[o].stage] = o
    BY <2>1, ActualWorld DEF ApartInv, Registry, World
  <2>3. o \in GetAllStageObjects(map)
    BY <2>2 DEF GetAllStageObjects, Range
  <2>4. GetDirtyLayersToSave = {} /\ posted \in BOOLEAN
    BY <1>1, <1>2 DEF TypeInv, FlagsOK
  <2>5. ~ (layers[Root(o)].dirty \/ IsAnonymous(Root(o)))
    BY <2>1, <2>3, <2>4 DEF GetDirtyLayersToSave
  <2>6. Root(o) \in DOMAIN layers
    BY <2>1, LiveTypes DEF TypeInv
  <2>7. Root(o) \in DOMAIN disk /\ layers[Root(o)].data = disk[Root(o)]
    BY <2>5, <2>6 DEF TypeInv, StageInv, LayersOK
  <2> QED BY <2>7 DEF Range
<1>3. InScene' = InScene /\ \A o : Root(o)' = Root(o)
  BY <1>1 DEF InScene, Root
<1> QED BY <1>1, <1>2, <1>3 DEF EditsAreKept

(* Every step keeps what the theorem says. *)
LEMMA KeptStep ==
    ASSUME ~ Sharing, KeptInv, [Next]_vars
    PROVE  KeptInv'
<1> USE DEF KeptInv
<1>1. TypeInv' /\ ApartInv'
  BY StageStep
<1>2. ASSUME UserEdit \/ NeedSaveRequest PROVE EditsAreKept'
  BY <1>2 DEF UserEdit, SceneEdit, NeedSaveRequest, EditsAreKept
<1>3. ASSUME FilePostSave PROVE EditsAreKept'
  BY <1>3, PostSaveKeeps
<1>4. ASSUME FileOpen PROVE EditsAreKept'
  BY <1>4, OpenKeeps DEF TypeInv, EditsAreKept, InScene
<1>5. ASSUME UNCHANGED <<stageVars, saving, posted, saveRequired, maxFile>>
      PROVE  EditsAreKept'
  BY <1>5 DEF stageVars, EditsAreKept, InScene, Root
<1>6. ASSUME NEW mode, SetSaveMode(mode) PROVE EditsAreKept'
  BY <1>5, <1>6 DEF SetSaveMode
<1>7. ASSUME UNCHANGED vars PROVE EditsAreKept'
  BY <1>5, <1>7 DEF vars, saveVars
<1>8. ASSUME saving' # NoSave PROVE EditsAreKept'
  BY <1>8 DEF EditsAreKept
<1>9. ASSUME NEW o \in Objects, SpecifySaveReferences(o) \/ SaveObject(o) PROVE saving' # NoSave
  <2>1. saving # NoSave
    BY <1>9 DEF SpecifySaveReferences, SaveObject, Write, InterruptWrite, MayWrite, NoSave
  <2>2. saving = [f \in SaveFields |-> saving[f]] /\ saving.phase # "idle"
    BY <2>1 DEF TypeInv, SaveInv, PromptInv, SavingInv
  <2>3. saving'.phase \in {saving.phase, "interrupted"}
    BY <1>9, <2>2 DEF SpecifySaveReferences, NoPrompt, CancelSave, KeepEdits, SaveAll, Proceeds,
                      Prompted, Interrupts, SaveObject, Write, InterruptWrite, SaveFields
  <2> QED BY <2>2, <2>3 DEF NoSave
<1>10. ASSUME SaveClassData PROVE EditsAreKept'
  <2>1. saving # NoSave
    BY <1>10 DEF SaveClassData, NoSave
  <2>2. saving = [f \in SaveFields |-> saving[f]]
    BY <2>1 DEF TypeInv, SaveInv, PromptInv, SavingInv
  <2>3. saving'.phase = "saved"
    BY <1>10, <2>2 DEF SaveClassData, SaveFields
  <2> QED BY <2>3, <1>8 DEF NoSave
<1>11. ASSUME NEW auto, NEW quiet, FilePreSave(auto, quiet) PROVE saving' # NoSave
  BY <1>11 DEF FilePreSave, NoSave
<1>12. EditsAreKept'
  BY <1>2, <1>3, <1>4, <1>6, <1>7, <1>8, <1>9, <1>10, <1>11 DEF Next
<1> QED BY <1>1, <1>12

-----------------------------------------------------------------------------
(* The theorems. *)

(* Before the first call there is nothing but files. *)
LEMMA InitKept == Init => KeptInv
<1> SUFFICES ASSUME Init PROVE KeptInv
  OBVIOUS
<1>1. /\ objects = << >> /\ DOMAIN objects = {} /\ cache = {} /\ layers = << >> /\ undo = << >>
      /\ redo = << >> /\ saving = NoSave /\ maxFile = NoFile /\ requests = 0
      /\ saveRequired = FALSE /\ posted = FALSE
      /\ disk = [f \in OnDisk |-> 0] /\ map = [pathToObject |-> {}, stageToObject |-> << >>]
  BY DEF Init, EmptyMap
<1>2. SaveInv
  BY InitSave
<1>3. WorldOK(World) /\ Registry(World)
  <2>1. World = [objects |-> << >>, map |-> map, cache |-> {}]
    BY <1>1 DEF World
  <2> QED BY <1>1, <2>1, FS_EmptySet DEF WorldOK, Registry
<1>4. RecordsOK /\ Records = {}
  BY <1>1, EmptySeq, SceneSaveAssumption DEF RecordsOK, Records, Range
<1>5. Apart(World, Records)
  BY <1>1 DEF Apart, World
<1>6. LayersOK(layers, disk) /\ DOMAIN layers = {s.root : s \in LiveStages}
  <2>1. LiveStages = {}
    BY <1>1, <1>4 DEF LiveStages, Records
  <2>2. LayersOK(layers, disk)
    BY <1>1, SceneSaveAssumption DEF LayersOK
  <2> QED BY <1>1, <2>1, <2>2
<1>7. StageInv
  BY <1>3, <1>4, <1>6 DEF StageInv
<1>8. FileInv
  BY <1>1, FS_EmptySet DEF FileInv, NoFile, ObjectsOK
<1>9. FlagsOK
  <2>1. 0 \in 0 .. MaxRequests
    BY SceneSaveAssumption
  <2> QED BY <1>1, <2>1, Zenon DEF FlagsOK
<1>10. EditsAreKept
  <2>1. InScene = {}
    BY <1>1 DEF InScene
  <2> QED BY <2>1 DEF EditsAreKept
<1> QED BY <1>2, <1>3, <1>5, <1>7, <1>8, <1>9, <1>10 DEF KeptInv, TypeInv, ApartInv

(* Whatever users do with stages, the cache and undo, and however scenes are saved and opened, the *)
(* layers in memory are exactly the roots of the stages that the cache, an object or an undo       *)
(* record keeps alive: no object shows a stage whose layer is gone, and no layer is left behind.   *)
THEOREM StagesAreTyped == Spec => []TypeOK
<1>1. Init => TypeInv
  BY InitKept DEF KeptInv
<1>2. TypeInv /\ [Next]_vars => TypeInv'
  BY StageStep
<1>3. TypeInv => TypeOK
  <2> SUFFICES ASSUME TypeInv PROVE TypeOK
    OBVIOUS
  <2>1. /\ DOMAIN objects \subseteq Objects /\ objects \in [DOMAIN objects -> ObjectType]
        /\ cache \subseteq Stages
    BY ActualWorld DEF TypeInv, WorldOK, World
  <2>2. \A l \in DOMAIN layers : layers[l] \in [data : 0 .. MaxRequests, dirty : BOOLEAN]
    BY DEF TypeInv, StageInv, LayersOK
  <2>3. DOMAIN layers = {s.root : s \in LiveStages} /\ DOMAIN disk \subseteq Files
    BY DEF TypeInv, StageInv, LayersOK
  <2>4. Len(undo) + Len(redo) <= MaxUndo
    BY DEF TypeInv, StageInv, RecordsOK
  <2>5. manager \in [mustHandleSave : BOOLEAN, isAutoSave : BOOLEAN, saveMode : SaveModes]
    BY DEF TypeInv, SaveInv, PromptInv, ManagerOK
  <2> QED BY <2>1, <2>2, <2>3, <2>4, <2>5 DEF TypeInv, FlagsOK, TypeOK, ObjectType
<1> QED BY <1>1, <1>2, <1>3, PTL DEF Spec

(* The invariant of the two theorems below: it needs that no stage is given to a second object. *)
THEOREM EditsInvariant ==
    ASSUME ~ Sharing
    PROVE  Spec => []KeptInv
<1>1. KeptInv /\ [Next]_vars => KeptInv'
  BY KeptStep
<1> QED BY InitKept, <1>1, PTL DEF Spec

(* As long as no stage of one object is given to another, the registry finds each stage object by  *)
(* its path and by its stage, through any number of creations, copies, changes of stage, undos,    *)
(* redos, saves and openings.                                                                      *)
THEOREM EveryStageObjectIsFound ==
    ASSUME ~ Sharing
    PROVE  Spec => []MapFindsEveryStageObject
<1>1. KeptInv => MapFindsEveryStageObject
  <2> SUFFICES ASSUME KeptInv PROVE MapFindsEveryStageObject
    OBVIOUS
  <2>1. /\ map.pathToObject = DOMAIN objects
        /\ \A o \in DOMAIN objects :
              /\ objects[o].stage \in DOMAIN map.stageToObject
              /\ map.stageToObject[objects[o].stage] = o
        /\ \A s \in DOMAIN map.stageToObject : s = objects[map.stageToObject[s]].stage
    BY DEF KeptInv, ApartInv, Registry, World
  <2>2. \A s \in DOMAIN map.stageToObject : map.stageToObject[s] \in DOMAIN objects
    BY ActualWorld DEF KeptInv, TypeInv, WorldOK, World
  <2>3. DOMAIN map.stageToObject = {objects[o].stage : o \in DOMAIN objects}
    BY <2>1, <2>2
  <2>4. GetAllStageObjects(map) = DOMAIN objects
    <3>1. \A o \in DOMAIN objects : \E s \in DOMAIN map.stageToObject : o = map.stageToObject[s]
      BY <2>1
    <3> QED BY <2>2, <3>1 DEF GetAllStageObjects, Range
  <2> QED BY <2>1, <2>3, <2>4 DEF MapFindsEveryStageObject
<1> QED BY EditsInvariant, <1>1, PTL

(* No edit is lost silently: whenever 3ds Max takes the scene for saved and no task is waiting to   *)
(* say otherwise, what each stage of the scene shows is in a file or in the scene file, for every   *)
(* number of objects, files and requests, every save mode, every answer to the prompts and every    *)
(* write that failed - as long as no stage is shared; run SharedStage shows what happens if one is. *)
THEOREM NoEditIsLostSilently ==
    ASSUME ~ Sharing
    PROVE  Spec => []EditsAreKept
<1>1. KeptInv => EditsAreKept
  BY DEF KeptInv
<1> QED BY EditsInvariant, <1>1, PTL

-----------------------------------------------------------------------------
(* What a load restores. *)

(* The parameters of an object lead to a root: its file, which is on disk, or *)
(* the anonymous root by its name, unless the object has lost the name.       *)
LeadTo(d, stage, file, anonRootId) ==
    IF stage.root \in Files
    THEN file = stage.root /\ file \in d
    ELSE file = None /\ anonRootId \in {None, stage.root}

ParametersLead(objs, d) ==
    \A o \in DOMAIN objs : objs[o].own =>
        LeadTo(d, objs[o].stage, objs[o].file, objs[o].anonRootId)

(* So they will after an undo, and after a redo. *)
UndoLeads(objs, d, r) ==
    objs[r.object].own =>
        /\ LeadTo(d, r.oldStage, r.oldFile, objs[r.object].anonRootId)
        /\ r.newFile \in Files
RedoLeads(objs, d, r) ==
    objs[r.object].own => LeadTo(d, r.newStage, r.newFile, objs[r.object].anonRootId)

RecordsLead(objs, d, u, re) ==
    /\ \A i \in 1 .. Len(u) : UndoLeads(objs, d, u[i])
    /\ \A i \in 1 .. Len(re) : UndoLeads(objs, d, re[i]) /\ RedoLeads(objs, d, re[i])

(* The records of an object on a stack: the last one, and one and the next. *)
IsLast(q, i) == \A k \in i + 1 .. Len(q) : q[k].object # q[i].object
Follows(q, i, j) ==
    /\ q[j].object = q[i].object
    /\ \A k \in i + 1 .. j - 1 : q[k].object # q[i].object

(* An object has the file that the last change gave it, which was the old file *)
(* of the next change.                                                         *)
UndoChained(objs, u) ==
    \A i \in 1 .. Len(u) : objs[u[i].object].own =>
        /\ objs[u[i].object].file \in Files
        /\ IsLast(u, i) => objs[u[i].object].file = u[i].newFile
        /\ \A j \in i + 1 .. Len(u) : u[j].object = u[i].object =>
              /\ u[j].oldFile \in Files
              /\ Follows(u, i, j) => u[j].oldFile = u[i].newFile

RedoChained(objs, u, re) ==
    \A i \in 1 .. Len(re) : objs[re[i].object].own =>
        /\ IsLast(re, i) /\ (\E k \in 1 .. Len(u) : u[k].object = re[i].object) =>
              re[i].oldFile = objs[re[i].object].file
        /\ \A j \in i + 1 .. Len(re) : Follows(re, i, j) => re[i].oldFile = re[j].newFile

HistoryOK(objs, d, u, re) ==
    /\ RecordsLead(objs, d, u, re)
    /\ UndoChained(objs, u)
    /\ RedoChained(objs, u, re)

(* No other object has the name of an own object's anonymous root, nor a claim to  *)
(* a stage on it.                                                                  *)
RootsOwn(w, records) ==
    \A o, p \in DOMAIN w.objects :
        w.objects[o].own /\ w.objects[o].anonRootId # None /\ p # o =>
            /\ w.objects[p].anonRootId # w.objects[o].anonRootId
            /\ \A s \in Stages :
                  Claims(w, records, p, s) => s.root # w.objects[o].anonRootId

(* A stage of the cache that nobody shows is on no root that an object knows. *)
CacheRight(w, objs) ==
    \A s \in w.cache :
        (\A o \in DOMAIN w.objects : s # w.objects[o].stage) =>
            /\ \A o \in DOMAIN w.objects : s.root # w.objects[o].anonRootId
            /\ \A o \in DOMAIN objs : s.root # objs[o].anonRootId

(* What a stage has open is on disk. *)
FilesOnDisk == \A s \in LiveStages : s.root \in Files => s.root \in DOMAIN disk

(* The same of the objects of the scene file, whose layers are their roots. *)
FileRight(objs, ls, d) ==
    /\ ParametersLead(objs, d)
    /\ \A o, p \in DOMAIN objs :
          objs[o].own /\ objs[o].anonRootId # None /\ p # o =>
              objs[o].anonRootId \notin {objs[p].anonRootId, objs[p].stage.root}
    /\ ls \subseteq {objs[o].stage.root : o \in DOMAIN objs}

(* Nothing changes between the first write of a save and the last one. *)
WrittenRight ==
    saving # NoSave /\ saving.phase = "references" =>
        \A o \in DOMAIN saving.written :
            /\ o \in DOMAIN objects
            /\ saving.written[o] = [objects[o] EXCEPT !.interruptSave = FALSE]

LeadInv ==
    /\ ParametersLead(objects, DOMAIN disk)
    /\ HistoryOK(objects, DOMAIN disk, undo, redo)
    /\ RootsOwn(World, Records)
    /\ CacheRight(World, maxFile.objects)
    /\ FilesOnDisk

ScenesLead == FileRight(maxFile.objects, DOMAIN maxFile.layers, DOMAIN disk)

LoadInv == LeadInv /\ ScenesLead /\ WrittenRight

-----------------------------------------------------------------------------
(* The records of undo and redo. *)

(* More files are no harm, nor is a name that is lost. *)
LEMMA LeadStill ==
    ASSUME NEW d, NEW e, d \subseteq e, NEW stage, NEW file, NEW x, NEW y \in {x, None},
           LeadTo(d, stage, file, x)
    PROVE  LeadTo(e, stage, file, y)
BY DEF LeadTo

(* Objects that are no longer their own do not matter, nor does the file of one *)
(* that has nothing to undo.                                                    *)
ChangedFor(a, b, o) ==
    b[o].own =>
        /\ a[o].own
        /\ b[o].anonRootId \in {a[o].anonRootId, None}
        /\ b[o].file = a[o].file \/ a[o].file \notin Files

LEMMA HistoryStays ==
    ASSUME NEW a, NEW b, NEW d, NEW e, d \subseteq e, NEW u, NEW re, HistoryOK(a, d, u, re),
           \A i \in 1 .. Len(u) : ChangedFor(a, b, u[i].object),
           \A i \in 1 .. Len(re) : ChangedFor(a, b, re[i].object)
    PROVE  HistoryOK(b, e, u, re)
<1>1. RecordsLead(b, e, u, re)
  <2>1. ASSUME NEW r, ChangedFor(a, b, r.object), UndoLeads(a, d, r)
        PROVE  UndoLeads(b, e, r)
    BY <2>1, LeadStill DEF ChangedFor, UndoLeads
  <2>2. ASSUME NEW r, ChangedFor(a, b, r.object), RedoLeads(a, d, r)
        PROVE  RedoLeads(b, e, r)
    BY <2>2, LeadStill DEF ChangedFor, RedoLeads
  <2> QED BY <2>1, <2>2 DEF HistoryOK, RecordsLead
<1>2. UndoChained(b, u)
  <2> SUFFICES ASSUME NEW i \in 1 .. Len(u), b[u[i].object].own
               PROVE  /\ b[u[i].object].file \in Files
                      /\ b[u[i].object].file = a[u[i].object].file
                      /\ a[u[i].object].own
    BY DEF HistoryOK, UndoChained
  <2>1. a[u[i].object].own /\ a[u[i].object].file \in Files
    BY DEF ChangedFor, HistoryOK, UndoChained
  <2> QED BY <2>1 DEF ChangedFor
<1>3. RedoChained(b, u, re)
  <2> SUFFICES ASSUME NEW i \in 1 .. Len(re), b[re[i].object].own
               PROVE  /\ a[re[i].object].own
                      /\ (\E k \in 1 .. Len(u) : u[k].object = re[i].object) =>
                            b[re[i].object].file = a[re[i].object].file
    BY DEF HistoryOK, RedoChained
  <2>1. a[re[i].object].own
    BY DEF ChangedFor
  <2>2. ASSUME NEW k \in 1 .. Len(u), u[k].object = re[i].object
        PROVE  a[re[i].object].file \in Files
    BY <2>1, <2>2 DEF HistoryOK, UndoChained
  <2> QED BY <2>1, <2>2 DEF ChangedFor
<1> QED BY <1>1, <1>2, <1>3 DEF HistoryOK

(* The oldest record may be forgotten, and what was undone. *)
LEMMA HistoryForgets ==
    ASSUME NEW S, NEW u \in Seq(S), u # << >>, NEW a, NEW d, NEW re, HistoryOK(a, d, u, re)
    PROVE  HistoryOK(a, d, Tail(u), << >>)
<1> DEFINE t == Tail(u)
<1>1. /\ Len(u) \in Nat \ {0} /\ Len(t) = Len(u) - 1
      /\ \A i \in 1 .. Len(t) : t[i] = u[i + 1]
  BY EmptySeq, LenProperties, HeadTailProperties
<1> HIDE DEF t
<1>2. Len(<< >>) = 0
  BY EmptySeq
<1>3. RecordsLead(a, d, t, << >>) /\ RedoChained(a, t, << >>)
  BY <1>1, <1>2 DEF HistoryOK, RecordsLead, RedoChained
<1>4. UndoChained(a, t)
  <2> SUFFICES ASSUME NEW i \in 1 .. Len(t), a[t[i].object].own
               PROVE  /\ a[t[i].object].file \in Files
                      /\ IsLast(t, i) => a[t[i].object].file = t[i].newFile
                      /\ \A j \in i + 1 .. Len(t) : t[j].object = t[i].object =>
                            /\ t[j].oldFile \in Files
                            /\ Follows(t, i, j) => t[j].oldFile = t[i].newFile
    BY DEF UndoChained
  <2>1. t[i] = u[i + 1] /\ i + 1 \in 1 .. Len(u)
    BY <1>1
  <2>2. IsLast(t, i) => IsLast(u, i + 1)
    <3> SUFFICES ASSUME IsLast(t, i), NEW k \in (i + 1) + 1 .. Len(u)
                 PROVE  u[k].object # u[i + 1].object
      BY DEF IsLast
    <3>1. k - 1 \in i + 1 .. Len(t) /\ k - 1 \in 1 .. Len(t) /\ (k - 1) + 1 = k
      BY <1>1
    <3>2. t[k - 1] = u[k]
      BY <1>1, <3>1
    <3> QED BY <2>1, <3>1, <3>2 DEF IsLast
  <2>3. ASSUME NEW j \in i + 1 .. Len(t), t[j].object = t[i].object
        PROVE  /\ t[j].oldFile \in Files
               /\ Follows(t, i, j) => t[j].oldFile = t[i].newFile
    <3>1. t[j] = u[j + 1] /\ j + 1 \in (i + 1) + 1 .. Len(u)
      BY <1>1
    <3>2. Follows(t, i, j) => Follows(u, i + 1, j + 1)
      <4> SUFFICES ASSUME Follows(t, i, j), NEW k \in (i + 1) + 1 .. (j + 1) - 1
                   PROVE  u[k].object # u[i + 1].object
        BY <2>1, <3>1 DEF Follows
      <4>1. k - 1 \in i + 1 .. j - 1 /\ k - 1 \in 1 .. Len(t) /\ (k - 1) + 1 = k
        BY <1>1
      <4>2. t[k - 1] = u[k]
        BY <1>1, <4>1
      <4> QED BY <2>1, <4>1, <4>2 DEF Follows
    <3> QED BY <2>1, <2>3, <3>1, <3>2 DEF HistoryOK, UndoChained
  <2>4. a[u[i + 1].object].own
    BY <2>1
  <2> QED BY <2>1, <2>2, <2>3, <2>4 DEF HistoryOK, UndoChained
<1> QED BY <1>3, <1>4 DEF HistoryOK, t

(* The elements of a longer and of a shorter sequence. *)
LEMMA AppendedAt ==
    ASSUME NEW S, NEW seq \in Seq(S), NEW e \in S
    PROVE  /\ Len(seq) \in Nat /\ Len(Append(seq, e)) = Len(seq) + 1
           /\ \A i \in 1 .. Len(seq) : Append(seq, e)[i] = seq[i]
           /\ Append(seq, e)[Len(seq) + 1] = e
BY AppendProperties, LenProperties

LEMMA FrontAt ==
    ASSUME NEW S, NEW seq \in Seq(S), seq # << >>
    PROVE  /\ Len(seq) \in Nat \ {0} /\ Len(Front(seq)) = Len(seq) - 1
           /\ \A i \in 1 .. Len(seq) - 1 : Front(seq)[i] = seq[i]
           /\ Last(seq) = seq[Len(seq)]
<1>1. Len(seq) \in Nat \ {0} /\ DOMAIN seq = 1 .. Len(seq)
  BY EmptySeq, LenProperties
<1>2. \A i \in 1 .. Len(seq) - 1 : seq[i] \in S
  BY <1>1, ElementOfSeq
<1>3. /\ Front(seq) \in Seq(S) /\ Len(Front(seq)) = Len(seq) - 1
      /\ \A i \in 1 .. Len(seq) - 1 : Front(seq)[i] = seq[i]
  BY <1>1, <1>2, SubSeqProperties DEF Front
<1> QED BY <1>1, <1>3 DEF Last

(* The records of a stack are about these objects. *)
About(u, D) == \A i \in 1 .. Len(u) : u[i].object \in D

(* Of these, only x gets another file, and an object that is its own was its own. *)
OnlyChanges(D, a, b, x) ==
    \A y \in D : b[y].own => a[y].own /\ (y # x => b[y].file = a[y].file)

(* A record that leads on from the file the object has may follow on a stack. *)
LEMMA UndoChainGrows ==
    ASSUME NEW S, NEW u \in Seq(S), NEW r \in S, NEW a, NEW b, UndoChained(a, u),
           NEW D, r.object \in D, About(u, D), OnlyChanges(D, a, b, r.object),
           b[r.object].own =>
               /\ b[r.object].file = r.newFile /\ r.newFile \in Files
               /\ \A i \in 1 .. Len(u) :
                     u[i].object = r.object => r.oldFile = a[r.object].file
    PROVE  UndoChained(b, Append(u, r))
<1> DEFINE t == Append(u, r)
           n == Len(u)
<1>1. /\ n \in Nat /\ Len(t) = n + 1
      /\ \A i \in 1 .. n : t[i] = u[i] /\ u[i].object \in D
      /\ t[n + 1] = r
  BY AppendedAt DEF About
<1> HIDE DEF t, n
<1> SUFFICES ASSUME NEW i \in 1 .. n + 1, b[t[i].object].own
             PROVE  /\ b[t[i].object].file \in Files
                    /\ IsLast(t, i) => b[t[i].object].file = t[i].newFile
                    /\ \A j \in i + 1 .. n + 1 : t[j].object = t[i].object =>
                          /\ t[j].oldFile \in Files
                          /\ Follows(t, i, j) => t[j].oldFile = t[i].newFile
  BY <1>1 DEF UndoChained, t
<1>2. CASE i = n + 1
  BY <1>1, <1>2
<1>3. CASE i \in 1 .. n
  <2>1. t[i] = u[i] /\ u[i].object \in D /\ a[u[i].object].own
    BY <1>1, <1>3 DEF OnlyChanges
  <2>2. /\ a[u[i].object].file \in Files
        /\ IsLast(u, i) => a[u[i].object].file = u[i].newFile
        /\ \A j \in i + 1 .. n : u[j].object = u[i].object =>
              /\ u[j].oldFile \in Files
              /\ Follows(u, i, j) => u[j].oldFile = u[i].newFile
    BY <1>3, <2>1 DEF UndoChained, n
  <2>3. b[t[i].object].file \in Files
    BY <1>3, <2>1, <2>2 DEF OnlyChanges
  <2>4. IsLast(t, i) => u[i].object # r.object /\ IsLast(u, i)
    BY <1>1, <1>3, <2>1 DEF IsLast, n
  <2>5. IsLast(t, i) => b[t[i].object].file = t[i].newFile
    BY <2>1, <2>2, <2>4 DEF OnlyChanges
  <2>6. ASSUME NEW j \in i + 1 .. n + 1, t[j].object = t[i].object
        PROVE  /\ t[j].oldFile \in Files
               /\ Follows(t, i, j) => t[j].oldFile = t[i].newFile
    <3>1. CASE j = n + 1
      <4>1. r.object = u[i].object /\ t[j] = r
        BY <1>1, <2>1, <2>6, <3>1
      <4>2. r.oldFile = a[u[i].object].file
        BY <1>3, <2>1, <4>1 DEF n
      <4>3. Follows(t, i, j) => IsLast(u, i)
        BY <1>1, <1>3, <2>1, <3>1 DEF Follows, IsLast, n
      <4> QED BY <2>1, <2>2, <4>1, <4>2, <4>3
    <3>2. CASE j \in i + 1 .. n
      <4>1. t[j] = u[j]
        BY <1>1, <1>3, <3>2
      <4>2. Follows(t, i, j) => Follows(u, i, j)
        BY <1>1, <1>3, <2>1, <3>2, <4>1 DEF Follows
      <4> QED BY <2>1, <2>2, <2>6, <3>2, <4>1, <4>2
    <3> QED BY <1>1, <3>1, <3>2
  <2> QED BY <2>3, <2>5, <2>6
<1> QED BY <1>1, <1>2, <1>3

(* The last record may be taken off, if its object gets its old file back. *)
LEMMA UndoChainShrinks ==
    ASSUME NEW S, NEW u \in Seq(S), u # << >>, NEW r, r = Last(u), NEW a, NEW b,
           UndoChained(a, u), NEW D, r.object \in D, About(u, D),
           OnlyChanges(D, a, b, r.object), b[r.object].file = r.oldFile
    PROVE  UndoChained(b, Front(u))
<1> DEFINE t == Front(u)
           n == Len(u)
<1>1. /\ n \in Nat \ {0} /\ Len(t) = n - 1
      /\ \A i \in 1 .. n - 1 : t[i] = u[i] /\ u[i].object \in D
      /\ r = u[n]
  BY FrontAt DEF About
<1> HIDE DEF t, n
<1> SUFFICES ASSUME NEW i \in 1 .. n - 1, b[t[i].object].own
             PROVE  /\ b[t[i].object].file \in Files
                    /\ IsLast(t, i) => b[t[i].object].file = t[i].newFile
                    /\ \A j \in i + 1 .. n - 1 : t[j].object = t[i].object =>
                          /\ t[j].oldFile \in Files
                          /\ Follows(t, i, j) => t[j].oldFile = t[i].newFile
  BY <1>1 DEF UndoChained, t
<1>2. t[i] = u[i] /\ u[i].object \in D /\ a[u[i].object].own
  BY <1>1 DEF OnlyChanges
<1>3. /\ a[u[i].object].file \in Files
      /\ IsLast(u, i) => a[u[i].object].file = u[i].newFile
      /\ \A j \in i + 1 .. n : u[j].object = u[i].object =>
            /\ u[j].oldFile \in Files
            /\ Follows(u, i, j) => u[j].oldFile = u[i].newFile
  BY <1>1, <1>2 DEF UndoChained, n
<1>4. ASSUME u[i].object = r.object
      PROVE  /\ r.oldFile \in Files
             /\ IsLast(t, i) => r.oldFile = u[i].newFile
  <2>1. n \in i + 1 .. n
    BY <1>1
  <2>2. IsLast(t, i) => Follows(u, i, n)
    BY <1>1, <1>2, <1>4 DEF Follows, IsLast
  <2> QED BY <1>1, <1>3, <1>4, <2>1, <2>2
<1>5. ASSUME u[i].object # r.object, IsLast(t, i)
      PROVE  IsLast(u, i)
  <2> SUFFICES ASSUME NEW k \in i + 1 .. n PROVE u[k].object # u[i].object
    BY <1>1 DEF IsLast, n
  <2>1. CASE k = n
    BY <1>1, <1>5, <2>1
  <2>2. CASE k \in i + 1 .. n - 1
    BY <1>1, <1>2, <1>5, <2>2 DEF IsLast
  <2> QED BY <1>1, <2>1, <2>2
<1>6. /\ b[t[i].object].file \in Files
      /\ IsLast(t, i) => b[t[i].object].file = t[i].newFile
  <2>1. CASE u[i].object = r.object
    BY <1>2, <1>4, <2>1
  <2>2. CASE u[i].object # r.object
    BY <1>2, <1>3, <1>5, <2>2 DEF OnlyChanges
  <2> QED BY <2>1, <2>2
<1>7. ASSUME NEW j \in i + 1 .. n - 1, t[j].object = t[i].object
      PROVE  /\ t[j].oldFile \in Files
             /\ Follows(t, i, j) => t[j].oldFile = t[i].newFile
  <2>1. t[j] = u[j] /\ j \in i + 1 .. n
    BY <1>1
  <2>2. \A k \in i + 1 .. j - 1 : t[k] = u[k]
    BY <1>1
  <2>3. Follows(t, i, j) => Follows(u, i, j)
    BY <1>2, <2>1, <2>2 DEF Follows
  <2> QED BY <1>2, <1>3, <1>7, <2>1, <2>3
<1> QED BY <1>6, <1>7

(* What is undone is what is redone first. *)
LEMMA RedoChainGrows ==
    ASSUME NEW S, NEW u \in Seq(S), u # << >>, NEW r, r = Last(u),
           NEW T, NEW re \in Seq(T), NEW q \in T,
           q.object = r.object, q.oldFile = r.oldFile, q.newFile = r.newFile,
           NEW a, NEW b, UndoChained(a, u), RedoChained(a, u, re),
           NEW D, r.object \in D, About(u, D), About(re, D),
           OnlyChanges(D, a, b, r.object), b[r.object].file = r.oldFile
    PROVE  RedoChained(b, Front(u), Append(re, q))
<1> DEFINE t == Front(u)
           qs == Append(re, q)
           n == Len(u)
           m == Len(re)
<1>1. /\ n \in Nat \ {0} /\ Len(t) = n - 1
      /\ \A i \in 1 .. n - 1 : t[i] = u[i] /\ u[i].object \in D
      /\ r = u[n]
  BY FrontAt DEF About
<1>2. /\ m \in Nat /\ Len(qs) = m + 1
      /\ \A i \in 1 .. m : qs[i] = re[i] /\ re[i].object \in D
      /\ qs[m + 1] = q
  BY AppendedAt DEF About
<1> HIDE DEF t, n, qs, m
<1> SUFFICES ASSUME NEW i \in 1 .. m + 1, b[qs[i].object].own
             PROVE  /\ IsLast(qs, i) /\ (\E k \in 1 .. n - 1 : t[k].object = qs[i].object) =>
                          qs[i].oldFile = b[qs[i].object].file
                    /\ \A j \in i + 1 .. m + 1 :
                          Follows(qs, i, j) => qs[i].oldFile = qs[j].newFile
  BY <1>1, <1>2 DEF RedoChained, t, qs
<1>3. CASE i = m + 1
  <2>1. qs[i].oldFile = b[qs[i].object].file
    BY <1>2, <1>3
  <2> QED BY <1>2, <1>3, <2>1
<1>4. CASE i \in 1 .. m
  <2>1. qs[i] = re[i] /\ re[i].object \in D /\ a[re[i].object].own
    BY <1>2, <1>4 DEF OnlyChanges
  <2>2. /\ IsLast(re, i) /\ (\E k \in 1 .. n : u[k].object = re[i].object) =>
              re[i].oldFile = a[re[i].object].file
        /\ \A j \in i + 1 .. m : Follows(re, i, j) => re[i].oldFile = re[j].newFile
    BY <1>4, <2>1 DEF RedoChained, n, m
  <2>3. IsLast(qs, i) => re[i].object # r.object /\ IsLast(re, i)
    BY <1>2, <1>4, <2>1 DEF IsLast, m
  <2>4. ASSUME IsLast(qs, i), NEW k \in 1 .. n - 1, t[k].object = qs[i].object
        PROVE  qs[i].oldFile = b[qs[i].object].file
    <3>1. k \in 1 .. n /\ u[k].object = re[i].object
      BY <1>1, <2>1, <2>4
    <3> QED BY <2>1, <2>2, <2>3, <2>4, <3>1 DEF OnlyChanges
  <2>5. ASSUME NEW j \in i + 1 .. m + 1, Follows(qs, i, j)
        PROVE  qs[i].oldFile = qs[j].newFile
    <3>1. CASE j = m + 1
      <4>1. q.object = re[i].object /\ IsLast(re, i)
        BY <1>2, <1>4, <2>1, <2>5, <3>1 DEF Follows, IsLast, m
      <4>2. n \in 1 .. n /\ u[n].object = re[i].object
        BY <1>1, <4>1
      <4>3. re[i].oldFile = a[re[i].object].file
        BY <2>2, <4>1, <4>2
      <4>4. a[u[n].object].file = u[n].newFile
        <5>1. IsLast(u, n)
          BY <1>1 DEF IsLast, n
        <5> QED BY <2>1, <4>2, <5>1 DEF UndoChained, n
      <4> QED BY <1>1, <1>2, <2>1, <3>1, <4>2, <4>3, <4>4
    <3>2. CASE j \in i + 1 .. m
      <4>1. qs[j] = re[j]
        BY <1>2, <1>4, <3>2
      <4>2. Follows(re, i, j)
        BY <1>2, <1>4, <2>1, <2>5, <3>2, <4>1 DEF Follows
      <4> QED BY <2>1, <2>2, <3>2, <4>1, <4>2
    <3> QED BY <1>2, <3>1, <3>2
  <2> QED BY <2>4, <2>5
<1> QED BY <1>2, <1>3, <1>4

(* What is redone is what is undone next. *)
LEMMA RedoChainShrinks ==
    ASSUME NEW S, NEW u \in Seq(S), NEW T, NEW re \in Seq(T), re # << >>,
           NEW r \in S, r = Last(re), NEW a, NEW b, RedoChained(a, u, re),
           NEW D, r.object \in D, About(u, D), About(re, D),
           OnlyChanges(D, a, b, r.object), b[r.object].file = r.newFile
    PROVE  RedoChained(b, Append(u, r), Front(re))
<1> DEFINE t == Append(u, r)
           qs == Front(re)
           n == Len(u)
           m == Len(re)
<1>1. /\ n \in Nat /\ Len(t) = n + 1
      /\ \A i \in 1 .. n : t[i] = u[i] /\ u[i].object \in D
      /\ t[n + 1] = r
  BY AppendedAt DEF About
<1>2. /\ m \in Nat \ {0} /\ Len(qs) = m - 1
      /\ \A i \in 1 .. m - 1 : qs[i] = re[i] /\ re[i].object \in D
      /\ r = re[m]
  BY FrontAt DEF About
<1> HIDE DEF t, n, qs, m
<1> SUFFICES ASSUME NEW i \in 1 .. m - 1, b[qs[i].object].own
             PROVE  /\ IsLast(qs, i) /\ (\E k \in 1 .. n + 1 : t[k].object = qs[i].object) =>
                          qs[i].oldFile = b[qs[i].object].file
                    /\ \A j \in i + 1 .. m - 1 :
                          Follows(qs, i, j) => qs[i].oldFile = qs[j].newFile
  BY <1>1, <1>2 DEF RedoChained, t, qs
<1>3. qs[i] = re[i] /\ re[i].object \in D /\ a[re[i].object].own
  BY <1>2 DEF OnlyChanges
<1>4. /\ IsLast(re, i) /\ (\E k \in 1 .. n : u[k].object = re[i].object) =>
            re[i].oldFile = a[re[i].object].file
      /\ \A j \in i + 1 .. m : Follows(re, i, j) => re[i].oldFile = re[j].newFile
  <2>1. i \in 1 .. m
    BY <1>2
  <2> QED BY <1>3, <2>1 DEF RedoChained, n, m
<1>5. ASSUME IsLast(qs, i), NEW k \in 1 .. n + 1, t[k].object = qs[i].object
      PROVE  qs[i].oldFile = b[qs[i].object].file
  <2>1. CASE re[i].object = r.object
    <3>1. m \in i + 1 .. m
      BY <1>2
    <3>2. \A l \in i + 1 .. m - 1 : re[l].object # re[i].object
      <4>1. \A l \in i + 1 .. m - 1 : l \in 1 .. m - 1
        BY <1>2
      <4> QED BY <1>2, <1>3, <1>5, <4>1 DEF IsLast
    <3>3. Follows(re, i, m)
      BY <1>2, <2>1, <3>2 DEF Follows
    <3> QED BY <1>2, <1>3, <1>4, <2>1, <3>1, <3>3
  <2>2. CASE re[i].object # r.object
    <3>1. k \in 1 .. n /\ u[k].object = re[i].object
      BY <1>1, <1>3, <1>5, <2>2
    <3>2. IsLast(re, i)
      <4> SUFFICES ASSUME NEW l \in i + 1 .. m PROVE re[l].object # re[i].object
        BY <1>2 DEF IsLast, m
      <4>1. CASE l = m
        BY <1>2, <2>2, <4>1
      <4>2. CASE l \in i + 1 .. m - 1
        BY <1>2, <1>3, <1>5, <4>2 DEF IsLast
      <4> QED BY <1>2, <4>1, <4>2
    <3> QED BY <1>3, <1>4, <2>2, <3>1, <3>2 DEF OnlyChanges
  <2> QED BY <2>1, <2>2
<1>6. ASSUME NEW j \in i + 1 .. m - 1, Follows(qs, i, j)
      PROVE  qs[i].oldFile = qs[j].newFile
  <2>1. qs[j] = re[j] /\ j \in i + 1 .. m
    BY <1>2
  <2>2. Follows(re, i, j)
    BY <1>2, <1>3, <1>6, <2>1 DEF Follows
  <2> QED BY <1>3, <1>4, <2>1, <2>2
<1> QED BY <1>5, <1>6

(* The files an object is led to by its records, after a change of x. *)
LEMMA RecordLeads ==
    ASSUME NEW a, NEW b, NEW d, NEW r,
           b[r.object].own =>
               a[r.object].own /\ b[r.object].anonRootId = a[r.object].anonRootId
    PROVE  /\ UndoLeads(a, d, r) => UndoLeads(b, d, r)
           /\ RedoLeads(a, d, r) => RedoLeads(b, d, r)
BY DEF UndoLeads, RedoLeads

SameNames(D, a, b) == \A y \in D : b[y].own => a[y].own /\ b[y].anonRootId = a[y].anonRootId

(* theHold.Put, for an object that gets a file or is no longer its own. *)
LEMMA HistoryPut ==
    ASSUME NEW S, NEW u \in Seq(S), NEW r \in S, NEW a, NEW b, NEW d, NEW re,
           HistoryOK(a, d, u, re), NEW D, r.object \in D, About(u, D),
           SameNames(D, a, b), OnlyChanges(D, a, b, r.object),
           r.oldFile = a[r.object].file, r.oldStage = a[r.object].stage,
           b[r.object].own =>
               /\ b[r.object].file = r.newFile /\ r.newFile \in Files
               /\ LeadTo(d, a[r.object].stage, a[r.object].file, a[r.object].anonRootId)
    PROVE  HistoryOK(b, d, Append(u, r), << >>)
<1>1. UndoChained(b, Append(u, r))
  BY UndoChainGrows DEF HistoryOK
<1>2. Len(<< >>) = 0
  BY EmptySeq
<1>3. RedoChained(b, Append(u, r), << >>)
  BY <1>2 DEF RedoChained
<1>4. RecordsLead(b, d, Append(u, r), << >>)
  <2>1. /\ Len(u) \in Nat /\ Len(Append(u, r)) = Len(u) + 1
        /\ \A i \in 1 .. Len(u) : Append(u, r)[i] = u[i]
        /\ Append(u, r)[Len(u) + 1] = r
    BY AppendedAt
  <2>2. UndoLeads(b, d, r)
    BY DEF UndoLeads, SameNames, About
  <2>3. \A i \in 1 .. Len(u) : UndoLeads(b, d, u[i])
    BY RecordLeads DEF HistoryOK, RecordsLead, SameNames, About
  <2>4. \A i \in 1 .. Len(u) + 1 : UndoLeads(b, d, Append(u, r)[i])
    BY <2>1, <2>2, <2>3
  <2> QED BY <1>2, <2>1, <2>4 DEF RecordsLead
<1> QED BY <1>1, <1>3, <1>4 DEF HistoryOK

(* What undo does to the stacks and to the object. *)
LEMMA HistoryUndo ==
    ASSUME NEW S, NEW u \in Seq(S), u # << >>, NEW r, r = Last(u),
           NEW T, NEW re \in Seq(T), NEW q \in T, NEW a, NEW b, NEW d,
           HistoryOK(a, d, u, re), ParametersLead(a, d), r.object \in DOMAIN a,
           NEW D, r.object \in D, About(u, D), About(re, D),
           SameNames(D, a, b), OnlyChanges(D, a, b, r.object), b[r.object].file = r.oldFile,
           q.object = r.object, q.oldStage = r.oldStage, q.oldFile = r.oldFile,
           q.newFile = r.newFile, q.newStage = a[r.object].stage
    PROVE  HistoryOK(b, d, Front(u), Append(re, q))
<1>1. /\ Len(u) \in Nat \ {0} /\ Len(Front(u)) = Len(u) - 1
      /\ \A i \in 1 .. Len(u) - 1 : Front(u)[i] = u[i]
      /\ r = u[Len(u)]
  BY FrontAt
<1>2. /\ Len(re) \in Nat /\ Len(Append(re, q)) = Len(re) + 1
      /\ \A i \in 1 .. Len(re) : Append(re, q)[i] = re[i]
      /\ Append(re, q)[Len(re) + 1] = q
  BY AppendedAt
<1>3. UndoChained(b, Front(u))
  BY UndoChainShrinks DEF HistoryOK
<1>4. RedoChained(b, Front(u), Append(re, q))
  BY RedoChainGrows DEF HistoryOK
<1>5. Len(u) \in 1 .. Len(u)
  BY <1>1
<1>6. ASSUME b[r.object].own
      PROVE  LeadTo(d, a[r.object].stage, r.newFile, a[r.object].anonRootId)
  <2>1. a[r.object].own
    BY <1>6 DEF SameNames, About
  <2>2. IsLast(u, Len(u))
    BY <1>1 DEF IsLast
  <2>3. a[r.object].file = r.newFile
    BY <1>1, <1>5, <2>1, <2>2 DEF HistoryOK, UndoChained
  <2> QED BY <2>1, <2>3 DEF ParametersLead
<1>7. UndoLeads(b, d, q) /\ RedoLeads(b, d, q)
  <2>1. UndoLeads(a, d, r)
    BY <1>1, <1>5 DEF HistoryOK, RecordsLead
  <2> QED BY <1>6, <2>1 DEF UndoLeads, RedoLeads, SameNames, About
<1>8. \A i \in 1 .. Len(u) : UndoLeads(b, d, u[i])
  BY RecordLeads DEF HistoryOK, RecordsLead, SameNames, About
<1>9. \A i \in 1 .. Len(re) : UndoLeads(b, d, re[i]) /\ RedoLeads(b, d, re[i])
  BY RecordLeads DEF HistoryOK, RecordsLead, SameNames, About
<1>10. \A i \in 1 .. Len(u) - 1 : UndoLeads(b, d, Front(u)[i])
  BY <1>1, <1>8
<1>11. \A i \in 1 .. Len(re) + 1 :
          UndoLeads(b, d, Append(re, q)[i]) /\ RedoLeads(b, d, Append(re, q)[i])
  BY <1>2, <1>7, <1>9
<1>12. RecordsLead(b, d, Front(u), Append(re, q))
  BY <1>1, <1>2, <1>10, <1>11 DEF RecordsLead
<1> QED BY <1>3, <1>4, <1>12 DEF HistoryOK

(* And redo. *)
LEMMA HistoryRedo ==
    ASSUME NEW S, NEW u \in Seq(S), NEW T, NEW re \in Seq(T), re # << >>,
           NEW r \in S, r = Last(re), NEW a, NEW b, NEW d, HistoryOK(a, d, u, re),
           NEW D, r.object \in D, About(u, D), About(re, D),
           SameNames(D, a, b), OnlyChanges(D, a, b, r.object), b[r.object].file = r.newFile
    PROVE  HistoryOK(b, d, Append(u, r), Front(re))
<1>1. /\ Len(re) \in Nat \ {0} /\ Len(Front(re)) = Len(re) - 1
      /\ \A i \in 1 .. Len(re) - 1 : Front(re)[i] = re[i]
      /\ r = re[Len(re)]
  BY FrontAt
<1>2. /\ Len(u) \in Nat /\ Len(Append(u, r)) = Len(u) + 1
      /\ \A i \in 1 .. Len(u) : Append(u, r)[i] = u[i]
      /\ Append(u, r)[Len(u) + 1] = r
  BY AppendedAt
<1>3. Len(re) \in 1 .. Len(re)
  BY <1>1
<1>4. RedoChained(b, Append(u, r), Front(re))
  BY RedoChainShrinks DEF HistoryOK
<1>5. /\ \A i \in 1 .. Len(re) : UndoLeads(b, d, re[i]) /\ RedoLeads(b, d, re[i])
      /\ \A i \in 1 .. Len(u) : UndoLeads(b, d, u[i])
  BY RecordLeads DEF HistoryOK, RecordsLead, SameNames, About
<1>6. UndoLeads(b, d, r)
  BY <1>1, <1>3, <1>5
<1>7. UndoChained(b, Append(u, r))
  <2>1. ASSUME b[r.object].own, NEW i \in 1 .. Len(u), u[i].object = r.object
        PROVE  r.oldFile = a[r.object].file
    <3>1. IsLast(re, Len(re))
      BY <1>1 DEF IsLast
    <3> QED BY <1>1, <1>3, <2>1, <3>1 DEF HistoryOK, RedoChained, SameNames, About
  <2>2. b[r.object].own => r.newFile \in Files
    BY <1>6 DEF UndoLeads
  <2> QED BY <2>1, <2>2, UndoChainGrows DEF HistoryOK
<1>8. \A i \in 1 .. Len(u) + 1 : UndoLeads(b, d, Append(u, r)[i])
  BY <1>2, <1>5, <1>6
<1>9. \A i \in 1 .. Len(re) - 1 :
          UndoLeads(b, d, Front(re)[i]) /\ RedoLeads(b, d, Front(re)[i])
  BY <1>1, <1>5
<1>10. RecordsLead(b, d, Append(u, r), Front(re))
  BY <1>1, <1>2, <1>8, <1>9 DEF RecordsLead
<1> QED BY <1>4, <1>7, <1>10 DEF HistoryOK

-----------------------------------------------------------------------------
(* Names of roots, and the stages on them. *)

(* Names of anonymous roots stay their objects' own: if an object gets a stage that *)
(* is on no other own object's root, *)
LEMMA RootsGiven ==
    ASSUME NEW w, WorldOK(w), NEW records, NEW after, NEW objs,
           RootsOwn(w, records), CacheRight(w, objs),
           NEW o \in DOMAIN w.objects, NEW stage \in Stages,
           OnlyClaim(w, records, after, o, stage),
           \A p \in DOMAIN w.objects \ {o} :
               w.objects[p].own /\ w.objects[p].anonRootId # None =>
                   stage.root # w.objects[p].anonRootId,
           NEW v, v = SetUSDStage(w, o, stage)
    PROVE  RootsOwn(v, after) /\ CacheRight(v, objs)
<1> DEFINE old == w.objects[o].stage
<1>0. WorldOK(v) /\ GivenStage(w, o, stage, v)
  BY StageGiven
<1>1. /\ DOMAIN v.objects = DOMAIN w.objects
      /\ v.objects[o].stage = stage
      /\ \A p \in DOMAIN w.objects \ {o} : v.objects[p] = w.objects[p]
      /\ v.cache = (w.cache \ {old}) \cup {stage}
      /\ v.cache \subseteq Stages
  BY <1>0 DEF GivenStage, WorldOK
<1>2. \A p \in DOMAIN w.objects :
          v.objects[p].own = w.objects[p].own /\ v.objects[p].anonRootId = w.objects[p].anonRootId
  <2>1. v.objects[o] = [w.objects[o] EXCEPT !.stage = stage] /\ w.objects[o] \in ObjectType
    BY <1>0 DEF GivenStage, WorldOK
  <2>2. v.objects[o].own = w.objects[o].own /\ v.objects[o].anonRootId = w.objects[o].anonRootId
    BY <2>1 DEF ObjectType
  <2> QED BY <1>1, <2>2
<1>3. ASSUME NEW p \in DOMAIN w.objects, NEW s \in Stages, Claims(v, after, p, s)
      PROVE  Claims(w, records, p, s) \/ (p = o /\ s = stage)
  BY <1>1, <1>3 DEF Claims, OnlyClaim
<1>4. RootsOwn(v, after)
  BY <1>1, <1>2, <1>3 DEF RootsOwn
<1>5. CacheRight(v, objs)
  <2> SUFFICES ASSUME NEW s \in v.cache, \A p \in DOMAIN w.objects : s # v.objects[p].stage
               PROVE  /\ \A p \in DOMAIN w.objects : s.root # w.objects[p].anonRootId
                      /\ \A p \in DOMAIN objs : s.root # objs[p].anonRootId
    BY <1>1, <1>2 DEF CacheRight
  <2>1. s # stage /\ s \in w.cache /\ s # old
    BY <1>1
  <2>2. \A p \in DOMAIN w.objects : s # w.objects[p].stage
    BY <1>1, <2>1
  <2> QED BY <2>1, <2>2 DEF CacheRight
<1> QED BY <1>4, <1>5

(* if names are lost, or an object gets the name of one that is not its own, *)
NamesOf(w, v) ==
    \A p \in DOMAIN w.objects :
        /\ v.objects[p].own =>
              w.objects[p].own /\ v.objects[p].anonRootId \in {w.objects[p].anonRootId, None}
        /\ \/ v.objects[p].anonRootId = None
           \/ \E q \in DOMAIN w.objects :
                 /\ v.objects[p].anonRootId = w.objects[q].anonRootId
                 /\ q = p \/ ~ v.objects[q].own

LEMMA RootsNamed ==
    ASSUME NEW w, NEW v, WorldOK(w), SameStages(w, v), NamesOf(w, v), NEW records, NEW objs,
           RootsOwn(w, records), CacheRight(w, objs)
    PROVE  RootsOwn(v, records) /\ CacheRight(v, objs)
<1>1. /\ DOMAIN v.objects = DOMAIN w.objects /\ v.cache = w.cache /\ w.cache \subseteq Stages
      /\ \A p \in DOMAIN w.objects : v.objects[p].stage = w.objects[p].stage
  BY DEF SameStages, WorldOK
<1>2. \A p \in DOMAIN w.objects : \A s : Claims(v, records, p, s) <=> Claims(w, records, p, s)
  BY ParametersSet
<1>3. RootsOwn(v, records)
  <2> SUFFICES ASSUME NEW o \in DOMAIN w.objects, NEW p \in DOMAIN w.objects,
                      v.objects[o].own, v.objects[o].anonRootId # None, p # o
               PROVE  /\ v.objects[p].anonRootId # v.objects[o].anonRootId
                      /\ \A s \in Stages :
                            Claims(v, records, p, s) => s.root # v.objects[o].anonRootId
    BY <1>1 DEF RootsOwn
  <2>1. w.objects[o].own /\ w.objects[o].anonRootId = v.objects[o].anonRootId
    BY DEF NamesOf
  <2>2. v.objects[p].anonRootId # v.objects[o].anonRootId
    <3> SUFFICES ASSUME v.objects[p].anonRootId # None
                 PROVE  v.objects[p].anonRootId # v.objects[o].anonRootId
      OBVIOUS
    <3>1. PICK q \in DOMAIN w.objects : /\ v.objects[p].anonRootId = w.objects[q].anonRootId
                                        /\ q = p \/ ~ v.objects[q].own
      BY DEF NamesOf
    <3>2. q # o
      BY <3>1
    <3> QED BY <2>1, <3>1, <3>2 DEF RootsOwn
  <2>3. ASSUME NEW s \in Stages, Claims(v, records, p, s)
        PROVE  s.root # v.objects[o].anonRootId
    BY <1>2, <2>1, <2>3 DEF RootsOwn
  <2> QED BY <2>2, <2>3
<1>4. CacheRight(v, objs)
  <2> SUFFICES ASSUME NEW s \in w.cache, \A o \in DOMAIN w.objects : s # w.objects[o].stage,
                      NEW p \in DOMAIN w.objects
               PROVE  s.root # v.objects[p].anonRootId
    BY <1>1 DEF CacheRight
  <2>1. s.root # None
    BY <1>1, SceneSaveAssumption DEF Stages, Layers, Ids
  <2> QED BY <2>1 DEF CacheRight, NamesOf
<1> QED BY <1>3, <1>4

(* if claims are given up, *)
LEMMA RootsForgotten ==
    ASSUME NEW w, NEW records, NEW after, RootsOwn(w, records),
           \A p \in DOMAIN w.objects : \A s \in Stages :
               Claims(w, after, p, s) => Claims(w, records, p, s)
    PROVE  RootsOwn(w, after)
BY DEF RootsOwn

(* and if an object is made with a new name. *)
LEMMA RootsCreated ==
    ASSUME NEW w, WorldOK(w), NEW records, NEW objs, RootsOwn(w, records), CacheRight(w, objs),
           NEW o \in Objects \ DOMAIN w.objects, NEW id \in Ids,
           \A p \in DOMAIN w.objects :
               /\ w.objects[p].anonRootId # id
               /\ \A s \in Stages : Claims(w, records, p, s) => s.root # id,
           \A r \in records : r.object # o,
           \A s \in w.cache : s.root # id,
           NEW v, v = CreateInMemoryStage(w, o, id)
    PROVE  RootsOwn(v, records) /\ CacheRight(v, objs)
<1> DEFINE stage == InMemoryStage(id)
<1>0. WorldOK(v) /\ NewStage(w, o, id, v)
  BY StageCreated
<1>1. /\ DOMAIN v.objects = DOMAIN w.objects \cup {o}
      /\ v.objects[o].stage = stage /\ v.objects[o].own /\ v.objects[o].anonRootId = id
      /\ \A p \in DOMAIN w.objects : v.objects[p] = w.objects[p]
      /\ v.cache = w.cache \cup {stage}
      /\ v.cache \subseteq Stages
  BY <1>0 DEF NewStage, WorldOK
<1>2. stage \in Stages /\ stage.root = id
  BY InMemory
<1> HIDE DEF stage
<1>3. \A s : Claims(v, records, o, s) => s = stage
  BY <1>1 DEF Claims
<1>4. \A p \in DOMAIN w.objects : \A s :
          Claims(v, records, p, s) <=> Claims(w, records, p, s)
  BY <1>1 DEF Claims
<1>5. RootsOwn(v, records)
  <2> SUFFICES ASSUME NEW q \in DOMAIN v.objects, NEW p \in DOMAIN v.objects, p # q,
                      v.objects[q].own, v.objects[q].anonRootId # None
               PROVE  /\ v.objects[p].anonRootId # v.objects[q].anonRootId
                      /\ \A s \in Stages :
                            Claims(v, records, p, s) => s.root # v.objects[q].anonRootId
    BY DEF RootsOwn
  <2>1. CASE q = o
    <3>1. p \in DOMAIN w.objects
      BY <1>1, <2>1
    <3> QED BY <1>1, <1>4, <2>1, <3>1
  <2>2. CASE p = o
    <3>1. q \in DOMAIN w.objects
      BY <1>1, <2>2
    <3> QED BY <1>1, <1>2, <1>3, <2>2, <3>1
  <2>3. CASE p # o /\ q # o
    <3>1. p \in DOMAIN w.objects /\ q \in DOMAIN w.objects
      BY <1>1, <2>3
    <3> QED BY <1>1, <1>4, <3>1 DEF RootsOwn
  <2> QED BY <2>1, <2>2, <2>3
<1>6. CacheRight(v, objs)
  <2> SUFFICES ASSUME NEW s \in v.cache, \A p \in DOMAIN v.objects : s # v.objects[p].stage
               PROVE  /\ \A p \in DOMAIN v.objects : s.root # v.objects[p].anonRootId
                      /\ \A p \in DOMAIN objs : s.root # objs[p].anonRootId
    BY DEF CacheRight
  <2>1. s \in w.cache /\ s.root # id
    BY <1>1
  <2>2. \A p \in DOMAIN w.objects : s # w.objects[p].stage
    BY <1>1
  <2> QED BY <1>1, <2>1, <2>2 DEF CacheRight
<1> QED BY <1>5, <1>6

(* A new identifier is the name of no root. *)
LEMMA FreshName ==
    ASSUME StageInv, NEW id \in Ids \ UsedIds
    PROVE  /\ \A p \in DOMAIN objects :
                 /\ objects[p].anonRootId # id
                 /\ \A s \in Stages : Claims(World, Records, p, s) => s.root # id
           /\ \A s \in LiveStages : s.root # id
           /\ \A p \in DOMAIN maxFile.objects : maxFile.objects[p].anonRootId # id
<1>1. \A s \in LiveStages : s.root # id
  BY DEF UsedIds
<1>2. \A p \in DOMAIN objects : objects[p].anonRootId # id
  BY DEF UsedIds
<1>3. \A p \in DOMAIN maxFile.objects : maxFile.objects[p].anonRootId # id
  BY DEF UsedIds
<1>4. None \notin Stages
  BY SceneSaveAssumption DEF Stages, Layers, Ids
<1>5. ASSUME NEW p \in DOMAIN objects, NEW s \in Stages, Claims(World, Records, p, s)
      PROVE  s \in LiveStages
  BY <1>4, <1>5, LiveBefore, ActualWorld DEF Claims, LiveIn
<1> QED BY <1>1, <1>2, <1>3, <1>5

(* The records are about objects there are. *)
LEMMA RecordsAbout ==
    ASSUME RecordsOK
    PROVE  About(undo, DOMAIN objects) /\ About(redo, DOMAIN objects)
<1>1. \A i \in 1 .. Len(undo) : undo[i] \in RecordType(DOMAIN objects, Stages \cup {None})
  BY ElementOfSeq DEF RecordsOK
<1>2. \A i \in 1 .. Len(redo) : redo[i] \in RecordType(DOMAIN objects, Stages)
  BY ElementOfSeq DEF RecordsOK
<1> QED BY <1>1, <1>2 DEF About, RecordType

HistoryInv == HistoryOK(objects, DOMAIN disk, undo, redo)

(* An object o gets other parameters, as u has them, and then a stage. *)
Replaces(u, o, stage) ==
    /\ SameStages(World, u) /\ NamesOf(World, u)
    /\ \A p \in DOMAIN objects \ {o} : u.objects[p] = objects[p]
    /\ Becomes(SetUSDStage(u, o, stage))
    /\ DOMAIN disk \subseteq DOMAIN disk' /\ maxFile' = maxFile

ObjectBecomes(u, o) ==
    /\ DOMAIN objects' = DOMAIN objects
    /\ \A p \in DOMAIN objects \ {o} : objects'[p] = objects[p]
    /\ objects'[o].own = u.objects[o].own /\ objects'[o].file = u.objects[o].file
    /\ objects'[o].anonRootId = u.objects[o].anonRootId

LEMMA ObjectReplaced ==
    ASSUME StageInv, NEW u, NEW o \in DOMAIN objects, NEW stage \in Stages, Replaces(u, o, stage)
    PROVE  /\ ObjectBecomes(u, o) /\ objects'[o].stage = stage
           /\ World' = SetUSDStage(u, o, stage) /\ cache' \subseteq cache \cup {stage}
<1> DEFINE v == SetUSDStage(u, o, stage)
<1>1. WorldOK(World) /\ World.objects = objects /\ World.cache = cache
  BY DEF StageInv, World
<1>2. DOMAIN u.objects = DOMAIN objects /\ u.cache = cache /\ u.objects \in [DOMAIN objects -> ObjectType]
  BY <1>1 DEF Replaces, SameStages
<1>3. WorldOK(u)
  BY <1>1, ParametersSet DEF Replaces
<1>4. WorldOK(v) /\ GivenStage(u, o, stage, v)
  BY <1>2, <1>3, StageGiven
<1>5. World' = v /\ objects' = v.objects /\ cache' = v.cache
  BY <1>4, WorldBecomes DEF Replaces
<1> HIDE DEF v
<1>6. /\ DOMAIN objects' = DOMAIN objects
      /\ objects'[o] = [u.objects[o] EXCEPT !.stage = stage]
      /\ objects'[o].stage = stage
      /\ \A p \in DOMAIN objects \ {o} : objects'[p] = objects[p]
      /\ cache' \subseteq cache \cup {stage}
  BY <1>2, <1>4, <1>5 DEF GivenStage, Replaces
<1>7. u.objects[o] \in ObjectType
  BY <1>2
<1> QED BY <1>5, <1>6, <1>7 DEF ObjectBecomes, ObjectType, v

(* What the invariant needs of it, but for the records. *)
LEMMA LeadReplaced ==
    ASSUME StageInv, LeadInv, NEW u, NEW o \in DOMAIN objects, NEW stage \in Stages,
           Replaces(u, o, stage),
           \A r \in Records' : {r.oldStage, r.newStage} \subseteq LiveStages \cup {stage, None},
           OnlyClaim(World, Records, Records', o, stage),
           \A p \in DOMAIN objects \ {o} :
               objects[p].own /\ objects[p].anonRootId # None =>
                   stage.root # objects[p].anonRootId,
           stage \in LiveStages \/ (stage.root \in Files => stage.root \in DOMAIN disk'),
           u.objects[o].own =>
               LeadTo(DOMAIN disk', stage, u.objects[o].file, u.objects[o].anonRootId)
    PROVE  HistoryInv' => LeadInv'
<1>1. /\ ObjectBecomes(u, o) /\ objects'[o].stage = stage
      /\ World' = SetUSDStage(u, o, stage) /\ cache' \subseteq cache \cup {stage}
  BY ObjectReplaced
<1>2. /\ WorldOK(World) /\ World.objects = objects
      /\ SameStages(World, u) /\ NamesOf(World, u) /\ DOMAIN u.objects = DOMAIN objects
      /\ \A p \in DOMAIN objects \ {o} : u.objects[p] = objects[p]
      /\ DOMAIN disk \subseteq DOMAIN disk' /\ maxFile' = maxFile
  BY ActualWorld DEF Replaces, SameStages
<1>3. ParametersLead(objects', DOMAIN disk')
  <2> SUFFICES ASSUME NEW p \in DOMAIN objects, objects'[p].own
               PROVE  LeadTo(DOMAIN disk', objects'[p].stage, objects'[p].file, objects'[p].anonRootId)
    BY <1>1 DEF ParametersLead, ObjectBecomes
  <2>1. CASE p = o
    BY <1>1, <2>1 DEF ObjectBecomes
  <2>2. CASE p # o
    BY <1>1, <1>2, <2>2, LeadStill DEF ObjectBecomes, LeadInv, ParametersLead
  <2> QED BY <2>1, <2>2
<1>4. /\ WorldOK(u)
      /\ \A records : \A p \in DOMAIN objects : \A s :
            Claims(u, records, p, s) <=> Claims(World, records, p, s)
  BY <1>2, ParametersSet
<1>5. RootsOwn(u, Records) /\ CacheRight(u, maxFile.objects)
  BY <1>2, RootsNamed DEF LeadInv
<1>6. OnlyClaim(u, Records, Records', o, stage)
  BY <1>2, <1>4 DEF OnlyClaim
<1>7. \A p \in DOMAIN u.objects \ {o} :
          u.objects[p].own /\ u.objects[p].anonRootId # None => stage.root # u.objects[p].anonRootId
  BY <1>2
<1>8. RootsOwn(World', Records') /\ CacheRight(World', maxFile'.objects)
  BY <1>1, <1>2, <1>4, <1>5, <1>6, <1>7, RootsGiven
<1>9. LiveStages' \subseteq LiveStages \cup {stage}
  <2>1. /\ cache' \subseteq LiveStages \cup {stage}
        /\ \A p \in DOMAIN objects' : objects'[p].stage \in LiveStages \cup {stage}
    BY <1>1, LiveTypes DEF ObjectBecomes
  <2>2. LiveIn(World', Records', LiveStages \cup {stage})
    BY <2>1 DEF LiveIn, World
  <2> QED BY <2>2, LiveAfter
<1>10. FilesOnDisk'
  BY <1>2, <1>9 DEF LeadInv, FilesOnDisk
<1> QED BY <1>3, <1>8, <1>10 DEF LeadInv, HistoryInv

(* Where only parameters of objects change. *)
LEMMA LeadNamed ==
    ASSUME StageInv, LeadInv, SameStages(World, World'), NamesOf(World, World'),
           \A p \in DOMAIN objects : objects'[p].own => objects'[p].file = objects[p].file,
           \A p \in DOMAIN objects : \A s \in Stages :
               Claims(World', Records', p, s) => Claims(World', Records, p, s),
           LiveStages' \subseteq LiveStages,
           DOMAIN disk \subseteq DOMAIN disk', maxFile' = maxFile, HistoryInv'
    PROVE  LeadInv'
<1>1. /\ WorldOK(World) /\ World.objects = objects /\ World'.objects = objects'
      /\ DOMAIN objects' = DOMAIN objects
      /\ \A p \in DOMAIN objects : objects'[p].stage = objects[p].stage
  <2>1. World'.objects = objects'
    BY DEF World
  <2> QED BY <2>1, ActualWorld DEF SameStages
<1>2. RootsOwn(World', Records) /\ CacheRight(World', maxFile.objects)
  BY <1>1, RootsNamed DEF LeadInv
<1>3. RootsOwn(World', Records') /\ CacheRight(World', maxFile'.objects)
  BY <1>1, <1>2, RootsForgotten
<1>4. ParametersLead(objects', DOMAIN disk')
  BY <1>1, LeadStill DEF NamesOf, LeadInv, ParametersLead
<1>5. FilesOnDisk'
  BY DEF LeadInv, FilesOnDisk
<1> QED BY <1>3, <1>4, <1>5 DEF LeadInv, HistoryInv

(* theHold.Put, seen from the object that changes. *)
LEMMA PutLeads ==
    ASSUME StageInv, LeadInv, NEW o \in DOMAIN objects, NEW f \in Files \cup {None}, Put(o, f),
           \A p \in DOMAIN objects \ {o} : objects'[p] = objects[p],
           objects'[o].own =>
               /\ objects[o].own /\ objects'[o].anonRootId = objects[o].anonRootId
               /\ objects'[o].file = f /\ f \in Files,
           DOMAIN disk' = DOMAIN disk
    PROVE  HistoryInv'
<1> DEFINE record == [object   |-> o,
                      oldStage |-> objects[o].stage, oldFile |-> objects[o].file,
                      newStage |-> None, newFile |-> f]
           S == RecordType(DOMAIN objects, Stages \cup {None})
           kept == IF Len(undo) = MaxUndo THEN Tail(undo) ELSE undo
           d == DOMAIN disk
<1>1. undo' = Append(kept, record) /\ redo' = << >>
  BY DEF Put
<1>2. /\ undo \in Seq(S) /\ Len(undo) \in Nat /\ MaxUndo \in Nat \ {0}
      /\ RecordsOK /\ objects[o] \in ObjectType
  BY SceneSaveAssumption, LenProperties, LiveTypes DEF StageInv, RecordsOK
<1>3. record \in S
  BY <1>2 DEF ObjectType, RecordType
<1>4. /\ record.object = o /\ record.oldStage = objects[o].stage
      /\ record.oldFile = objects[o].file /\ record.newFile = f
  OBVIOUS
<1> HIDE DEF record, S, d
<1>5. /\ kept \in Seq(S) /\ About(kept, DOMAIN objects)
      /\ \E re : HistoryOK(objects, d, kept, re)
  <2>1. About(undo, DOMAIN objects) /\ HistoryOK(objects, d, undo, redo)
    BY <1>2, RecordsAbout DEF LeadInv, d
  <2>2. CASE Len(undo) = MaxUndo
    <3>1. undo # << >>
      BY <1>2, <2>2, EmptySeq
    <3>2. HistoryOK(objects, d, Tail(undo), << >>)
      BY <1>2, <2>1, <3>1, HistoryForgets
    <3>3. /\ Tail(undo) \in Seq(S) /\ Len(Tail(undo)) = Len(undo) - 1
          /\ \A i \in 1 .. Len(Tail(undo)) : Tail(undo)[i] = undo[i + 1]
      BY <1>2, <3>1, HeadTailProperties
    <3>4. About(Tail(undo), DOMAIN objects)
      BY <1>2, <2>1, <3>3 DEF About
    <3> QED BY <2>2, <3>2, <3>3, <3>4
  <2>3. CASE Len(undo) # MaxUndo
    BY <1>2, <2>1, <2>3
  <2> QED BY <2>2, <2>3
<1> HIDE DEF kept
<1>6. PICK re : HistoryOK(objects, d, kept, re)
  BY <1>5
<1>7. SameNames(DOMAIN objects, objects, objects') /\ OnlyChanges(DOMAIN objects, objects, objects', o)
  BY DEF SameNames, OnlyChanges
<1>8. objects'[o].own => LeadTo(d, objects[o].stage, objects[o].file, objects[o].anonRootId)
  BY DEF LeadInv, ParametersLead, d
<1>9. HistoryOK(objects', d, undo', redo')
  BY <1>1, <1>3, <1>4, <1>5, <1>6, <1>7, <1>8, HistoryPut
<1> QED BY <1>9 DEF HistoryInv, d

(* Where the stacks stay as they are. *)
LEMMA HistoryKept ==
    ASSUME StageInv, LeadInv, UNCHANGED <<undo, redo>>, DOMAIN disk \subseteq DOMAIN disk',
           \A p \in DOMAIN objects : ChangedFor(objects, objects', p)
    PROVE  HistoryInv'
<1>1. About(undo, DOMAIN objects) /\ About(redo, DOMAIN objects)
  BY RecordsAbout DEF StageInv
<1>2. HistoryOK(objects, DOMAIN disk, undo, redo)
  BY DEF LeadInv
<1>3. HistoryOK(objects', DOMAIN disk', undo, redo)
  BY <1>1, <1>2, HistoryStays DEF About
<1> QED BY <1>3 DEF HistoryInv

(* The parameters that an operation sets. *)
SetFor(w, u, o, file, own, anonRootId) ==
    /\ \A p \in DOMAIN w.objects \ {o} : u.objects[p] = w.objects[p]
    /\ u.objects[o].file = file /\ u.objects[o].own = own
    /\ u.objects[o].anonRootId = anonRootId

LEMMA FieldsSet ==
    ASSUME NEW objs, objs \in [DOMAIN objs -> ObjectType], NEW o \in DOMAIN objs,
           NEW f, NEW own, NEW m, NEW c,
           NEW w, w = [objects |-> objs, map |-> m, cache |-> c]
    PROVE  /\ SetFor(w, [w EXCEPT !.objects[o].file = f, !.objects[o].own = own],
                     o, f, own, objs[o].anonRootId)
           /\ SetFor(w, [w EXCEPT !.objects[o].file = f], o, f, objs[o].own, objs[o].anonRootId)
           /\ SetFor(w, [w EXCEPT !.objects[o].file = f, !.objects[o].anonRootId = None],
                     o, f, objs[o].own, None)
<1>1. objs[o] = [stage |-> objs[o].stage, file |-> objs[o].file, anonRootId |-> objs[o].anonRootId,
                 inScene |-> objs[o].inScene, interruptSave |-> objs[o].interruptSave,
                 own |-> objs[o].own]
  BY DEF ObjectType
<1>2. /\ [w EXCEPT !.objects[o].file = f].objects = [objs EXCEPT ![o].file = f]
      /\ [w EXCEPT !.objects[o].file = f, !.objects[o].own = own].objects
            = [objs EXCEPT ![o].file = f, ![o].own = own]
      /\ [w EXCEPT !.objects[o].file = f, !.objects[o].anonRootId = None].objects
            = [objs EXCEPT ![o].file = f, ![o].anonRootId = None]
  OBVIOUS
<1>3. /\ \A p \in DOMAIN objs \ {o} :
            /\ [objs EXCEPT ![o].file = f][p] = objs[p]
            /\ [objs EXCEPT ![o].file = f, ![o].own = own][p] = objs[p]
            /\ [objs EXCEPT ![o].file = f, ![o].anonRootId = None][p] = objs[p]
      /\ [objs EXCEPT ![o].file = f][o] = [objs[o] EXCEPT !.file = f]
      /\ [objs EXCEPT ![o].file = f, ![o].own = own][o] = [objs[o] EXCEPT !.file = f, !.own = own]
      /\ [objs EXCEPT ![o].file = f, ![o].anonRootId = None][o]
            = [objs[o] EXCEPT !.file = f, !.anonRootId = None]
  OBVIOUS
<1>4. w.objects = objs
  OBVIOUS
<1> QED BY <1>1, <1>2, <1>3, <1>4 DEF SetFor

(* Parameters that are set so leave the names their objects'. *)
LEMMA FieldsNamed ==
    ASSUME NEW u, NEW o \in DOMAIN objects, NEW file, NEW own, NEW anonRootId,
           SetFor(World, u, o, file, own, anonRootId), own => objects[o].own,
           anonRootId \in {objects[o].anonRootId, None}
    PROVE  /\ NamesOf(World, u)
           /\ \A p \in DOMAIN objects \ {o} : u.objects[p] = objects[p]
<1>1. World.objects = objects
  BY DEF World
<1> QED BY <1>1 DEF SetFor, NamesOf

-----------------------------------------------------------------------------
(* What users, scripts and prompts do. *)

(* A file is no name of an anonymous root, nor is None one of either. *)
LEMMA FileIsNoName ==
    /\ \A f \in Files : f \notin Ids
    /\ None \notin Files /\ None \notin Ids
BY SceneSaveAssumption DEF Ids

(* SetRootLayer: the object leads to the file, or is no longer its own. *)
LEMMA SetRootLayerLeads ==
    ASSUME StageInv, LeadInv, maxFile' = maxFile, NEW o \in Objects, NEW f \in Files,
           SetRootLayer(o, f)
    PROVE  LeadInv'
<1> DEFINE id == NewIds({o})[o]
           u == [World EXCEPT !.objects[o].file = f, !.objects[o].own = @ /\ CanOpen(f)]
           stage == [id |-> id, root |-> f]
           own == objects[o].own /\ CanOpen(f)
<1>1. /\ o \in DOMAIN objects /\ id \in Ids \ UsedIds /\ Put(o, f)
      /\ Becomes(LoadUSDStage(u, o, f, id))
      /\ disk' = disk
  BY NewIdIsNew DEF SetRootLayer
<1>2. /\ objects \in [DOMAIN objects -> ObjectType] /\ World.objects = objects
      /\ World = [objects |-> objects, map |-> map, cache |-> cache] /\ WorldOK(World)
      /\ objects[o] \in ObjectType
  BY <1>1, ActualWorld
<1>3. SameStages(World, u) /\ SetFor(World, u, o, f, own, objects[o].anonRootId)
  <2>1. u = [World EXCEPT !.objects[o].file = f, !.objects[o].own = own]
    BY DEF World
  <2>2. own \in BOOLEAN /\ f \in Files \cup {None}
    OBVIOUS
  <2> HIDE DEF own, u
  <2> QED BY <1>1, <1>2, <2>1, <2>2, FileSet, FieldsSet
<1>4. own => objects[o].own /\ CanOpen(f)
  OBVIOUS
<1> HIDE DEF id, u, own
<1>5. NamesOf(World, u) /\ \A p \in DOMAIN objects \ {o} : u.objects[p] = objects[p]
  BY <1>1, <1>3, <1>4, FieldsNamed
<1>6. u.objects[o].file = f /\ u.objects[o].own = own /\ u.objects[o].anonRootId = objects[o].anonRootId
  BY <1>3 DEF SetFor
<1>7. stage \in Stages /\ stage.root = f
  BY <1>1 DEF Stages, Layers
<1> HIDE DEF stage
<1>8. CASE CanOpen(f)
  <2>1. Becomes(SetUSDStage(u, o, stage))
    BY <1>1, <1>8 DEF LoadUSDStage, stage
  <2>2. Replaces(u, o, stage)
    BY <1>1, <1>3, <1>5, <2>1 DEF Replaces
  <2>3. ObjectBecomes(u, o)
    BY <1>1, <1>7, <2>2, ObjectReplaced
  <2>4. /\ \A r \in Records' : {r.oldStage, r.newStage} \subseteq LiveStages \cup {None}
        /\ OnlyClaim(World, Records, Records', o, stage)
    BY <1>1, <2>3, PutClaims DEF ObjectBecomes
  <2>5. f \in DOMAIN disk
    BY <1>8 DEF CanOpen, StageInv, LeadInv, FilesOnDisk
  <2>6. \A p \in DOMAIN objects : objects[p].anonRootId # None => stage.root # objects[p].anonRootId
    BY <1>2, <1>7, FileIsNoName DEF ObjectType
  <2>7. LeadTo(DOMAIN disk', stage, u.objects[o].file, u.objects[o].anonRootId)
    BY <1>1, <1>6, <1>7, <2>5 DEF LeadTo
  <2>8. HistoryInv'
    BY <1>1, <1>4, <1>6, <2>3, PutLeads DEF ObjectBecomes
  <2> QED BY <1>1, <1>7, <2>2, <2>4, <2>5, <2>6, <2>7, <2>8, LeadReplaced
<1>9. CASE ~ CanOpen(f)
  <2>1. Becomes(u)
    BY <1>1, <1>9 DEF LoadUSDStage
  <2>2. /\ WorldOK(u)
        /\ \A records : \A p \in DOMAIN objects : \A s :
              Claims(u, records, p, s) <=> Claims(World, records, p, s)
    BY <1>2, <1>3, ParametersSet
  <2>3. World' = u /\ objects' = u.objects
    BY <2>1, <2>2, WorldBecomes
  <2>4. /\ DOMAIN objects' = DOMAIN objects /\ u.cache = cache
        /\ \A p \in DOMAIN objects : u.objects[p].stage = objects[p].stage
    BY <1>2, <1>3, <2>3 DEF SameStages, World
  <2>5. /\ \A r \in Records' : {r.oldStage, r.newStage} \subseteq LiveStages \cup {None}
        /\ OnlyClaim(World, Records, Records', o, None)
    BY <1>1, <2>4, PutClaims
  <2>6. LiveIn(u, Records', LiveStages)
    BY <2>3, <2>4, <2>5, LiveTypes DEF LiveIn
  <2>7. LiveStages' \subseteq LiveStages
    BY <2>3, <2>6, LiveAfter
  <2>8. \A p \in DOMAIN objects : \A s \in Stages :
            Claims(World', Records', p, s) => Claims(World', Records, p, s)
    <3>1. None \notin Stages
      BY SceneSaveAssumption DEF Stages, Layers, Ids
    <3> QED BY <1>2, <2>2, <2>3, <2>4, <2>5, <3>1 DEF OnlyClaim, Claims
  <2>9. \A p \in DOMAIN objects : objects'[p].own => p # o
    BY <1>4, <1>6, <1>9, <2>3
  <2>10. HistoryInv'
    BY <1>1, <1>5, <2>3, <2>9, PutLeads
  <2> QED BY <1>1, <1>3, <1>5, <2>3, <2>7, <2>8, <2>9, <2>10, LeadNamed
<1> QED BY <1>8, <1>9

(* SetStageFromCache: nobody has the name of the stage's root, unless the object shows it. *)
LEMMA SetStageFromCacheLeads ==
    ASSUME ~ Sharing, StageInv, LeadInv, maxFile' = maxFile, NEW o \in Objects,
           NEW stage \in cache, SetStageFromCache(o, stage)
    PROVE  LeadInv'
<1> DEFINE file == IF IsAnonymous(stage.root) THEN None ELSE stage.root
           u == [World EXCEPT !.objects[o].file = file, !.objects[o].own = FALSE]
<1>1. /\ o \in DOMAIN objects /\ Put(o, file) /\ disk' = disk
      /\ Becomes(SetUSDStage(u, o, stage))
      /\ stage \notin StagesOfOthers(o)
  BY DEF SetStageFromCache
<1>2. /\ stage \in Stages /\ stage \in LiveStages
      /\ World = [objects |-> objects, map |-> map, cache |-> cache] /\ World.cache = cache
      /\ World.objects = objects /\ objects \in [DOMAIN objects -> ObjectType]
  BY LiveTypes, ActualWorld
<1>3. file \in Files \cup {None}
  BY DEF IsAnonymous
<1>4. SameStages(World, u) /\ SetFor(World, u, o, file, FALSE, objects[o].anonRootId)
  <2> HIDE DEF file
  <2> QED BY <1>1, <1>2, <1>3, FileSet, FieldsSet
<1> HIDE DEF file, u
<1>5. NamesOf(World, u) /\ \A p \in DOMAIN objects \ {o} : u.objects[p] = objects[p]
  BY <1>1, <1>4, FieldsNamed
<1>6. ~ u.objects[o].own
  BY <1>4 DEF SetFor
<1>7. Replaces(u, o, stage)
  BY <1>1, <1>4, <1>5 DEF Replaces
<1>8. ObjectBecomes(u, o)
  BY <1>1, <1>2, <1>7, ObjectReplaced
<1>9. /\ \A r \in Records' : {r.oldStage, r.newStage} \subseteq LiveStages \cup {None}
      /\ OnlyClaim(World, Records, Records', o, stage)
  BY <1>1, <1>3, <1>8, PutClaims DEF ObjectBecomes
<1>10. ASSUME NEW p \in DOMAIN objects \ {o}, objects[p].own, objects[p].anonRootId # None
       PROVE  stage.root # objects[p].anonRootId
  <2>1. CASE stage = objects[o].stage
    <3>1. Claims(World, Records, o, stage)
      BY <1>2, <2>1 DEF Claims
    <3> QED BY <1>1, <1>2, <1>10, <3>1 DEF LeadInv, RootsOwn
  <2>2. CASE stage # objects[o].stage
    <3>1. \A q \in DOMAIN objects : stage # objects[q].stage
      BY <1>1, <2>2 DEF StagesOfOthers
    <3> QED BY <1>2, <3>1 DEF LeadInv, CacheRight
  <2> QED BY <2>1, <2>2
<1>11. HistoryInv'
  BY <1>1, <1>3, <1>6, <1>8, PutLeads DEF ObjectBecomes
<1> QED BY <1>1, <1>2, <1>6, <1>7, <1>9, <1>10, <1>11, LeadReplaced

(* An object that gets a stage back has a claim to it, so it is on nobody else's root. *)
LEMMA RestoreLeads ==
    ASSUME StageInv, LeadInv, maxFile' = maxFile, NEW o \in DOMAIN objects, NEW stage \in Stages,
           NEW f \in Files \cup {None}, Restore(o, stage, f),
           stage \in LiveStages, Claims(World, Records, o, stage),
           \A r \in Records' : {r.oldStage, r.newStage} \subseteq LiveStages \cup {None},
           OnlyClaim(World, Records, Records', o, stage),
           objects[o].own => LeadTo(DOMAIN disk, stage, f, objects[o].anonRootId)
    PROVE  /\ HistoryInv' => LeadInv'
           /\ DOMAIN objects' = DOMAIN objects /\ objects'[o].file = f /\ disk' = disk
           /\ SameNames(DOMAIN objects, objects, objects')
           /\ OnlyChanges(DOMAIN objects, objects, objects', o)
<1> DEFINE u == [World EXCEPT !.objects[o].file = f]
<1>1. Becomes(SetUSDStage(u, o, stage)) /\ disk' = disk
  BY DEF Restore
<1>2. SameStages(World, u) /\ SetFor(World, u, o, f, objects[o].own, objects[o].anonRootId)
  BY ActualWorld, FileSet, FieldsSet
<1> HIDE DEF u
<1>3. NamesOf(World, u) /\ \A p \in DOMAIN objects \ {o} : u.objects[p] = objects[p]
  BY <1>2, FieldsNamed
<1>4. /\ u.objects[o].file = f /\ u.objects[o].own = objects[o].own
      /\ u.objects[o].anonRootId = objects[o].anonRootId
  BY <1>2 DEF SetFor
<1>5. Replaces(u, o, stage)
  BY <1>1, <1>2, <1>3 DEF Replaces
<1>6. ObjectBecomes(u, o)
  BY <1>5, ObjectReplaced
<1>7. \A p \in DOMAIN objects \ {o} :
          objects[p].own /\ objects[p].anonRootId # None => stage.root # objects[p].anonRootId
  BY ActualWorld DEF LeadInv, RootsOwn
<1>8. HistoryInv' => LeadInv'
  BY <1>1, <1>4, <1>5, <1>7, LeadReplaced
<1> QED BY <1>1, <1>4, <1>6, <1>8 DEF ObjectBecomes, SameNames, OnlyChanges

(* Undo. *)
LEMMA UndoLeadsOn ==
    ASSUME StageInv, LeadInv, maxFile' = maxFile, Undo
    PROVE  LeadInv'
<1> DEFINE r == Last(undo)
           q == [r EXCEPT !.newStage = objects[r.object].stage]
           S == RecordType(DOMAIN objects, Stages \cup {None})
           T == RecordType(DOMAIN objects, Stages)
<1>1. /\ Restore(r.object, r.oldStage, r.oldFile)
      /\ undo' = Front(undo) /\ redo' = Append(redo, q)
  BY DEF Undo
<1>2. undo # << >> /\ undo \in Seq(S) /\ redo \in Seq(T) /\ RecordsOK
  BY DEF Undo, StageInv, RecordsOK
<1>3. r \in S /\ r \in Records
  BY <1>2, LastAndFront DEF Records
<1> HIDE DEF r
<1>4. /\ r.object \in DOMAIN objects /\ r.oldStage \in Stages /\ r.oldFile \in Files \cup {None}
      /\ r = Last(undo)
  BY <1>3 DEF RecordType, r
<1>5. /\ q \in T /\ q.object = r.object /\ q.oldStage = r.oldStage /\ q.oldFile = r.oldFile
      /\ q.newFile = r.newFile /\ q.newStage = objects[r.object].stage
  <2>1. objects[r.object].stage \in Stages
    BY <1>4, LiveTypes
  <2> QED BY <1>3, <2>1 DEF RecordType
<1> HIDE DEF q
<1>6. DOMAIN objects' = DOMAIN objects
  BY <1>1, <1>4, RestoreKeeps
<1>7. \A e \in Records' :
          \/ e \in Records
          \/ e.object = r.object /\ e.oldStage = r.oldStage /\ e.newStage = objects[r.object].stage
  BY <1>4, <1>6, ActualWorld, UndoRecords
<1>8. Claims(World, Records, r.object, r.oldStage) /\ r.oldStage \in LiveStages
  BY <1>3, <1>4, RecordClaims
<1>9. \A e \in Records' : {e.oldStage, e.newStage} \subseteq LiveStages \cup {None}
  BY <1>4, <1>7, <1>8, LiveBefore, LiveTypes DEF LiveIn
<1>10. OnlyClaim(World, Records, Records', r.object, r.oldStage)
  BY <1>7, ActualWorld DEF OnlyClaim, Claims
<1>11. About(undo, DOMAIN objects) /\ About(redo, DOMAIN objects)
  BY <1>2, RecordsAbout
<1>12. objects[r.object].own =>
           LeadTo(DOMAIN disk, r.oldStage, r.oldFile, objects[r.object].anonRootId)
  <2> HIDE DEF S
  <2>1. Len(undo) \in 1 .. Len(undo) /\ r = undo[Len(undo)]
    BY <1>2, <1>4, FrontAt
  <2> QED BY <2>1 DEF LeadInv, HistoryOK, RecordsLead, UndoLeads
<1>13. /\ HistoryInv' => LeadInv'
       /\ DOMAIN objects' = DOMAIN objects /\ objects'[r.object].file = r.oldFile /\ disk' = disk
       /\ SameNames(DOMAIN objects, objects, objects')
       /\ OnlyChanges(DOMAIN objects, objects, objects', r.object)
  BY <1>1, <1>4, <1>8, <1>9, <1>10, <1>12, RestoreLeads
<1>14. HistoryOK(objects, DOMAIN disk, undo, redo) /\ ParametersLead(objects, DOMAIN disk)
  BY DEF LeadInv
<1> HIDE DEF S, T
<1>15. HistoryOK(objects', DOMAIN disk, Front(undo), Append(redo, q))
  BY <1>2, <1>4, <1>5, <1>11, <1>13, <1>14, HistoryUndo
<1> QED BY <1>1, <1>13, <1>15 DEF HistoryInv

(* Redo. *)
LEMMA RedoLeadsOn ==
    ASSUME StageInv, LeadInv, maxFile' = maxFile, Redo
    PROVE  LeadInv'
<1> DEFINE r == Last(redo)
           S == RecordType(DOMAIN objects, Stages \cup {None})
           T == RecordType(DOMAIN objects, Stages)
<1>1. /\ Restore(r.object, r.newStage, r.newFile)
      /\ redo' = Front(redo) /\ undo' = Append(undo, r)
  BY DEF Redo
<1>2. redo # << >> /\ undo \in Seq(S) /\ redo \in Seq(T) /\ RecordsOK
  BY DEF Redo, StageInv, RecordsOK
<1>3. r \in T /\ r \in Records
  BY <1>2, LastAndFront DEF Records
<1> HIDE DEF r
<1>4. /\ r.object \in DOMAIN objects /\ r.newStage \in Stages /\ r.newFile \in Files \cup {None}
      /\ r = Last(redo) /\ r \in S
  BY <1>3 DEF RecordType, r
<1>5. DOMAIN objects' = DOMAIN objects
  BY <1>1, <1>4, RestoreKeeps
<1>6. Records' \subseteq Records
  BY <1>4, <1>5, ActualWorld, RedoRecords
<1>7. Claims(World, Records, r.object, r.newStage) /\ r.newStage \in LiveStages
  BY <1>3, <1>4, RecordClaims
<1>8. \A e \in Records' : {e.oldStage, e.newStage} \subseteq LiveStages \cup {None}
  BY <1>6, LiveBefore DEF LiveIn
<1>9. OnlyClaim(World, Records, Records', r.object, r.newStage)
  BY <1>6 DEF OnlyClaim, Claims
<1>10. About(undo, DOMAIN objects) /\ About(redo, DOMAIN objects)
  BY <1>2, RecordsAbout
<1>11. objects[r.object].own =>
           LeadTo(DOMAIN disk, r.newStage, r.newFile, objects[r.object].anonRootId)
  <2> HIDE DEF T
  <2>1. Len(redo) \in 1 .. Len(redo) /\ r = redo[Len(redo)]
    BY <1>2, <1>4, FrontAt
  <2> QED BY <2>1 DEF LeadInv, HistoryOK, RecordsLead, RedoLeads
<1>12. /\ HistoryInv' => LeadInv'
       /\ DOMAIN objects' = DOMAIN objects /\ objects'[r.object].file = r.newFile /\ disk' = disk
       /\ SameNames(DOMAIN objects, objects, objects')
       /\ OnlyChanges(DOMAIN objects, objects, objects', r.object)
  BY <1>1, <1>4, <1>7, <1>8, <1>9, <1>11, RestoreLeads
<1>13. HistoryOK(objects, DOMAIN disk, undo, redo)
  BY DEF LeadInv
<1> HIDE DEF S, T
<1>14. HistoryOK(objects', DOMAIN disk, Append(undo, r), Front(redo))
  BY <1>2, <1>4, <1>10, <1>12, <1>13, HistoryRedo
<1> QED BY <1>1, <1>12, <1>14 DEF HistoryInv

(* An object that leads to its anonymous root has no file: nothing of its own is to be undone *)
(* when it gets one behind the back of the undo stack.                                       *)
LEMMA UpdateRootLayerLeads ==
    ASSUME StageInv, LeadInv, maxFile' = maxFile, NEW o \in DOMAIN objects, NEW f \in Files,
           NEW id \in Ids \ UsedIds, IsAnonymous(Root(o)),
           Becomes(UpdateRootLayer(World, o, f, id)), UNCHANGED <<undo, redo>>,
           DOMAIN disk \cup {f} \subseteq DOMAIN disk'
    PROVE  LeadInv'
<1> DEFINE u == [World EXCEPT !.objects[o].file = f, !.objects[o].anonRootId = None]
           stage == [id |-> id, root |-> f]
<1>1. Becomes(SetUSDStage(u, o, stage)) /\ stage \in Stages /\ stage.root = f
  BY DEF UpdateRootLayer, Stages, Layers
<1>2. SameStages(World, u) /\ SetFor(World, u, o, f, objects[o].own, None)
  <2>1. f \in Files \cup {None}
    OBVIOUS
  <2> QED BY <2>1, ActualWorld, FileSet, FieldsSet
<1> HIDE DEF u, stage
<1>3. NamesOf(World, u) /\ \A p \in DOMAIN objects \ {o} : u.objects[p] = objects[p]
  BY <1>2, FieldsNamed
<1>4. u.objects[o].file = f /\ u.objects[o].own = objects[o].own /\ u.objects[o].anonRootId = None
  BY <1>2 DEF SetFor
<1>5. Replaces(u, o, stage)
  BY <1>1, <1>2, <1>3 DEF Replaces
<1>6. ObjectBecomes(u, o)
  BY <1>1, <1>5, ObjectReplaced
<1>7. Records' = Records
  BY DEF Records
<1>8. \A r \in Records' : {r.oldStage, r.newStage} \subseteq LiveStages \cup {stage, None}
  BY <1>7, LiveBefore DEF LiveIn
<1>9. OnlyClaim(World, Records, Records', o, stage)
  BY <1>7 DEF OnlyClaim, Claims
<1>10. \A p \in DOMAIN objects : objects[p].anonRootId # None => stage.root # objects[p].anonRootId
  BY <1>1, LiveTypes, FileIsNoName DEF ObjectType
<1>11. LeadTo(DOMAIN disk', stage, f, None)
  BY <1>1 DEF LeadTo
<1>12. \A p \in DOMAIN objects : ChangedFor(objects, objects', p)
  <2>1. ASSUME NEW p \in DOMAIN objects \ {o} PROVE ChangedFor(objects, objects', p)
    BY <1>6 DEF ObjectBecomes, ChangedFor
  <2>2. objects[o].own => objects[o].file \notin Files
    BY FileIsNoName DEF LeadInv, ParametersLead, LeadTo, IsAnonymous, Root
  <2>3. ChangedFor(objects, objects', o)
    BY <1>4, <1>6, <2>2 DEF ObjectBecomes, ChangedFor
  <2> QED BY <2>1, <2>3
<1>13. HistoryInv'
  BY <1>12, HistoryKept
<1> QED BY <1>1, <1>4, <1>5, <1>8, <1>9, <1>10, <1>11, <1>13, LeadReplaced

(* The layer editor: the file is written before the object leads to it. *)
LEMMA SaveAnonymousRootLeads ==
    ASSUME StageInv, LeadInv, maxFile' = maxFile, NEW o \in Objects, NEW f \in Files,
           SaveAnonymousRoot(o, f)
    PROVE  LeadInv'
<1> DEFINE id == NewIds({o})[o]
<1>1. /\ o \in DOMAIN objects /\ id \in Ids \ UsedIds /\ IsAnonymous(Root(o))
      /\ Becomes(UpdateRootLayer(World, o, f, id))
      /\ disk' = With(disk, f, layers[Root(o)].data) /\ UNCHANGED <<undo, redo>>
  BY NewIdIsNew DEF SaveAnonymousRoot, MayBecome
<1> HIDE DEF id
<1>2. DOMAIN disk \cup {f} \subseteq DOMAIN disk'
  BY <1>1 DEF With
<1> QED BY <1>1, <1>2, UpdateRootLayerLeads

(* "Save all" may do the same for one of the layers. *)
LEMMA SaveAllLeads ==
    ASSUME StageInv, LeadInv, maxFile' = maxFile, NEW o \in Objects, NEW failing, SaveAll(o, failing)
    PROVE  LeadInv'
<1> DEFINE saved == {d[2] : d \in GetDirtyLayersToSave} \cap (Files \ failing)
           datas == [l \in saved |-> layers[l].data]
<1>1. \A d : DOMAIN d \subseteq DOMAIN Over(datas, d)
  BY DEF Over
<1>2. CASE disk' = Over(datas, disk) /\ UNCHANGED <<objects, map, cache, undo, redo>>
  <2>1. World' = World /\ Records' = Records /\ LiveStages' = LiveStages
    BY <1>2 DEF World, Records, LiveStages
  <2>2. DOMAIN disk \subseteq DOMAIN disk'
    BY <1>1, <1>2
  <2>3. \A p \in DOMAIN objects : ChangedFor(objects, objects', p)
    BY <1>2 DEF ChangedFor
  <2>4. HistoryInv'
    BY <1>2, <2>2, <2>3, HistoryKept
  <2>5. ParametersLead(objects', DOMAIN disk')
    BY <1>2, <2>2, LeadStill DEF LeadInv, ParametersLead
  <2> QED BY <2>1, <2>2, <2>4, <2>5 DEF LeadInv, HistoryInv, FilesOnDisk
<1>3. ASSUME NEW d \in GetDirtyLayersToSave, NEW f \in Files,
             MayBecome(d[1], f), CanName({o}), UNCHANGED <<undo, redo>>,
             Becomes(UpdateRootLayer(World, d[1], f, NewIds({o})[o])),
             disk' = Over(datas, With(disk, f, layers[d[2]].data))
      PROVE  LeadInv'
  <2>1. d[1] \in DOMAIN objects /\ IsAnonymous(Root(d[1]))
    BY <1>3, DirtyLayers DEF MayBecome
  <2>2. NewIds({o})[o] \in Ids \ UsedIds
    BY <1>3, NewIdIsNew
  <2>3. DOMAIN disk \cup {f} \subseteq DOMAIN disk'
    <3>1. DOMAIN With(disk, f, layers[d[2]].data) = DOMAIN disk \cup {f}
      BY DEF With
    <3> QED BY <1>1, <1>3, <3>1
  <2> QED BY <1>3, <2>1, <2>2, <2>3, UpdateRootLayerLeads
<1> QED BY <1>2, <1>3 DEF SaveAll

(* The constructor: a new object has the name of its root. *)
LEMMA CreateLeads ==
    ASSUME StageInv, LeadInv, maxFile' = maxFile, NEW o \in Objects, Create(o)
    PROVE  LeadInv'
<1> DEFINE id == NewIds({o})[o]
           v == CreateInMemoryStage(World, o, id)
<1>1. /\ o \notin DOMAIN objects /\ id \in Ids \ UsedIds
      /\ Becomes(v) /\ UNCHANGED <<disk, undo, redo>>
  BY NewIdIsNew DEF Create
<1> HIDE DEF id
<1>2. WorldOK(World) /\ World.objects = objects /\ World.cache = cache
  BY DEF StageInv, World
<1>3. WorldOK(v) /\ NewStage(World, o, id, v)
  BY <1>1, <1>2, StageCreated
<1>4. World' = v /\ objects' = v.objects /\ cache' = v.cache /\ Records' = Records
  BY <1>1, <1>3, WorldBecomes DEF Records
<1>5. RootsOwn(v, Records) /\ CacheRight(v, maxFile.objects)
  <2>1. \A r \in Records : r.object # o
    BY <1>1, RecordsType DEF StageInv, RecordType
  <2>2. \A s \in cache : s.root # id
    BY <1>1, FreshName, LiveTypes
  <2>3. \A p \in DOMAIN objects :
            /\ objects[p].anonRootId # id
            /\ \A s \in Stages : Claims(World, Records, p, s) => s.root # id
    BY <1>1, FreshName
  <2> HIDE DEF v
  <2>4. v = CreateInMemoryStage(World, o, id)
    BY DEF v
  <2> QED BY <1>1, <1>2, <2>1, <2>2, <2>3, <2>4, RootsCreated DEF LeadInv
<1> HIDE DEF v
<1>6. /\ DOMAIN objects' = DOMAIN objects \cup {o}
      /\ objects'[o].stage = InMemoryStage(id) /\ objects'[o].file = None
      /\ objects'[o].anonRootId = id
      /\ \A p \in DOMAIN objects : objects'[p] = objects[p]
      /\ cache' = cache \cup {InMemoryStage(id)}
  BY <1>2, <1>3, <1>4 DEF NewStage
<1>7. InMemoryStage(id).root = id /\ id \notin Files
  BY <1>1, InMemory
<1>8. ParametersLead(objects', DOMAIN disk')
  <2>1. LeadTo(DOMAIN disk', objects'[o].stage, objects'[o].file, objects'[o].anonRootId)
    BY <1>6, <1>7 DEF LeadTo
  <2> QED BY <1>1, <1>6, <2>1 DEF LeadInv, ParametersLead
<1>9. HistoryInv'
  <2>1. \A p \in DOMAIN objects : ChangedFor(objects, objects', p)
    BY <1>6 DEF ChangedFor
  <2> QED BY <1>1, <2>1, HistoryKept
<1>10. FilesOnDisk'
  <2>1. LiveIn(v, Records', LiveStages \cup {InMemoryStage(id)})
    BY <1>4, <1>6, LiveBefore, LiveTypes DEF LiveIn
  <2>2. LiveStages' \subseteq LiveStages \cup {InMemoryStage(id)}
    BY <1>4, <2>1, LiveAfter
  <2> QED BY <1>1, <1>7, <2>2 DEF LeadInv, FilesOnDisk
<1> QED BY <1>4, <1>5, <1>8, <1>9, <1>10 DEF LeadInv, HistoryInv

(* What a script inserts into the cache is on a new root. *)
LEMMA InsertLeads ==
    ASSUME StageInv, LeadInv, maxFile' = maxFile, InsertInCache
    PROVE  LeadInv'
<1> DEFINE id == NewIds({None})[None]
<1>1. /\ id \in Ids \ UsedIds
      /\ cache' = cache \cup {InMemoryStage(id)}
      /\ UNCHANGED <<objects, map, disk, undo, redo>>
  BY NewIdIsNew DEF InsertInCache
<1> HIDE DEF id
<1>2. /\ World.objects = objects /\ World.cache = cache
      /\ World'.objects = objects /\ World'.cache = cache \cup {InMemoryStage(id)}
      /\ Records' = Records
  BY <1>1 DEF World, Records
<1>3. InMemoryStage(id).root = id /\ id \notin Files
  BY <1>1, InMemory
<1>4. RootsOwn(World', Records')
  BY <1>2 DEF LeadInv, RootsOwn, Claims
<1>5. CacheRight(World', maxFile'.objects)
  BY <1>1, <1>2, <1>3, FreshName DEF LeadInv, CacheRight
<1>6. FilesOnDisk'
  <2>1. LiveIn(World', Records', LiveStages \cup {InMemoryStage(id)})
    BY <1>2, LiveBefore, LiveTypes DEF LiveIn
  <2>2. LiveStages' \subseteq LiveStages \cup {InMemoryStage(id)}
    BY <2>1, LiveAfter
  <2> QED BY <1>1, <1>3, <2>2 DEF LeadInv, FilesOnDisk
<1>7. HistoryInv' /\ ParametersLead(objects', DOMAIN disk')
  BY <1>1 DEF LeadInv, HistoryInv
<1> QED BY <1>4, <1>5, <1>6, <1>7 DEF LeadInv, HistoryInv

(* Flags of an object do not matter. *)
LEMMA FlagLeads ==
    ASSUME StageInv, LeadInv, maxFile' = maxFile, NEW o \in DOMAIN objects, NEW e \in BOOLEAN,
           \/ objects' = [objects EXCEPT ![o].inScene = e]
           \/ objects' = [objects EXCEPT ![o].interruptSave = e],
           UNCHANGED <<map, cache, disk, undo, redo>>
    PROVE  LeadInv'
<1> DEFINE shown == [objects[o] EXCEPT !.inScene = e]
           flagged == [objects[o] EXCEPT !.interruptSave = e]
<1>1. objects[o] \in ObjectType
  BY ActualWorld
<1>2. \A new \in {shown, flagged} :
          /\ new \in ObjectType /\ new.stage = objects[o].stage /\ new.file = objects[o].file
          /\ new.anonRootId = objects[o].anonRootId /\ new.own = objects[o].own
  BY <1>1 DEF ObjectType
<1>3. PICK new \in {shown, flagged} : objects' = [objects EXCEPT ![o] = new]
  OBVIOUS
<1> HIDE DEF shown, flagged
<1>4. /\ new \in ObjectType /\ new.stage = objects[o].stage /\ new.file = objects[o].file
      /\ new.anonRootId = objects[o].anonRootId /\ new.own = objects[o].own
  BY <1>2
<1>5. World' = [objects |-> [objects EXCEPT ![o] = new], map |-> map, cache |-> cache]
  BY <1>3 DEF World
<1>6. SameStages(World, World')
  BY <1>4, <1>5, ActualWorld, ObjectSet
<1>7. \A p \in DOMAIN objects :
          /\ objects'[p].stage = objects[p].stage /\ objects'[p].file = objects[p].file
          /\ objects'[p].anonRootId = objects[p].anonRootId /\ objects'[p].own = objects[p].own
  BY <1>3, <1>4
<1>8. World.objects = objects /\ World'.objects = objects'
  BY DEF World
<1>9. NamesOf(World, World')
  BY <1>7, <1>8 DEF NamesOf
<1>10. DOMAIN objects' = DOMAIN objects
  BY <1>3
<1>11. Records' = Records /\ LiveStages' = LiveStages
  BY <1>7, <1>10 DEF Records, LiveStages
<1>12. HistoryInv'
  <2>1. \A p \in DOMAIN objects : ChangedFor(objects, objects', p)
    BY <1>7 DEF ChangedFor
  <2> QED BY <2>1, HistoryKept
<1> QED BY <1>6, <1>7, <1>9, <1>11, <1>12, LeadNamed

(* The parameters of a copy and of its original. *)
LEMMA CopySet ==
    ASSUME NEW w, WorldOK(w), NEW o \in DOMAIN w.objects, NEW copy \in DOMAIN w.objects,
           NEW pb, o # copy,
           NEW v, v = [w EXCEPT !.objects = [@ EXCEPT ![copy] = pb, ![o].own = FALSE]]
    PROVE  /\ v.objects[copy] = pb
           /\ v.objects[o].own = FALSE /\ v.objects[o].file = w.objects[o].file
           /\ v.objects[o].anonRootId = w.objects[o].anonRootId
           /\ \A p \in DOMAIN w.objects \ {o, copy} : v.objects[p] = w.objects[p]
<1> DEFINE objs == [w.objects EXCEPT ![copy] = pb]
           new == [w.objects[o] EXCEPT !.own = FALSE]
<1>1. w = [objects |-> w.objects, map |-> w.map, cache |-> w.cache]
  BY DEF WorldOK
<1>2. w.objects \in [DOMAIN w.objects -> ObjectType]
  BY DEF WorldOK
<1>3. w.objects[o] \in ObjectType
  BY <1>2
<1>4. /\ new.own = FALSE /\ new.file = w.objects[o].file
      /\ new.anonRootId = w.objects[o].anonRootId
  BY <1>3 DEF ObjectType
<1>5. /\ o \in DOMAIN objs /\ objs[o] = w.objects[o] /\ objs[copy] = pb
      /\ \A p \in DOMAIN w.objects \ {o, copy} : objs[p] = w.objects[p]
  BY <1>2
<1>6. v.objects = [objs EXCEPT ![o] = new]
  <2>1. v.objects = [objs EXCEPT ![o].own = FALSE]
    BY <1>1
  <2> HIDE DEF objs
  <2>2. [objs EXCEPT ![o].own = FALSE] = [objs EXCEPT ![o] = new]
    BY <1>5
  <2> QED BY <2>1, <2>2
<1>7. DOMAIN objs = DOMAIN w.objects
  OBVIOUS
<1> HIDE DEF objs, new
<1> QED BY <1>4, <1>5, <1>6, <1>7

(* Cloning: neither object is its own then. *)
LEMMA CloneLeads ==
    ASSUME StageInv, LeadInv, maxFile' = maxFile, NEW o \in Objects, NEW copy \in Objects,
           Clone(o, copy)
    PROVE  LeadInv'
<1> DEFINE id == NewIds({o, copy})
           ic == id[copy]
           io == id[o]
           w == CreateInMemoryStage(World, copy, id[copy])
           pb == [w.objects[copy] EXCEPT !.file = objects[o].file,
                                         !.anonRootId = objects[o].anonRootId,
                                         !.own = FALSE]
           u == [w EXCEPT !.objects = [@ EXCEPT ![copy] = pb, ![o].own = FALSE]]
           stage == [id |-> io, root |-> pb.file]
<1>1. /\ o \in DOMAIN objects /\ copy \notin DOMAIN objects
      /\ ic \in Ids \ UsedIds /\ io \in Ids \ UsedIds /\ ic # io
      /\ Becomes(LoadUSDStage(u, copy, pb.file, io))
      /\ UNCHANGED <<disk, undo, redo>>
  BY TwoNewIds DEF Clone
<1> HIDE DEF id, ic, io
<1>2. WorldOK(w) /\ NewStage(World, copy, ic, w)
  <2> HIDE DEF w
  <2>1. w = CreateInMemoryStage(World, copy, ic)
    BY DEF w, ic
  <2> QED BY <1>1, <2>1, ActualWorld, StageCreated
<1>3. RootsOwn(w, Records) /\ CacheRight(w, maxFile.objects)
  <2>1. \A r \in Records : r.object # copy
    BY <1>1, RecordsType DEF StageInv, RecordType
  <2>2. \A s \in cache : s.root # ic
    BY <1>1, FreshName, LiveTypes
  <2>3. \A p \in DOMAIN objects :
            /\ objects[p].anonRootId # ic
            /\ \A s \in Stages : Claims(World, Records, p, s) => s.root # ic
    BY <1>1, FreshName
  <2> HIDE DEF w
  <2>4. w = CreateInMemoryStage(World, copy, ic)
    BY DEF w, ic
  <2> QED BY <1>1, <2>1, <2>2, <2>3, <2>4, ActualWorld, RootsCreated DEF LeadInv
<1> HIDE DEF w
<1>4. /\ DOMAIN w.objects = DOMAIN objects \cup {copy}
      /\ w.objects[copy] = [stage |-> InMemoryStage(ic), file |-> None, anonRootId |-> ic,
                            inScene |-> TRUE, interruptSave |-> FALSE, own |-> TRUE]
      /\ \A p \in DOMAIN objects : w.objects[p] = objects[p]
      /\ w.cache = cache \cup {InMemoryStage(ic)}
  BY <1>2, ActualWorld DEF NewStage
<1>5. /\ pb \in ObjectType /\ pb.stage = InMemoryStage(ic) /\ pb.file \in Files \cup {None}
      /\ pb.own = FALSE /\ pb.anonRootId = objects[o].anonRootId
  <2>1. objects[o] \in ObjectType /\ w.objects[copy] \in ObjectType
    BY <1>1, <1>2, <1>4, ActualWorld DEF WorldOK
  <2>2. objects[o].file \in Files \cup {None} /\ objects[o].anonRootId \in Ids \cup {None}
    BY <2>1 DEF ObjectType
  <2>3. PICK c \in ObjectType : c = w.objects[copy]
    BY <2>1
  <2>4. pb = [c EXCEPT !.file = objects[o].file, !.anonRootId = objects[o].anonRootId, !.own = FALSE]
    BY <2>3
  <2>5. c.stage = InMemoryStage(ic)
    BY <1>4, <2>3
  <2> HIDE DEF pb
  <2> QED BY <2>2, <2>4, <2>5 DEF ObjectType
<1> HIDE DEF pb
<1>6. SameStages(w, u)
  BY <1>1, <1>2, <1>4, <1>5, CopyMade
<1>7. /\ u.objects[copy] = pb /\ u.objects[o].own = FALSE
      /\ u.objects[o].anonRootId = objects[o].anonRootId
      /\ \A p \in DOMAIN objects \ {o} : u.objects[p] = objects[p]
  <2> HIDE DEF u
  <2>1. u = [w EXCEPT !.objects = [@ EXCEPT ![copy] = pb, ![o].own = FALSE]]
    BY DEF u
  <2> QED BY <1>1, <1>2, <1>4, <2>1, CopySet
<1> HIDE DEF u
<1>8. /\ WorldOK(u)
      /\ \A records : \A p \in DOMAIN w.objects : \A s :
            Claims(u, records, p, s) <=> Claims(w, records, p, s)
  BY <1>2, <1>6, ParametersSet
<1>9. /\ DOMAIN u.objects = DOMAIN objects \cup {copy}
      /\ u.objects[copy].stage = InMemoryStage(ic)
      /\ \A p \in DOMAIN objects : u.objects[p].stage = objects[p].stage
      /\ u.cache = cache \cup {InMemoryStage(ic)}
  BY <1>4, <1>6 DEF SameStages
<1>10. RootsOwn(u, Records) /\ CacheRight(u, maxFile.objects)
  <2>1. ASSUME NEW p \in DOMAIN w.objects
        PROVE  /\ u.objects[p].own =>
                     /\ w.objects[p].own
                     /\ u.objects[p].anonRootId \in {w.objects[p].anonRootId, None}
               /\ \/ u.objects[p].anonRootId = None
                  \/ \E q \in DOMAIN w.objects :
                        /\ u.objects[p].anonRootId = w.objects[q].anonRootId
                        /\ q = p \/ ~ u.objects[q].own
    <3>1. CASE p = copy
      <4>1. /\ o \in DOMAIN w.objects /\ ~ u.objects[o].own /\ ~ u.objects[p].own
            /\ u.objects[p].anonRootId = w.objects[o].anonRootId
        BY <1>1, <1>4, <1>5, <1>7, <3>1
      <4> QED BY <4>1
    <3>2. CASE p = o
      BY <1>1, <1>4, <1>7, <3>2
    <3>3. CASE p # copy /\ p # o
      BY <1>4, <1>7, <3>3
    <3> QED BY <3>1, <3>2, <3>3
  <2>2. NamesOf(w, u)
    BY <2>1 DEF NamesOf
  <2> QED BY <1>2, <1>3, <1>6, <2>2, RootsNamed
<1>11. ASSUME NEW v, WorldOK(v), Becomes(v), NEW new,
              RootsOwn(v, Records), CacheRight(v, maxFile.objects),
              DOMAIN v.objects = DOMAIN u.objects,
              v.cache \subseteq cache \cup {InMemoryStage(ic), new},
              v.objects[copy].stage \in {InMemoryStage(ic), new}, v.objects[copy].own = FALSE,
              v.objects[o] = u.objects[o],
              \A p \in DOMAIN objects \ {o} : v.objects[p] = objects[p],
              new = InMemoryStage(ic) \/ new.root \in DOMAIN disk
       PROVE  LeadInv'
  <2>1. World' = v /\ objects' = v.objects
    BY <1>11, WorldBecomes
  <2>2. Records' = Records
    BY <1>1 DEF Records
  <2>3. \A p \in DOMAIN objects' : objects'[p].own => p \in DOMAIN objects \ {o}
    BY <1>7, <1>9, <1>11, <2>1
  <2>4. ParametersLead(objects', DOMAIN disk')
    BY <1>1, <1>11, <2>1, <2>3 DEF LeadInv, ParametersLead
  <2>5. \A p \in DOMAIN objects : ChangedFor(objects, objects', p)
    BY <1>7, <1>11, <2>1 DEF ChangedFor
  <2>6. HistoryInv'
    BY <1>1, <2>5, HistoryKept
  <2>7. LiveIn(v, Records', LiveStages \cup {InMemoryStage(ic), new})
    <3>1. \A p \in DOMAIN objects : v.objects[p].stage \in LiveStages
      BY <1>9, <1>11, LiveTypes
    <3> QED BY <1>9, <1>11, <2>2, <3>1, LiveBefore, LiveTypes DEF LiveIn
  <2>8. LiveStages' \subseteq LiveStages \cup {InMemoryStage(ic), new}
    BY <2>1, <2>7, LiveAfter
  <2>9. InMemoryStage(ic).root \notin Files
    BY <1>1, InMemory
  <2>10. FilesOnDisk'
    BY <1>1, <1>11, <2>8, <2>9 DEF LeadInv, FilesOnDisk
  <2> QED BY <1>11, <2>1, <2>2, <2>4, <2>6, <2>10 DEF LeadInv, HistoryInv
<1>12. CASE CanOpen(pb.file)
  <2> DEFINE v == SetUSDStage(u, copy, stage)
  <2>1. Becomes(v)
    BY <1>1, <1>12 DEF LoadUSDStage
  <2>2. pb.file \in Files /\ pb.file \in DOMAIN disk
    <3>1. pb.file # None
      BY <1>12, SceneSaveAssumption DEF CanOpen, StageInv, LayersOK, Layers, Ids
    <3>2. pb.file \in Files
      BY <1>5, <3>1
    <3> QED BY <1>12, <3>2 DEF CanOpen, StageInv, LeadInv, FilesOnDisk
  <2>3. stage \in Stages /\ stage.root = pb.file
    BY <1>1, <2>2 DEF Stages, Layers
  <2> HIDE DEF stage
  <2>4. WorldOK(v) /\ GivenStage(u, copy, stage, v)
    BY <1>8, <1>9, <2>3, StageGiven
  <2>5. \A p \in DOMAIN u.objects : u.objects[p].anonRootId # None => stage.root # u.objects[p].anonRootId
    <3>1. \A p \in DOMAIN u.objects : u.objects[p] \in ObjectType
      BY <1>8 DEF WorldOK
    <3> QED BY <2>2, <2>3, <3>1, FileIsNoName DEF ObjectType
  <2>6. OnlyClaim(u, Records, Records, copy, stage)
    BY DEF OnlyClaim, Claims
  <2>7. RootsOwn(v, Records) /\ CacheRight(v, maxFile.objects)
    <3> HIDE DEF v
    <3>1. v = SetUSDStage(u, copy, stage)
      BY DEF v
    <3> QED BY <1>8, <1>9, <1>10, <2>3, <2>5, <2>6, <3>1, RootsGiven
  <2> HIDE DEF v
  <2>8. /\ DOMAIN v.objects = DOMAIN u.objects
        /\ v.cache \subseteq cache \cup {InMemoryStage(ic), stage}
        /\ v.objects[copy].stage = stage /\ v.objects[copy].own = FALSE
        /\ v.objects[o] = u.objects[o]
        /\ \A p \in DOMAIN objects \ {o} : v.objects[p] = objects[p]
    <3>1. v.objects[copy] = [pb EXCEPT !.stage = stage]
      BY <1>7, <2>4 DEF GivenStage
    <3>2. v.objects[copy].own = FALSE
      BY <1>5, <3>1 DEF ObjectType
    <3> QED BY <1>1, <1>7, <1>9, <2>4, <3>2 DEF GivenStage
  <2> QED BY <1>11, <2>1, <2>2, <2>3, <2>4, <2>7, <2>8
<1>13. CASE ~ CanOpen(pb.file)
  <2>1. Becomes(u)
    BY <1>1, <1>13 DEF LoadUSDStage
  <2> QED BY <1>5, <1>7, <1>8, <1>9, <1>10, <1>11, <2>1
<1> QED BY <1>12, <1>13

(* Layers do not matter, nor do requests. *)
LEMMA LeadStays ==
    ASSUME LeadInv, UNCHANGED <<objects, map, cache, disk, undo, redo, maxFile>>
    PROVE  LeadInv'
<1>1. World' = World /\ Records' = Records /\ LiveStages' = LiveStages
  BY DEF World, Records, LiveStages
<1> QED BY <1>1 DEF LeadInv, FilesOnDisk

(* Whatever users and scripts do. *)
LEMMA UserEditLeads ==
    ASSUME ~ Sharing, StageInv, LeadInv, UserEdit
    PROVE  LeadInv'
<1>1. maxFile' = maxFile
  BY DEF UserEdit, SceneEdit
<1>2. ASSUME NEW o \in Objects, EditRoot(o) PROVE LeadInv'
  BY <1>1, <1>2, LeadStays DEF EditRoot
<1>3. ASSUME NEW o \in Objects, ToggleNode(o) PROVE LeadInv'
  <2>1. /\ o \in DOMAIN objects /\ objects' = [objects EXCEPT ![o].inScene = ~ objects[o].inScene]
        /\ UNCHANGED <<map, cache, disk, undo, redo>>
    BY <1>3 DEF ToggleNode
  <2>2. (~ objects[o].inScene) \in BOOLEAN
    OBVIOUS
  <2> QED BY <1>1, <2>1, <2>2, FlagLeads
<1>4. ASSUME NEW o \in Objects, Create(o) PROVE LeadInv'
  BY <1>1, <1>4, CreateLeads
<1>5. ASSUME NEW o \in Objects, NEW copy \in Objects, Clone(o, copy) PROVE LeadInv'
  BY <1>1, <1>5, CloneLeads
<1>6. ASSUME NEW o \in Objects, NEW f \in Files, SetRootLayer(o, f) \/ SaveAnonymousRoot(o, f)
      PROVE  LeadInv'
  BY <1>1, <1>6, SetRootLayerLeads, SaveAnonymousRootLeads
<1>7. ASSUME NEW o \in Objects, NEW stage \in cache, SetStageFromCache(o, stage) PROVE LeadInv'
  BY <1>1, <1>7, SetStageFromCacheLeads
<1>8. CASE InsertInCache \/ Undo \/ Redo
  BY <1>1, <1>8, InsertLeads, UndoLeadsOn, RedoLeadsOn
<1> QED BY <1>2, <1>3, <1>4, <1>5, <1>6, <1>7, <1>8 DEF UserEdit

(* Whatever is answered when references are asked for, and what writing does. *)
LEMMA SavingLeads ==
    ASSUME StageInv, LeadInv, NEW o \in Objects,
           \/ SpecifySaveReferences(o) /\ saving.refs \subseteq InScene
           \/ SaveObject(o)
    PROVE  LeadInv'
<1>1. maxFile' = maxFile
  BY DEF SpecifySaveReferences, SaveObject
<1>2. ASSUME UNCHANGED stageVars PROVE LeadInv'
  BY <1>1, <1>2, LeadStays DEF stageVars
<1>3. ASSUME NEW mode, CancelSave(o, mode), o \in DOMAIN objects PROVE LeadInv'
  BY <1>1, <1>3, FlagLeads DEF CancelSave
<1>4. ASSUME InterruptWrite(o) PROVE LeadInv'
  <2>1. o \in DOMAIN objects
    BY <1>4 DEF InterruptWrite, MayWrite, InScene
  <2> QED BY <1>1, <1>4, <2>1, FlagLeads DEF InterruptWrite
<1>5. CASE SaveObject(o)
  BY <1>2, <1>4, <1>5 DEF SaveObject, Write
<1>6. CASE SpecifySaveReferences(o) /\ saving.refs \subseteq InScene
  <2>1. o \in DOMAIN objects
    BY <1>6 DEF SpecifySaveReferences, InScene
  <2>2. ASSUME NEW failing, SaveAll(o, failing) PROVE LeadInv'
    BY <1>1, <2>2, SaveAllLeads
  <2> QED BY <1>2, <1>3, <1>6, <2>1, <2>2 DEF SpecifySaveReferences, NoPrompt, KeepEdits
<1> QED BY <1>5, <1>6

(* No step takes a file from the disk. *)
LEMMA DiskGrows ==
    ASSUME Next
    PROVE  DOMAIN disk \subseteq DOMAIN disk'
<1>1. \A f, x : DOMAIN disk \subseteq DOMAIN With(disk, f, x)
  BY DEF With
<1>2. \A g, d : DOMAIN d \subseteq DOMAIN Over(g, d)
  BY DEF Over
<1>3. ASSUME NEW o, NEW failing, SaveAll(o, failing) PROVE DOMAIN disk \subseteq DOMAIN disk'
  <2> DEFINE saved == {d[2] : d \in GetDirtyLayersToSave} \cap (Files \ failing)
             datas == [l \in saved |-> layers[l].data]
  <2>1. \/ disk' = Over(datas, disk)
        \/ \E d \in GetDirtyLayersToSave, f \in Files :
              disk' = Over(datas, With(disk, f, layers[d[2]].data))
    BY <1>3 DEF SaveAll
  <2> HIDE DEF datas
  <2> QED BY <1>1, <1>2, <2>1
<1>4. ASSUME UserEdit PROVE DOMAIN disk \subseteq DOMAIN disk'
  <2>1. UNCHANGED disk \/ \E o \in Objects, f \in Files : SaveAnonymousRoot(o, f)
    BY <1>4 DEF UserEdit, Create, EditRoot, ToggleNode, Clone, SetRootLayer, SetStageFromCache,
                InsertInCache, Undo, Redo, Restore
  <2> QED BY <1>1, <2>1 DEF SaveAnonymousRoot
<1>5. ASSUME NEW o, SpecifySaveReferences(o) \/ SaveObject(o) PROVE DOMAIN disk \subseteq DOMAIN disk'
  <2>1. UNCHANGED disk \/ \E failing : SaveAll(o, failing)
    BY <1>5 DEF SpecifySaveReferences, NoPrompt, CancelSave, KeepEdits, SaveObject, Write,
                InterruptWrite, stageVars
  <2> QED BY <1>3, <2>1
<1>6. ASSUME NEW auto, NEW quiet, FilePreSave(auto, quiet) PROVE UNCHANGED disk
  BY <1>6 DEF FilePreSave, stageVars
<1>7. ASSUME NEW mode, SetSaveMode(mode) PROVE UNCHANGED disk
  BY <1>7 DEF SetSaveMode, stageVars
<1>8. ASSUME SaveClassData \/ FilePostSave \/ NeedSaveRequest \/ FileOpen PROVE UNCHANGED disk
  BY <1>8 DEF SaveClassData, FilePostSave, NeedSaveRequest, FileOpen, stageVars
<1> QED BY <1>4, <1>5, <1>6, <1>7, <1>8 DEF Next

-----------------------------------------------------------------------------
(* What is written. *)

(* Objects are written as they are when the save ends. *)
LEMMA WrittenStep ==
    ASSUME TypeInv, WrittenRight, [Next]_vars
    PROVE  WrittenRight'
<1> USE DEF TypeInv
<1>1. ASSUME saving' = NoSave PROVE WrittenRight'
  BY <1>1 DEF WrittenRight
<1>2. CASE UserEdit \/ FilePostSave \/ NeedSaveRequest \/ FileOpen
  BY <1>1, <1>2 DEF UserEdit, SceneEdit, Request, FilePostSave, NeedSaveRequest, FileOpen
<1>3. ASSUME NEW mode \in SaveModes, SetSaveMode(mode) PROVE WrittenRight'
  BY <1>1, <1>3 DEF SetSaveMode, Request
<1>4. ASSUME NEW auto, NEW quiet, FilePreSave(auto, quiet) PROVE WrittenRight'
  <2>1. saving'.written = << >> /\ DOMAIN << >> = {}
    BY <1>4 DEF FilePreSave
  <2> QED BY <2>1 DEF WrittenRight
<1>5. ASSUME NEW o \in Objects, SpecifySaveReferences(o) PROVE WrittenRight'
  <2>1. saving # NoSave /\ saving.phase = "references" /\ o \in saving.refs
    BY <1>5 DEF SpecifySaveReferences, NoSave
  <2>2. saving = [f \in SaveFields |-> saving[f]] /\ DOMAIN saving.written = {}
    BY <2>1 DEF SaveInv, PromptInv, SavingInv, CancelInv
  <2>3. Proceeds(o) \/ Prompted(o) \/ Interrupts(o)
    BY <1>5 DEF SpecifySaveReferences, NoPrompt, CancelSave, KeepEdits, SaveAll
  <2>4. saving'.written = saving.written
    BY <2>2, <2>3 DEF Proceeds, Prompted, Interrupts, SaveFields
  <2> QED BY <2>2, <2>4 DEF WrittenRight
<1>6. ASSUME NEW o \in Objects, SaveObject(o) PROVE WrittenRight'
  <2>1. /\ saving # NoSave /\ o \in DOMAIN objects /\ saving.phase = "references"
    BY <1>6 DEF SaveObject, Write, InterruptWrite, MayWrite, NoSave, InScene
  <2>2. saving = [f \in SaveFields |-> saving[f]]
    BY <2>1 DEF SaveInv, PromptInv, SavingInv
  <2>3. CASE Write(o)
    <3>1. /\ saving'.written = With(saving.written, o, [objects[o] EXCEPT !.interruptSave = FALSE])
          /\ objects' = objects
      BY <2>2, <2>3 DEF Write, SaveFields, stageVars
    <3>2. ASSUME NEW p \in DOMAIN saving'.written
          PROVE  /\ p \in DOMAIN objects
                 /\ saving'.written[p] = [objects[p] EXCEPT !.interruptSave = FALSE]
      <4>1. CASE p = o
        BY <2>1, <3>1, <3>2, <4>1 DEF With
      <4>2. CASE p # o
        <5>1. p \in DOMAIN saving.written /\ saving'.written[p] = saving.written[p]
          BY <3>1, <3>2, <4>2 DEF With
        <5> QED BY <2>1, <5>1 DEF WrittenRight
      <4> QED BY <4>1, <4>2
    <3> QED BY <3>1, <3>2 DEF WrittenRight
  <2>4. CASE InterruptWrite(o)
    <3>1. saving'.phase = "interrupted"
      BY <2>2, <2>4 DEF InterruptWrite, SaveFields
    <3> QED BY <3>1 DEF WrittenRight
  <2> QED BY <1>6, <2>3, <2>4 DEF SaveObject
<1>7. CASE SaveClassData
  <2>1. saving # NoSave
    BY <1>7 DEF SaveClassData, NoSave
  <2>2. saving = [f \in SaveFields |-> saving[f]]
    BY <2>1 DEF SaveInv, PromptInv, SavingInv
  <2>3. saving'.phase = "saved"
    BY <1>7, <2>2 DEF SaveClassData, SaveFields
  <2> QED BY <2>3 DEF WrittenRight
<1>8. CASE UNCHANGED vars
  <2>1. UNCHANGED <<saving, objects>>
    BY <1>8 DEF vars, saveVars, stageVars
  <2> QED BY <2>1 DEF WrittenRight
<1> QED BY <1>2, <1>3, <1>4, <1>5, <1>6, <1>7, <1>8 DEF Next

(* The scene file has what was written, and some of the roots. *)
LEMMA SavedLeads ==
    ASSUME TypeInv, LeadInv, ScenesLead, WrittenRight, SaveClassData, ~ saving.auto
    PROVE  LeadInv' /\ ScenesLead'
<1> USE DEF TypeInv
<1> DEFINE objs == saving.written
           kept == IF manager.saveMode = "SaveAllEditsMax"
                   THEN [l \in {d[2] : d \in GetDirtyLayersToSave} |-> layers[l].data]
                   ELSE << >>
<1>1. /\ saving # NoSave /\ saving.phase = "references" /\ InScene = DOMAIN objs
      /\ maxFile' = [objects |-> objs, layers |-> kept]
      /\ UNCHANGED <<objects, map, cache, disk, undo, redo>>
  BY DEF SaveClassData, NoSave, stageVars
<1>2. ASSUME NEW o \in DOMAIN objs
      PROVE  /\ o \in DOMAIN objects
             /\ objs[o].stage = objects[o].stage /\ objs[o].file = objects[o].file
             /\ objs[o].anonRootId = objects[o].anonRootId /\ objs[o].own = objects[o].own
  <2>1. o \in DOMAIN objects /\ objs[o] = [objects[o] EXCEPT !.interruptSave = FALSE]
    BY <1>1 DEF WrittenRight
  <2>2. objects[o] \in ObjectType
    BY <2>1, ActualWorld
  <2> HIDE DEF objs
  <2> QED BY <2>1, <2>2 DEF ObjectType
<1>3. DOMAIN kept \subseteq {objs[o].stage.root : o \in DOMAIN objs}
  <2> SUFFICES ASSUME NEW l \in DOMAIN kept PROVE \E o \in DOMAIN objs : l = objs[o].stage.root
    OBVIOUS
  <2>1. PICK d \in GetDirtyLayersToSave : l = d[2]
    <3>1. CASE manager.saveMode = "SaveAllEditsMax"
      BY <3>1
    <3>2. CASE manager.saveMode # "SaveAllEditsMax"
      BY <3>2
    <3> QED BY <3>1, <3>2
  <2>2. PICK o \in GetAllStageObjects(map) : objects[o].inScene /\ d = <<o, Root(o)>>
    BY DEF GetDirtyLayersToSave
  <2>3. d[1] \in DOMAIN objects /\ d[1] = o /\ d[2] = Root(o)
    BY <2>2, DirtyLayers
  <2>4. o \in DOMAIN objs
    BY <1>1, <2>2, <2>3 DEF InScene
  <2> QED BY <1>2, <2>1, <2>3, <2>4 DEF Root
<1> HIDE DEF kept, objs
<1>4. maxFile'.objects = objs /\ maxFile'.layers = kept
  BY <1>1
<1>5. World' = World /\ Records' = Records /\ LiveStages' = LiveStages
  BY <1>1 DEF World, Records, LiveStages
<1>6. CacheRight(World, objs)
  BY <1>2, ActualWorld DEF LeadInv, CacheRight
<1>7. LeadInv'
  BY <1>1, <1>4, <1>5, <1>6 DEF LeadInv, FilesOnDisk
<1>8. FileRight(objs, DOMAIN kept, DOMAIN disk)
  <2>1. ParametersLead(objs, DOMAIN disk)
    BY <1>2 DEF LeadInv, ParametersLead
  <2>2. ASSUME NEW o \in DOMAIN objs, NEW p \in DOMAIN objs,
               objs[o].own, objs[o].anonRootId # None, p # o
        PROVE  objs[o].anonRootId \notin {objs[p].anonRootId, objs[p].stage.root}
    <3>1. Claims(World, Records, p, objects[p].stage) /\ objects[p].stage \in Stages
      BY <1>2, ActualWorld, LiveTypes DEF Claims
    <3> QED BY <1>2, <2>2, <3>1, ActualWorld DEF LeadInv, RootsOwn
  <2> QED BY <1>3, <2>1, <2>2 DEF FileRight
<1> QED BY <1>1, <1>4, <1>7, <1>8 DEF ScenesLead

(* More files are no harm to what is saved. *)
LEMMA ScenesStay ==
    ASSUME ScenesLead, maxFile' = maxFile, DOMAIN disk \subseteq DOMAIN disk'
    PROVE  ScenesLead'
BY LeadStill DEF ScenesLead, FileRight, ParametersLead

-----------------------------------------------------------------------------
(* What is opened. *)

(* What opening a scene does, given the new names. *)
SavedAnonymous == {l \in DOMAIN maxFile.layers : IsAnonymous(l)}
StagesLeft     == cache \ {objects[o].stage : o \in DOMAIN objects}

Opening(name) ==
    /\ \A x \in SavedAnonymous \cup DOMAIN maxFile.objects : name[x] \in Ids \ UsedIds
    /\ \A x, y \in SavedAnonymous \cup DOMAIN maxFile.objects : name[x] = name[y] => x = y
    /\ DOMAIN objects' = DOMAIN maxFile.objects
    /\ \A o \in DOMAIN maxFile.objects : objects'[o] = PostLoad(o, name[o], LoadedLayerMap(name))
    /\ cache' = StagesLeft \cup {objects'[o].stage : o \in DOMAIN maxFile.objects}
    /\ undo' = << >> /\ redo' = << >> /\ disk' = disk /\ maxFile' = maxFile
    /\ layers' = KeepLive(OpenedLayers(LoadedLayerMap(name), {s.root : s \in StagesLeft},
                                       {name[o] : o \in DOMAIN maxFile.objects}))

LEMMA Opens ==
    ASSUME FileInv, FileOpen
    PROVE  \E name : Opening(name)
<1> DEFINE saved == DOMAIN maxFile.objects
           S == SavedAnonymous \cup saved
           name == NewIds(S)
           loaded == LoadedLayerMap(name)
<1>1. /\ CanName(S)
      /\ undo' = << >> /\ redo' = << >>
      /\ objects' = [o \in saved |-> PostLoad(o, name[o], loaded)]
      /\ cache' = StagesLeft \cup {objects'[o].stage : o \in saved}
      /\ layers' = KeepLive(OpenedLayers(loaded, {s.root : s \in StagesLeft}, {name[o] : o \in saved}))
      /\ disk' = disk /\ maxFile' = maxFile
  BY DEF FileOpen, OpenedLayers, SavedAnonymous, StagesLeft
<1>2. IsFiniteSet(S)
  <2>1. IsFiniteSet(Ids)
    BY SceneSaveAssumption, FS_Interval DEF Ids
  <2>2. SavedAnonymous \in SUBSET Ids
    BY DEF FileInv, SavedAnonymous, IsAnonymous, Layers
  <2>3. IsFiniteSet(SavedAnonymous)
    BY <2>1, <2>2, FS_Subset
  <2>4. IsFiniteSet(saved)
    BY DEF FileInv, ObjectsOK
  <2> HIDE DEF saved
  <2> QED BY <2>3, <2>4, FS_Union
<1> HIDE DEF S
<1>3. name \in [S -> Ids \ UsedIds] /\ \A x, y \in S : name[x] = name[y] => x = y
  BY <1>1, <1>2, NewIdsAreNew
<1> HIDE DEF name, loaded
<1>4. DOMAIN objects' = saved /\ \A o \in saved : objects'[o] = PostLoad(o, name[o], loaded)
  BY <1>1
<1> HIDE DEF saved
<1>5. Opening(name)
  BY <1>1, <1>3, <1>4 DEF Opening, S, loaded, saved
<1> QED BY <1>5

(* Of the three ways an object is opened: its root is the one saved with the scene, *)
FromScene(name, o) ==
    LET saved == maxFile.objects[o]
    IN /\ saved.anonRootId \in SavedAnonymous
       /\ objects'[o].stage.root = name[saved.anonRootId]
       /\ objects'[o].anonRootId = name[saved.anonRootId]

(* or the file, *)
FromFile(o) ==
    LET saved == maxFile.objects[o]
    IN /\ saved.anonRootId \notin DOMAIN maxFile.layers /\ saved.file \in DOMAIN disk
       /\ objects'[o].stage.root = saved.file
       /\ objects'[o].anonRootId = saved.anonRootId

(* or new. *)
FromNothing(name, o) ==
    LET saved == maxFile.objects[o]
    IN /\ saved.anonRootId \notin DOMAIN maxFile.layers /\ saved.file \notin DOMAIN disk
       /\ objects'[o].stage.root = name[o]
       /\ objects'[o].anonRootId = name[o]

LEMMA OpenedSo ==
    ASSUME FileInv, NEW name, Opening(name), NEW o \in DOMAIN maxFile.objects
    PROVE  /\ objects'[o].own = maxFile.objects[o].own
           /\ objects'[o].file = maxFile.objects[o].file
           /\ FromScene(name, o) \/ FromFile(o) \/ FromNothing(name, o)
<1> DEFINE saved == maxFile.objects[o]
           loaded == LoadedLayerMap(name)
<1>1. objects'[o] = PostLoad(o, name[o], loaded)
  BY DEF Opening
<1>2. saved.anonRootId \in Ids \cup {None}
  BY DEF FileInv, ObjectsOK, ObjectType
<1>3. /\ DOMAIN loaded = DOMAIN maxFile.layers
      /\ \A l \in DOMAIN maxFile.layers : loaded[l] = IF IsAnonymous(l) THEN name[l] ELSE l
  BY DEF LoadedLayerMap
<1>4. ASSUME NEW anonRootId, NEW stage, objects'[o] = Loaded(o, anonRootId, stage)
      PROVE  /\ objects'[o].own = saved.own /\ objects'[o].file = saved.file
             /\ objects'[o].stage = stage /\ objects'[o].anonRootId = anonRootId
  BY <1>4 DEF Loaded
<1> HIDE DEF loaded
<1>5. CASE saved.anonRootId \in DOMAIN loaded
  <2> DEFINE root == loaded[saved.anonRootId]
  <2>1. objects'[o] = Loaded(o, root, [id |-> name[o], root |-> root])
    BY <1>1, <1>5 DEF PostLoad
  <2>2. saved.anonRootId \in SavedAnonymous
    <3>1. saved.anonRootId # None
      BY <1>3, <1>5, SceneSaveAssumption DEF FileInv, Layers, Ids
    <3> QED BY <1>2, <1>3, <1>5, <3>1, FileIsNoName DEF SavedAnonymous, IsAnonymous
  <2>3. root = name[saved.anonRootId]
    BY <1>3, <2>2 DEF SavedAnonymous
  <2> HIDE DEF root, saved
  <2>4. objects'[o].stage = [id |-> name[o], root |-> root] /\ objects'[o].anonRootId = root
    BY <1>4, <2>1
  <2>5. objects'[o].stage.root = root
    BY <2>4
  <2>6. FromScene(name, o)
    BY <2>2, <2>3, <2>4, <2>5 DEF FromScene, saved
  <2> QED BY <1>4, <2>1, <2>6 DEF saved
<1>6. CASE saved.anonRootId \notin DOMAIN loaded /\ saved.file \in DOMAIN disk
  <2>1. objects'[o] = Loaded(o, saved.anonRootId, [id |-> name[o], root |-> saved.file])
    BY <1>1, <1>6 DEF PostLoad
  <2> HIDE DEF saved
  <2>2. /\ objects'[o].stage = [id |-> name[o], root |-> saved.file]
        /\ objects'[o].anonRootId = saved.anonRootId
    BY <1>4, <2>1
  <2>3. objects'[o].stage.root = saved.file
    BY <2>2
  <2>4. FromFile(o)
    BY <1>3, <1>6, <2>2, <2>3 DEF FromFile, saved
  <2> QED BY <1>4, <2>1, <2>4 DEF saved
<1>7. CASE saved.anonRootId \notin DOMAIN loaded /\ saved.file \notin DOMAIN disk
  <2>1. objects'[o] = Loaded(o, name[o], InMemoryStage(name[o]))
    BY <1>1, <1>7 DEF PostLoad
  <2> HIDE DEF saved
  <2>2. objects'[o].stage.root = name[o] /\ objects'[o].anonRootId = name[o]
    BY <1>4, <2>1 DEF InMemoryStage
  <2>3. FromNothing(name, o)
    BY <1>3, <1>7, <2>2 DEF FromNothing, saved
  <2> QED BY <1>4, <2>1, <2>3 DEF saved
<1> QED BY <1>5, <1>6, <1>7

(* Where an object of its own comes from depends on the root it had. *)
LEMMA OwnOpened ==
    ASSUME StageInv, FileInv, ScenesLead, NEW name, Opening(name),
           NEW o \in DOMAIN maxFile.objects, maxFile.objects[o].own
    PROVE  LET saved == maxFile.objects[o]
               root  == saved.stage.root
           IN /\ root \in Files => root = saved.file /\ FromFile(o)
              /\ root \notin Files =>
                    /\ saved.file = None /\ saved.anonRootId \in {None, root}
                    /\ FromScene(name, o) \/ FromNothing(name, o)
<1> DEFINE saved == maxFile.objects[o]
           root == saved.stage.root
<1>1. FromScene(name, o) \/ FromFile(o) \/ FromNothing(name, o)
  BY OpenedSo
<1>2. LeadTo(DOMAIN disk, saved.stage, saved.file, saved.anonRootId)
  BY DEF ScenesLead, FileRight, ParametersLead
<1>3. DOMAIN disk \subseteq Files
  BY DEF StageInv, LayersOK
<1>4. CASE root \in Files
  <2>1. saved.file = root /\ root \in DOMAIN disk
    BY <1>2, <1>4 DEF LeadTo
  <2>2. ASSUME saved.anonRootId \in SavedAnonymous PROVE FALSE
    <3>1. PICK p \in DOMAIN maxFile.objects : saved.anonRootId = maxFile.objects[p].stage.root
      BY <2>2 DEF SavedAnonymous, ScenesLead, FileRight
    <3>2. saved.anonRootId # None
      BY <2>2, SceneSaveAssumption DEF SavedAnonymous, FileInv, Layers, Ids
    <3>3. p = o
      BY <3>1, <3>2 DEF ScenesLead, FileRight
    <3> QED BY <1>4, <2>2, <3>1, <3>3 DEF SavedAnonymous, IsAnonymous
  <2> QED BY <1>1, <1>4, <2>1, <2>2 DEF FromScene, FromNothing
<1>5. CASE root \notin Files
  <2>1. saved.file = None /\ saved.anonRootId \in {None, root}
    BY <1>2, <1>5 DEF LeadTo
  <2>2. ~ FromFile(o)
    BY <1>3, <2>1, FileIsNoName DEF FromFile
  <2> QED BY <1>1, <1>5, <2>1, <2>2
<1> QED BY <1>4, <1>5

(* New names are no objects' and no layers', and no files. *)
LEMMA NamesAreNew ==
    ASSUME StageInv, FileInv, NEW name, Opening(name)
    PROVE  /\ \A x \in SavedAnonymous \cup DOMAIN maxFile.objects :
                 /\ name[x] \in Ids /\ name[x] # None
                 /\ \A s \in LiveStages : s.root # name[x]
                 /\ \A p \in DOMAIN maxFile.objects : maxFile.objects[p].anonRootId # name[x]
           /\ \A x, y \in SavedAnonymous \cup DOMAIN maxFile.objects : name[x] = name[y] => x = y
           /\ \A o \in DOMAIN maxFile.objects : o \notin SavedAnonymous
<1>1. ASSUME NEW x \in SavedAnonymous \cup DOMAIN maxFile.objects
      PROVE  /\ name[x] \in Ids /\ name[x] # None
             /\ \A s \in LiveStages : s.root # name[x]
             /\ \A p \in DOMAIN maxFile.objects : maxFile.objects[p].anonRootId # name[x]
  <2>1. name[x] \in Ids \ UsedIds
    BY DEF Opening
  <2> QED BY <2>1, FreshName, FileIsNoName
<1>2. \A o \in DOMAIN maxFile.objects : o \notin SavedAnonymous
  BY SceneSaveAssumption DEF FileInv, ObjectsOK, SavedAnonymous, IsAnonymous, Layers, Ids
<1> QED BY <1>1, <1>2 DEF Opening

(* An opened scene: the parameters lead to the roots again, under their new names. *)
LEMMA OpenLeads ==
    ASSUME StageInv, FileInv, LeadInv, ScenesLead, FileOpen
    PROVE  LeadInv'
<1> DEFINE saved == maxFile.objects
           objs == DOMAIN maxFile.objects
<1>1. PICK name : Opening(name)
  BY Opens
<1>2. /\ DOMAIN objects' = objs
      /\ cache' = StagesLeft \cup {objects'[o].stage : o \in objs}
      /\ undo' = << >> /\ redo' = << >> /\ disk' = disk /\ maxFile' = maxFile
  BY <1>1 DEF Opening
<1>3. /\ \A x \in SavedAnonymous \cup objs :
            /\ name[x] \in Ids /\ name[x] # None
            /\ \A s \in LiveStages : s.root # name[x]
            /\ \A p \in objs : saved[p].anonRootId # name[x]
      /\ \A x, y \in SavedAnonymous \cup objs : name[x] = name[y] => x = y
      /\ \A o \in objs : o \notin SavedAnonymous
  BY <1>1, NamesAreNew
<1>4. \A o \in objs :
          /\ objects'[o].own = saved[o].own /\ objects'[o].file = saved[o].file
          /\ FromScene(name, o) \/ FromFile(o) \/ FromNothing(name, o)
  BY <1>1, OpenedSo
<1>5. \A o \in objs : saved[o].anonRootId \in Ids \cup {None} /\ saved[o] \in ObjectType
  BY DEF FileInv, ObjectsOK, ObjectType
<1>6. DOMAIN disk \subseteq Files
  BY DEF StageInv, LayersOK
<1>7. ParametersLead(objects', DOMAIN disk')
  <2> SUFFICES ASSUME NEW o \in objs, saved[o].own
               PROVE  LeadTo(DOMAIN disk, objects'[o].stage, objects'[o].file, objects'[o].anonRootId)
    BY <1>2, <1>4 DEF ParametersLead
  <2>1. CASE saved[o].stage.root \in Files
    <3>1. FromFile(o)
      BY <1>1, <2>1, OwnOpened
    <3> QED BY <1>4, <1>6, <3>1 DEF FromFile, LeadTo
  <2>2. CASE saved[o].stage.root \notin Files
    <3>1. saved[o].file = None /\ (FromScene(name, o) \/ FromNothing(name, o))
      BY <1>1, <2>2, OwnOpened
    <3>2. objects'[o].stage.root \in Ids /\ objects'[o].anonRootId = objects'[o].stage.root
      BY <1>3, <3>1 DEF FromScene, FromNothing
    <3> QED BY <1>4, <3>1, <3>2, FileIsNoName DEF LeadTo
  <2> QED BY <2>1, <2>2
<1>8. HistoryInv'
  <2>1. Len(<< >>) = 0
    BY EmptySeq
  <2> QED BY <1>2, <2>1 DEF HistoryInv, HistoryOK, RecordsLead, UndoChained, RedoChained
<1>9. World'.objects = objects' /\ World'.cache = cache' /\ Records' = {}
  <2>1. Records' = {}
    BY <1>2 DEF Records, Range
  <2> QED BY <2>1 DEF World
<1>10. RootsOwn(World', Records')
  <2> SUFFICES ASSUME NEW o \in objs, NEW p \in objs, p # o,
                      saved[o].own, objects'[o].anonRootId # None
               PROVE  /\ objects'[p].anonRootId # objects'[o].anonRootId
                      /\ objects'[p].stage.root # objects'[o].anonRootId
    BY <1>2, <1>4, <1>9 DEF RootsOwn, Claims
  <2>1. /\ saved[o].anonRootId # None => saved[o].anonRootId # saved[p].anonRootId
    BY DEF ScenesLead, FileRight
  <2>2. objects'[o].anonRootId \in Ids
    BY <1>3, <1>4, <1>5 DEF FromScene, FromFile, FromNothing
  <2>3. objects'[p].anonRootId # objects'[o].anonRootId
    <3>1. CASE FromScene(name, o)
      <4>1. saved[o].anonRootId \in SavedAnonymous /\ objects'[o].anonRootId = name[saved[o].anonRootId]
        BY <3>1 DEF FromScene
      <4>2. saved[o].anonRootId # saved[p].anonRootId
        <5>1. saved[o].anonRootId # None
          BY <4>1, SceneSaveAssumption DEF SavedAnonymous, FileInv, Layers, Ids
        <5> QED BY <2>1, <5>1
      <4>3. CASE FromScene(name, p)
        <5>1. saved[p].anonRootId \in SavedAnonymous /\ objects'[p].anonRootId = name[saved[p].anonRootId]
          BY <4>3 DEF FromScene
        <5> QED BY <1>3, <4>1, <4>2, <5>1
      <4>4. CASE FromFile(p)
        BY <1>3, <4>1, <4>4 DEF FromFile
      <4>5. CASE FromNothing(name, p)
        BY <1>3, <4>1, <4>5 DEF FromNothing
      <4> QED BY <1>4, <4>3, <4>4, <4>5
    <3>2. CASE FromFile(o)
      BY <1>3, <1>4, <2>1, <2>2, <3>2, FileIsNoName DEF FromScene, FromFile, FromNothing
    <3>3. CASE FromNothing(name, o)
      BY <1>3, <1>4, <2>2, <3>3 DEF FromScene, FromFile, FromNothing
    <3> QED BY <1>4, <3>1, <3>2, <3>3
  <2>4. objects'[p].stage.root \in Files \/ objects'[p].stage.root = objects'[p].anonRootId
    BY <1>4, <1>6 DEF FromScene, FromFile, FromNothing
  <2> QED BY <2>2, <2>3, <2>4, FileIsNoName
<1>11. StagesLeft \subseteq LiveStages /\ StagesLeft \subseteq cache
  BY LiveTypes DEF StagesLeft
<1>12. CacheRight(World', maxFile'.objects)
  <2> SUFFICES ASSUME NEW s \in StagesLeft
               PROVE  /\ \A o \in objs : s.root # objects'[o].anonRootId
                      /\ \A o \in objs : s.root # saved[o].anonRootId
    BY <1>2, <1>9 DEF CacheRight
  <2>1. \A o \in objs : s.root # saved[o].anonRootId
    BY <1>11, ActualWorld DEF LeadInv, CacheRight, StagesLeft
  <2>2. \A x \in SavedAnonymous \cup objs : s.root # name[x]
    BY <1>3, <1>11
  <2> QED BY <1>4, <2>1, <2>2 DEF FromScene, FromFile, FromNothing
<1>13. FilesOnDisk'
  <2>1. LiveIn(World', Records', cache')
    BY <1>2, <1>9 DEF LiveIn
  <2>2. LiveStages' \subseteq cache'
    <3> DEFINE v == World'
    <3>1. World' = v
      OBVIOUS
    <3> HIDE DEF v
    <3> QED BY <2>1, <3>1, LiveAfter
  <2>3. \A o \in objs : objects'[o].stage.root \in Files => objects'[o].stage.root \in DOMAIN disk
    BY <1>3, <1>4, FileIsNoName DEF FromScene, FromFile, FromNothing
  <2> QED BY <1>2, <1>11, <2>2, <2>3 DEF LeadInv, FilesOnDisk
<1> QED BY <1>7, <1>8, <1>10, <1>12, <1>13 DEF LeadInv, HistoryInv

(* The layers of an opened scene. *)
LEMMA OpenedData ==
    ASSUME FileInv, NEW name, Opening(name), NEW o \in DOMAIN maxFile.objects
    PROVE  LET k == objects'[o].stage.root
               loaded == LoadedLayerMap(name)
           IN /\ \A l \in DOMAIN maxFile.layers :
                    loaded[l] = k /\ (\A m \in DOMAIN maxFile.layers : loaded[m] = k => m = l) =>
                        layers'[k].data = maxFile.layers[l]
              /\ (\A l \in DOMAIN maxFile.layers : loaded[l] # k)
                    /\ (\A s \in StagesLeft : s.root # k) =>
                    /\ k \in DOMAIN disk => layers'[k].data = disk[k]
                    /\ k \notin DOMAIN disk /\ k = name[o] => layers'[k].data = 0
<1> DEFINE k == objects'[o].stage.root
           loaded == LoadedLayerMap(name)
           roots == {s.root : s \in StagesLeft}
           new == {name[p] : p \in DOMAIN maxFile.objects}
           ls == OpenedLayers(loaded, roots, new)
           first == LoadedLayers(loaded)
           kept == Restrict(layers, roots)
           files == [f \in DOMAIN disk |-> [data |-> disk[f], dirty |-> FALSE]]
           fresh == [i \in new |-> NewLayer]
<1>1. layers' = KeepLive(ls) /\ DOMAIN objects' = DOMAIN maxFile.objects
  BY DEF Opening
<1>2. layers'[k] = ls[k]
  <2>1. objects'[o].stage \in LiveStages'
    BY <1>1 DEF LiveStages
  <2> HIDE DEF ls
  <2> QED BY <1>1, <2>1 DEF KeepLive, Restrict
<1>3. /\ DOMAIN first = {loaded[l] : l \in DOMAIN loaded}
      /\ \A i \in DOMAIN first :
            first[i].data = maxFile.layers[CHOOSE l \in DOMAIN loaded : loaded[l] = i]
  BY DEF LoadedLayers
<1>4. DOMAIN loaded = DOMAIN maxFile.layers
  BY DEF LoadedLayerMap
<1>5. DOMAIN kept = roots
  BY DEF Restrict
<1>6. DOMAIN files = DOMAIN disk /\ \A f \in DOMAIN disk : files[f].data = disk[f]
  OBVIOUS
<1>7. DOMAIN fresh = new /\ \A i \in new : fresh[i].data = 0
  BY DEF NewLayer
<1>8. ls = Over(Over(Over(first, kept), files), fresh)
  BY DEF OpenedLayers
<1> HIDE DEF first, kept, files, fresh, ls, loaded
<1>9. \A l \in DOMAIN first \cup DOMAIN kept \cup DOMAIN files \cup DOMAIN fresh :
          ls[l] = IF l \in DOMAIN first THEN first[l]
                  ELSE IF l \in DOMAIN kept THEN kept[l]
                  ELSE IF l \in DOMAIN files THEN files[l] ELSE fresh[l]
  BY <1>8 DEF Over
<1> HIDE DEF k
<1>10. ASSUME NEW l \in DOMAIN maxFile.layers, loaded[l] = k,
              \A m \in DOMAIN maxFile.layers : loaded[m] = k => m = l
       PROVE  layers'[k].data = maxFile.layers[l]
  <2>1. k \in DOMAIN first
    BY <1>3, <1>4, <1>10
  <2>2. (CHOOSE m \in DOMAIN loaded : loaded[m] = k) = l
    BY <1>4, <1>10
  <2> QED BY <1>2, <1>3, <1>9, <2>1, <2>2
<1>11. ASSUME \A l \in DOMAIN maxFile.layers : loaded[l] # k, \A s \in StagesLeft : s.root # k
       PROVE  /\ k \in DOMAIN disk => layers'[k].data = disk[k]
              /\ k \notin DOMAIN disk /\ k = name[o] => layers'[k].data = 0
  <2>1. k \notin DOMAIN first /\ k \notin DOMAIN kept
    BY <1>3, <1>4, <1>5, <1>11
  <2>2. name[o] \in new
    OBVIOUS
  <2> HIDE DEF new
  <2> QED BY <1>2, <1>6, <1>7, <1>9, <2>1, <2>2
<1> QED BY <1>10, <1>11 DEF k, loaded

(* Every stage object of its own shows again what is kept of its root. *)
LEMMA OpenRestores ==
    ASSUME StageInv, FileInv, LeadInv, ScenesLead, FileOpen,
           NEW o \in DOMAIN maxFile.objects, OwnRoot(o)
    PROVE  Restored(o)
<1> DEFINE saved == maxFile.objects[o]
           root == saved.stage.root
           k == objects'[o].stage.root
           objs == DOMAIN maxFile.objects
<1>1. PICK name : Opening(name)
  BY Opens
<1> DEFINE loaded == LoadedLayerMap(name)
<1>2. /\ saved.own /\ (IsAnonymous(root) => saved.anonRootId # None)
  BY DEF OwnRoot
<1>3. /\ \A x \in SavedAnonymous \cup objs :
            /\ name[x] \in Ids /\ \A s \in LiveStages : s.root # name[x]
      /\ \A x, y \in SavedAnonymous \cup objs : name[x] = name[y] => x = y
      /\ o \notin SavedAnonymous
  BY <1>1, NamesAreNew
<1>4. \A l \in DOMAIN maxFile.layers :
          loaded[l] = IF l \in SavedAnonymous THEN name[l] ELSE l
  BY DEF LoadedLayerMap, SavedAnonymous
<1>5. \A l \in DOMAIN maxFile.layers : l \notin SavedAnonymous <=> l \in Files
  BY DEF SavedAnonymous, IsAnonymous
<1>6. /\ \A l \in DOMAIN maxFile.layers :
            loaded[l] = k /\ (\A m \in DOMAIN maxFile.layers : loaded[m] = k => m = l) =>
                layers'[k].data = maxFile.layers[l]
      /\ (\A l \in DOMAIN maxFile.layers : loaded[l] # k) /\ (\A s \in StagesLeft : s.root # k) =>
            /\ k \in DOMAIN disk => layers'[k].data = disk[k]
            /\ k \notin DOMAIN disk /\ k = name[o] => layers'[k].data = 0
  BY <1>1, OpenedData
<1>7. DOMAIN disk \subseteq Files
  BY DEF StageInv, LayersOK
<1>8. StagesLeft \subseteq LiveStages /\ \A s \in StagesLeft : s.root \notin Files
  BY LiveTypes, ActualWorld DEF StagesLeft, WorldOK
<1> HIDE DEF loaded
<1>9. layers'[k].data = IF root \in DOMAIN maxFile.layers THEN maxFile.layers[root]
                        ELSE IF root \in DOMAIN disk THEN disk[root] ELSE 0
  <2>1. CASE root \in Files
    <3>1. k = root /\ root \in DOMAIN disk
      BY <1>1, <1>2, <2>1, OwnOpened DEF FromFile
    <3>2. \A m \in DOMAIN maxFile.layers : loaded[m] = k => m = root
      BY <1>3, <1>4, <1>5, <2>1, <3>1, FileIsNoName
    <3>3. CASE root \in DOMAIN maxFile.layers
      BY <1>4, <1>5, <1>6, <2>1, <3>1, <3>2, <3>3
    <3>4. CASE root \notin DOMAIN maxFile.layers
      BY <1>6, <1>8, <2>1, <3>1, <3>2, <3>4
    <3> QED BY <3>3, <3>4
  <2>2. CASE root \notin Files
    <3>1. /\ saved.file = None /\ saved.anonRootId = root
          /\ FromScene(name, o) \/ FromNothing(name, o)
      BY <1>1, <1>2, <2>2, OwnOpened DEF IsAnonymous
    <3>2. CASE root \in DOMAIN maxFile.layers
      <4>1. root \in SavedAnonymous /\ k = name[root]
        BY <3>1, <3>2 DEF FromScene, FromNothing
      <4>2. \A m \in DOMAIN maxFile.layers : loaded[m] = k => m = root
        BY <1>3, <1>4, <1>5, <4>1, FileIsNoName
      <4> QED BY <1>4, <1>6, <3>2, <4>1, <4>2
    <3>3. CASE root \notin DOMAIN maxFile.layers
      <4>1. k = name[o]
        BY <3>1, <3>3 DEF FromScene, FromNothing, SavedAnonymous
      <4>2. \A m \in DOMAIN maxFile.layers : loaded[m] # k
        BY <1>3, <1>4, <1>5, <4>1, FileIsNoName
      <4>3. (\A s \in StagesLeft : s.root # k) /\ k \notin DOMAIN disk /\ root \notin DOMAIN disk
        BY <1>3, <1>7, <1>8, <2>2, <4>1, FileIsNoName
      <4> QED BY <1>6, <3>3, <4>1, <4>2, <4>3
    <3> QED BY <3>2, <3>3
  <2> QED BY <2>1, <2>2
<1> QED BY <1>9 DEF Restored

-----------------------------------------------------------------------------
(* The theorem. *)

(* Every step keeps the parameters leading to their roots. *)
LEMMA LoadStep ==
    ASSUME ~ Sharing, TypeInv, LoadInv, [Next]_vars
    PROVE  LoadInv'
<1> USE DEF TypeInv, LoadInv
<1>1. WrittenRight'
  BY WrittenStep
<1>2. ASSUME maxFile' = maxFile PROVE ScenesLead'
  <2>1. UNCHANGED vars => disk' = disk
    BY DEF vars, stageVars
  <2> QED BY <1>2, <2>1, DiskGrows, ScenesStay
<1>3. ASSUME UNCHANGED <<stageVars, maxFile>> PROVE LeadInv' /\ ScenesLead'
  BY <1>2, <1>3, LeadStays DEF stageVars
<1>4. ASSUME UserEdit PROVE LeadInv' /\ ScenesLead'
  BY <1>2, <1>4, UserEditLeads DEF UserEdit, SceneEdit
<1>5. ASSUME NEW o \in Objects, SpecifySaveReferences(o) \/ SaveObject(o)
      PROVE  LeadInv' /\ ScenesLead'
  <2>1. saving.phase = "references" /\ maxFile' = maxFile
    BY <1>5 DEF SpecifySaveReferences, SaveObject, Write, InterruptWrite, MayWrite
  <2>2. saving # NoSave
    BY <2>1 DEF NoSave
  <2>3. saving.refs \subseteq InScene
    BY <2>1, <2>2 DEF SaveInv, CancelInv
  <2> QED BY <1>2, <1>5, <2>1, <2>3, SavingLeads
<1>6. ASSUME SaveClassData PROVE LeadInv' /\ ScenesLead'
  <2>1. CASE saving.auto
    BY <1>3, <1>6, <2>1 DEF SaveClassData
  <2>2. CASE ~ saving.auto
    BY <1>6, <2>2, SavedLeads
  <2> QED BY <2>1, <2>2
<1>7. ASSUME FileOpen PROVE LeadInv' /\ ScenesLead'
  BY <1>2, <1>7, OpenLeads DEF FileOpen
<1>8. ASSUME NEW auto, NEW quiet, FilePreSave(auto, quiet) PROVE UNCHANGED <<stageVars, maxFile>>
  BY <1>8 DEF FilePreSave
<1>9. ASSUME FilePostSave \/ NeedSaveRequest PROVE UNCHANGED <<stageVars, maxFile>>
  BY <1>9 DEF FilePostSave, NeedSaveRequest
<1>10. ASSUME NEW mode, SetSaveMode(mode) PROVE UNCHANGED <<stageVars, maxFile>>
  BY <1>10 DEF SetSaveMode
<1>11. ASSUME UNCHANGED vars PROVE UNCHANGED <<stageVars, maxFile>>
  BY <1>11 DEF vars, saveVars
<1>12. LeadInv' /\ ScenesLead'
  BY <1>3, <1>4, <1>5, <1>6, <1>7, <1>8, <1>9, <1>10, <1>11 DEF Next
<1> QED BY <1>1, <1>12

(* Before the first call nothing leads anywhere. *)
LEMMA InitLoad == Init => LoadInv
<1> SUFFICES ASSUME Init PROVE LoadInv
  OBVIOUS
<1>1. /\ objects = << >> /\ DOMAIN objects = {} /\ cache = {} /\ undo = << >> /\ redo = << >>
      /\ saving = NoSave /\ maxFile.objects = << >> /\ maxFile.layers = << >>
      /\ DOMAIN << >> = {} /\ Len(<< >>) = 0
  BY EmptySeq DEF Init, NoFile
<1>2. World.objects = << >> /\ World.cache = {}
  BY <1>1 DEF World
<1>3. LiveStages = {}
  BY <1>1 DEF LiveStages, Range
<1>4. ParametersLead(objects, DOMAIN disk) /\ RootsOwn(World, Records)
  BY <1>1, <1>2 DEF ParametersLead, RootsOwn
<1>5. HistoryOK(objects, DOMAIN disk, undo, redo)
  BY <1>1 DEF HistoryOK, RecordsLead, UndoChained, RedoChained
<1>6. LeadInv
  BY <1>2, <1>3, <1>4, <1>5 DEF LeadInv, CacheRight, FilesOnDisk
<1>7. ScenesLead /\ WrittenRight
  BY <1>1 DEF ScenesLead, FileRight, ParametersLead, WrittenRight
<1> QED BY <1>6, <1>7 DEF LoadInv

(* Opening the scene restores, for each stage object that was neither copied nor given a stage of *)
(* the cache, what the scene file or the disk has of the root it was saved with, whatever was     *)
(* done with stages, files, undo and redo, and through any number of saves and openings - as long *)
(* as no stage is shared: if another object has the stage that one had before it got a file, the  *)
(* scene file may keep the old root for it, and USDItemPostLoadCB::proc opens that one.           *)
THEOREM OwnStagesAreRestored ==
    ASSUME ~ Sharing
    PROVE  Spec => LoadRestoresOwnStages
<1> DEFINE Inv == TypeInv /\ LoadInv
<1>1. Init => Inv
  BY InitKept, InitLoad DEF KeptInv
<1>2. Inv /\ [Next]_vars => Inv'
  BY StageStep, LoadStep
<1>3. Inv /\ [Next]_vars =>
          [FileOpen => \A o \in DOMAIN maxFile.objects : OwnRoot(o) => Restored(o)]_vars
  BY OpenRestores DEF TypeInv, LoadInv
<1> HIDE DEF Inv
<1> QED BY <1>1, <1>2, <1>3, PTL DEF Spec, LoadRestoresOwnStages
=============================================================================
