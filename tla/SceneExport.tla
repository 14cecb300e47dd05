----------------------------- MODULE SceneExport -----------------------------
(***************************************************************************)
(* USDSceneBuilder: which prims the nodes of a 3ds Max scene are exported  *)
(* to.  The scene is walked once in preview, to find out the prims; these  *)
(* are created in one batch; then every node is processed again, with its  *)
(* data, and may be interrupted by a cancel.  Both passes run the same     *)
(* ProcessNode and have to come to the same prims.                         *)
(*                                                                         *)
(* A prim name is the sequence of its words, split at the underscores (an  *)
(* empty word is written "_empty"), each with the number it ends in, 0 for *)
(* none:                                                                   *)
(* <<<<"Box", 2>>>> is Box2, and <<<<"Box", 2>>, <<"Shape", 0>>>> is       *)
(* Box2_Shape, whether a node is called so or the object prim of Box2.     *)
(* A path is a sequence of names.                                          *)
(***************************************************************************)
EXTENDS Naturals, Sequences, FiniteSets, SequencesExt

CONSTANTS
    Nodes,              \* nodes of the 3ds Max scene
    SceneRoot,          \* its root node
    Scenes,             \* what may be exported: see SceneTypeOK
    Words,              \* what the names of prims are made of
    ValidIdentifier,    \* TfMakeValidIdentifier: node names to prim names
    AllowNestedGprims, TranslateHidden, AllowPrimOverwrites    \* options

ASSUME SceneRootAssumption == SceneRoot \notin Nodes

VARIABLES
    scene,          \* the nodes and the stage at the start: never changes
    pass,           \* "preview", "export", "done" or "cancelled"
    stack,          \* nodeToExportStack, the top first
    names,          \* the names each UniqueNameGenerator has given
    classes,        \* maxNodeToClassPrimMap (of), classPrimBaseNameGenerator (names)
    todo,           \* translationItems
    defs,           \* scenePrimDefs, by the node that asked for them
    stage,          \* the paths of the stage's prims, in order of creation
    exported,       \* what ProcessNode returned in the export pass
    written,        \* the nodes whose writer was given a prim
    ops,            \* the node transforms queued on a prim
    instanceOf,     \* instanceToPrototype
    materialReq,    \* prototypeMaterialReq
    toBind          \* primsToMaterialBind

results == <<stage, exported, written, ops, instanceOf, materialReq, toBind>>
vars == <<scene, pass, stack, names, classes, todo, defs, results>>

NoPath == <<>>
EmptyMap == [x \in {} |-> x]
NoClasses == [of |-> EmptyMap, names |-> {}]

\* The map m with the key added, unless it is there: std::map::insert.
Inserted(m, key, value) ==
    IF key \in DOMAIN m THEN m
    ELSE [x \in DOMAIN m \union {key} |-> IF x = key THEN value ELSE m[x]]

-----------------------------------------------------------------------------
(* The scene.  children gives the order of the nodes; object tells nodes    *)
(* that share an object; nodes is nodesToExportSet, empty for everything;   *)
(* offset, guides and hidden are sets of nodes; root is RootPrimPath;       *)
(* existing are the paths of the prims that are on the stage, classPrims    *)
(* those of class prims.                                                    *)

Kinds == {"geometry", "pointHelper", "unsupported"}

Names == Seq(Words \X Nat) \ {<<>>}

\* A name with k added to its number.
Numbered(name, k) == [name EXCEPT ![Len(name)] = <<@[1], @[2] + k>>]
IsNumbered(x, name) == \E k \in 0..Last(x)[2] : x = Numbered(name, k)

\* GetObjectPrimSuffix of the writers; unsupported nodes have none.
ObjectPrimSuffix == [geometry |-> "Shape", pointHelper |-> "Point", unsupported |-> "Object"]

ClassPrefix == <<<<"_empty", 0>>, <<"class", 0>>>>
ClassName(name) == ClassPrefix \o name
IsClassName(x) == Len(x) > 2 /\ SubSeq(x, 1, 2) = ClassPrefix

ASSUME WordsAssumption ==
    /\ "_empty" \in Words /\ "class" \in Words
    /\ \A kind \in Kinds : ObjectPrimSuffix[kind] \in Words

\* A node is the child of one node only, and once.
IsTree(children) ==
    \A m, n \in DOMAIN children : \A i \in DOMAIN children[m], j \in DOMAIN children[n] :
        children[m][i] = children[n][j] => m = n /\ i = j

\* Every node hangs from the root: whatever holds the root's children, and the
\* children of all it holds, holds all the nodes.
AllHangFromRoot(children) ==
    \A S \in SUBSET Nodes :
        (\A x \in S \union {SceneRoot} : Range(children[x]) \subseteq S) => S = Nodes

SceneTypeOK(s) ==
    /\ s.children \in [Nodes \union {SceneRoot} -> Seq(Nodes)]
    /\ IsTree(s.children) /\ AllHangFromRoot(s.children)
    /\ s.kind \in [Nodes -> Kinds]
    /\ DOMAIN s.object = Nodes
    /\ \A m, n \in Nodes : s.object[m] = s.object[n] => s.kind[m] = s.kind[n]
    /\ s.name \in [Nodes -> DOMAIN ValidIdentifier]
    /\ \A f \in {"nodes", "offset", "guides", "hidden"} : s[f] \subseteq Nodes
    /\ s.root \in Seq(Names) /\ s.existing \in Seq(Seq(Names))
    /\ s.classPrims \subseteq Range(s.existing)

\* The identifier of a node's name.
Identifier(s, n) == ValidIdentifier[s.name[n]]

\* A node below another is called like the prim the object of that one may
\* get beside it.  The generator of its name does not know that prim.
IsObjectNamesake(s, n, c) ==
    LET name == Identifier(s, c)
    IN  /\ c \in Range(s.children[n])
        /\ Len(name) > 1
        /\ Last(name) = <<ObjectPrimSuffix[s.kind[n]], 0>>
        /\ IsNumbered(Front(name), Identifier(s, n))

\* A scene without what makes nodes share prims: a point helper that is left
\* out with its only child exported, a child with the name of an object prim,
\* names of classes on the stage or among the nodes'.  What is on the stage
\* has its parents there, too.
IsOrdinary(s) ==
    /\ \A h, n \in Nodes :
            s.kind[h] = "pointHelper" /\ s.children[h] = <<n>> /\ n \in s.nodes => h \in s.nodes
    /\ \A n, c \in Nodes : ~IsObjectNamesake(s, n, c)
    /\ \A n \in Nodes : ~IsClassName(Identifier(s, n))
    /\ \A path \in Range(s.existing) :
            /\ Len(path) > 1 => Front(path) \in Range(s.existing)
            /\ \A i \in DOMAIN path : ~IsClassName(path[i])

OrdinaryScenes == \A s \in Scenes : IsOrdinary(s)

ASSUME NodesAssumption == IsFiniteSet(Nodes) /\ ValidIdentifier \in [DOMAIN ValidIdentifier -> Names]
ASSUME ScenesAssumption == \A s \in Scenes : SceneTypeOK(s)

RootPath == scene.root
ChildNodes(n) == Range(scene.children[n])
ParentNode(n) ==
    CHOOSE p \in Nodes \union {SceneRoot} : n \in ChildNodes(p)

InContent(n) == scene.nodes = {} \/ n \in scene.nodes
HasWriter(n) ==
    /\ scene.kind[n] # "unsupported"
    /\ TranslateHidden \/ n \notin scene.hidden

\* Mutant of HasExportableDescendants: only the children are looked at.
HasExportableChildren(n) ==
    \E x \in {n} \union ChildNodes(n) : InContent(x) /\ HasWriter(x)

\* A node itself or a descendant, reached through nodes of the content, has a
\* writer: it is in whatever holds the node and the children in the content of
\* all it holds.
HasExportableDescendants(n) ==
    \A S \in SUBSET Nodes :
        n \in S /\ (\A x \in S : \A c \in ChildNodes(x) : InContent(c) => c \in S) =>
            \E x \in S : InContent(x) /\ HasWriter(x)

\* FindInstanceableNodes: the nodes to export that share the object of n.
Instances(n) ==
    {m \in Nodes : InContent(m) /\ scene.object[m] = scene.object[n]}
CanBeInstanced(n) ==
    scene.kind[n] = "geometry" /\ Cardinality(Instances(n)) > 1

-----------------------------------------------------------------------------
(* Names *)

\* UniqueNameGenerator::GetName: the name, or the next one that is free.
UniqueName(name, used) ==
    Numbered(name, CHOOSE k \in 0..Cardinality(used) :
                        /\ Numbered(name, k) \notin used
                        /\ \A j \in 0..k - 1 : Numbered(name, j) \in used)

\* The name of the object's prim below the prim for the node's transform.
ObjectName(context) ==
    Append(context.name, <<ObjectPrimSuffix[scene.kind[context.node]], 0>>)

-----------------------------------------------------------------------------
(* ProcessNode, the same in both passes. A context says where a node goes   *)
(* and under which name, b what is known of classes; the result names the   *)
(* prims of the node, the first of them the node's root prim.               *)

\* What the mesh and helper writers answer, and guides: the object needs a
\* prim of its own below one for the node's transform.
NeedsXform(n, instanced) ==
    LET isMesh == scene.kind[n] = "geometry"
        hasChildren == ChildNodes(n) # {}
        isOffset == n \in scene.offset
    IN  \/ isMesh /\ ~AllowNestedGprims /\ hasChildren
        \/ ~isMesh /\ isOffset
        \/ instanced /\ (isOffset \/ hasChildren)
        \/ n \in scene.guides

ReuseParentPrimForInstancing(context) ==
    LET parent == ParentNode(context.node)
    IN  /\ context.parent # NoPath
        /\ parent # SceneRoot
        /\ Len(scene.children[parent]) <= 1
        /\ scene.kind[parent] = "pointHelper"

\* WriteNodePrims, for a node of which an instance and a class are made.
WriteInstancePrims(b, context, made) ==
    LET n == context.node
        createdClass == n \notin DOMAIN b.of
        className == UniqueName(context.name, b.names)
        classPath == Append(RootPath, ClassName(className))
        xformPath == Append(context.parent, context.name)
        split == NeedsXform(n, TRUE)
        instancePath ==
            IF split THEN Append(xformPath, ObjectName(context))
            ELSE IF ReuseParentPrimForInstancing(context) THEN context.parent
            ELSE xformPath
        ownPrims == IF split THEN <<xformPath, instancePath>> ELSE <<instancePath>>
        prototype == Append(classPath, context.name)
    IN  IF createdClass
        THEN [made EXCEPT
                !.prims = ownPrims \o <<classPath, prototype>>,
                !.object = prototype,
                !.instance = instancePath,
                !.classes = [of |-> [x \in DOMAIN b.of \union Instances(n) |->
                                       IF x \in DOMAIN b.of THEN b.of[x] ELSE classPath],
                             names |-> b.names \union {className}]]
        ELSE [made EXCEPT !.prims = ownPrims, !.instance = instancePath]

\* WriteNodePrims, for a node that is not instanced.
WriteObjectPrims(context, made) ==
    LET xformPath == Append(context.parent, context.name)
        objectPath == Append(xformPath, ObjectName(context))
    IN  IF NeedsXform(context.node, FALSE)
        THEN [made EXCEPT !.prims = <<xformPath, objectPath>>, !.object = objectPath]
        ELSE [made EXCEPT !.prims = <<xformPath>>, !.object = xformPath]

ProcessNode(b, context) ==
    LET n == context.node
        nothing == [prims |-> <<>>, object |-> NoPath, instance |-> NoPath, classes |-> b]
    IN  IF HasWriter(n)
        THEN IF n \in DOMAIN b.of \/ CanBeInstanced(n)
             THEN WriteInstancePrims(b, context, nothing)
             ELSE WriteObjectPrims(context, nothing)
        ELSE IF HasExportableDescendants(n)
        THEN [nothing EXCEPT !.prims = <<Append(context.parent, context.name)>>]
        ELSE nothing

-----------------------------------------------------------------------------
(* The preview pass *)

\* Mutant of Generator: one for the children of every node.
GeneratorOfItsOwn(n) == n

\* The name generator of the children of n: those of nodes that are left out
\* end up at the root and share one.
Generator(n) ==
    IF scene.nodes # {} /\ n \notin scene.nodes THEN SceneRoot ELSE n

\* The names of the prims that are on the stage below path already.
ExistingNames(path) ==
    IF AllowPrimOverwrites THEN {}
    ELSE {Last(p) : p \in {q \in ToSet(stage) : q # NoPath /\ Front(q) = path}}

\* pushNodeChildrensToExportStack: the first child of each name comes before
\* all the children whose name an earlier one has.
PushedChildren(n, path) ==
    LET children == scene.children[n]
        firsts == {i \in DOMAIN children : \A j \in 1..i - 1 :
                        scene.name[children[j]] # scene.name[children[i]]}
        others == DOMAIN children \ firsts
        Position(i) == IF i \in firsts THEN Cardinality(firsts \intersect 1..i)
                       ELSE Cardinality(firsts) + Cardinality(others \intersect 1..i)
        Item(i) == [node |-> children[i], parent |-> path, generator |-> Generator(n)]
    IN  [k \in DOMAIN children |-> Item(CHOOSE i \in DOMAIN children : Position(i) = k)]

Init ==
    /\ scene \in Scenes
    /\ pass = "preview"
    /\ stage = scene.existing \o
                (IF RootPath = NoPath \/ RootPath \in Range(scene.existing)
                 THEN <<>> ELSE <<RootPath>>)
    /\ stack = PushedChildren(SceneRoot, RootPath)
    /\ names = [x \in Nodes \union {SceneRoot} |->
                    IF x = SceneRoot THEN ExistingNames(RootPath) ELSE {}]
    /\ classes = NoClasses
    /\ todo = <<>>
    /\ defs = EmptyMap
    /\ exported = EmptyMap
    /\ written = EmptyMap
    /\ ops = EmptyMap
    /\ instanceOf = EmptyMap
    /\ materialReq = {}
    /\ toBind = {}

\* The node on top of the stack is previewed, if it is part of the content,
\* and its children are pushed, below its prim or at the root.
PreviewNode ==
    /\ pass = "preview"
    /\ stack # <<>>
    /\ LET item == Head(stack)
           n == item.node
           name == UniqueName(Identifier(scene, n), names[item.generator])
           context == [node |-> n, parent |-> item.parent, name |-> name]
           made == ProcessNode(classes, context)
           isPlaced == InContent(n) /\ made.prims # <<>>
           place == IF isPlaced THEN made.prims[1] ELSE RootPath
       IN  /\ IF InContent(n)
              THEN /\ todo' = Append(todo, context)
                   /\ classes' = made.classes
              ELSE UNCHANGED <<todo, classes>>
           /\ defs' = IF isPlaced THEN Inserted(defs, n, made.prims) ELSE defs
           /\ stack' = PushedChildren(n, place) \o Tail(stack)
           /\ names' = [g \in DOMAIN names |->
                            names[g]
                            \union (IF g = item.generator THEN {name} ELSE {})
                            \union (IF g = Generator(n) THEN ExistingNames(place) ELSE {})]
    /\ UNCHANGED <<scene, pass, results>>

\* Mutant of PrepareExportPass: the names of classes are not given back.
ForgetClasses == classes' = [classes EXCEPT !.of = EmptyMap]

\* PrepareExportPass
PrepareExportPass == classes' = NoClasses

\* The stage with the prims that it does not have yet, in their order, but for
\* those left out.
WithPrims(prims, leftOut) ==
    LET new == {i \in DOMAIN prims :
                    /\ prims[i] \notin ToSet(stage) \union leftOut
                    /\ \A j \in 1..i - 1 : prims[j] # prims[i]}
        Nth(k) == CHOOSE i \in new : Cardinality(new \intersect 1..i) = k
    IN  stage \o [k \in 1..Cardinality(new) |-> prims[Nth(k)]]

\* All the prims are created at once.
CreatePrims ==
    /\ pass = "preview"
    /\ stack = <<>>
    /\ pass' = "export"
    /\ stage' = WithPrims(FlattenSeq([i \in 1..Len(todo) |->
                    IF todo[i].node \in DOMAIN defs THEN defs[todo[i].node] ELSE <<>>]), {})
    /\ PrepareExportPass
    /\ UNCHANGED <<scene, stack, names, todo, defs, exported, written, ops,
                   instanceOf, materialReq, toBind>>

-----------------------------------------------------------------------------
(* The export pass *)

\* Mutant of FindPrototypePrim: the first child is forgotten.
PrototypeOfPrim(path, ofPrims, onStage) ==
    IF path \in DOMAIN ofPrims THEN ofPrims[path] ELSE NoPath

\* findPrototypePrim: the class of a prim or of its first child, if it is an
\* instance.  Class prims are not among the children; those the export makes
\* lie below RootPath, which a node has for its first prim only as instance.
FindPrototypePrim(path, ofPrims, onStage) ==
    LET children == {i \in DOMAIN onStage :
                        /\ onStage[i] # NoPath /\ Front(onStage[i]) = path
                        /\ onStage[i] \notin scene.classPrims}
        first == onStage[CHOOSE i \in children : \A j \in children : i <= j]
    IN  IF path \in DOMAIN ofPrims THEN ofPrims[path]
        ELSE IF children # {} /\ first \in DOMAIN ofPrims THEN ofPrims[first]
        ELSE NoPath

\* A node is processed again, now with its data.  Its own prims and the class
\* are fetched or created; the prim of the object has to be there.
ExportNode ==
    /\ pass = "export"
    /\ todo # <<>>
    /\ LET context == Head(todo)
           n == context.node
           made == ProcessNode(classes, context)
           root == made.prims[1]
           isWritten == made.object # NoPath /\ made.object \in ToSet(stage)
           prototype == FindPrototypePrim(root, instanceOf', stage')
       IN  /\ classes' = made.classes
           /\ stage' = WithPrims(made.prims, {made.object})
           /\ written' = IF isWritten
                         THEN [Inserted(written, made.object, {}) EXCEPT
                                    ![made.object] = @ \union {n}]
                         ELSE written
           /\ instanceOf' = IF made.instance = NoPath THEN instanceOf
                            ELSE Inserted(instanceOf, made.instance, made.classes.of[n])
           /\ IF made.prims = <<>>
              THEN UNCHANGED <<exported, ops, materialReq, toBind>>
              ELSE /\ exported' = Inserted(exported, n, made.prims)
                   /\ ops' = [Inserted(ops, root, <<>>) EXCEPT ![root] = Append(@, n)]
                   /\ materialReq' = IF isWritten /\ prototype # NoPath
                                     THEN materialReq \union {prototype}
                                     ELSE materialReq
                   /\ toBind' = IF isWritten \/ prototype \in materialReq
                                THEN toBind \union {root} ELSE toBind
    /\ todo' = Tail(todo)
    /\ UNCHANGED <<scene, pass, stack, names, defs>>

\* The user cancels: what is on the stage stays.
Cancel ==
    /\ pass = "export"
    /\ todo # <<>>
    /\ pass' = "cancelled"
    /\ UNCHANGED <<scene, stack, names, classes, todo, defs, results>>

\* The time samples are written and the instances set up.
Finish ==
    /\ pass = "export"
    /\ todo = <<>>
    /\ pass' = "done"
    /\ UNCHANGED <<scene, stack, names, classes, todo, defs, results>>

Next == PreviewNode \/ CreatePrims \/ ExportNode \/ Cancel \/ Finish

Spec == Init /\ [][Next]_vars

-----------------------------------------------------------------------------
(* Properties *)

Paths == ToSet(stage)

\* The nodes whose transforms apply to a path, from the root down.
OpsAlong(path) ==
    FlattenSeq([k \in 1..Len(path) |->
        LET prefix == SubSeq(path, 1, k)
        IN  IF prefix \in DOMAIN ops THEN ops[prefix] ELSE <<>>])

HasExportedParent(n) ==
    ParentNode(n) # SceneRoot /\ InContent(n) /\ InContent(ParentNode(n))

\* What a node has on the stage is what the preview found: the export pass
\* never asks for a prim that was not created, for all that names and classes
\* depend on the nodes before it.
PassesAgree ==
    /\ \A n \in DOMAIN exported :
            n \in DOMAIN defs /\ exported[n] = defs[n]
    /\ pass = "done" => DOMAIN exported = DOMAIN defs

\* No prim stands for two nodes, except that the only child of a point helper
\* may share the helper's, and none that was on the stage before is used.  The
\* generators keep the names of nodes apart; those of object prims and classes
\* they do not know: IsOrdinary says which names that takes.
NodesHavePrimsOfTheirOwn ==
    \A m, n \in DOMAIN defs :
        /\ AllowPrimOverwrites \/ Range(defs[n]) \intersect Range(scene.existing) = {}
        /\ m # n => \A path \in Range(defs[m]) \intersect Range(defs[n]) :
                        \/ ParentNode(m) = n /\ path = defs[n][1] /\ ChildNodes(n) = {m}
                        \/ ParentNode(n) = m /\ path = defs[m][1] /\ ChildNodes(m) = {n}

\* The transform of a node is relative to its parent's when both are
\* exported, and then the parent's is the last that applies before it;
\* otherwise no other node's applies.
TransformsCompose ==
    \A n \in DOMAIN exported :
        LET chain == OpsAlong(exported[n][1])
            at == CHOOSE i \in DOMAIN chain : chain[i] = n
        IN  IF HasExportedParent(n) THEN at > 1 /\ chain[at - 1] = ParentNode(n)
            ELSE at = 1

\* When the export is done, every node with a writer has its object on the
\* stage, written once: at the prim of its own or at the class it is an
\* instance of, which is the class of all who share the object; and all of
\* them are bound to materials.  That no other is written there takes the
\* names of an ordinary scene, as above.
PrototypesServeTheirInstances ==
    pass = "done" => \A n \in Nodes : InContent(n) /\ HasWriter(n) =>
        /\ exported[n][1] \in toBind
        /\ \E path \in DOMAIN written : \E m \in Instances(n) :
            /\ written[path] = {m}
            /\ \/ m = n /\ path \in Range(exported[n])
               \/ \E p \in Range(exported[n]) \intersect DOMAIN instanceOf :
                    instanceOf[p] = Front(path)

\* "A suggested name, from the node's name, and ensured unique amongst siblings"
\* (PrimWriter.h:121): no two nodes write their objects to one prim.
ObjectsHavePrimsOfTheirOwn ==
    \A path \in DOMAIN written : Cardinality(written[path]) = 1

\* "When instancing a USD prim, it cannot have children, as they would be
\* ignored" (USDSceneBuilder.cpp:1557): no prim lies below an instance.
InstancesHaveNoChildren ==
    \A p \in DOMAIN instanceOf, q \in Paths : ~IsStrictPrefix(p, q)

=============================================================================
