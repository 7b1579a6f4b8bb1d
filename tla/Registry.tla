------------------------------ MODULE Registry -------------------------------
(***************************************************************************)
(* What loading files and modules leaves in the registry (Registry.cpp)    *)
(* and in the aliases (AliasManager.cpp) of a factory.                     *)
(*                                                                         *)
(* A file is the sequence of its nodes in the order loadLibrary goes       *)
(* through them: modules with their components and interfaces, aliases,    *)
(* and the components it configures (whose files PropertyManager keeps).   *)
(* A node whose uuid cannot be read throws and ends the load:              *)
(* what came before stays.  A step is one node, or one component of a      *)
(* module that is introspected.                                            *)
(* A node has the attributes it needs besides the uuid.                    *)
(*                                                                         *)
(* ModuleMetadata objects are reached through shared pointers, from the    *)
(* registries and from the ModuleManager, whose map all factories share    *)
(* and nothing clears: they are the entries of objects, named by place.    *)
(* The list of interfaces of a component is the set of its members.        *)
(***************************************************************************)
EXTENDS Naturals, Sequences

CONSTANTS
  Factories, Main,
  Modules, Components, Interfaces, Names,
  NameOf,          \* the name of a component or an interface
  Index,           \* the components a module's library lists, in order
  Implements,      \* the interfaces a component has
  Files,           \* the files that may be loaded
  Unreliable,      \* components that may fail to be created
  LoadBound,       \* bound: loads, clears and new factories
  Invalid,         \* a uuid that cannot be read
  None

AliasTypes == {"component", "interface", "module"}
Uuids == Modules \union Components \union Interfaces
Nodes ==
  [kind : {"module", "component", "interface", "configuration"},
   id : Uuids \union {Invalid}]
  \union
  [kind : {"configure"}, name : Names \union {None}, id : Uuids \union {Invalid}]
  \union
  [kind : {"alias"}, type : AliasTypes, name : Names, id : Uuids \union {Invalid}]

ASSUME MainAssumption == Main \in Factories
ASSUME NoneAssumption ==
  /\ None \notin Factories \union Uuids \union Names \union Nat
  /\ \A itfs \in SUBSET Interfaces : itfs # None
ASSUME InvalidAssumption == Invalid \notin Uuids \union {None}
ASSUME NameAssumption == NameOf \in [Components \union Interfaces -> Names]
ASSUME IndexAssumption == Index \in [Modules -> Seq(Components)]
ASSUME ImplementsAssumption == Implements \in [Components -> SUBSET Interfaces]
\* A node's uuid is of the node's kind, and components are inside modules.
ASSUME FilesAssumption ==
  \A file \in Files :
    /\ file.autoAlias \in BOOLEAN
    /\ file.nodes \in Seq(Nodes)
    /\ \A j \in DOMAIN file.nodes :
         LET node == file.nodes[j]
         IN  /\ node.kind = "module" => node.id \in Modules \union {Invalid}
             /\ node.kind = "component" => node.id \in Components \union {Invalid}
             /\ node.kind = "interface" => node.id \in Interfaces \union {Invalid}
             /\ node.kind \in {"component", "interface"}
                  => j > 1 /\ file.nodes[1].kind = "module"
             /\ node.kind = "interface"
                  => \E i \in 1 .. j - 1 : file.nodes[i].kind = "component"
ASSUME LoadBoundAssumption == LoadBound \in Nat

VARIABLES
  m_context,               \* the context of each factory that exists
  m_autoAlias,             \* the switch of each factory's registry
  \* RegistryContext and AliasContext
  modulesMap, componentModuleUUIDMap, interfacesMap, aliases,
  m_moduleMap,             \* ModuleManager: the objects of introspected modules
  objects,                 \* every ModuleMetadata created so far
  \* the load in progress
  loading, todo, moduleInfo, componentInfo,
  \* history
  bound,                   \* the autobinds that each context was told of
  declared,                \* the last explicit alias of each name
  halfDeclared,            \* components whose declaration in a file failed
  brokenModules,           \* modules whose introspection ended half-way
  loadsLeft                \* loads that LoadBound still allows

registryVars ==
  <<modulesMap, componentModuleUUIDMap, interfacesMap, bound, halfDeclared>>
aliasVars == <<aliases, declared>>
loadVars == <<loading, todo, moduleInfo, componentInfo>>
vars == <<m_context, m_autoAlias, registryVars, aliasVars, m_moduleMap, objects,
          loadVars, brokenModules, loadsLeft>>

NoAliases == [t \in AliasTypes |-> [n \in Names |-> None]]
NoModules == [m \in Modules |-> None]
Unknown == [c \in Components |-> None]

Init ==
  /\ m_context = [f \in Factories |-> IF f = Main THEN Main ELSE None]
  /\ m_autoAlias = [f \in Factories |-> FALSE]
  /\ modulesMap = [k \in Factories |-> NoModules]
  /\ componentModuleUUIDMap = [k \in Factories |-> Unknown]
  /\ interfacesMap = [k \in Factories |-> {}]
  /\ bound = [k \in Factories |-> {}]
  /\ halfDeclared = [k \in Factories |-> {}]
  /\ aliases = [k \in Factories |-> NoAliases]
  /\ declared = [k \in Factories |-> NoAliases]
  /\ m_moduleMap = NoModules
  /\ objects = <<>>
  /\ loading = Main
  /\ todo = <<>>
  /\ moduleInfo = None
  /\ componentInfo = None
  /\ brokenModules = {}
  /\ loadsLeft = LoadBound

Ctx == m_context[loading]

Begin(f) ==
  /\ todo = <<>>
  /\ m_context[f] # None
  /\ loadsLeft > 0
  /\ loadsLeft' = loadsLeft - 1

-----------------------------------------------------------------------------
(* The helpers of the declarations.                                        *)

\* addMetadata: a module or an interface that is known stays as it is.
AddModuleMetadata(k, m, object) ==
  modulesMap' = IF modulesMap[k][m] = None
                  THEN [modulesMap EXCEPT ![k][m] = object] ELSE modulesMap

AddInterfaces(k, itfs) ==
  interfacesMap' = [interfacesMap EXCEPT ![k] = @ \union itfs]

Autobind(k, c, itfs) ==
  bound' = [bound EXCEPT ![k] = @ \union (itfs \X {c})]

\* (Definitions marked "Faulty" are variants with a plausible mistake.  No
\* specification uses them: put in place of the definition that follows, each
\* makes one of the properties fail.)

\* Faulty: the component goes to the last module that declares it.
ModuleOfLast(k, c, m) ==
  componentModuleUUIDMap' = [componentModuleUUIDMap EXCEPT ![k][c] = m]

\* A component that some module is known to hold stays with that module.
ModuleOfFirst(k, c, m) ==
  componentModuleUUIDMap' =
    IF componentModuleUUIDMap[k][c] = None
      THEN [componentModuleUUIDMap EXCEPT ![k][c] = m]
      ELSE componentModuleUUIDMap

\* Faulty: the automatic alias replaces the one that exists.
AutoAliasAlways(f, of, t, uuids) ==
  IF ~m_autoAlias[f] THEN of
  ELSE [of EXCEPT ![t] =
          [n \in Names |->
             IF \E u \in uuids : NameOf[u] = n
               THEN CHOOSE u \in uuids : NameOf[u] = n
               ELSE of[t][n]]]

\* The automatic aliases of a set of uuids of one type: the name of each, if
\* the switch is on and the name is free.
AutoAlias(f, of, t, uuids) ==
  IF ~m_autoAlias[f] THEN of
  ELSE [of EXCEPT ![t] =
          [n \in Names |->
             IF of[t][n] = None /\ \E u \in uuids : NameOf[u] = n
               THEN CHOOSE u \in uuids : NameOf[u] = n
               ELSE of[t][n]]]

NewModule(m) == [uuid |-> m, components |-> Unknown]

\* The interfaces that a module lists for a component, and the objects after
\* the module has been given such a list.
Entry(object, c) == objects[object].components[c]
WithEntry(of, object, c, itfs) == [of EXCEPT ![object].components[c] = itfs]

-----------------------------------------------------------------------------
(* A file.                                                                 *)

LoadLibrary(f, file) ==
  /\ Begin(f)
  /\ m_autoAlias' = [m_autoAlias EXCEPT ![f] = file.autoAlias]
  /\ loading' = f
  /\ todo' = file.nodes
  /\ moduleInfo' = None
  /\ componentInfo' = None
  /\ UNCHANGED <<m_context, registryVars, aliasVars, m_moduleMap, objects,
                 brokenModules>>

Node == Head(todo)

\* The node of the file that is next, with a uuid that can be read.
AtNode(kind) ==
  /\ todo # <<>>
  /\ Node.kind = kind
  /\ Node.id # Invalid
  /\ todo' = Tail(todo)
  /\ UNCHANGED <<m_context, m_autoAlias, m_moduleMap, loading, brokenModules,
                 loadsLeft>>

\* declareModule always makes a new object, which it registers only if the
\* module is new; the components that follow go to that object.
DeclareModule ==
  /\ AtNode("module")
  /\ objects' = Append(objects, NewModule(Node.id))
  /\ moduleInfo' = Len(objects) + 1
  /\ componentInfo' = None
  /\ AddModuleMetadata(Ctx, Node.id, Len(objects) + 1)
  /\ UNCHANGED <<componentModuleUUIDMap, interfacesMap, bound, halfDeclared,
                 aliasVars>>

\* Faulty: a component that is known is read again.
ReadsComponentAlways(c) == TRUE

\* A component that some module is known to hold is skipped.
ReadsComponent(c) == componentModuleUUIDMap[Ctx][c] = None

DeclareComponent ==
  /\ AtNode("component")
  /\ IF ReadsComponent(Node.id)
       THEN /\ ModuleOfFirst(Ctx, Node.id, objects[moduleInfo].uuid)
            /\ aliases' = [aliases EXCEPT ![Ctx] =
                             AutoAlias(loading, @, "component", {Node.id})]
            /\ objects' = WithEntry(objects, moduleInfo, Node.id, {})
            /\ componentInfo' = Node.id
       ELSE /\ UNCHANGED <<componentModuleUUIDMap, aliases, objects>>
            /\ componentInfo' = None
  /\ UNCHANGED <<modulesMap, interfacesMap, bound, halfDeclared, declared,
                 moduleInfo>>

\* The interfaces of a component that is skipped are not read.
SkipInterfaceNode ==
  /\ todo # <<>>
  /\ Node.kind = "interface"
  /\ componentInfo = None
  /\ todo' = Tail(todo)
  /\ UNCHANGED <<m_context, m_autoAlias, registryVars, aliasVars, m_moduleMap,
                 objects, loading, moduleInfo, componentInfo, brokenModules,
                 loadsLeft>>

\* Faulty: only an interface that is new is bound.
BindsInterfaceIfNew(i) == i \notin interfacesMap[Ctx]

BindsInterface(i) == TRUE

DeclareInterfaceNode ==
  /\ AtNode("interface")
  /\ componentInfo # None
  /\ objects' = WithEntry(objects, moduleInfo, componentInfo,
                           Entry(moduleInfo, componentInfo) \union {Node.id})
  /\ IF BindsInterface(Node.id)
       THEN Autobind(Ctx, componentInfo, {Node.id}) ELSE UNCHANGED bound
  /\ aliases' =
       IF Node.id \in interfacesMap[Ctx] THEN aliases
       ELSE [aliases EXCEPT ![Ctx] =
               AutoAlias(loading, @, "interface", {Node.id})]
  /\ AddInterfaces(Ctx, {Node.id})
  /\ UNCHANGED <<modulesMap, componentModuleUUIDMap, halfDeclared, declared,
                 moduleInfo, componentInfo>>

\* An <alias> node replaces what exists.
DeclareAliasNode ==
  /\ AtNode("alias")
  /\ aliases' = [aliases EXCEPT ![Ctx][Node.type][Node.name] = Node.id]
  /\ declared' = [declared EXCEPT ![Ctx][Node.type][Node.name] = Node.id]
  /\ UNCHANGED <<registryVars, objects, moduleInfo, componentInfo>>

\* What a component of a <configuration> or a <configure> of a <properties>
\* section is about: the latter names a component by its alias, or its uuid.
ByAlias == IF Node.kind = "configure" /\ Node.name # None
             THEN aliases[Ctx]["component"][Node.name] ELSE None
Configured == IF ByAlias # None THEN ByAlias ELSE Node.id

ConfigureNode ==
  /\ todo # <<>>
  /\ Node.kind \in {"configuration", "configure"}
  /\ Configured # Invalid
  /\ todo' = Tail(todo)
  /\ UNCHANGED <<m_context, m_autoAlias, registryVars, aliasVars, m_moduleMap,
                 objects, loading, moduleInfo, componentInfo, brokenModules,
                 loadsLeft>>

\* A uuid cannot be read: the exception ends the load.
NodeFails ==
  /\ todo # <<>>
  /\ Node.id = Invalid
  /\ ByAlias = None
  /\ Node.kind = "interface" => componentInfo # None
  /\ halfDeclared' =
       IF Node.kind = "interface"
         THEN [halfDeclared EXCEPT ![Ctx] = @ \union {componentInfo}]
         ELSE halfDeclared
  /\ todo' = <<>>
  /\ UNCHANGED <<m_context, m_autoAlias, modulesMap, componentModuleUUIDMap,
                 interfacesMap, bound, aliasVars, m_moduleMap, objects, loading,
                 moduleInfo, componentInfo, brokenModules, loadsLeft>>

-----------------------------------------------------------------------------
(* A module.                                                               *)

Listed(m) == {Index[m][j] : j \in DOMAIN Index[m]}

\* Faulty: a module that is already in the map gets an object never filled.
ObjectOfNew(m) == Len(objects) + 1

ObjectOf(m) == IF m_moduleMap[m] = None THEN Len(objects) + 1 ELSE m_moduleMap[m]

\* introspectModule returns the object of the first time, else a new one that
\* lists what the library does; declareModuleMetadata then registers it.
LoadModuleMetadata(f, m) ==
  LET fresh == m_moduleMap[m] = None
      object == ObjectOf(m)
      listing == [c \in Components |-> IF c \in Listed(m) THEN {} ELSE None]
  IN  /\ Begin(f)
      /\ m_moduleMap' = [m_moduleMap EXCEPT ![m] = object]
      /\ objects' = IF fresh
                      THEN Append(objects, [uuid |-> m, components |-> listing])
                      ELSE objects
      /\ AddModuleMetadata(m_context[f], m, object)
      /\ loading' = f
      /\ todo' = [j \in DOMAIN Index[m] |->
                    [kind |-> "introspect", id |-> Index[m][j]]]
      /\ moduleInfo' = object
      /\ componentInfo' = None
      /\ UNCHANGED <<m_context, m_autoAlias, componentModuleUUIDMap,
                     interfacesMap, bound, halfDeclared, aliasVars,
                     brokenModules>>

\* One component of the loop of declareModuleMetadata: recorded, created, and
\* asked for its interfaces.
DeclareIntrospected ==
  LET c == Node.id
      named == AutoAlias(loading, aliases[Ctx], "component", {c})
  IN  /\ AtNode("introspect")
      /\ ModuleOfFirst(Ctx, c, objects[moduleInfo].uuid)
      /\ Autobind(Ctx, c, Implements[c])
      /\ aliases' = [aliases EXCEPT ![Ctx] =
                       AutoAlias(loading, named, "interface", Implements[c])]
      /\ objects' = WithEntry(objects, moduleInfo, c,
                               Entry(moduleInfo, c) \union Implements[c])
      /\ AddInterfaces(Ctx, Implements[c])
      /\ UNCHANGED <<modulesMap, halfDeclared, declared, moduleInfo,
                     componentInfo>>

\* The component is recorded and cannot be created: the exception ends the
\* load.
CreateFails ==
  /\ todo # <<>>
  /\ Node.kind = "introspect"
  /\ Node.id \in Unreliable
  /\ ModuleOfFirst(Ctx, Node.id, objects[moduleInfo].uuid)
  /\ aliases' = [aliases EXCEPT ![Ctx] =
                   AutoAlias(loading, @, "component", {Node.id})]
  /\ todo' = <<>>
  /\ brokenModules' = brokenModules \union {objects[moduleInfo].uuid}
  /\ UNCHANGED <<m_context, m_autoAlias, modulesMap, interfacesMap, bound,
                 halfDeclared, declared, m_moduleMap, objects, loading,
                 moduleInfo, componentInfo, loadsLeft>>

\* findComponentMetadata: what the registered object of its module says of a
\* component, None for the null pointer.
FindComponentMetadata(k, c) ==
  Entry(modulesMap[k][componentModuleUUIDMap[k][c]], c)

-----------------------------------------------------------------------------
(* Contexts: the registry's and the aliases' follow the factory's.         *)

\* Faulty: the registry keeps what it knows of components.
ClearModulesOnly(k) ==
  /\ modulesMap' = [modulesMap EXCEPT ![k] = NoModules]
  /\ UNCHANGED componentModuleUUIDMap

ClearModules(k) ==
  /\ modulesMap' = [modulesMap EXCEPT ![k] = NoModules]
  /\ componentModuleUUIDMap' = [componentModuleUUIDMap EXCEPT ![k] = Unknown]

\* Faulty: the aliases outlive what they name.
ClearNoAliases(k) == UNCHANGED aliases

ClearAliases(k) == aliases' = [aliases EXCEPT ![k] = NoAliases]

Clear(f) ==
  LET k == m_context[f]
  IN  /\ Begin(f)
      /\ ClearModules(k)
      /\ interfacesMap' = [interfacesMap EXCEPT ![k] = {}]
      /\ bound' = [bound EXCEPT ![k] = {}]
      /\ halfDeclared' = [halfDeclared EXCEPT ![k] = {}]
      /\ ClearAliases(k)
      /\ declared' = [declared EXCEPT ![k] = NoAliases]
      /\ UNCHANGED <<m_context, m_autoAlias, m_moduleMap, objects, loadVars,
                     brokenModules>>

\* A clone copies the maps, and with them the pointers to the modules.
CopyContext(from, to) ==
  /\ modulesMap' = [modulesMap EXCEPT ![to] = modulesMap[from]]
  /\ componentModuleUUIDMap' =
       [componentModuleUUIDMap EXCEPT ![to] = componentModuleUUIDMap[from]]
  /\ interfacesMap' = [interfacesMap EXCEPT ![to] = interfacesMap[from]]
  /\ bound' = [bound EXCEPT ![to] = bound[from]]
  /\ halfDeclared' = [halfDeclared EXCEPT ![to] = halfDeclared[from]]
  /\ aliases' = [aliases EXCEPT ![to] = aliases[from]]
  /\ declared' = [declared EXCEPT ![to] = declared[from]]

CreateNewFactoryContext(f, new, mode) ==
  /\ Begin(f)
  /\ m_context[new] = None
  /\ m_context' = [m_context EXCEPT
                     ![new] = IF mode = "Shared" THEN m_context[f] ELSE new]
  /\ IF mode = "Cloned" THEN CopyContext(m_context[f], new)
                        ELSE UNCHANGED <<registryVars, aliasVars>>
  /\ UNCHANGED <<m_autoAlias, m_moduleMap, objects, loadVars, brokenModules>>

-----------------------------------------------------------------------------
NodeStep ==
  \/ DeclareModule
  \/ DeclareComponent
  \/ SkipInterfaceNode
  \/ DeclareInterfaceNode
  \/ DeclareAliasNode
  \/ ConfigureNode
  \/ NodeFails

Next ==
  \/ \E f \in Factories :
       \/ \E file \in Files : LoadLibrary(f, file)
       \/ \E m \in Modules : LoadModuleMetadata(f, m)
       \/ Clear(f)
       \/ \E new \in Factories, mode \in {"Empty", "Cloned", "Shared"} :
            CreateNewFactoryContext(f, new, mode)
  \/ NodeStep
  \/ DeclareIntrospected
  \/ CreateFails

Spec == Init /\ [][Next]_vars

-----------------------------------------------------------------------------
(* Properties.                                                             *)

Objects == 1 .. Len(objects)
ModuleObjects ==
  [uuid : Modules, components : [Components -> {None} \union SUBSET Interfaces]]
AliasMaps == [AliasTypes -> [Names -> Uuids \union {None}]]

\* The maps hold what their types allow, and every pointer to a module leads
\* to an object of that module.
TypeOK ==
  /\ m_context \in [Factories -> Factories \union {None}]
  /\ m_autoAlias \in [Factories -> BOOLEAN]
  /\ modulesMap \in [Factories -> [Modules -> Objects \union {None}]]
  /\ componentModuleUUIDMap \in [Factories -> [Components -> Modules \union {None}]]
  /\ interfacesMap \in [Factories -> SUBSET Interfaces]
  /\ bound \in [Factories -> SUBSET (Interfaces \X Components)]
  /\ halfDeclared \in [Factories -> SUBSET Components]
  /\ aliases \in [Factories -> AliasMaps]
  /\ declared \in [Factories -> AliasMaps]
  /\ m_moduleMap \in [Modules -> Objects \union {None}]
  /\ objects \in Seq(ModuleObjects)
  /\ \A k \in Factories, m \in Modules :
       modulesMap[k][m] # None => objects[modulesMap[k][m]].uuid = m
  /\ loading \in Factories /\ m_context[loading] # None
  /\ moduleInfo \in Objects \union {None}
  /\ componentInfo \in Components \union {None}
  /\ brokenModules \subseteq Modules
  /\ loadsLeft \in Nat

Known(k, c) == componentModuleUUIDMap[k][c] # None

\* The module of a component that is known is registered, whatever failed
\* half-way and whatever was cleared, copied or shared: in Factory::create,
\* findModuleMetadata(getModuleUUID(c)) throws only for an unknown component.
KnownModule ==
  \A k \in Factories, c \in Components :
    Known(k, c) => modulesMap[k][componentModuleUUIDMap[k][c]] # None

\* An alias of an <aliases> section is what its name resolves to until another
\* <aliases> section or a clear: no automatic alias of a later file or of a
\* module that is introspected replaces it (AliasManager::declareAliasNode).
ExplicitAliasPrevails ==
  \A k \in Factories, t \in AliasTypes, n \in Names :
    declared[k][t][n] # None => aliases[k][t][n] = declared[k][t][n]

\* An automatic alias names a component or an interface that the registry of
\* the same context knows: the two contexts, which separate objects keep, are
\* filled, cleared, copied and shared together.
AutomaticAliasesAreKnown ==
  \A k \in Factories, n \in Names :
    /\ (declared[k]["component"][n] = None /\ aliases[k]["component"][n] # None)
         => Known(k, aliases[k]["component"][n])
    /\ (declared[k]["interface"][n] = None /\ aliases[k]["interface"][n] # None)
         => aliases[k]["interface"][n] \in interfacesMap[k]

\* The interfaces that findComponentMetadata lists, the component's last known
\* state included when a node failed half-way, are bound to the component,
\* unless the introspection of its module was cut short: the object that lists
\* them is shared with factories where it was not.
ListedInterfacesAreBound ==
  \A k \in Factories, c \in Components :
    (/\ todo = <<>>
     /\ Known(k, c)
     /\ componentModuleUUIDMap[k][c] \notin brokenModules
     /\ FindComponentMetadata(k, c) # None)
      => \A i \in FindComponentMetadata(k, c) : <<i, c>> \in bound[k]

\* A component stays with the first module that declared it: no second file
\* and no introspection gives it to another one; only a clear forgets it.
ModuleKept ==
  [][\A k \in Factories, c \in Components :
       Known(k, c) => componentModuleUUIDMap'[k][c]
                        \in {componentModuleUUIDMap[k][c], None}]_vars

\* A component that a file left half-declared stays so whatever files are read
\* later, the corrected one included: nothing but the introspection of a module
\* (or a clear) makes up for the interfaces that were not reached.
HalfDeclaredStays ==
  [][\A k \in Factories, c \in Components :
       (/\ c \in halfDeclared[k]
        /\ \E i \in Interfaces : <<i, c>> \in bound'[k] \ bound[k])
         => DeclareIntrospected]_vars

\* The components of a second declaration of a module are "added later from
\* another configuration" (Registry.cpp, declareModule): where files are all
\* that was read, a component that is known is found.
KnownComponentsAreListed ==
  (todo = <<>> /\ m_moduleMap = NoModules) =>
    \A k \in Factories, c \in Components :
      Known(k, c) => FindComponentMetadata(k, c) # None
=============================================================================
