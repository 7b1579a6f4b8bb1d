--------------------------- MODULE RegistryProofs ----------------------------
(***************************************************************************)
(* Proofs about the registry and the aliases of Registry.                  *)
(***************************************************************************)
EXTENDS Registry, TLAPS

-----------------------------------------------------------------------------
(* The inductive invariant.                                                *)

Entries == Nodes \union [kind : {"introspect"}, id : Components]

\* The uuid of a node that can be read is of the node's kind.
NodeOK(node) ==
  /\ node.kind = "module" => node.id \in Modules \union {Invalid}
  /\ node.kind = "component" => node.id \in Components \union {Invalid}
  /\ node.kind = "interface" => node.id \in Interfaces \union {Invalid}

\* What is left of a load is of one sort: nodes of a file, or components of a
\* library.
TodoOK ==
  /\ todo \in Seq(Entries)
  /\ \A j \in 1 .. Len(todo) : NodeOK(todo[j])
  /\ \/ \A j \in 1 .. Len(todo) : todo[j].kind = "introspect"
     \/ \A j \in 1 .. Len(todo) : todo[j].kind # "introspect"

\* A component is read inside a module, and introspected in a module that
\* lists it.
ModuleFirst ==
  \/ moduleInfo # None
  \/ \A j \in 1 .. Len(todo) : todo[j].kind \notin {"component", "introspect"}
  \/ todo # <<>> /\ todo[1].kind = "module"

\* While a load goes on, the module that it reads is registered (by this
\* object or an earlier one), and the object has an entry for what is read.
LoadOK ==
  todo # <<>> =>
    /\ moduleInfo # None =>
         modulesMap[m_context[loading]][objects[moduleInfo].uuid] # None
    /\ componentInfo # None =>
         /\ moduleInfo # None
         /\ objects[moduleInfo].components[componentInfo] # None
    /\ \A j \in 1 .. Len(todo) :
         todo[j].kind = "introspect" =>
           /\ moduleInfo # None
           /\ objects[moduleInfo].components[todo[j].id] # None

\* The objects that the ModuleManager keeps list what their libraries do.
ManagerOK ==
  \A m \in Modules :
    m_moduleMap[m] # None =>
      /\ objects[m_moduleMap[m]].uuid = m
      /\ \A c \in Listed(m) : objects[m_moduleMap[m]].components[c] # None

Inv == TypeOK /\ TodoOK /\ ModuleFirst /\ LoadOK /\ ManagerOK /\ KnownModule

-----------------------------------------------------------------------------
(* The helpers.                                                            *)

\* None is no set of interfaces (a component without entry is told from one
\* without interfaces).
LEMMA NoneIsNoSet == \A itfs \in SUBSET Interfaces : itfs # None
BY NoneAssumption

\* A new object leaves the others where they are.
LEMMA Appended ==
  ASSUME NEW s \in Seq(ModuleObjects), NEW o \in ModuleObjects
  PROVE  /\ Append(s, o) \in Seq(ModuleObjects)
         /\ Len(Append(s, o)) = Len(s) + 1
         /\ Append(s, o)[Len(s) + 1] = o
         /\ \A i \in 1 .. Len(s) : Append(s, o)[i] = s[i]
OBVIOUS

\* Filling the entry of a component changes that entry and no other.
LEMMA Filled ==
  ASSUME NEW s \in Seq(ModuleObjects), NEW j \in 1 .. Len(s),
         NEW c \in Components, NEW v \in SUBSET Interfaces
  PROVE  /\ WithEntry(s, j, c, v) \in Seq(ModuleObjects)
         /\ Len(WithEntry(s, j, c, v)) = Len(s)
         /\ \A i \in 1 .. Len(s) :
              /\ WithEntry(s, j, c, v)[i].uuid = s[i].uuid
              /\ \A d \in Components :
                   s[i].components[d] # None
                     => WithEntry(s, j, c, v)[i].components[d] # None
         /\ WithEntry(s, j, c, v)[j].components[c] # None
         /\ WithEntry(s, j, c, v)[j].components[c] = v
         /\ \A i \in 1 .. Len(s), d \in Components :
              i # j \/ d # c =>
                WithEntry(s, j, c, v)[i].components[d] = s[i].components[d]
<1> DEFINE t == WithEntry(s, j, c, v)
<1> DEFINE o == [s[j] EXCEPT !.components[c] = v]
<1>1. s[j] \in ModuleObjects
  OBVIOUS
<1>2. /\ o \in ModuleObjects
      /\ o.uuid = s[j].uuid
      /\ o.components = [s[j].components EXCEPT ![c] = v]
  BY <1>1 DEF ModuleObjects
<1>3. /\ o.components[c] # None
      /\ \A d \in Components :
           s[j].components[d] # None => o.components[d] # None
  BY <1>1, <1>2, NoneIsNoSet DEF ModuleObjects
<1>4. t = [s EXCEPT ![j] = o]
  BY DEF WithEntry
<1> HIDE DEF o, t
<1>5. /\ t \in Seq(ModuleObjects)
      /\ Len(t) = Len(s)
      /\ t[j] = o
      /\ \A i \in 1 .. Len(s) : i # j => t[i] = s[i]
  BY <1>2, <1>4
<1>6. /\ \A i \in 1 .. Len(s) :
           /\ t[i].uuid = s[i].uuid
           /\ \A d \in Components :
                s[i].components[d] # None => t[i].components[d] # None
      /\ t[j].components[c] # None
  BY <1>2, <1>3, <1>5
<1>7. /\ t[j].components[c] = v
      /\ \A d \in Components :
           d # c => t[j].components[d] = s[j].components[d]
  BY <1>1, <1>2, <1>5 DEF ModuleObjects
<1>8. \A i \in 1 .. Len(s), d \in Components :
        i # j \/ d # c => t[i].components[d] = s[i].components[d]
  BY <1>5, <1>7
<1> QED
  BY <1>5, <1>6, <1>7, <1>8 DEF t

\* An automatic alias leaves the names that exist as they are, and gives the
\* others to the uuids it is about.
LEMMA AutoAliased ==
  ASSUME NEW f \in Factories, NEW of \in AliasMaps, NEW t \in AliasTypes,
         NEW uuids \in SUBSET Uuids
  PROVE  /\ AutoAlias(f, of, t, uuids) \in AliasMaps
         /\ \A u \in AliasTypes, n \in Names :
              of[u][n] # None => AutoAlias(f, of, t, uuids)[u][n] = of[u][n]
         /\ \A u \in AliasTypes, n \in Names :
              \/ AutoAlias(f, of, t, uuids)[u][n] = of[u][n]
              \/ u = t /\ AutoAlias(f, of, t, uuids)[u][n] \in uuids
<1>1. \A n \in Names :
        (\E u \in uuids : NameOf[u] = n)
          => (CHOOSE u \in uuids : NameOf[u] = n) \in uuids
  OBVIOUS
<1> QED
  BY <1>1 DEF AutoAlias, AliasMaps

\* Registering a module keeps the ones that are registered, and every pointer
\* leads to an object of its module.
LEMMA Registered ==
  ASSUME TypeOK, NEW k \in Factories, NEW m \in Modules,
         objects' \in Seq(ModuleObjects), Len(objects') >= Len(objects),
         \A i \in Objects : objects'[i].uuid = objects[i].uuid,
         NEW object \in Objects', objects'[object].uuid = m,
         AddModuleMetadata(k, m, object)
  PROVE  /\ modulesMap' \in [Factories -> [Modules -> Objects' \union {None}]]
         /\ modulesMap'[k][m] # None
         /\ \A h \in Factories, p \in Modules :
              /\ modulesMap[h][p] # None => modulesMap'[h][p] # None
              /\ modulesMap'[h][p] # None => objects'[modulesMap'[h][p]].uuid = p
<1>1. /\ modulesMap \in [Factories -> [Modules -> Objects \union {None}]]
      /\ \A h \in Factories, p \in Modules :
           modulesMap[h][p] # None => objects[modulesMap[h][p]].uuid = p
  BY DEF TypeOK
<1>2. Objects \subseteq Objects'
  BY DEF Objects, TypeOK
<1>3. object # None
  BY NoneAssumption DEF Objects
<1>4. modulesMap \in [Factories -> [Modules -> Objects' \union {None}]]
  BY <1>1, <1>2
<1>5. \A h \in Factories, p \in Modules :
        modulesMap[h][p] # None => objects'[modulesMap[h][p]].uuid = p
  BY <1>1
<1>6. CASE modulesMap[k][m] # None
  BY <1>4, <1>5, <1>6 DEF AddModuleMetadata
<1>7. CASE modulesMap[k][m] = None
  <2>1. modulesMap' = [modulesMap EXCEPT ![k][m] = object]
    BY <1>7 DEF AddModuleMetadata
  <2>2. modulesMap' \in [Factories -> [Modules -> Objects' \union {None}]]
    BY <1>4, <2>1
  <2>3. /\ modulesMap'[k][m] = object
        /\ \A h \in Factories, p \in Modules :
             h # k \/ p # m => modulesMap'[h][p] = modulesMap[h][p]
    BY <1>1, <2>1
  <2> QED
    BY <1>3, <1>5, <1>7, <2>2, <2>3
<1> QED
  BY <1>6, <1>7

\* An autobind pairs interfaces with a component.
LEMMA Autobinds ==
  ASSUME TypeOK, NEW k \in Factories, NEW c \in Components,
         NEW itfs \in SUBSET Interfaces, Autobind(k, c, itfs)
  PROVE  bound' \in [Factories -> SUBSET (Interfaces \X Components)]
<1> DEFINE pairs == itfs \X {c}
           every == Interfaces \X Components
<1>1. bound \in [Factories -> SUBSET every] /\ pairs \subseteq every
  BY DEF TypeOK
<1>2. bound' = [bound EXCEPT ![k] = @ \union pairs]
  BY DEF Autobind
<1> HIDE DEF pairs, every
<1>3. bound' \in [Factories -> SUBSET every]
  BY <1>1, <1>2
<1> QED
  BY <1>3 DEF every

\* What is left after a node is of the same sort.
LEMMA Shortened ==
  ASSUME TodoOK, todo # <<>>, todo' = Tail(todo)
  PROVE  /\ TodoOK'
         /\ todo[1] = Node /\ Node \in Entries /\ NodeOK(Node)
         /\ Len(todo') = Len(todo) - 1
         /\ \A j \in 1 .. Len(todo') : todo'[j] = todo[j + 1] /\ j + 1 \in 1 .. Len(todo)
<1>1. todo \in Seq(Entries) /\ Len(todo) > 0
  BY DEF TodoOK
<1>2. /\ todo' \in Seq(Entries)
      /\ Len(todo') = Len(todo) - 1
      /\ \A j \in 1 .. Len(todo') : todo'[j] = todo[j + 1] /\ j + 1 \in 1 .. Len(todo)
  BY <1>1
<1>3. todo[1] = Node /\ Node \in Entries /\ NodeOK(Node)
  BY <1>1 DEF TodoOK, Node
<1>4. TodoOK'
  BY <1>1, <1>2 DEF TodoOK, NodeOK
<1> QED
  BY <1>2, <1>3, <1>4

-----------------------------------------------------------------------------
(* The actions.                                                            *)

\* It holds at first.
LEMMA InitInv == Init => Inv
<1> SUFFICES ASSUME Init PROVE Inv
  OBVIOUS
<1> USE DEF Init
<1>1. TypeOK
  <2>1. <<>> \in Seq(ModuleObjects) /\ Len(<<>>) = 0
    OBVIOUS
  <2>2. NoAliases \in AliasMaps
    BY DEF NoAliases, AliasMaps
  <2>3. m_context[Main] # None
    BY MainAssumption, NoneAssumption
  <2> QED
    BY <2>1, <2>2, <2>3, MainAssumption, NoneAssumption, LoadBoundAssumption
       DEF TypeOK, Objects, NoModules, Unknown
<1>2. TodoOK /\ ModuleFirst /\ LoadOK
  BY DEF TodoOK, ModuleFirst, LoadOK
<1>3. ManagerOK /\ KnownModule
  BY DEF ManagerOK, KnownModule, Known, NoModules, Unknown
<1> QED
  BY <1>1, <1>2, <1>3 DEF Inv

\* A file may begin with anything; nothing is read yet.
LEMMA LoadLibraryInv ==
  ASSUME Inv, NEW f \in Factories, NEW file \in Files, LoadLibrary(f, file)
  PROVE  Inv'
<1> USE DEF Inv, LoadLibrary, Begin
<1>1. /\ file.nodes \in Seq(Nodes)
      /\ file.autoAlias \in BOOLEAN
      /\ \A j \in 1 .. Len(file.nodes) :
           /\ NodeOK(file.nodes[j])
           /\ file.nodes[j].kind \in {"component", "interface"}
                => file.nodes[1].kind = "module"
  BY FilesAssumption DEF NodeOK
<1>2. \A j \in 1 .. Len(file.nodes) : file.nodes[j].kind # "introspect"
  BY <1>1 DEF Nodes
<1>3. TypeOK'
  BY <1>1 DEF TypeOK, Objects, registryVars, aliasVars
<1>4. TodoOK'
  <2>1. file.nodes \in Seq(Entries)
    BY <1>1 DEF Entries
  <2> QED
    BY <1>1, <1>2, <2>1 DEF TodoOK, NodeOK
<1>5. ModuleFirst' /\ LoadOK'
  BY <1>1, <1>2 DEF ModuleFirst, LoadOK
<1>6. ManagerOK' /\ KnownModule'
  BY DEF ManagerOK, KnownModule, Known, registryVars
<1> QED
  BY <1>3, <1>4, <1>5, <1>6

\* The module of the node is registered, by its object or an earlier one.
LEMMA DeclareModuleInv == ASSUME Inv, DeclareModule PROVE Inv'
<1> DEFINE new == NewModule(Node.id)
<1> DEFINE k == m_context[loading]
<1>1. /\ TodoOK' /\ Node = todo[1] /\ NodeOK(Node)
      /\ Len(todo') = Len(todo) - 1
      /\ \A j \in 1 .. Len(todo') : todo'[j] = todo[j + 1] /\ j + 1 \in 1 .. Len(todo)
  BY Shortened DEF Inv, DeclareModule, AtNode
<1>2. Node.id \in Modules /\ Len(todo) > 0
  BY <1>1 DEF NodeOK, DeclareModule, AtNode, Inv, TodoOK
<1>3. new \in ModuleObjects /\ new.uuid = Node.id
  BY <1>2 DEF NewModule, ModuleObjects, Unknown
<1>4. objects \in Seq(ModuleObjects) /\ objects' = Append(objects, new)
  BY DEF Inv, TypeOK, DeclareModule
<1> HIDE DEF new
<1>5. /\ objects' \in Seq(ModuleObjects)
      /\ Len(objects') = Len(objects) + 1
      /\ objects'[Len(objects) + 1].uuid = Node.id
      /\ \A i \in 1 .. Len(objects) : objects'[i] = objects[i]
  BY <1>3, <1>4, Appended
<1>6. Len(objects) \in Nat
  BY <1>4
<1>7. k \in Factories
  BY DEF Inv, TypeOK
<1>8. Len(objects) + 1 \in Objects'
  BY <1>5, <1>6 DEF Objects
<1>9. /\ modulesMap' \in [Factories -> [Modules -> Objects' \union {None}]]
      /\ modulesMap'[k][Node.id] # None
      /\ \A h \in Factories, p \in Modules :
           /\ modulesMap[h][p] # None => modulesMap'[h][p] # None
           /\ modulesMap'[h][p] # None => objects'[modulesMap'[h][p]].uuid = p
  <2>1. AddModuleMetadata(k, Node.id, Len(objects) + 1)
    BY DEF DeclareModule, Ctx
  <2>2. Len(objects') >= Len(objects) /\ TypeOK
    BY <1>5, <1>6 DEF Inv
  <2>3. \A i \in Objects : objects'[i].uuid = objects[i].uuid
    BY <1>5 DEF Objects
  <2> QED
    BY <1>2, <1>5, <1>7, <1>8, <2>1, <2>2, <2>3, Registered
<1>10. TypeOK'
  BY <1>5, <1>6, <1>9
     DEF Inv, TypeOK, DeclareModule, AtNode, Objects, aliasVars
<1>11. ModuleFirst'
  BY <1>6, NoneAssumption DEF ModuleFirst, DeclareModule
<1>12. LoadOK'
  <2>1. \A j \in 1 .. Len(todo) : todo[j].kind # "introspect"
    BY <1>1, <1>2 DEF Inv, TodoOK, DeclareModule, AtNode
  <2> QED
    BY <1>1, <1>5, <1>9, <2>1 DEF LoadOK, DeclareModule, AtNode
<1>13. ManagerOK'
  BY <1>5 DEF Inv, ManagerOK, TypeOK, Objects, DeclareModule, AtNode
<1>14. KnownModule'
  BY <1>9 DEF Inv, KnownModule, Known, TypeOK, DeclareModule
<1> QED
  BY <1>1, <1>10, <1>11, <1>12, <1>13, <1>14 DEF Inv

\* A component goes to a registered module.
LEMMA Assigned ==
  ASSUME TypeOK, KnownModule, NEW k \in Factories, NEW c \in Components,
         NEW m \in Modules, modulesMap[k][m] # None, UNCHANGED modulesMap,
         ModuleOfFirst(k, c, m)
  PROVE  /\ componentModuleUUIDMap'
              \in [Factories -> [Components -> Modules \union {None}]]
         /\ KnownModule'
<1>1. CASE componentModuleUUIDMap[k][c] # None
  BY <1>1 DEF ModuleOfFirst, TypeOK, KnownModule, Known
<1>2. CASE componentModuleUUIDMap[k][c] = None
  <2>1. componentModuleUUIDMap' = [componentModuleUUIDMap EXCEPT ![k][c] = m]
    BY <1>2 DEF ModuleOfFirst
  <2>2. /\ componentModuleUUIDMap'
             \in [Factories -> [Components -> Modules \union {None}]]
        /\ componentModuleUUIDMap'[k][c] = m
        /\ \A h \in Factories, d \in Components :
             h # k \/ d # c
               => componentModuleUUIDMap'[h][d] = componentModuleUUIDMap[h][d]
    BY <2>1 DEF TypeOK
  <2> QED
    BY <2>2 DEF KnownModule, Known
<1> QED
  BY <1>1, <1>2

\* Filling an entry disturbs no pointer, and the manager's objects list what
\* they did.
LEMMA FilledKeeps ==
  ASSUME TypeOK, ManagerOK, UNCHANGED m_moduleMap,
         Len(objects') = Len(objects),
         \A i \in 1 .. Len(objects) :
           /\ objects'[i].uuid = objects[i].uuid
           /\ \A d \in Components :
                objects[i].components[d] # None => objects'[i].components[d] # None
  PROVE  /\ Objects' = Objects
         /\ \A h \in Factories, p \in Modules :
              modulesMap[h][p] # None => objects'[modulesMap[h][p]].uuid = p
         /\ ManagerOK'
<1>1. Objects' = Objects
  BY DEF Objects
<1>2. \A h \in Factories, p \in Modules :
        modulesMap[h][p] # None
          => modulesMap[h][p] \in Objects /\ objects[modulesMap[h][p]].uuid = p
  BY DEF TypeOK
<1>3. \A p \in Modules : m_moduleMap[p] # None => m_moduleMap[p] \in Objects
  BY DEF TypeOK
<1>4. \A p \in Modules : Listed(p) \subseteq Components
  BY IndexAssumption DEF Listed
<1>5. ManagerOK'
  <2> SUFFICES ASSUME NEW p \in Modules, m_moduleMap[p] # None
               PROVE  /\ objects'[m_moduleMap[p]].uuid = p
                      /\ \A c \in Listed(p) :
                           objects'[m_moduleMap[p]].components[c] # None
    BY DEF ManagerOK, Listed
  <2>1. m_moduleMap[p] \in 1 .. Len(objects)
    BY <1>3 DEF Objects
  <2>2. /\ objects[m_moduleMap[p]].uuid = p
        /\ \A c \in Listed(p) : objects[m_moduleMap[p]].components[c] # None
    BY DEF ManagerOK
  <2> QED
    BY <1>4, <2>1, <2>2
<1> QED
  BY <1>1, <1>2, <1>5 DEF Objects

\* A component is skipped, or recorded in the module of the load.
LEMMA DeclareComponentInv == ASSUME Inv, DeclareComponent PROVE Inv'
<1> DEFINE k == m_context[loading]
<1> USE DEF Inv
<1>1. /\ TodoOK' /\ Node = todo[1] /\ NodeOK(Node)
      /\ Len(todo') = Len(todo) - 1
      /\ \A j \in 1 .. Len(todo') : todo'[j] = todo[j + 1] /\ j + 1 \in 1 .. Len(todo)
  BY Shortened DEF DeclareComponent, AtNode
<1>2. /\ Node.id \in Components /\ Node.kind = "component"
      /\ todo # <<>> /\ Len(todo) \in Nat /\ Len(todo) > 0
  BY <1>1 DEF NodeOK, DeclareComponent, AtNode, TodoOK
<1>3. \A j \in 1 .. Len(todo) : todo[j].kind # "introspect"
  BY <1>1, <1>2 DEF TodoOK
<1>4. /\ moduleInfo \in Objects
      /\ modulesMap[k][objects[moduleInfo].uuid] # None
      /\ objects[moduleInfo].uuid \in Modules
  <2>1. moduleInfo # None
    BY <1>1, <1>2 DEF ModuleFirst
  <2>2. moduleInfo \in 1 .. Len(objects) /\ objects \in Seq(ModuleObjects)
    BY <2>1 DEF TypeOK, Objects
  <2>3. objects[moduleInfo] \in ModuleObjects
    BY <2>2
  <2>4. objects[moduleInfo].uuid \in Modules
    BY <2>3 DEF ModuleObjects
  <2>5. modulesMap[k][objects[moduleInfo].uuid] # None
    BY <1>2, <2>1 DEF LoadOK
  <2> QED
    BY <2>2, <2>4, <2>5 DEF Objects
<1>5. k \in Factories /\ loading \in Factories /\ k = Ctx
  BY DEF TypeOK, Ctx
<1>6. ModuleFirst'
  BY <1>4, NoneAssumption DEF ModuleFirst, DeclareComponent, Objects
<1>7. CASE ~ReadsComponent(Node.id)
  <2>1. /\ UNCHANGED <<componentModuleUUIDMap, aliases, objects>>
        /\ componentInfo' = None
    BY <1>7 DEF DeclareComponent
  <2>2. TypeOK'
    BY <2>1 DEF TypeOK, Objects, DeclareComponent, AtNode
  <2>3. LoadOK'
    BY <1>1, <1>2, <1>3, <2>1 DEF LoadOK, DeclareComponent, AtNode
  <2>4. ManagerOK' /\ KnownModule'
    BY <2>1 DEF ManagerOK, KnownModule, Known, DeclareComponent, AtNode
  <2> QED
    BY <1>1, <1>6, <2>2, <2>3, <2>4
<1>8. CASE ReadsComponent(Node.id)
  <2>1. /\ ModuleOfFirst(k, Node.id, objects[moduleInfo].uuid)
        /\ aliases' = [aliases EXCEPT ![k] =
                         AutoAlias(loading, @, "component", {Node.id})]
        /\ objects' = WithEntry(objects, moduleInfo, Node.id, {})
        /\ componentInfo' = Node.id
    BY <1>5, <1>8 DEF DeclareComponent
  <2>2. /\ objects' \in Seq(ModuleObjects)
        /\ Len(objects') = Len(objects)
        /\ \A i \in 1 .. Len(objects) :
             /\ objects'[i].uuid = objects[i].uuid
             /\ \A d \in Components :
                  objects[i].components[d] # None => objects'[i].components[d] # None
        /\ objects'[moduleInfo].components[Node.id] # None
    <3>1. objects \in Seq(ModuleObjects) /\ moduleInfo \in 1 .. Len(objects)
      BY <1>4 DEF TypeOK, Objects
    <3>2. {} \in SUBSET Interfaces
      OBVIOUS
    <3> QED
      BY <1>2, <2>1, <3>1, <3>2, Filled
  <2>3. AutoAlias(loading, aliases[k], "component", {Node.id}) \in AliasMaps
    BY <1>2, <1>5, AutoAliased DEF TypeOK, AliasTypes, Uuids
  <2>4. /\ componentModuleUUIDMap'
             \in [Factories -> [Components -> Modules \union {None}]]
        /\ KnownModule'
    BY <1>2, <1>4, <1>5, <2>1, Assigned DEF DeclareComponent
  <2>5. aliases' \in [Factories -> AliasMaps]
    BY <1>5, <2>1, <2>3 DEF TypeOK
  <2>6. /\ Objects' = Objects
        /\ \A h \in Factories, p \in Modules :
             modulesMap[h][p] # None => objects'[modulesMap[h][p]].uuid = p
        /\ ManagerOK'
    BY <2>2, FilledKeeps DEF DeclareComponent, AtNode
  <2>8. TypeOK'
    BY <1>2, <2>1, <2>2, <2>4, <2>5, <2>6 DEF TypeOK, DeclareComponent, AtNode
  <2>9. LoadOK'
    <3>1. \A j \in 1 .. Len(todo') : todo'[j].kind # "introspect"
      BY <1>1, <1>3
    <3>2. objects'[moduleInfo].uuid = objects[moduleInfo].uuid
      BY <1>4, <2>2 DEF Objects
    <3>3. UNCHANGED <<m_context, loading, modulesMap, moduleInfo>>
      BY DEF DeclareComponent, AtNode
    <3>4. moduleInfo # None
      BY <1>4, NoneAssumption DEF Objects
    <3> QED
      BY <1>4, <2>1, <2>2, <3>1, <3>2, <3>3, <3>4 DEF LoadOK
  <2> QED
    BY <1>1, <1>6, <2>4, <2>6, <2>8, <2>9
<1> QED
  BY <1>7, <1>8

\* An interface below a component that was skipped changes nothing.
LEMMA SkipInterfaceNodeInv == ASSUME Inv, SkipInterfaceNode PROVE Inv'
<1> USE DEF Inv
<1>1. /\ TodoOK' /\ Node = todo[1]
      /\ Len(todo') = Len(todo) - 1
      /\ \A j \in 1 .. Len(todo') : todo'[j] = todo[j + 1] /\ j + 1 \in 1 .. Len(todo)
  BY Shortened DEF SkipInterfaceNode
<1>2. UNCHANGED <<m_context, m_autoAlias, modulesMap, componentModuleUUIDMap,
                  interfacesMap, bound, halfDeclared, aliases, declared,
                  m_moduleMap, objects, loading, moduleInfo, componentInfo,
                  brokenModules, loadsLeft>>
  BY DEF SkipInterfaceNode, registryVars, aliasVars
<1>3. TypeOK' /\ ManagerOK' /\ KnownModule'
  BY <1>2 DEF TypeOK, Objects, ManagerOK, KnownModule, Known
<1>4. ModuleFirst' /\ LoadOK'
  BY <1>1, <1>2 DEF ModuleFirst, LoadOK, SkipInterfaceNode
<1> QED
  BY <1>1, <1>3, <1>4

\* Nor does a component that is configured.
LEMMA ConfigureNodeInv == ASSUME Inv, ConfigureNode PROVE Inv'
<1> USE DEF Inv
<1>1. /\ TodoOK' /\ Node = todo[1]
      /\ Len(todo') = Len(todo) - 1
      /\ \A j \in 1 .. Len(todo') : todo'[j] = todo[j + 1] /\ j + 1 \in 1 .. Len(todo)
  BY Shortened DEF ConfigureNode
<1>2. UNCHANGED <<m_context, m_autoAlias, modulesMap, componentModuleUUIDMap,
                  interfacesMap, bound, halfDeclared, aliases, declared,
                  m_moduleMap, objects, loading, moduleInfo, componentInfo,
                  brokenModules, loadsLeft>>
  BY DEF ConfigureNode, registryVars, aliasVars
<1>3. TypeOK' /\ ManagerOK' /\ KnownModule'
  BY <1>2 DEF TypeOK, Objects, ManagerOK, KnownModule, Known
<1>4. ModuleFirst' /\ LoadOK'
  BY <1>1, <1>2 DEF ModuleFirst, LoadOK, ConfigureNode
<1> QED
  BY <1>1, <1>3, <1>4

\* An <alias> node touches the aliases only.
LEMMA DeclareAliasNodeInv == ASSUME Inv, DeclareAliasNode PROVE Inv'
<1> USE DEF Inv
<1>1. /\ TodoOK' /\ Node = todo[1] /\ Node \in Entries
      /\ Len(todo') = Len(todo) - 1
      /\ \A j \in 1 .. Len(todo') : todo'[j] = todo[j + 1] /\ j + 1 \in 1 .. Len(todo)
  BY Shortened DEF DeclareAliasNode, AtNode
<1>2. Node.type \in AliasTypes /\ Node.name \in Names /\ Node.id \in Uuids
  BY <1>1 DEF Entries, Nodes, DeclareAliasNode, AtNode
<1>3. UNCHANGED <<m_context, m_autoAlias, modulesMap, componentModuleUUIDMap,
                  interfacesMap, bound, halfDeclared, m_moduleMap, objects,
                  loading, moduleInfo, componentInfo, brokenModules, loadsLeft>>
  BY DEF DeclareAliasNode, AtNode, registryVars
<1>4. aliases' \in [Factories -> AliasMaps] /\ declared' \in [Factories -> AliasMaps]
  BY <1>2 DEF DeclareAliasNode, TypeOK, AliasMaps
<1>5. TypeOK'
  BY <1>3, <1>4 DEF TypeOK, Objects
<1>6. ManagerOK' /\ KnownModule'
  BY <1>3 DEF ManagerOK, KnownModule, Known
<1>7. ModuleFirst' /\ LoadOK'
  BY <1>1, <1>3 DEF ModuleFirst, LoadOK, DeclareAliasNode, AtNode
<1> QED
  BY <1>1, <1>5, <1>6, <1>7

\* A node that throws leaves no load behind.
LEMMA NodeFailsInv == ASSUME Inv, NodeFails PROVE Inv'
<1> USE DEF Inv
<1>1. halfDeclared' \in [Factories -> SUBSET Components]
  BY DEF NodeFails, TypeOK, Ctx
<1>2. TypeOK'
  BY <1>1 DEF NodeFails, TypeOK, Objects, aliasVars
<1>3. TodoOK' /\ ModuleFirst' /\ LoadOK'
  BY DEF NodeFails, TodoOK, ModuleFirst, LoadOK
<1>4. ManagerOK' /\ KnownModule'
  BY DEF NodeFails, ManagerOK, KnownModule, Known
<1> QED
  BY <1>2, <1>3, <1>4

\* An interface goes to the component of the load.
LEMMA DeclareInterfaceNodeInv == ASSUME Inv, DeclareInterfaceNode PROVE Inv'
<1> DEFINE k == m_context[loading]
<1> USE DEF Inv
<1>1. /\ TodoOK' /\ Node = todo[1] /\ NodeOK(Node)
      /\ Len(todo') = Len(todo) - 1
      /\ \A j \in 1 .. Len(todo') : todo'[j] = todo[j + 1] /\ j + 1 \in 1 .. Len(todo)
  BY Shortened DEF DeclareInterfaceNode, AtNode
<1>2. /\ Node.id \in Interfaces /\ Node.kind = "interface" /\ todo # <<>>
      /\ componentInfo # None /\ componentInfo \in Components
  BY <1>1 DEF NodeOK, DeclareInterfaceNode, AtNode, TypeOK
<1>3. /\ moduleInfo # None
      /\ Entry(moduleInfo, componentInfo) # None
      /\ modulesMap[k][objects[moduleInfo].uuid] # None
  BY <1>2 DEF LoadOK, Entry
<1>4. /\ objects \in Seq(ModuleObjects) /\ moduleInfo \in 1 .. Len(objects)
      /\ k \in Factories /\ loading \in Factories /\ k = Ctx
  BY <1>3 DEF TypeOK, Objects, Ctx
<1>5. Entry(moduleInfo, componentInfo) \union {Node.id} \in SUBSET Interfaces
  <2>1. objects[moduleInfo] \in ModuleObjects
    BY <1>4
  <2> QED
    BY <1>2, <1>3, <2>1 DEF ModuleObjects, Entry
<1>6. /\ objects' \in Seq(ModuleObjects)
      /\ Len(objects') = Len(objects)
      /\ \A i \in 1 .. Len(objects) :
           /\ objects'[i].uuid = objects[i].uuid
           /\ \A d \in Components :
                objects[i].components[d] # None => objects'[i].components[d] # None
  <2>1. objects' = WithEntry(objects, moduleInfo, componentInfo,
                             Entry(moduleInfo, componentInfo) \union {Node.id})
    BY DEF DeclareInterfaceNode
  <2> QED
    BY <1>2, <1>4, <1>5, <2>1, Filled
<1>7. UNCHANGED <<m_context, m_autoAlias, modulesMap, componentModuleUUIDMap,
                  halfDeclared, declared, m_moduleMap, loading, moduleInfo,
                  componentInfo, brokenModules, loadsLeft>>
  BY DEF DeclareInterfaceNode, AtNode
<1>8. /\ Objects' = Objects
      /\ \A h \in Factories, p \in Modules :
           modulesMap[h][p] # None => objects'[modulesMap[h][p]].uuid = p
      /\ ManagerOK'
  BY <1>6, <1>7, FilledKeeps
<1>9. aliases' \in [Factories -> AliasMaps]
  <2>1. AutoAlias(loading, aliases[k], "interface", {Node.id}) \in AliasMaps
    BY <1>2, <1>4, AutoAliased DEF TypeOK, AliasTypes, Uuids
  <2> QED
    BY <1>4, <2>1 DEF DeclareInterfaceNode, TypeOK
<1>10. interfacesMap' \in [Factories -> SUBSET Interfaces]
  BY <1>2, <1>4 DEF DeclareInterfaceNode, AddInterfaces, TypeOK
<1>11. bound' \in [Factories -> SUBSET (Interfaces \X Components)]
  <2>1. Autobind(k, componentInfo, {Node.id})
    BY <1>4 DEF DeclareInterfaceNode, BindsInterface
  <2> QED
    BY <1>2, <1>4, <2>1, Autobinds
<1>12. TypeOK'
  BY <1>6, <1>7, <1>8, <1>9, <1>10, <1>11 DEF TypeOK
<1>13. ModuleFirst'
  BY <1>3, <1>7 DEF ModuleFirst
<1>14. LoadOK'
  <2>1. objects[moduleInfo].components[componentInfo] # None
    BY <1>3 DEF Entry
  <2>2. /\ objects'[moduleInfo].uuid = objects[moduleInfo].uuid
        /\ objects'[moduleInfo].components[componentInfo] # None
    BY <1>2, <1>4, <1>6, <2>1
  <2>3. \A j \in 1 .. Len(todo') : todo'[j].kind # "introspect"
    BY <1>1, <1>2 DEF TodoOK
  <2> QED
    BY <1>3, <1>7, <2>2, <2>3 DEF LoadOK
<1>15. KnownModule'
  BY <1>7 DEF KnownModule, Known
<1> QED
  BY <1>1, <1>8, <1>12, <1>13, <1>14, <1>15

\* An introspected module is registered before its components are read.
LEMMA LoadModuleMetadataInv ==
  ASSUME Inv, NEW f \in Factories, NEW m \in Modules, LoadModuleMetadata(f, m)
  PROVE  Inv'
<1> DEFINE k == m_context[f]
<1> DEFINE listing == [c \in Components |-> IF c \in Listed(m) THEN {} ELSE None]
<1> DEFINE new == [uuid |-> m, components |-> listing]
<1> USE DEF Inv
<1>1. /\ objects \in Seq(ModuleObjects) /\ Len(objects) \in Nat
      /\ k \in Factories /\ Listed(m) \subseteq Components
  <2>1. Listed(m) \subseteq Components
    BY IndexAssumption DEF Listed
  <2>2. m_context[f] # None
    BY DEF LoadModuleMetadata, Begin
  <2> QED
    BY <2>1, <2>2 DEF TypeOK
<1>2. /\ new \in ModuleObjects /\ new.uuid = m
      /\ \A c \in Listed(m) : new.components[c] # None
  BY <1>1, NoneIsNoSet DEF ModuleObjects
<1>3. /\ UNCHANGED <<m_context, m_autoAlias, componentModuleUUIDMap, interfacesMap,
                     bound, halfDeclared, aliases, declared, brokenModules>>
      /\ todo = <<>> /\ loadsLeft' \in Nat /\ m_context[f] # None
      /\ m_moduleMap' = [m_moduleMap EXCEPT ![m] = ObjectOf(m)]
      /\ objects' = IF m_moduleMap[m] = None THEN Append(objects, new) ELSE objects
      /\ AddModuleMetadata(k, m, ObjectOf(m))
      /\ loading' = f /\ moduleInfo' = ObjectOf(m) /\ componentInfo' = None
      /\ todo' = [j \in DOMAIN Index[m] |->
                    [kind |-> "introspect", id |-> Index[m][j]]]
  BY DEF LoadModuleMetadata, Begin, TypeOK, aliasVars
<1> HIDE DEF new
<1>4. /\ objects' \in Seq(ModuleObjects)
      /\ Len(objects') >= Len(objects)
      /\ \A i \in 1 .. Len(objects) : objects'[i] = objects[i]
      /\ ObjectOf(m) \in 1 .. Len(objects')
      /\ objects'[ObjectOf(m)].uuid = m
      /\ \A c \in Listed(m) : objects'[ObjectOf(m)].components[c] # None
  <2>1. CASE m_moduleMap[m] = None
    BY <1>1, <1>2, <1>3, <2>1, Appended DEF ObjectOf
  <2>2. CASE m_moduleMap[m] # None
    BY <1>1, <1>3, <2>2 DEF ObjectOf, ManagerOK, TypeOK, Objects
  <2> QED
    BY <2>1, <2>2
<1>5. /\ modulesMap' \in [Factories -> [Modules -> Objects' \union {None}]]
      /\ modulesMap'[k][m] # None
      /\ \A h \in Factories, p \in Modules :
           /\ modulesMap[h][p] # None => modulesMap'[h][p] # None
           /\ modulesMap'[h][p] # None => objects'[modulesMap'[h][p]].uuid = p
  <2>1. \A i \in Objects : objects'[i].uuid = objects[i].uuid
    BY <1>4 DEF Objects
  <2>2. ObjectOf(m) \in Objects'
    BY <1>4 DEF Objects
  <2> QED
    BY <1>1, <1>3, <1>4, <2>1, <2>2, Registered
<1>6. Objects \subseteq Objects' /\ ObjectOf(m) \in Objects'
  BY <1>1, <1>4 DEF Objects
<1>7. m_moduleMap' \in [Modules -> Objects' \union {None}]
  BY <1>3, <1>6 DEF TypeOK
<1>8. TypeOK'
  BY <1>3, <1>4, <1>5, <1>6, <1>7 DEF TypeOK
<1>9. /\ todo' \in Seq(Entries)
      /\ \A j \in 1 .. Len(todo') :
           /\ todo'[j].kind = "introspect"
           /\ todo'[j].id \in Listed(m)
  <2>1. Index[m] \in Seq(Components)
    BY IndexAssumption
  <2>2. \A j \in DOMAIN Index[m] :
          [kind |-> "introspect", id |-> Index[m][j]] \in Entries
    BY <2>1 DEF Entries
  <2>3. DOMAIN Index[m] = 1 .. Len(Index[m]) /\ Len(Index[m]) \in Nat
    BY <2>1
  <2> DEFINE e(j) == [kind |-> "introspect", id |-> Index[m][j]]
             n == Len(Index[m])
  <2>4. todo' = [j \in 1 .. n |-> e(j)]
    BY <1>3, <2>3
  <2>5. \A j \in 1 .. n :
          e(j) \in Entries /\ e(j).kind = "introspect" /\ e(j).id \in Listed(m)
    BY <2>2, <2>3 DEF Listed
  <2>6. n \in Nat
    BY <2>3
  <2> HIDE DEF e, n
  <2>7. todo' \in Seq(Entries) /\ Len(todo') = n
    BY <2>4, <2>5, <2>6
  <2> QED
    BY <2>4, <2>5, <2>7
<1>10. TodoOK'
  BY <1>9 DEF TodoOK, NodeOK
<1>11. moduleInfo' # None
  BY <1>3, <1>4, NoneAssumption
<1>12. ModuleFirst'
  BY <1>11 DEF ModuleFirst
<1>13. LoadOK'
  BY <1>3, <1>4, <1>5, <1>9, <1>11 DEF LoadOK
<1>14. ManagerOK'
  <2> SUFFICES ASSUME NEW p \in Modules, m_moduleMap'[p] # None
               PROVE  /\ objects'[m_moduleMap'[p]].uuid = p
                      /\ \A c \in Listed(p) :
                           objects'[m_moduleMap'[p]].components[c] # None
    BY DEF ManagerOK, Listed
  <2>1. CASE p = m
    BY <1>3, <1>4, <2>1 DEF TypeOK
  <2>2. CASE p # m
    <3>1. m_moduleMap'[p] = m_moduleMap[p] /\ m_moduleMap[p] \in 1 .. Len(objects)
      BY <1>3, <2>2 DEF TypeOK, Objects
    <3> QED
      BY <1>4, <3>1 DEF ManagerOK
  <2> QED
    BY <2>1, <2>2
<1>15. KnownModule'
  BY <1>3, <1>5 DEF KnownModule, Known, TypeOK
<1> QED
  BY <1>8, <1>10, <1>12, <1>13, <1>14, <1>15

\* A component of a library is in the object that lists it.
LEMMA DeclareIntrospectedInv == ASSUME Inv, DeclareIntrospected PROVE Inv'
<1> DEFINE k == m_context[loading]
<1> DEFINE c == Node.id
<1> USE DEF Inv
<1>1. /\ TodoOK' /\ Node = todo[1] /\ Node \in Entries
      /\ Len(todo') = Len(todo) - 1
      /\ \A j \in 1 .. Len(todo') : todo'[j] = todo[j + 1] /\ j + 1 \in 1 .. Len(todo)
  BY Shortened DEF DeclareIntrospected, AtNode
<1>2. /\ c \in Components /\ Node.kind = "introspect" /\ todo # <<>>
      /\ Len(todo) \in Nat /\ Len(todo) > 0
  BY <1>1 DEF Entries, Nodes, DeclareIntrospected, AtNode, TodoOK
<1>3. /\ moduleInfo # None
      /\ Entry(moduleInfo, c) # None
      /\ modulesMap[k][objects[moduleInfo].uuid] # None
  BY <1>1, <1>2 DEF LoadOK, Entry
<1>4. /\ objects \in Seq(ModuleObjects) /\ moduleInfo \in 1 .. Len(objects)
      /\ k \in Factories /\ loading \in Factories /\ k = Ctx
      /\ Implements[c] \in SUBSET Interfaces
  BY <1>2, <1>3, ImplementsAssumption DEF TypeOK, Objects, Ctx
<1>5. /\ objects[moduleInfo].uuid \in Modules
      /\ Entry(moduleInfo, c) \union Implements[c] \in SUBSET Interfaces
  <2>1. objects[moduleInfo] \in ModuleObjects
    BY <1>4
  <2> QED
    BY <1>2, <1>3, <1>4, <2>1 DEF ModuleObjects, Entry
<1>6. /\ objects' \in Seq(ModuleObjects)
      /\ Len(objects') = Len(objects)
      /\ \A i \in 1 .. Len(objects) :
           /\ objects'[i].uuid = objects[i].uuid
           /\ \A d \in Components :
                objects[i].components[d] # None => objects'[i].components[d] # None
  <2>1. objects' = WithEntry(objects, moduleInfo, c,
                             Entry(moduleInfo, c) \union Implements[c])
    BY DEF DeclareIntrospected
  <2> QED
    BY <1>2, <1>4, <1>5, <2>1, Filled
<1>7. UNCHANGED <<m_context, m_autoAlias, modulesMap, halfDeclared, declared,
                  m_moduleMap, loading, moduleInfo, componentInfo,
                  brokenModules, loadsLeft>>
  BY DEF DeclareIntrospected, AtNode
<1>8. /\ Objects' = Objects
      /\ \A h \in Factories, p \in Modules :
           modulesMap[h][p] # None => objects'[modulesMap[h][p]].uuid = p
      /\ ManagerOK'
  BY <1>6, <1>7, FilledKeeps
<1>9. /\ componentModuleUUIDMap'
           \in [Factories -> [Components -> Modules \union {None}]]
      /\ KnownModule'
  <2>1. ModuleOfFirst(k, c, objects[moduleInfo].uuid)
    BY <1>4 DEF DeclareIntrospected
  <2> QED
    BY <1>2, <1>3, <1>4, <1>5, <1>7, <2>1, Assigned
<1>10. aliases' \in [Factories -> AliasMaps]
  <2> DEFINE named == AutoAlias(loading, aliases[k], "component", {c})
  <2>1. named \in AliasMaps
    BY <1>2, <1>4, AutoAliased DEF TypeOK, AliasTypes, Uuids
  <2>2. aliases' = [aliases EXCEPT ![k] =
                      AutoAlias(loading, named, "interface", Implements[c])]
    BY <1>4 DEF DeclareIntrospected
  <2> HIDE DEF named
  <2>3. AutoAlias(loading, named, "interface", Implements[c]) \in AliasMaps
    BY <1>4, <2>1, AutoAliased DEF AliasTypes, Uuids
  <2> QED
    BY <1>4, <2>2, <2>3 DEF TypeOK
<1>11. interfacesMap' \in [Factories -> SUBSET Interfaces]
  BY <1>4 DEF DeclareIntrospected, AddInterfaces, TypeOK
<1>12. bound' \in [Factories -> SUBSET (Interfaces \X Components)]
  <2>1. Autobind(k, c, Implements[c])
    BY <1>4 DEF DeclareIntrospected
  <2> QED
    BY <1>2, <1>4, <2>1, Autobinds
<1>13. TypeOK'
  BY <1>6, <1>7, <1>8, <1>9, <1>10, <1>11, <1>12 DEF TypeOK
<1>14. ModuleFirst'
  BY <1>3, <1>7 DEF ModuleFirst
<1>15. LoadOK'
  <2>1. objects'[moduleInfo].uuid = objects[moduleInfo].uuid
    BY <1>4, <1>6
  <2>2. \A j \in 1 .. Len(todo') :
          /\ todo'[j].kind = "introspect"
          /\ todo'[j].id \in Components
          /\ objects[moduleInfo].components[todo'[j].id] # None
    <3> SUFFICES ASSUME NEW j \in 1 .. Len(todo')
                 PROVE  /\ todo'[j].kind = "introspect"
                        /\ todo'[j].id \in Components
                        /\ objects[moduleInfo].components[todo'[j].id] # None
      OBVIOUS
    <3>1. todo'[j] = todo[j + 1] /\ j + 1 \in 1 .. Len(todo)
      BY <1>1
    <3>2. todo[j + 1].kind = "introspect" /\ todo[j + 1] \in Entries
      BY <1>1, <1>2, <3>1 DEF TodoOK
    <3>3. todo[j + 1].id \in Components
      BY <3>2 DEF Entries, Nodes
    <3> QED
      BY <1>2, <3>1, <3>2, <3>3 DEF LoadOK
  <2>3. \A j \in 1 .. Len(todo') : objects'[moduleInfo].components[todo'[j].id] # None
    BY <1>4, <1>6, <2>2
  <2>4. componentInfo # None
          => /\ componentInfo \in Components
             /\ objects[moduleInfo].components[componentInfo] # None
    BY <1>2 DEF LoadOK, TypeOK
  <2>5. componentInfo # None
          => objects'[moduleInfo].components[componentInfo] # None
    BY <1>4, <1>6, <2>4
  <2> QED
    BY <1>3, <1>7, <2>1, <2>3, <2>5 DEF LoadOK
<1> QED
  BY <1>1, <1>8, <1>9, <1>13, <1>14, <1>15

\* A component that cannot be created is recorded in a registered module.
LEMMA CreateFailsInv == ASSUME Inv, CreateFails PROVE Inv'
<1> DEFINE k == m_context[loading]
<1> USE DEF Inv
<1>1. /\ todo # <<>> /\ todo \in Seq(Entries) /\ Len(todo) > 0 /\ Node = todo[1]
      /\ Node.kind = "introspect"
  BY DEF CreateFails, TodoOK, Node
<1>2. /\ Node.id \in Components
      /\ moduleInfo # None
      /\ modulesMap[k][objects[moduleInfo].uuid] # None
  <2>1. Node \in Entries
    BY <1>1
  <2> QED
    BY <1>1, <2>1 DEF Entries, Nodes, LoadOK
<1>3. /\ objects[moduleInfo].uuid \in Modules
      /\ k \in Factories /\ loading \in Factories /\ k = Ctx
  <2>1. objects \in Seq(ModuleObjects) /\ moduleInfo \in 1 .. Len(objects)
    BY <1>2 DEF TypeOK, Objects
  <2>2. objects[moduleInfo] \in ModuleObjects
    BY <2>1
  <2> QED
    BY <2>2 DEF ModuleObjects, TypeOK, Ctx
<1>4. /\ componentModuleUUIDMap'
           \in [Factories -> [Components -> Modules \union {None}]]
      /\ KnownModule'
  <2>1. ModuleOfFirst(k, Node.id, objects[moduleInfo].uuid) /\ UNCHANGED modulesMap
    BY <1>3 DEF CreateFails
  <2> QED
    BY <1>2, <1>3, <2>1, Assigned
<1>5. aliases' \in [Factories -> AliasMaps]
  <2>1. AutoAlias(loading, aliases[k], "component", {Node.id}) \in AliasMaps
    BY <1>2, <1>3, AutoAliased DEF TypeOK, AliasTypes, Uuids
  <2> QED
    BY <1>3, <2>1 DEF CreateFails, TypeOK
<1>6. TypeOK'
  BY <1>3, <1>4, <1>5 DEF TypeOK, Objects, CreateFails
<1>7. TodoOK' /\ ModuleFirst' /\ LoadOK'
  BY DEF CreateFails, TodoOK, ModuleFirst, LoadOK
<1>8. ManagerOK'
  BY DEF CreateFails, ManagerOK
<1> QED
  BY <1>4, <1>6, <1>7, <1>8

\* A clear forgets modules and components together.
LEMMA ClearInv == ASSUME Inv, NEW f \in Factories, Clear(f) PROVE Inv'
<1> DEFINE k == m_context[f]
<1> USE DEF Inv
<1>1. k \in Factories /\ todo = <<>>
  BY DEF TypeOK, Clear, Begin
<1>2. NoAliases \in AliasMaps
  BY DEF NoAliases, AliasMaps
<1>3. /\ modulesMap' = [modulesMap EXCEPT ![k] = NoModules]
      /\ componentModuleUUIDMap' = [componentModuleUUIDMap EXCEPT ![k] = Unknown]
  BY DEF Clear, ClearModules
<1>4. TypeOK'
  <2>1. loadsLeft' \in Nat
    BY DEF Clear, Begin, TypeOK
  <2>2. \A h \in Factories, m \in Modules :
          modulesMap'[h][m] # None => modulesMap'[h][m] = modulesMap[h][m]
    BY <1>1, <1>3 DEF TypeOK, NoModules
  <2>3. /\ modulesMap' \in [Factories -> [Modules -> Objects \union {None}]]
        /\ componentModuleUUIDMap'
             \in [Factories -> [Components -> Modules \union {None}]]
    BY <1>1, <1>3 DEF TypeOK, NoModules, Unknown
  <2>4. /\ interfacesMap' \in [Factories -> SUBSET Interfaces]
        /\ bound' \in [Factories -> SUBSET (Interfaces \X Components)]
        /\ halfDeclared' \in [Factories -> SUBSET Components]
        /\ aliases' \in [Factories -> AliasMaps]
        /\ declared' \in [Factories -> AliasMaps]
    BY <1>1, <1>2 DEF TypeOK, Clear, ClearAliases
  <2>5. UNCHANGED <<m_context, m_autoAlias, m_moduleMap, objects, loading,
                    moduleInfo, componentInfo, brokenModules>>
    BY DEF Clear, loadVars
  <2> QED
    BY <2>1, <2>2, <2>3, <2>4, <2>5 DEF TypeOK, Objects
<1>5. TodoOK' /\ ModuleFirst' /\ LoadOK' /\ ManagerOK'
  BY <1>1 DEF Clear, loadVars, TodoOK, ModuleFirst, LoadOK, ManagerOK
<1>6. KnownModule'
  BY <1>1, <1>3 DEF KnownModule, Known, TypeOK, Unknown
<1> QED
  BY <1>4, <1>5, <1>6

\* A clone copies modules and components together.
LEMMA CreateNewFactoryContextInv ==
  ASSUME Inv, NEW f \in Factories, NEW new \in Factories, NEW mode,
         CreateNewFactoryContext(f, new, mode)
  PROVE  Inv'
<1> DEFINE k == m_context[f]
<1> USE DEF Inv
<1>1. /\ k \in Factories /\ todo = <<>> /\ m_context[new] = None
      /\ loadsLeft' \in Nat
      /\ UNCHANGED <<m_autoAlias, m_moduleMap, objects, loading, todo, moduleInfo,
                     componentInfo, brokenModules>>
      /\ m_context' = [m_context EXCEPT ![new] = IF mode = "Shared" THEN k ELSE new]
  BY DEF TypeOK, CreateNewFactoryContext, Begin, loadVars
<1>2. /\ m_context' \in [Factories -> Factories \union {None}]
      /\ m_context'[loading] # None
  BY <1>1 DEF TypeOK
<1>3. /\ modulesMap' \in [Factories -> [Modules -> Objects \union {None}]]
      /\ componentModuleUUIDMap'
           \in [Factories -> [Components -> Modules \union {None}]]
      /\ \A h \in Factories :
           \E g \in Factories :
             /\ modulesMap'[h] = modulesMap[g]
             /\ componentModuleUUIDMap'[h] = componentModuleUUIDMap[g]
  <2>1. CASE mode = "Cloned"
    <3>1. /\ modulesMap' = [modulesMap EXCEPT ![new] = modulesMap[k]]
          /\ componentModuleUUIDMap' =
               [componentModuleUUIDMap EXCEPT ![new] = componentModuleUUIDMap[k]]
      BY <2>1 DEF CreateNewFactoryContext, CopyContext
    <3>2. /\ modulesMap' \in [Factories -> [Modules -> Objects \union {None}]]
          /\ componentModuleUUIDMap'
               \in [Factories -> [Components -> Modules \union {None}]]
      BY <1>1, <3>1 DEF TypeOK
    <3>3. /\ modulesMap'[new] = modulesMap[k]
          /\ componentModuleUUIDMap'[new] = componentModuleUUIDMap[k]
          /\ \A h \in Factories :
               h # new => /\ modulesMap'[h] = modulesMap[h]
                          /\ componentModuleUUIDMap'[h] = componentModuleUUIDMap[h]
      BY <3>1 DEF TypeOK
    <3> QED
      BY <1>1, <3>2, <3>3
  <2>2. CASE mode # "Cloned"
    BY <2>2 DEF TypeOK, CreateNewFactoryContext, registryVars
  <2> QED
    BY <2>1, <2>2
<1>4. /\ interfacesMap' \in [Factories -> SUBSET Interfaces]
      /\ bound' \in [Factories -> SUBSET (Interfaces \X Components)]
      /\ halfDeclared' \in [Factories -> SUBSET Components]
      /\ aliases' \in [Factories -> AliasMaps]
      /\ declared' \in [Factories -> AliasMaps]
  <2>1. CASE mode = "Cloned"
    <3>1. /\ interfacesMap' = [interfacesMap EXCEPT ![new] = interfacesMap[k]]
          /\ bound' = [bound EXCEPT ![new] = bound[k]]
          /\ halfDeclared' = [halfDeclared EXCEPT ![new] = halfDeclared[k]]
          /\ aliases' = [aliases EXCEPT ![new] = aliases[k]]
          /\ declared' = [declared EXCEPT ![new] = declared[k]]
      BY <2>1 DEF CreateNewFactoryContext, CopyContext
    <3> QED
      BY <1>1, <3>1 DEF TypeOK
  <2>2. CASE mode # "Cloned"
    BY <2>2 DEF TypeOK, CreateNewFactoryContext, registryVars, aliasVars
  <2> QED
    BY <2>1, <2>2
<1>5. \A h \in Factories, m \in Modules :
        modulesMap'[h][m] # None => objects[modulesMap'[h][m]].uuid = m
  BY <1>3 DEF TypeOK
<1>6. TypeOK'
  BY <1>1, <1>2, <1>3, <1>4, <1>5 DEF TypeOK, Objects
<1>7. TodoOK' /\ ModuleFirst' /\ LoadOK' /\ ManagerOK'
  BY <1>1 DEF TodoOK, ModuleFirst, LoadOK, ManagerOK
<1>8. KnownModule'
  <2> SUFFICES ASSUME NEW h \in Factories, NEW c \in Components,
                      componentModuleUUIDMap'[h][c] # None
               PROVE  modulesMap'[h][componentModuleUUIDMap'[h][c]] # None
    BY DEF KnownModule, Known
  <2>1. PICK g \in Factories :
          /\ modulesMap'[h] = modulesMap[g]
          /\ componentModuleUUIDMap'[h] = componentModuleUUIDMap[g]
    BY <1>3
  <2> QED
    BY <2>1 DEF KnownModule, Known
<1> QED
  BY <1>6, <1>7, <1>8

-----------------------------------------------------------------------------
(* The theorems.                                                           *)

\* Every step keeps it.
LEMMA NextInv == Inv /\ [Next]_vars => Inv'
<1> SUFFICES ASSUME Inv, [Next]_vars PROVE Inv'
  OBVIOUS
<1>1. ASSUME NEW f \in Factories, NEW file \in Files, LoadLibrary(f, file)
      PROVE  Inv'
  BY <1>1, LoadLibraryInv
<1>2. ASSUME NEW f \in Factories, NEW m \in Modules, LoadModuleMetadata(f, m)
      PROVE  Inv'
  BY <1>2, LoadModuleMetadataInv
<1>3. ASSUME NEW f \in Factories, Clear(f) PROVE Inv'
  BY <1>3, ClearInv
<1>4. ASSUME NEW f \in Factories, NEW new \in Factories, NEW mode,
             CreateNewFactoryContext(f, new, mode)
      PROVE  Inv'
  BY <1>4, CreateNewFactoryContextInv
<1>5. CASE NodeStep
  BY <1>5, DeclareModuleInv, DeclareComponentInv, SkipInterfaceNodeInv,
     DeclareInterfaceNodeInv, DeclareAliasNodeInv, ConfigureNodeInv,
     NodeFailsInv DEF NodeStep
<1>6. CASE DeclareIntrospected \/ CreateFails
  BY <1>6, DeclareIntrospectedInv, CreateFailsInv
<1>7. CASE UNCHANGED vars
  <2>1. UNCHANGED <<m_context, m_autoAlias, modulesMap, componentModuleUUIDMap,
                    interfacesMap, bound, halfDeclared, aliases, declared,
                    m_moduleMap, objects, loading, todo, moduleInfo,
                    componentInfo, brokenModules, loadsLeft>>
    BY <1>7 DEF vars, registryVars, aliasVars, loadVars
  <2> QED
    BY <2>1 DEF Inv, TypeOK, Objects, TodoOK, ModuleFirst, LoadOK, ManagerOK,
                KnownModule, Known
<1> QED
  BY <1>1, <1>2, <1>3, <1>4, <1>5, <1>6, <1>7 DEF Next

\* So it holds always.
LEMMA Invariant == Spec => []Inv
BY InitInv, NextInv, PTL DEF Spec

\* For any files, libraries, factories and orders of loads: the maps keep their
\* types and every pointer to a module leads to an object of that module.
THEOREM TypeCorrect == Spec => []TypeOK
<1>1. Inv => TypeOK
  BY DEF Inv
<1> QED
  BY <1>1, Invariant, PTL

\* For any files that fail half-way, clears and copies: create() finds the
\* module of every component that getModuleUUID knows.
THEOREM KnownModulesAreRegistered == Spec => []KnownModule
<1>1. Inv => KnownModule
  BY DEF Inv
<1> QED
  BY <1>1, Invariant, PTL

\* Nothing but an <aliases> section and clear() touches a name that an
\* <aliases> section gave.
LEMMA ExplicitAliasStep ==
  Inv /\ ExplicitAliasPrevails /\ [Next]_vars => ExplicitAliasPrevails'
<1> SUFFICES ASSUME Inv, ExplicitAliasPrevails, [Next]_vars
             PROVE  ExplicitAliasPrevails'
  OBVIOUS
<1> DEFINE k == m_context[loading]
<1>1. /\ loading \in Factories
      /\ aliases \in [Factories -> AliasMaps] /\ declared \in [Factories -> AliasMaps]
      /\ m_context \in [Factories -> Factories \union {None}]
      /\ k \in Factories
  BY DEF Inv, TypeOK
\* An automatic alias in the context of the load is harmless.
<1>2. ASSUME NEW of \in AliasMaps,
             \A t \in AliasTypes, n \in Names :
               aliases[k][t][n] # None => of[t][n] = aliases[k][t][n],
             aliases' = [aliases EXCEPT ![k] = of], UNCHANGED declared
      PROVE  ExplicitAliasPrevails'
  <2>1. \A h \in Factories, t \in AliasTypes, n \in Names :
          aliases[h][t][n] # None => aliases'[h][t][n] = aliases[h][t][n]
    BY <1>1, <1>2
  <2> QED
    BY <1>2, <2>1 DEF ExplicitAliasPrevails
<1>3. CASE UNCHANGED <<aliases, declared>>
  BY <1>3 DEF ExplicitAliasPrevails
<1>4. ASSUME NEW f \in Factories, Clear(f) PROVE ExplicitAliasPrevails'
  <2> DEFINE g == m_context[f]
  <2>1. /\ aliases' = [aliases EXCEPT ![g] = NoAliases]
        /\ declared' = [declared EXCEPT ![g] = NoAliases]
    BY <1>4 DEF Clear, ClearAliases
  <2> QED
    BY <1>1, <2>1 DEF ExplicitAliasPrevails, NoAliases
<1>5. ASSUME NEW f \in Factories, NEW new \in Factories, NEW mode,
             CreateNewFactoryContext(f, new, mode)
      PROVE  ExplicitAliasPrevails'
  <2> DEFINE g == m_context[f]
  <2>1. g \in Factories
    BY <1>1, <1>5 DEF CreateNewFactoryContext, Begin
  <2>2. CASE mode = "Cloned"
    <3>1. /\ aliases' = [aliases EXCEPT ![new] = aliases[g]]
          /\ declared' = [declared EXCEPT ![new] = declared[g]]
      BY <1>5, <2>2 DEF CreateNewFactoryContext, CopyContext
    <3> QED
      BY <1>1, <2>1, <3>1 DEF ExplicitAliasPrevails
  <2>3. CASE mode # "Cloned"
    BY <1>3, <1>5, <2>3 DEF CreateNewFactoryContext, aliasVars
  <2> QED
    BY <2>2, <2>3
<1>6. CASE DeclareAliasNode
  <2>1. Node \in Entries /\ Node.kind = "alias" /\ Node.id # Invalid
    BY <1>6, Shortened DEF Inv, DeclareAliasNode, AtNode
  <2>2. Node.type \in AliasTypes /\ Node.name \in Names
    BY <2>1 DEF Entries, Nodes
  <2>3. /\ aliases' = [aliases EXCEPT ![k][Node.type][Node.name] = Node.id]
        /\ declared' = [declared EXCEPT ![k][Node.type][Node.name] = Node.id]
    BY <1>6 DEF DeclareAliasNode, Ctx
  <2> QED
    BY <1>1, <2>2, <2>3 DEF ExplicitAliasPrevails, AliasMaps
<1>7. CASE DeclareComponent
  <2>1. TodoOK /\ todo # <<>> /\ todo' = Tail(todo) /\ Node.kind = "component"
        /\ Node.id # Invalid /\ UNCHANGED declared
    BY <1>7 DEF Inv, DeclareComponent, AtNode
  <2>2. Node.id \in Components
    BY <2>1, Shortened DEF NodeOK
  <2> DEFINE of == AutoAlias(loading, aliases[k], "component", {Node.id})
  <2>3. /\ of \in AliasMaps
        /\ \A t \in AliasTypes, n \in Names :
             aliases[k][t][n] # None => of[t][n] = aliases[k][t][n]
    BY <1>1, <2>2, AutoAliased DEF AliasTypes, Uuids
  <2>4. UNCHANGED aliases \/ aliases' = [aliases EXCEPT ![k] = of]
    BY <1>7 DEF DeclareComponent, Ctx
  <2> HIDE DEF of
  <2> QED
    BY <1>2, <1>3, <2>1, <2>3, <2>4
<1>8. CASE DeclareInterfaceNode
  <2>1. TodoOK /\ todo # <<>> /\ todo' = Tail(todo) /\ Node.kind = "interface"
        /\ Node.id # Invalid /\ UNCHANGED declared
    BY <1>8 DEF Inv, DeclareInterfaceNode, AtNode
  <2>2. Node.id \in Interfaces
    BY <2>1, Shortened DEF NodeOK
  <2> DEFINE of == AutoAlias(loading, aliases[k], "interface", {Node.id})
  <2>3. /\ of \in AliasMaps
        /\ \A t \in AliasTypes, n \in Names :
             aliases[k][t][n] # None => of[t][n] = aliases[k][t][n]
    BY <1>1, <2>2, AutoAliased DEF AliasTypes, Uuids
  <2>4. UNCHANGED aliases \/ aliases' = [aliases EXCEPT ![k] = of]
    BY <1>8 DEF DeclareInterfaceNode, Ctx
  <2> HIDE DEF of
  <2> QED
    BY <1>2, <1>3, <2>1, <2>3, <2>4
<1>9. CASE DeclareIntrospected \/ CreateFails
  <2>1. /\ todo # <<>> /\ todo \in Seq(Entries) /\ Node = todo[1] /\ Node \in Entries
        /\ Node.kind = "introspect" /\ UNCHANGED declared
    BY <1>9 DEF Inv, TodoOK, Node, DeclareIntrospected, AtNode, CreateFails
  <2>2. Node.id \in Components
    BY <2>1 DEF Entries, Nodes
  <2>3. Implements[Node.id] \in SUBSET Interfaces
    BY <2>2, ImplementsAssumption
  <2> DEFINE named == AutoAlias(loading, aliases[k], "component", {Node.id})
             of == AutoAlias(loading, named, "interface", Implements[Node.id])
  <2>4. /\ named \in AliasMaps
        /\ \A t \in AliasTypes, n \in Names :
             aliases[k][t][n] # None => named[t][n] = aliases[k][t][n]
    BY <1>1, <2>2, AutoAliased DEF AliasTypes, Uuids
  <2>5. \/ aliases' = [aliases EXCEPT ![k] = named]
        \/ aliases' = [aliases EXCEPT ![k] = of]
    BY <1>9 DEF DeclareIntrospected, CreateFails, Ctx
  <2> HIDE DEF named
  <2>6. /\ of \in AliasMaps
        /\ \A t \in AliasTypes, n \in Names :
             named[t][n] # None => of[t][n] = named[t][n]
    BY <1>1, <2>3, <2>4, AutoAliased DEF AliasTypes, Uuids
  <2> HIDE DEF of
  <2>7. \A t \in AliasTypes, n \in Names :
          aliases[k][t][n] # None => of[t][n] = aliases[k][t][n]
    BY <2>4, <2>6
  <2> QED
    BY <1>2, <2>1, <2>4, <2>5, <2>6, <2>7
<1>10. CASE \/ DeclareModule \/ SkipInterfaceNode \/ ConfigureNode \/ NodeFails
            \/ \E f \in Factories, file \in Files : LoadLibrary(f, file)
            \/ \E f \in Factories, m \in Modules : LoadModuleMetadata(f, m)
            \/ UNCHANGED vars
  BY <1>3, <1>10 DEF DeclareModule, SkipInterfaceNode, ConfigureNode, NodeFails,
                     LoadLibrary, LoadModuleMetadata, aliasVars, vars
<1> QED
  BY <1>4, <1>5, <1>6, <1>7, <1>8, <1>9, <1>10 DEF Next, NodeStep

\* For any files and libraries, loaded in any order by any factories: a name of
\* an <aliases> section resolves to what the last such section says.
THEOREM ExplicitAliasesPrevail == Spec => []ExplicitAliasPrevails
<1>1. Init => ExplicitAliasPrevails
  BY DEF Init, ExplicitAliasPrevails, NoAliases
<1> QED
  BY <1>1, Invariant, ExplicitAliasStep, PTL DEF Spec

\* The context of a factory is its own or that of a factory that exists, and
\* the one of a factory that does not exist yet knows nothing: a clone
\* overwrites no component.
ContextsOK ==
  /\ \A f \in Factories : m_context[f] # None => m_context[m_context[f]] # None
  /\ \A h \in Factories : m_context[h] = None => componentModuleUUIDMap[h] = Unknown

ModuleStays ==
  \A k \in Factories, c \in Components :
    Known(k, c) => componentModuleUUIDMap'[k][c]
                     \in {componentModuleUUIDMap[k][c], None}

\* No step gives a known component to another module.
LEMMA ContextStep ==
  Inv /\ ContextsOK /\ [Next]_vars => ContextsOK' /\ (ModuleStays \/ UNCHANGED vars)
<1> SUFFICES ASSUME Inv, ContextsOK, [Next]_vars
             PROVE  ContextsOK' /\ (ModuleStays \/ UNCHANGED vars)
  OBVIOUS
<1> DEFINE k == m_context[loading]
<1>1. /\ k \in Factories /\ m_context[k] # None
      /\ m_context \in [Factories -> Factories \union {None}]
      /\ componentModuleUUIDMap \in [Factories -> [Components -> Modules \union {None}]]
  BY DEF Inv, TypeOK, ContextsOK
<1>2. CASE UNCHANGED <<m_context, componentModuleUUIDMap>>
  BY <1>2 DEF ContextsOK, ModuleStays
<1>3. ASSUME NEW c, NEW m, ModuleOfFirst(k, c, m), UNCHANGED m_context
      PROVE  ContextsOK' /\ ModuleStays
  <2>1. CASE componentModuleUUIDMap[k][c] # None
    BY <1>2, <1>3, <2>1 DEF ModuleOfFirst, ContextsOK, ModuleStays
  <2>2. CASE componentModuleUUIDMap[k][c] = None
    <3>1. componentModuleUUIDMap' = [componentModuleUUIDMap EXCEPT ![k][c] = m]
      BY <1>3, <2>2 DEF ModuleOfFirst
    <3>2. /\ \A h \in Factories :
               h # k => componentModuleUUIDMap'[h] = componentModuleUUIDMap[h]
          /\ \A d \in Components :
               d # c => componentModuleUUIDMap'[k][d] = componentModuleUUIDMap[k][d]
      BY <1>1, <3>1
    <3>3. ContextsOK'
      BY <1>1, <1>3, <3>2 DEF ContextsOK
    <3>4. ModuleStays
      BY <2>2, <3>2 DEF ModuleStays, Known
    <3> QED
      BY <3>3, <3>4
  <2> QED
    BY <2>1, <2>2
<1>4. CASE DeclareComponent
  BY <1>2, <1>3, <1>4 DEF DeclareComponent, AtNode, Ctx
<1>5. CASE DeclareIntrospected \/ CreateFails
  BY <1>3, <1>5 DEF DeclareIntrospected, CreateFails, AtNode, Ctx
<1>6. ASSUME NEW f \in Factories, Clear(f) PROVE ContextsOK' /\ ModuleStays
  <2> DEFINE g == m_context[f]
  <2>1. /\ componentModuleUUIDMap' = [componentModuleUUIDMap EXCEPT ![g] = Unknown]
        /\ UNCHANGED m_context
    BY <1>6 DEF Clear, ClearModules
  <2> QED
    BY <1>1, <2>1 DEF ContextsOK, ModuleStays, Unknown
<1>7. ASSUME NEW f \in Factories, NEW new \in Factories, NEW mode,
             CreateNewFactoryContext(f, new, mode)
      PROVE  ContextsOK' /\ ModuleStays
  <2> DEFINE g == m_context[f]
  <2>1. /\ g \in Factories /\ m_context[new] = None /\ m_context[g] # None
        /\ m_context' = [m_context EXCEPT ![new] = IF mode = "Shared" THEN g ELSE new]
    BY <1>1, <1>7 DEF CreateNewFactoryContext, Begin, ContextsOK
  <2>2. /\ \A h \in Factories :
             h # new => componentModuleUUIDMap'[h] = componentModuleUUIDMap[h]
        /\ componentModuleUUIDMap[new] = Unknown
    BY <1>1, <1>7, <2>1
       DEF CreateNewFactoryContext, CopyContext, registryVars, ContextsOK
  <2>3. new # None
    BY NoneAssumption
  <2>4. ContextsOK'
    <3>1. m_context'[new] # None /\ m_context'[new] \in {g, new}
      <4>1. m_context'[new] = IF mode = "Shared" THEN g ELSE new
        BY <1>1, <2>1
      <4>2. g # None
        BY <2>1, NoneAssumption
      <4> QED
        BY <2>3, <4>1, <4>2
    <3>2. \A h \in Factories : h # new => m_context'[h] = m_context[h]
      BY <1>1, <2>1
    <3>3. g # new
      BY <2>1
    <3>4. \A h \in Factories :
            m_context'[h] # None => m_context'[m_context'[h]] # None
      BY <1>1, <2>1, <3>1, <3>2, <3>3 DEF ContextsOK
    <3>5. \A h \in Factories :
            m_context'[h] = None => componentModuleUUIDMap'[h] = Unknown
      BY <2>2, <3>1, <3>2 DEF ContextsOK
    <3>6. UNCHANGED Unknown
      BY DEF Unknown
    <3> QED
      BY <3>4, <3>5, <3>6 DEF ContextsOK
  <2>5. ModuleStays
    BY <2>2 DEF ModuleStays, Known, Unknown
  <2> QED
    BY <2>4, <2>5
<1>8. CASE \/ DeclareModule \/ SkipInterfaceNode \/ DeclareInterfaceNode
           \/ DeclareAliasNode \/ ConfigureNode \/ NodeFails
           \/ \E f \in Factories, file \in Files : LoadLibrary(f, file)
           \/ \E f \in Factories, m \in Modules : LoadModuleMetadata(f, m)
           \/ UNCHANGED vars
  BY <1>2, <1>8 DEF DeclareModule, SkipInterfaceNode, DeclareInterfaceNode,
                    DeclareAliasNode, ConfigureNode, NodeFails, LoadLibrary,
                    LoadModuleMetadata, AtNode, registryVars, vars
<1> QED
  BY <1>4, <1>5, <1>6, <1>7, <1>8 DEF Next, NodeStep

\* At first one factory exists, and no context knows anything.
LEMMA InitContexts == Init => ContextsOK
<1> SUFFICES ASSUME Init PROVE ContextsOK
  OBVIOUS
<1>1. /\ m_context = [f \in Factories |-> IF f = Main THEN Main ELSE None]
      /\ \A h \in Factories : componentModuleUUIDMap[h] = Unknown
  BY DEF Init
<1>2. Main # None
  BY MainAssumption, NoneAssumption
<1> QED
  BY <1>1, <1>2, MainAssumption DEF ContextsOK

\* For any modules that list the same components: a component keeps the module
\* that declared it first until a clear.
THEOREM ModulesAreKept == Spec => ModuleKept
<1>1. Inv /\ ContextsOK /\ [Next]_vars => ContextsOK' /\ [ModuleStays]_vars
  BY ContextStep
<1>2. Spec => [][ModuleStays]_vars
  BY <1>1, InitContexts, Invariant, PTL DEF Spec
<1> QED
  BY <1>2 DEF ModuleKept, ModuleStays

-----------------------------------------------------------------------------
(* Automatic aliases.                                                      *)

\* A name that no <aliases> section gave is that of a component, or of an
\* interface, that the registry of the context knows.
AliasesKnown ==
  \A k \in Factories, n \in Names :
    /\ (declared[k]["component"][n] = None /\ aliases[k]["component"][n] # None)
         => /\ aliases[k]["component"][n] \in Components
            /\ Known(k, aliases[k]["component"][n])
    /\ (declared[k]["interface"][n] = None /\ aliases[k]["interface"][n] # None)
         => aliases[k]["interface"][n] \in interfacesMap[k]

\* Recording a component makes it known and moves no other.
LEMMA Records ==
  ASSUME TypeOK, NEW k \in Factories, NEW c \in Components, NEW m \in Modules,
         ModuleOfFirst(k, c, m)
  PROVE  /\ componentModuleUUIDMap'[k][c] # None
         /\ componentModuleUUIDMap[k][c] = None
              => componentModuleUUIDMap'[k][c] = m
         /\ \A h \in Factories, d \in Components :
              \/ componentModuleUUIDMap[h][d] # None
              \/ h # k \/ d # c
              => componentModuleUUIDMap'[h][d] = componentModuleUUIDMap[h][d]
<1>1. m # None
  BY NoneAssumption DEF Uuids
<1>2. CASE componentModuleUUIDMap[k][c] # None
  BY <1>2 DEF ModuleOfFirst
<1>3. CASE componentModuleUUIDMap[k][c] = None
  <2>1. componentModuleUUIDMap' = [componentModuleUUIDMap EXCEPT ![k][c] = m]
    BY <1>3 DEF ModuleOfFirst
  <2> QED
    BY <1>1, <1>3, <2>1 DEF TypeOK
<1> QED
  BY <1>2, <1>3

\* Interfaces are added to those of the context.
LEMMA Adds ==
  ASSUME TypeOK, NEW k \in Factories, NEW itfs \in SUBSET Interfaces,
         AddInterfaces(k, itfs)
  PROVE  /\ itfs \subseteq interfacesMap'[k]
         /\ \A h \in Factories : interfacesMap[h] \subseteq interfacesMap'[h]
BY DEF AddInterfaces, TypeOK

\* A component is read inside a module, which its context knows.
LEMMA ReadsInModule ==
  ASSUME Inv, DeclareComponent \/ DeclareIntrospected \/ CreateFails
  PROVE  /\ moduleInfo \in Objects /\ moduleInfo # None
         /\ objects[moduleInfo] \in ModuleObjects
         /\ objects[moduleInfo].uuid \in Modules
<1> USE DEF Inv
<1>1. /\ todo # <<>> /\ Node = todo[1] /\ Len(todo) > 0 /\ Len(todo) \in Nat
      /\ Node.kind \in {"component", "introspect"}
  BY DEF DeclareComponent, DeclareIntrospected, CreateFails, AtNode, TodoOK, Node
<1>2. moduleInfo # None
  BY <1>1 DEF ModuleFirst
<1>3. moduleInfo \in 1 .. Len(objects) /\ objects \in Seq(ModuleObjects)
  BY <1>2 DEF TypeOK, Objects
<1>4. objects[moduleInfo] \in ModuleObjects
  BY <1>3
<1> QED
  BY <1>2, <1>3, <1>4 DEF ModuleObjects, Objects

\* No step names what the registry does not know, or forgets what has a name.
LEMMA AliasesKnownStep ==
  Inv /\ AliasesKnown /\ [Next]_vars => AliasesKnown'
<1> SUFFICES ASSUME Inv, AliasesKnown, [Next]_vars PROVE AliasesKnown'
  OBVIOUS
<1>k. PICK k \in Factories : k = m_context[loading] /\ k = Ctx
  BY DEF Inv, TypeOK, Ctx
<1>1. /\ loading \in Factories
      /\ aliases \in [Factories -> AliasMaps] /\ declared \in [Factories -> AliasMaps]
      /\ m_context \in [Factories -> Factories \union {None}]
      /\ aliases[k] \in AliasMaps
  BY DEF Inv, TypeOK
\* A load only adds: components, interfaces, and automatic aliases of these.
<1>2. ASSUME NEW of \in AliasMaps,
             aliases' = [aliases EXCEPT ![k] = of], UNCHANGED declared,
             \A h \in Factories, c \in Components :
               componentModuleUUIDMap[h][c] # None
                 => componentModuleUUIDMap'[h][c] # None,
             \A h \in Factories : interfacesMap[h] \subseteq interfacesMap'[h],
             \A n \in Names :
               /\ \/ of["component"][n] = aliases[k]["component"][n]
                  \/ /\ of["component"][n] \in Components
                     /\ componentModuleUUIDMap'[k][of["component"][n]] # None
               /\ \/ of["interface"][n] = aliases[k]["interface"][n]
                  \/ of["interface"][n] \in interfacesMap'[k]
      PROVE  AliasesKnown'
  <2> SUFFICES ASSUME NEW h \in Factories, NEW n \in Names
               PROVE  /\ declared'[h]["component"][n] = None
                         /\ aliases'[h]["component"][n] # None
                        => /\ aliases'[h]["component"][n] \in Components
                           /\ componentModuleUUIDMap'[h][aliases'[h]["component"][n]] # None
                      /\ declared'[h]["interface"][n] = None
                         /\ aliases'[h]["interface"][n] # None
                        => aliases'[h]["interface"][n] \in interfacesMap'[h]
    BY DEF AliasesKnown, Known
  <2>1. aliases'[h] = IF h = k THEN of ELSE aliases[h]
    BY <1>1, <1>2
  <2>2. /\ declared[h]["component"][n] = None /\ aliases[h]["component"][n] # None
           => /\ aliases[h]["component"][n] \in Components
              /\ componentModuleUUIDMap[h][aliases[h]["component"][n]] # None
        /\ declared[h]["interface"][n] = None /\ aliases[h]["interface"][n] # None
           => aliases[h]["interface"][n] \in interfacesMap[h]
    BY DEF AliasesKnown, Known
  <2>3. CASE h = k
    BY <1>2, <2>1, <2>2, <2>3
  <2>4. CASE h # k
    BY <1>2, <2>1, <2>2, <2>4
  <2> QED
    BY <2>3, <2>4
<1>3. CASE UNCHANGED <<aliases, declared, componentModuleUUIDMap, interfacesMap>>
  BY <1>3 DEF AliasesKnown, Known
<1>4. ASSUME NEW f \in Factories, Clear(f) PROVE AliasesKnown'
  <2> DEFINE g == m_context[f]
  <2>1. /\ aliases' = [aliases EXCEPT ![g] = NoAliases]
        /\ declared' = [declared EXCEPT ![g] = NoAliases]
        /\ interfacesMap' = [interfacesMap EXCEPT ![g] = {}]
        /\ componentModuleUUIDMap' = [componentModuleUUIDMap EXCEPT ![g] = Unknown]
    BY <1>4 DEF Clear, ClearAliases, ClearModules
  <2>2. \A h \in Factories :
          \/ aliases'[h] = NoAliases
          \/ /\ aliases'[h] = aliases[h] /\ declared'[h] = declared[h]
             /\ interfacesMap'[h] = interfacesMap[h]
             /\ componentModuleUUIDMap'[h] = componentModuleUUIDMap[h]
    BY <1>1, <2>1 DEF Inv, TypeOK
  <2> QED
    BY <2>2 DEF AliasesKnown, Known, NoAliases, AliasTypes
<1>5. ASSUME NEW f \in Factories, NEW new \in Factories, NEW mode,
             CreateNewFactoryContext(f, new, mode)
      PROVE  AliasesKnown'
  <2>1. PICK g \in Factories : g = m_context[f]
    BY <1>1, <1>5 DEF CreateNewFactoryContext, Begin
  <2>2. CASE mode = "Cloned"
    <3>1. /\ aliases' = [aliases EXCEPT ![new] = aliases[g]]
          /\ declared' = [declared EXCEPT ![new] = declared[g]]
          /\ interfacesMap' = [interfacesMap EXCEPT ![new] = interfacesMap[g]]
          /\ componentModuleUUIDMap' =
               [componentModuleUUIDMap EXCEPT ![new] = componentModuleUUIDMap[g]]
      BY <1>5, <2>1, <2>2 DEF CreateNewFactoryContext, CopyContext
    <3>2. \A h \in Factories :
            \E j \in Factories :
              /\ aliases'[h] = aliases[j] /\ declared'[h] = declared[j]
              /\ interfacesMap'[h] = interfacesMap[j]
              /\ componentModuleUUIDMap'[h] = componentModuleUUIDMap[j]
      <4> SUFFICES ASSUME NEW h \in Factories
                   PROVE  \E j \in Factories :
                            /\ aliases'[h] = aliases[j] /\ declared'[h] = declared[j]
                            /\ interfacesMap'[h] = interfacesMap[j]
                            /\ componentModuleUUIDMap'[h] = componentModuleUUIDMap[j]
        OBVIOUS
      <4>1. CASE h = new
        BY <1>1, <3>1, <4>1 DEF Inv, TypeOK
      <4>2. CASE h # new
        BY <1>1, <3>1, <4>2 DEF Inv, TypeOK
      <4> QED
        BY <4>1, <4>2
    <3> QED
      BY <3>2 DEF AliasesKnown, Known
  <2>3. CASE mode # "Cloned"
    BY <1>3, <1>5, <2>3 DEF CreateNewFactoryContext, aliasVars, registryVars
  <2> QED
    BY <2>2, <2>3
<1>6. CASE DeclareAliasNode
  <2>1. Node \in Entries /\ Node.kind = "alias" /\ Node.id # Invalid
    BY <1>6, Shortened DEF Inv, DeclareAliasNode, AtNode
  <2>2. Node.type \in AliasTypes /\ Node.name \in Names /\ Node.id \in Uuids
    BY <2>1 DEF Entries, Nodes
  <2>3. /\ aliases' = [aliases EXCEPT ![k][Node.type][Node.name] = Node.id]
        /\ declared' = [declared EXCEPT ![k][Node.type][Node.name] = Node.id]
        /\ UNCHANGED <<componentModuleUUIDMap, interfacesMap>>
    BY <1>k, <1>6 DEF DeclareAliasNode, registryVars
  <2>4. Node.id # None
    BY <2>2, NoneAssumption
  <2>5. \A h \in Factories, t \in AliasTypes, n \in Names :
          declared'[h][t][n] = None
            => declared[h][t][n] = None /\ aliases'[h][t][n] = aliases[h][t][n]
    BY <1>1, <2>2, <2>3, <2>4 DEF AliasMaps
  <2> QED
    BY <2>3, <2>5 DEF AliasesKnown, Known, AliasTypes
<1>7. CASE DeclareComponent
  <2>1. TodoOK /\ todo # <<>> /\ todo' = Tail(todo) /\ Node.kind = "component"
        /\ Node.id # Invalid /\ UNCHANGED <<declared, interfacesMap>>
    BY <1>7 DEF Inv, DeclareComponent, AtNode
  <2>2. PICK c \in Components : c = Node.id
    BY <2>1, Shortened DEF NodeOK
  <2>3. CASE ReadsComponent(c)
    <3>1. PICK of : of = AutoAlias(loading, aliases[k], "component", {c})
      OBVIOUS
    <3>2. /\ of \in AliasMaps
          /\ \A t \in AliasTypes, n \in Names :
               of[t][n] = aliases[k][t][n] \/ (t = "component" /\ of[t][n] = c)
      BY <1>1, <2>2, <3>1, AutoAliased DEF AliasTypes, Uuids
    <3>3. /\ aliases' = [aliases EXCEPT ![k] = of]
          /\ ModuleOfFirst(k, c, objects[moduleInfo].uuid)
      BY <1>k, <1>7, <2>2, <2>3, <3>1 DEF DeclareComponent
    <3>4. objects[moduleInfo].uuid \in Modules
      BY <1>7, ReadsInModule
    <3>5. /\ componentModuleUUIDMap'[k][c] # None
          /\ \A h \in Factories, d \in Components :
               componentModuleUUIDMap[h][d] # None
                 => componentModuleUUIDMap'[h][d] # None
      BY <3>3, <3>4, Records DEF Inv
    <3> QED
      BY <1>2, <2>1, <3>2, <3>3, <3>5 DEF AliasTypes
  <2>4. CASE ~ReadsComponent(c)
    BY <1>3, <1>7, <2>1, <2>2, <2>4 DEF DeclareComponent
  <2> QED
    BY <2>3, <2>4
<1>8. CASE DeclareInterfaceNode
  <2>1. TodoOK /\ todo # <<>> /\ todo' = Tail(todo) /\ Node.kind = "interface"
        /\ Node.id # Invalid /\ UNCHANGED <<declared, componentModuleUUIDMap>>
    BY <1>8 DEF Inv, DeclareInterfaceNode, AtNode
  <2>2. PICK i \in Interfaces : i = Node.id
    BY <2>1, Shortened DEF NodeOK
  <2>3. PICK of : of = AutoAlias(loading, aliases[k], "interface", {i})
    OBVIOUS
  <2>4. /\ of \in AliasMaps
        /\ \A t \in AliasTypes, n \in Names :
             of[t][n] = aliases[k][t][n] \/ (t = "interface" /\ of[t][n] = i)
    BY <1>1, <2>2, <2>3, AutoAliased DEF AliasTypes, Uuids
  <2>5. \/ aliases' = [aliases EXCEPT ![k] = of]
        \/ aliases' = [aliases EXCEPT ![k] = aliases[k]]
    BY <1>k, <1>1, <1>8, <2>2, <2>3 DEF DeclareInterfaceNode
  <2>6. AddInterfaces(k, {i})
    BY <1>k, <1>8, <2>2 DEF DeclareInterfaceNode
  <2>7. /\ i \in interfacesMap'[k]
        /\ \A h \in Factories : interfacesMap[h] \subseteq interfacesMap'[h]
    BY <2>6, Adds DEF Inv
  <2> QED
    BY <1>1, <1>2, <2>1, <2>4, <2>5, <2>7 DEF AliasTypes
<1>9. CASE DeclareIntrospected \/ CreateFails
  <2>1. /\ todo # <<>> /\ todo \in Seq(Entries) /\ Node = todo[1] /\ Node \in Entries
        /\ Node.kind = "introspect" /\ UNCHANGED declared
    BY <1>9 DEF Inv, TodoOK, Node, DeclareIntrospected, AtNode, CreateFails
  <2>2. PICK c \in Components : c = Node.id
    BY <2>1 DEF Entries, Nodes
  <2>3. Implements[c] \in SUBSET Interfaces
    BY <2>2, ImplementsAssumption
  <2>4. PICK named : named = AutoAlias(loading, aliases[k], "component", {c})
    OBVIOUS
  <2>5. /\ named \in AliasMaps
        /\ \A t \in AliasTypes, n \in Names :
             named[t][n] = aliases[k][t][n] \/ (t = "component" /\ named[t][n] = c)
    BY <1>1, <2>2, <2>4, AutoAliased DEF AliasTypes, Uuids
  <2>6. objects[moduleInfo].uuid \in Modules
    BY <1>9, ReadsInModule
  <2>7. ModuleOfFirst(k, c, objects[moduleInfo].uuid)
    BY <1>k, <1>9, <2>2 DEF DeclareIntrospected, CreateFails
  <2>8. /\ componentModuleUUIDMap'[k][c] # None
        /\ \A h \in Factories, d \in Components :
             componentModuleUUIDMap[h][d] # None
               => componentModuleUUIDMap'[h][d] # None
    BY <2>6, <2>7, Records DEF Inv
  <2>9. CASE CreateFails
    <3>1. aliases' = [aliases EXCEPT ![k] = named] /\ UNCHANGED interfacesMap
      BY <1>k, <2>2, <2>4, <2>9 DEF CreateFails
    <3> QED
      BY <1>2, <2>1, <2>5, <2>8, <3>1 DEF AliasTypes
  <2>10. CASE DeclareIntrospected
    <3>1. PICK of : of = AutoAlias(loading, named, "interface", Implements[c])
      OBVIOUS
    <3>2. /\ of \in AliasMaps
          /\ \A t \in AliasTypes, n \in Names :
               \/ of[t][n] = named[t][n]
               \/ t = "interface" /\ of[t][n] \in Implements[c]
      BY <1>1, <2>3, <2>5, <3>1, AutoAliased DEF AliasTypes, Uuids
    <3>3. /\ aliases' = [aliases EXCEPT ![k] = of]
          /\ AddInterfaces(k, Implements[c])
      BY <1>k, <2>2, <2>4, <2>10, <3>1 DEF DeclareIntrospected
    <3>4. /\ Implements[c] \subseteq interfacesMap'[k]
          /\ \A h \in Factories : interfacesMap[h] \subseteq interfacesMap'[h]
      BY <2>3, <3>3, Adds DEF Inv
    <3>5. \A n \in Names :
            /\ of["component"][n] = aliases[k]["component"][n]
               \/ of["component"][n] = c
            /\ of["interface"][n] = aliases[k]["interface"][n]
               \/ of["interface"][n] \in interfacesMap'[k]
      BY <2>5, <3>2, <3>4 DEF AliasTypes
    <3>6. \A n \in Names :
            \/ of["component"][n] = aliases[k]["component"][n]
            \/ /\ of["component"][n] \in Components
               /\ componentModuleUUIDMap'[k][of["component"][n]] # None
      BY <2>8, <3>5
    <3>7. \A h \in Factories, d \in Components :
            componentModuleUUIDMap[h][d] # None
              => componentModuleUUIDMap'[h][d] # None
      BY <2>8
    <3>8. of \in AliasMaps
      BY <3>2
    <3> QED
      BY <1>2, <2>1, <3>3, <3>4, <3>5, <3>6, <3>7, <3>8
  <2> QED
    BY <1>9, <2>9, <2>10
<1>10. CASE \/ DeclareModule \/ SkipInterfaceNode \/ ConfigureNode \/ NodeFails
            \/ \E f \in Factories, file \in Files : LoadLibrary(f, file)
            \/ \E f \in Factories, m \in Modules : LoadModuleMetadata(f, m)
            \/ UNCHANGED vars
  BY <1>3, <1>10 DEF DeclareModule, SkipInterfaceNode, ConfigureNode, NodeFails,
                     LoadLibrary, LoadModuleMetadata, aliasVars, registryVars, vars
<1> QED
  BY <1>4, <1>5, <1>6, <1>7, <1>8, <1>9, <1>10 DEF Next, NodeStep

\* For any files and libraries: what an automatic alias names is known to the
\* registry of the same context, whatever is cleared, copied or shared.
THEOREM AutomaticAliasesName == Spec => []AutomaticAliasesAreKnown
<1>1. Init => AliasesKnown
  BY DEF Init, AliasesKnown, NoAliases, AliasTypes
<1>2. AliasesKnown => AutomaticAliasesAreKnown
  BY DEF AliasesKnown, AutomaticAliasesAreKnown
<1> QED
  BY <1>1, <1>2, Invariant, AliasesKnownStep, PTL DEF Spec

-----------------------------------------------------------------------------
(* Components that a file left half-declared.                              *)

\* They are known, so that no later file reads them again: the component
\* under which interfaces are read is none of them.
HalfDeclaredOK ==
  /\ \A k \in Factories, c \in Components :
       c \in halfDeclared[k] => componentModuleUUIDMap[k][c] # None
  /\ todo # <<>> /\ componentInfo # None
       => /\ componentModuleUUIDMap[Ctx][componentInfo] # None
          /\ componentInfo \notin halfDeclared[Ctx]
  /\ \A h \in Factories : m_context[h] = None => halfDeclared[h] = {}

HalfDeclaredStay ==
  \A k \in Factories, c \in Components :
    (/\ c \in halfDeclared[k]
     /\ \E i \in Interfaces : <<i, c>> \in bound'[k] \ bound[k])
      => DeclareIntrospected

\* No step binds an interface to a half-declared component, but that of an
\* introspection.
LEMMA HalfDeclaredStep ==
  Inv /\ ContextsOK /\ HalfDeclaredOK /\ [Next]_vars
    => HalfDeclaredOK' /\ HalfDeclaredStay
<1> SUFFICES ASSUME Inv, ContextsOK, HalfDeclaredOK, [Next]_vars
             PROVE  HalfDeclaredOK' /\ HalfDeclaredStay
  OBVIOUS
<1>k. PICK k \in Factories : k = m_context[loading] /\ k = Ctx
  BY DEF Inv, TypeOK, Ctx
<1>1. /\ loading \in Factories /\ m_context[k] # None
      /\ halfDeclared \in [Factories -> SUBSET Components]
      /\ bound \in [Factories -> SUBSET (Interfaces \X Components)]
      /\ m_context \in [Factories -> Factories \union {None}]
      /\ componentModuleUUIDMap \in [Factories -> [Components -> Modules \union {None}]]
      /\ componentInfo \in Components \union {None}
  BY <1>k DEF Inv, TypeOK, ContextsOK
\* Steps inside a load that declare no component half-way and keep what is known.
<1>2. ASSUME UNCHANGED <<m_context, loading, halfDeclared, bound>>,
             \A h \in Factories, c \in Components :
               componentModuleUUIDMap[h][c] # None
                 => componentModuleUUIDMap'[h][c] # None,
             \/ todo' = <<>> \/ componentInfo' = None
             \/ todo # <<>> /\ UNCHANGED componentInfo
      PROVE  HalfDeclaredOK' /\ HalfDeclaredStay
  BY <1>1, <1>k, <1>2 DEF HalfDeclaredOK, HalfDeclaredStay, Ctx
<1>3. CASE \/ \E f \in Factories, file \in Files : LoadLibrary(f, file)
           \/ \E f \in Factories, m \in Modules : LoadModuleMetadata(f, m)
  <2>1. /\ UNCHANGED <<m_context, halfDeclared, bound, componentModuleUUIDMap>>
        /\ componentInfo' = None
    BY <1>3 DEF LoadLibrary, LoadModuleMetadata, registryVars
  <2> QED
    BY <2>1 DEF HalfDeclaredOK, HalfDeclaredStay
<1>4. ASSUME NEW f \in Factories, Clear(f)
      PROVE  HalfDeclaredOK' /\ HalfDeclaredStay
  <2>1. /\ todo' = <<>> /\ UNCHANGED m_context
        /\ bound' = [bound EXCEPT ![m_context[f]] = {}]
        /\ halfDeclared' = [halfDeclared EXCEPT ![m_context[f]] = {}]
        /\ componentModuleUUIDMap' =
             [componentModuleUUIDMap EXCEPT ![m_context[f]] = Unknown]
    BY <1>4 DEF Clear, Begin, ClearModules, loadVars
  <2>2. \A h \in Factories :
          \/ bound'[h] = {} /\ halfDeclared'[h] = {}
          \/ /\ bound'[h] = bound[h] /\ halfDeclared'[h] = halfDeclared[h]
             /\ componentModuleUUIDMap'[h] = componentModuleUUIDMap[h]
    BY <1>1, <2>1
  <2>3. HalfDeclaredOK'
    BY <2>1, <2>2 DEF HalfDeclaredOK
  <2>4. \A h \in Factories : bound'[h] \subseteq bound[h]
    BY <2>2
  <2> QED
    BY <2>3, <2>4 DEF HalfDeclaredStay
<1>5. ASSUME NEW f \in Factories, NEW new \in Factories, NEW mode,
             CreateNewFactoryContext(f, new, mode)
      PROVE  HalfDeclaredOK' /\ HalfDeclaredStay
  <2>1. PICK g \in Factories : g = m_context[f]
    BY <1>1, <1>5 DEF CreateNewFactoryContext, Begin
  <2>2. /\ todo' = <<>> /\ m_context[new] = None
        /\ m_context' = [m_context EXCEPT ![new] = IF mode = "Shared" THEN g ELSE new]
    BY <1>5, <2>1 DEF CreateNewFactoryContext, Begin, loadVars
  <2>3. \A h \in Factories : m_context'[h] = None => h # new /\ m_context[h] = None
    BY <1>1, <2>2, NoneAssumption
  <2>4. halfDeclared[new] = {}
    BY <2>2 DEF HalfDeclaredOK
  <2>5. CASE mode = "Cloned"
    <3>1. /\ bound' = [bound EXCEPT ![new] = bound[g]]
          /\ halfDeclared' = [halfDeclared EXCEPT ![new] = halfDeclared[g]]
          /\ componentModuleUUIDMap' =
               [componentModuleUUIDMap EXCEPT ![new] = componentModuleUUIDMap[g]]
      BY <1>5, <2>1, <2>5 DEF CreateNewFactoryContext, CopyContext
    <3>2. /\ halfDeclared'[new] = halfDeclared[g]
          /\ componentModuleUUIDMap'[new] = componentModuleUUIDMap[g]
          /\ \A h \in Factories :
               h # new =>
                 /\ bound'[h] = bound[h] /\ halfDeclared'[h] = halfDeclared[h]
                 /\ componentModuleUUIDMap'[h] = componentModuleUUIDMap[h]
      BY <1>1, <3>1
    <3>3. HalfDeclaredOK'
      BY <2>2, <2>3, <3>2 DEF HalfDeclaredOK
    <3>4. HalfDeclaredStay
      BY <2>4, <3>2 DEF HalfDeclaredStay
    <3> QED
      BY <3>3, <3>4
  <2>6. CASE mode # "Cloned"
    <3>1. UNCHANGED <<bound, halfDeclared, componentModuleUUIDMap>>
      BY <1>5, <2>6 DEF CreateNewFactoryContext, registryVars
    <3> QED
      BY <2>2, <2>3, <3>1 DEF HalfDeclaredOK, HalfDeclaredStay
  <2> QED
    BY <2>5, <2>6
<1>6. CASE DeclareComponent
  <2>1. TodoOK /\ todo # <<>> /\ todo' = Tail(todo) /\ Node.kind = "component"
        /\ Node.id # Invalid
        /\ UNCHANGED <<m_context, loading, halfDeclared, bound>>
    BY <1>6 DEF Inv, DeclareComponent, AtNode
  <2>2. PICK c \in Components : c = Node.id
    BY <2>1, Shortened DEF NodeOK
  <2>3. CASE ReadsComponent(c)
    <3>1. /\ ModuleOfFirst(k, c, objects[moduleInfo].uuid)
          /\ componentInfo' = c /\ componentModuleUUIDMap[k][c] = None
      BY <1>k, <1>6, <2>2, <2>3 DEF DeclareComponent, ReadsComponent
    <3>2. objects[moduleInfo].uuid \in Modules
      BY <1>6, ReadsInModule
    <3>3. /\ componentModuleUUIDMap'[k][c] # None
          /\ \A h \in Factories, d \in Components :
               componentModuleUUIDMap[h][d] # None
                 => componentModuleUUIDMap'[h][d] # None
      BY <3>1, <3>2, Records DEF Inv
    <3>4. c \notin halfDeclared[k]
      BY <3>1 DEF HalfDeclaredOK
    <3>5. Ctx' = k
      BY <1>k, <2>1 DEF Ctx
    <3> QED
      BY <2>1, <3>1, <3>3, <3>4, <3>5 DEF HalfDeclaredOK, HalfDeclaredStay
  <2>4. CASE ~ReadsComponent(c)
    <3>1. UNCHANGED componentModuleUUIDMap /\ componentInfo' = None
      BY <1>6, <2>2, <2>4 DEF DeclareComponent
    <3> QED
      BY <1>2, <2>1, <3>1
  <2> QED
    BY <2>3, <2>4
<1>7. CASE DeclareInterfaceNode
  <2>1. /\ componentInfo # None /\ todo # <<>>
        /\ UNCHANGED <<m_context, loading, halfDeclared, componentModuleUUIDMap,
                       componentInfo>>
        /\ Autobind(k, componentInfo, {Node.id})
    BY <1>7, <1>k DEF DeclareInterfaceNode, AtNode, BindsInterface
  <2>2. HalfDeclaredOK'
    BY <1>1, <2>1 DEF HalfDeclaredOK, Ctx
  <2>3. componentInfo \notin halfDeclared[k]
    BY <1>k, <2>1 DEF HalfDeclaredOK
  <2>4. /\ bound'[k] = bound[k] \union ({Node.id} \X {componentInfo})
        /\ \A h \in Factories : h # k => bound'[h] = bound[h]
    BY <1>1, <2>1 DEF Autobind
  <2>5. HalfDeclaredStay
    BY <2>3, <2>4 DEF HalfDeclaredStay
  <2> QED
    BY <2>2, <2>5
<1>8. CASE DeclareIntrospected
  <2>1. /\ todo # <<>> /\ todo \in Seq(Entries) /\ Node = todo[1] /\ Node \in Entries
        /\ Node.kind = "introspect"
        /\ UNCHANGED <<m_context, loading, halfDeclared, componentInfo>>
    BY <1>8 DEF Inv, TodoOK, Node, DeclareIntrospected, AtNode
  <2>2. PICK c \in Components : c = Node.id
    BY <2>1 DEF Entries, Nodes
  <2>3. ModuleOfFirst(k, c, objects[moduleInfo].uuid)
    BY <1>k, <1>8, <2>2 DEF DeclareIntrospected
  <2>4. objects[moduleInfo].uuid \in Modules
    BY <1>8, ReadsInModule
  <2>5. \A h \in Factories, d \in Components :
          componentModuleUUIDMap[h][d] # None
            => componentModuleUUIDMap'[h][d] # None
    BY <2>3, <2>4, Records DEF Inv
  <2>6. HalfDeclaredOK'
    BY <1>1, <1>k, <2>1, <2>5 DEF HalfDeclaredOK, Ctx
  <2> QED
    BY <1>8, <2>6 DEF HalfDeclaredStay
<1>9. CASE CreateFails
  <2>1. /\ todo # <<>> /\ todo \in Seq(Entries) /\ Node = todo[1] /\ Node \in Entries
        /\ Node.kind = "introspect" /\ todo' = <<>>
        /\ UNCHANGED <<m_context, loading, halfDeclared, bound>>
    BY <1>9 DEF Inv, TodoOK, Node, CreateFails
  <2>2. PICK c \in Components : c = Node.id
    BY <2>1 DEF Entries, Nodes
  <2>3. ModuleOfFirst(k, c, objects[moduleInfo].uuid)
    BY <1>k, <1>9, <2>2 DEF CreateFails
  <2>4. objects[moduleInfo].uuid \in Modules
    BY <1>9, ReadsInModule
  <2>5. \A h \in Factories, d \in Components :
          componentModuleUUIDMap[h][d] # None
            => componentModuleUUIDMap'[h][d] # None
    BY <2>3, <2>4, Records DEF Inv
  <2> QED
    BY <1>2, <2>1, <2>5
<1>10. CASE NodeFails
  <2>1. /\ todo # <<>> /\ todo' = <<>>
        /\ UNCHANGED <<m_context, loading, bound, componentModuleUUIDMap>>
        /\ \/ UNCHANGED halfDeclared
           \/ /\ componentInfo # None
              /\ halfDeclared' = [halfDeclared EXCEPT ![k] = @ \union {componentInfo}]
    BY <1>10, <1>k DEF NodeFails
  <2>2. CASE UNCHANGED halfDeclared
    BY <1>2, <2>1, <2>2
  <2>3. CASE /\ componentInfo # None
             /\ halfDeclared' = [halfDeclared EXCEPT ![k] = @ \union {componentInfo}]
    <3>1. componentModuleUUIDMap[k][componentInfo] # None
      BY <1>k, <2>1, <2>3 DEF HalfDeclaredOK
    <3>2. /\ halfDeclared'[k] = halfDeclared[k] \union {componentInfo}
          /\ \A h \in Factories : h # k => halfDeclared'[h] = halfDeclared[h]
      BY <1>1, <2>3
    <3>3. HalfDeclaredOK'
      BY <1>1, <2>1, <3>1, <3>2 DEF HalfDeclaredOK
    <3> QED
      BY <2>1, <3>3 DEF HalfDeclaredStay
  <2> QED
    BY <2>1, <2>2, <2>3
<1>11. CASE DeclareModule
  <2>1. /\ UNCHANGED <<m_context, loading, halfDeclared, bound,
                       componentModuleUUIDMap>>
        /\ componentInfo' = None
    BY <1>11 DEF DeclareModule, AtNode
  <2> QED
    BY <1>2, <2>1
<1>12. CASE SkipInterfaceNode \/ DeclareAliasNode \/ ConfigureNode
  <2>1. /\ todo # <<>>
        /\ UNCHANGED <<m_context, loading, halfDeclared, bound,
                       componentModuleUUIDMap, componentInfo>>
    BY <1>12
    DEF SkipInterfaceNode, DeclareAliasNode, ConfigureNode, AtNode, registryVars
  <2> QED
    BY <1>2, <2>1
<1>13. CASE UNCHANGED vars
  <2>1. UNCHANGED <<m_context, loading, halfDeclared, bound, todo,
                    componentModuleUUIDMap, componentInfo>>
    BY <1>13 DEF vars, registryVars, loadVars
  <2> QED
    BY <2>1 DEF HalfDeclaredOK, HalfDeclaredStay, Ctx
<1> QED
  BY <1>3, <1>4, <1>5, <1>6, <1>7, <1>8, <1>9, <1>10, <1>11, <1>12, <1>13
  DEF Next, NodeStep

\* For any files, the corrected ones included: what a file left half-declared
\* gets no interface from another file.
THEOREM HalfDeclaredStayHalf == Spec => HalfDeclaredStays
<1>1. Init => HalfDeclaredOK
  BY DEF Init, HalfDeclaredOK
<1>2. Inv /\ ContextsOK /\ HalfDeclaredOK /\ [Next]_vars
        => HalfDeclaredOK' /\ [HalfDeclaredStay]_vars
  BY HalfDeclaredStep
<1>3. Inv /\ ContextsOK /\ [Next]_vars => ContextsOK'
  BY ContextStep
<1>4. Spec => [][HalfDeclaredStay]_vars
  BY <1>1, <1>2, <1>3, InitContexts, Invariant, PTL DEF Spec
<1> QED
  BY <1>4 DEF HalfDeclaredStays, HalfDeclaredStay

-----------------------------------------------------------------------------
(* The interfaces that are listed, and those that are bound.               *)

BoundTo(k, c, itfs) == \A i \in itfs : <<i, c>> \in bound[k]

\* The introspection in progress is that of m in the context k, and has still
\* to come to c.
Pending(k, m, c) ==
  /\ k = m_context[loading] /\ moduleInfo # None /\ objects[moduleInfo].uuid = m
  /\ \E j \in 1 .. Len(todo) : todo[j].kind = "introspect" /\ todo[j].id = c

\* What the object of a file lists is known, and bound, in every context where
\* the object is registered: in the one that reads the file, and in its clones.
FileObjectsBound ==
  \A k \in Factories, m \in Modules :
    modulesMap[k][m] \notin {None, m_moduleMap[m]} =>
      \A c \in Components :
        Entry(modulesMap[k][m], c) # None
          => /\ componentModuleUUIDMap[k][c] # None
             /\ BoundTo(k, c, Entry(modulesMap[k][m], c))

\* The object of an introspected module, which all factories share, lists no
\* more than the library has.
ManagerObjectsList ==
  \A m \in Modules :
    m_moduleMap[m] # None =>
      \A c \in Components :
        Entry(m_moduleMap[m], c) # None
          => c \in Listed(m) /\ Entry(m_moduleMap[m], c) \subseteq Implements[c]

\* Where it is registered, all that the library has is bound, or will be by
\* the introspection in progress; unless one introspection was cut short.
IntrospectedBound ==
  \A k \in Factories, m \in Modules :
    (/\ m \notin brokenModules
     /\ modulesMap[k][m] # None /\ modulesMap[k][m] = m_moduleMap[m])
      => \A c \in Listed(m) : Pending(k, m, c) \/ BoundTo(k, c, Implements[c])

\* An introspection fills the shared object; a file fills an object of its own,
\* registered in the context of the load if anywhere.
FillsItsObject ==
  todo # <<>> /\ moduleInfo # None =>
    /\ todo[1].kind = "introspect"
         => m_moduleMap[objects[moduleInfo].uuid] = moduleInfo
    /\ todo[1].kind # "introspect"
         => /\ m_moduleMap[objects[moduleInfo].uuid] # moduleInfo
            /\ \A h \in Factories :
                 modulesMap[h][objects[moduleInfo].uuid] = moduleInfo
                   => h = m_context[loading]

BoundInv ==
  FileObjectsBound /\ ManagerObjectsList /\ IntrospectedBound /\ FillsItsObject

\* Where nothing is being read, or a file is, no introspection has anything to
\* come.
LEMMA NothingPending ==
  ASSUME Inv, todo = <<>> \/ todo[1].kind # "introspect"
  PROVE  \A k, m, c : ~Pending(k, m, c)
<1>1. todo = <<>> \/ (Len(todo) \in Nat /\ Len(todo) > 0)
  BY DEF Inv, TodoOK
<1> QED
  BY <1>1 DEF Inv, TodoOK, Pending

\* The property: with no load in progress, an entry is one of a file or of a
\* library, and both are bound.
LEMMA BoundInvImplies == Inv /\ BoundInv => ListedInterfacesAreBound
<1> SUFFICES ASSUME Inv, BoundInv, NEW k \in Factories, NEW c \in Components,
                    todo = <<>>, componentModuleUUIDMap[k][c] # None,
                    componentModuleUUIDMap[k][c] \notin brokenModules,
                    FindComponentMetadata(k, c) # None
             PROVE  BoundTo(k, c, FindComponentMetadata(k, c))
  BY DEF ListedInterfacesAreBound, Known, BoundTo
<1>1. PICK m \in Modules : m = componentModuleUUIDMap[k][c]
  BY DEF Inv, TypeOK
<1>2. modulesMap[k][m] # None /\ FindComponentMetadata(k, c) = Entry(modulesMap[k][m], c)
  BY <1>1 DEF Inv, KnownModule, Known, FindComponentMetadata
<1>3. CASE modulesMap[k][m] # m_moduleMap[m]
  BY <1>2, <1>3 DEF BoundInv, FileObjectsBound
<1>4. CASE modulesMap[k][m] = m_moduleMap[m]
  <2>1. c \in Listed(m) /\ Entry(modulesMap[k][m], c) \subseteq Implements[c]
    BY <1>2, <1>4 DEF BoundInv, ManagerObjectsList
  <2>2. ~Pending(k, m, c)
    BY NothingPending
  <2>3. BoundTo(k, c, Implements[c])
    BY <1>1, <1>2, <1>4, <2>1, <2>2 DEF BoundInv, IntrospectedBound
  <2> QED
    BY <1>2, <2>1, <2>3 DEF BoundTo
<1> QED
  BY <1>3, <1>4

\* Steps that touch neither modules nor components, outside introspections.
LEMMA QuietBound ==
  ASSUME Inv, BoundInv, todo = <<>> \/ todo[1].kind # "introspect",
         UNCHANGED <<modulesMap, componentModuleUUIDMap, bound, m_moduleMap,
                     objects, brokenModules>>
  PROVE  FileObjectsBound' /\ ManagerObjectsList' /\ IntrospectedBound'
<1>1. FileObjectsBound'
  BY DEF BoundInv, FileObjectsBound, Entry, BoundTo
<1>2. ManagerObjectsList'
  BY DEF BoundInv, ManagerObjectsList, Entry, Listed
<1>3. \A k \in Factories, m \in Modules :
        (/\ m \notin brokenModules
         /\ modulesMap[k][m] # None /\ modulesMap[k][m] = m_moduleMap[m])
          => \A c \in Listed(m) : \A i \in Implements[c] : <<i, c>> \in bound[k]
  BY NothingPending DEF BoundInv, IntrospectedBound, BoundTo
<1>4. IntrospectedBound'
  BY <1>3 DEF IntrospectedBound, BoundTo, Listed
<1> QED
  BY <1>1, <1>2, <1>4

\* A node that is no component and no interface.
LEMMA PlainNodeBound ==
  ASSUME Inv, BoundInv,
         SkipInterfaceNode \/ DeclareAliasNode \/ ConfigureNode \/ NodeFails
  PROVE  BoundInv'
<1> USE DEF Inv
<1>1. /\ todo # <<>> /\ todo' \in {<<>>, Tail(todo)}
      /\ UNCHANGED <<m_context, loading, moduleInfo>>
      /\ UNCHANGED <<modulesMap, componentModuleUUIDMap, bound, m_moduleMap,
                     objects, brokenModules>>
  BY DEF SkipInterfaceNode, DeclareAliasNode, ConfigureNode, NodeFails, AtNode,
         registryVars
<1>2. /\ Node = todo[1] /\ Node \in Entries /\ Len(todo) > 0
      /\ todo \in Seq(Entries)
  BY <1>1 DEF TodoOK, Node
<1>3. todo[1].kind # "introspect"
  <2>1. CASE NodeFails
    <3>1. todo[1].id = Invalid
      BY <1>2, <2>1 DEF NodeFails
    <3>2. Invalid \notin Components
      BY InvalidAssumption DEF Uuids
    <3> QED
      BY <1>2, <3>1, <3>2 DEF Entries, Nodes
  <2>2. CASE SkipInterfaceNode \/ DeclareAliasNode \/ ConfigureNode
    BY <1>2, <2>2 DEF SkipInterfaceNode, DeclareAliasNode, ConfigureNode, AtNode
  <2> QED
    BY <2>1, <2>2
<1>4. todo' # <<>> => todo'[1].kind # "introspect"
  <2>1. \A j \in 1 .. Len(todo) : todo[j].kind # "introspect"
    BY <1>2, <1>3 DEF TodoOK
  <2>2. ASSUME todo' = Tail(todo), todo' # <<>>
        PROVE  todo'[1].kind # "introspect"
    BY <1>2, <2>1, <2>2
  <2> QED
    BY <1>1, <2>2
<1>5. FillsItsObject'
  BY <1>1, <1>3, <1>4 DEF BoundInv, FillsItsObject
<1> QED
  BY <1>1, <1>3, <1>5, QuietBound DEF BoundInv

\* A module of a file gets an object that lists nothing yet.
LEMMA DeclareModuleBound ==
  ASSUME Inv, BoundInv, DeclareModule
  PROVE  BoundInv'
<1> PICK k \in Factories : k = m_context[loading] /\ k = Ctx
  BY DEF Inv, TypeOK, Ctx
<1> PICK n : n = Len(objects) + 1
  OBVIOUS
<1>1. /\ todo # <<>> /\ todo' = Tail(todo) /\ Node.kind = "module"
      /\ Node.id # Invalid
      /\ UNCHANGED <<m_context, loading, componentModuleUUIDMap, bound,
                     m_moduleMap, brokenModules>>
      /\ objects' = Append(objects, NewModule(Node.id))
      /\ moduleInfo' = n /\ AddModuleMetadata(k, Node.id, n)
  BY DEF DeclareModule, AtNode
<1>2. /\ TodoOK /\ TodoOK' /\ todo[1] = Node /\ NodeOK(Node) /\ Len(todo) > 0
      /\ todo \in Seq(Entries)
      /\ \A j \in 1 .. Len(todo') : todo'[j] = todo[j + 1] /\ j + 1 \in 1 .. Len(todo)
  BY <1>1, Shortened DEF Inv, TodoOK
<1>3. PICK m \in Modules : m = Node.id
  BY <1>1, <1>2 DEF NodeOK
<1>4. /\ objects \in Seq(ModuleObjects) /\ n \in Nat /\ n \notin 1 .. Len(objects)
      /\ objects'[n] = NewModule(m)
      /\ \A i \in 1 .. Len(objects) : objects'[i] = objects[i]
  <2>1. objects \in Seq(ModuleObjects) /\ NewModule(m) \in ModuleObjects
    BY DEF Inv, TypeOK, NewModule, ModuleObjects, Unknown
  <2> QED
    BY <1>1, <1>3, <2>1, Appended
<1>5. /\ \A h \in Factories, p \in Modules :
           modulesMap[h][p] # None => modulesMap[h][p] \in 1 .. Len(objects)
      /\ \A p \in Modules :
           m_moduleMap[p] # None => m_moduleMap[p] \in 1 .. Len(objects)
  BY DEF Inv, TypeOK, Objects
<1>6. \A h \in Factories, p \in Modules :
        \/ modulesMap'[h][p] = modulesMap[h][p]
        \/ h = k /\ p = m /\ modulesMap'[h][p] = n
  <2>1. CASE modulesMap[k][m] = None
    BY <1>1, <1>3, <2>1 DEF AddModuleMetadata, Inv, TypeOK
  <2>2. CASE modulesMap[k][m] # None
    BY <1>1, <1>3, <2>2 DEF AddModuleMetadata
  <2> QED
    BY <2>1, <2>2
<1>7. FileObjectsBound'
  <2> SUFFICES ASSUME NEW h \in Factories, NEW p \in Modules, NEW c \in Components,
                      modulesMap'[h][p] \notin {None, m_moduleMap[p]},
                      objects'[modulesMap'[h][p]].components[c] # None
               PROVE  /\ componentModuleUUIDMap[h][c] # None
                      /\ \A i \in objects'[modulesMap'[h][p]].components[c] :
                           <<i, c>> \in bound[h]
    BY <1>1 DEF FileObjectsBound, Entry, BoundTo
  <2>1. modulesMap'[h][p] # n
    BY <1>4 DEF NewModule, Unknown
  <2>2. modulesMap'[h][p] = modulesMap[h][p] /\ modulesMap[h][p] \in 1 .. Len(objects)
    BY <1>5, <1>6, <2>1
  <2>3. objects'[modulesMap'[h][p]] = objects[modulesMap[h][p]]
    BY <1>4, <2>2
  <2> QED
    BY <2>2, <2>3 DEF BoundInv, FileObjectsBound, Entry, BoundTo
<1>8. ManagerObjectsList'
  BY <1>1, <1>4, <1>5 DEF BoundInv, ManagerObjectsList, Entry, Listed
<1>9. IntrospectedBound'
  <2>1. \A h \in Factories, p \in Modules :
          modulesMap'[h][p] # None /\ modulesMap'[h][p] = m_moduleMap[p]
            => modulesMap'[h][p] = modulesMap[h][p]
    BY <1>4, <1>5, <1>6
  <2>2. \A h \in Factories, p \in Modules :
          (/\ p \notin brokenModules
           /\ modulesMap[h][p] # None /\ modulesMap[h][p] = m_moduleMap[p])
            => \A c \in Listed(p) : BoundTo(h, c, Implements[c])
    BY <1>1, <1>2, NothingPending DEF BoundInv, IntrospectedBound
  <2> QED
    BY <1>1, <2>1, <2>2 DEF IntrospectedBound, BoundTo, Listed
<1>10. FillsItsObject'
  <2>1. objects'[moduleInfo'].uuid = m
    BY <1>1, <1>4 DEF NewModule
  <2>2. m_moduleMap[m] # n
    BY <1>4, <1>5, NoneAssumption
  <2>3. \A h \in Factories : modulesMap'[h][m] = n => h = k
    BY <1>4, <1>5, <1>6, NoneAssumption
  <2>4. todo' # <<>> => todo'[1].kind # "introspect"
    <3>1. \A j \in 1 .. Len(todo) : todo[j].kind # "introspect"
      BY <1>1, <1>2 DEF TodoOK
    <3> QED
      BY <1>2, <3>1 DEF TodoOK
  <2> QED
    BY <1>1, <2>1, <2>2, <2>3, <2>4 DEF FillsItsObject
<1> QED
  BY <1>7, <1>8, <1>9, <1>10 DEF BoundInv

\* An autobind of a step is there after it, with those that were.
LEMMA AutobindsAdd ==
  ASSUME TypeOK, NEW k \in Factories, NEW c \in Components,
         NEW itfs \in SUBSET Interfaces, Autobind(k, c, itfs)
  PROVE  /\ \A h \in Factories : bound[h] \subseteq bound'[h]
         /\ \A i \in itfs : <<i, c>> \in bound'[k]
<1> DEFINE pairs == itfs \X {c}
           every == Interfaces \X Components
<1>1. bound \in [Factories -> SUBSET every] /\ \A i \in itfs : <<i, c>> \in pairs
  BY DEF TypeOK
<1>2. bound' = [bound EXCEPT ![k] = @ \union pairs]
  BY DEF Autobind
<1> HIDE DEF pairs, every
<1>3. /\ \A h \in Factories : bound[h] \subseteq bound'[h]
      /\ pairs \subseteq bound'[k]
  BY <1>1, <1>2
<1> QED
  BY <1>1, <1>3

\* A node of a file that gives the component c the interfaces v in the object
\* of the load: they are bound where that object is registered, if it is.
LEMMA FileFillsBound ==
  ASSUME Inv, BoundInv, todo # <<>>, todo[1].kind # "introspect",
         todo' = Tail(todo), moduleInfo \in Objects, moduleInfo # None,
         UNCHANGED <<m_context, loading, moduleInfo, modulesMap, m_moduleMap,
                     brokenModules>>,
         NEW c \in Components, NEW v \in SUBSET Interfaces,
         objects' = WithEntry(objects, moduleInfo, c, v),
         \A h \in Factories : bound[h] \subseteq bound'[h],
         \A h \in Factories, d \in Components :
           componentModuleUUIDMap[h][d] # None
             => componentModuleUUIDMap'[h][d] # None,
         NEW k \in Factories, k = m_context[loading],
         modulesMap[k][objects[moduleInfo].uuid] = moduleInfo
           => /\ componentModuleUUIDMap'[k][c] # None
              /\ \A i \in v : <<i, c>> \in bound'[k]
  PROVE  BoundInv'
<1> PICK o \in 1 .. Len(objects) : o = moduleInfo
  BY DEF Objects
<1>1. objects \in Seq(ModuleObjects) /\ objects[o] \in ModuleObjects
  BY DEF Inv, TypeOK
<1> PICK m \in Modules : m = objects[o].uuid
  BY <1>1 DEF ModuleObjects
<1>2. /\ objects'[o].uuid = m
      /\ objects'[o].components[c] = v
      /\ \A i \in 1 .. Len(objects), d \in Components :
           i # o \/ d # c => objects'[i].components[d] = objects[i].components[d]
  BY <1>1, Filled
<1>3. /\ m_moduleMap[m] # o
      /\ \A h \in Factories : modulesMap[h][m] = o => h = k
  BY DEF BoundInv, FillsItsObject
<1>4. \A p \in Modules :
        m_moduleMap[p] # None => m_moduleMap[p] \in 1 .. Len(objects) /\ m_moduleMap[p] # o
  BY <1>3 DEF Inv, TypeOK, ManagerOK, Objects
<1>5. \A h \in Factories, p \in Modules :
        modulesMap[h][p] # None
          => /\ modulesMap[h][p] \in 1 .. Len(objects)
             /\ modulesMap[h][p] = o => p = m
  BY DEF Inv, TypeOK, Objects
<1>6. FileObjectsBound'
  <2> SUFFICES ASSUME NEW h \in Factories, NEW p \in Modules, NEW d \in Components,
                      modulesMap[h][p] \notin {None, m_moduleMap[p]},
                      objects'[modulesMap[h][p]].components[d] # None
               PROVE  /\ componentModuleUUIDMap'[h][d] # None
                      /\ \A i \in objects'[modulesMap[h][p]].components[d] :
                           <<i, d>> \in bound'[h]
    BY DEF FileObjectsBound, Entry, BoundTo
  <2>1. CASE modulesMap[h][p] = o /\ d = c
    BY <1>2, <1>3, <1>5, <2>1
  <2>2. CASE modulesMap[h][p] # o \/ d # c
    <3>1. objects'[modulesMap[h][p]].components[d]
            = objects[modulesMap[h][p]].components[d]
      BY <1>2, <1>5, <2>2
    <3>2. /\ componentModuleUUIDMap[h][d] # None
          /\ \A i \in objects[modulesMap[h][p]].components[d] : <<i, d>> \in bound[h]
      BY <3>1 DEF BoundInv, FileObjectsBound, Entry, BoundTo
    <3> QED
      BY <3>1, <3>2
  <2> QED
    BY <2>1, <2>2
<1>7. ManagerObjectsList'
  BY <1>2, <1>4 DEF BoundInv, ManagerObjectsList, Entry, Listed
<1>8. IntrospectedBound'
  <2>1. \A h \in Factories, p \in Modules :
          (/\ p \notin brokenModules
           /\ modulesMap[h][p] # None /\ modulesMap[h][p] = m_moduleMap[p])
            => \A d \in Listed(p) : \A i \in Implements[d] : <<i, d>> \in bound[h]
    BY NothingPending DEF BoundInv, IntrospectedBound, BoundTo
  <2> QED
    BY <2>1 DEF IntrospectedBound, BoundTo, Listed
<1>9. todo' # <<>> => todo'[1].kind # "introspect"
  BY DEF Inv, TodoOK
<1>10. FillsItsObject'
  BY <1>2, <1>3, <1>9 DEF FillsItsObject
<1> QED
  BY <1>6, <1>7, <1>8, <1>10 DEF BoundInv

\* A component of a file is skipped, or listed without interfaces and known.
LEMMA DeclareComponentBound ==
  ASSUME Inv, BoundInv, DeclareComponent
  PROVE  BoundInv'
<1> PICK k \in Factories : k = m_context[loading] /\ k = Ctx
  BY DEF Inv, TypeOK, Ctx
<1>1. /\ todo # <<>> /\ todo' = Tail(todo) /\ Node.kind = "component"
      /\ Node.id # Invalid
      /\ UNCHANGED <<m_context, loading, moduleInfo>>
      /\ UNCHANGED <<modulesMap, bound, m_moduleMap, brokenModules>>
  BY DEF DeclareComponent, AtNode
<1>2. todo[1] = Node /\ todo[1].kind # "introspect" /\ NodeOK(Node)
  BY <1>1, Shortened DEF Inv
<1>3. PICK c \in Components : c = Node.id
  BY <1>1, <1>2 DEF NodeOK
<1>4. /\ moduleInfo \in Objects /\ moduleInfo # None
      /\ objects[moduleInfo].uuid \in Modules
  BY ReadsInModule
<1>5. CASE ~ReadsComponent(c)
  <2>1. UNCHANGED <<componentModuleUUIDMap, objects>>
    BY <1>3, <1>5 DEF DeclareComponent
  <2>2. FileObjectsBound' /\ ManagerObjectsList' /\ IntrospectedBound'
    BY <1>1, <1>2, <2>1, QuietBound
  <2>3. todo' # <<>> => todo'[1].kind # "introspect"
    BY <1>1, <1>2 DEF Inv, TodoOK
  <2>4. FillsItsObject'
    BY <1>1, <1>2, <2>1, <2>3 DEF BoundInv, FillsItsObject
  <2> QED
    BY <2>2, <2>4 DEF BoundInv
<1>6. CASE ReadsComponent(c)
  <2>1. /\ ModuleOfFirst(k, c, objects[moduleInfo].uuid)
        /\ objects' = WithEntry(objects, moduleInfo, c, {})
    BY <1>3, <1>6 DEF DeclareComponent
  <2>2. /\ componentModuleUUIDMap'[k][c] # None
        /\ \A h \in Factories, d \in Components :
             componentModuleUUIDMap[h][d] # None
               => componentModuleUUIDMap'[h][d] # None
    BY <1>4, <2>1, Records DEF Inv
  <2>3. {} \in SUBSET Interfaces
    OBVIOUS
  <2>4. \A h \in Factories : bound[h] \subseteq bound'[h]
    BY <1>1
  <2> QED
    BY <1>1, <1>2, <1>4, <2>1, <2>2, <2>3, <2>4, FileFillsBound
<1> QED
  BY <1>5, <1>6

\* An interface of a file is listed for the component, and bound to it.
LEMMA DeclareInterfaceNodeBound ==
  ASSUME Inv, BoundInv, DeclareInterfaceNode
  PROVE  BoundInv'
<1> PICK k \in Factories : k = m_context[loading] /\ k = Ctx
  BY DEF Inv, TypeOK, Ctx
<1>1. /\ todo # <<>> /\ todo' = Tail(todo) /\ Node.kind = "interface"
      /\ Node.id # Invalid /\ componentInfo # None
      /\ UNCHANGED <<m_context, loading, moduleInfo, modulesMap, m_moduleMap,
                     brokenModules>>
      /\ UNCHANGED componentModuleUUIDMap
      /\ Autobind(k, componentInfo, {Node.id})
  BY DEF DeclareInterfaceNode, AtNode, BindsInterface
<1>2. todo[1] = Node /\ todo[1].kind # "introspect" /\ NodeOK(Node)
  BY <1>1, Shortened DEF Inv
<1>3. PICK c \in Components, i \in Interfaces : c = componentInfo /\ i = Node.id
  BY <1>1, <1>2 DEF NodeOK, Inv, TypeOK
<1>4. moduleInfo \in Objects /\ moduleInfo # None /\ Entry(moduleInfo, c) # None
  BY <1>1, <1>3 DEF Inv, LoadOK, TypeOK, Entry
<1>5. PICK m \in Modules : m = objects[moduleInfo].uuid
  <2>1. objects \in Seq(ModuleObjects) /\ moduleInfo \in 1 .. Len(objects)
    BY <1>4 DEF Inv, TypeOK, Objects
  <2>2. objects[moduleInfo] \in ModuleObjects
    BY <2>1
  <2> QED
    BY <2>2 DEF ModuleObjects
<1>6. PICK v \in SUBSET Interfaces : v = Entry(moduleInfo, c) \union {i}
  <2>1. objects \in Seq(ModuleObjects) /\ moduleInfo \in 1 .. Len(objects)
    BY <1>4 DEF Inv, TypeOK, Objects
  <2>2. objects[moduleInfo] \in ModuleObjects
    BY <2>1
  <2> QED
    BY <1>4, <2>2 DEF ModuleObjects, Entry
<1>7. objects' = WithEntry(objects, moduleInfo, c, v)
  BY <1>3, <1>6 DEF DeclareInterfaceNode
<1>8. /\ \A h \in Factories : bound[h] \subseteq bound'[h]
      /\ <<i, c>> \in bound'[k]
  <2>1. Autobind(k, c, {i}) /\ {i} \in SUBSET Interfaces
    BY <1>1, <1>3
  <2> QED
    BY <2>1, AutobindsAdd DEF Inv
<1>9. modulesMap[k][m] = moduleInfo
        => /\ componentModuleUUIDMap'[k][c] # None
           /\ \A x \in v : <<x, c>> \in bound'[k]
  <2> HAVE modulesMap[k][m] = moduleInfo
  <2>1. m_moduleMap[m] # moduleInfo
    BY <1>1, <1>2, <1>4, <1>5 DEF BoundInv, FillsItsObject
  <2>2. /\ componentModuleUUIDMap[k][c] # None
        /\ \A x \in Entry(moduleInfo, c) : <<x, c>> \in bound[k]
    BY <1>4, <2>1 DEF BoundInv, FileObjectsBound, BoundTo
  <2> QED
    BY <1>1, <1>6, <1>8, <2>2
<1> QED
  BY <1>1, <1>2, <1>4, <1>5, <1>7, <1>8, <1>9, FileFillsBound

\* A component of a library: what the library has of it is bound at once, in
\* the context of the load; the others are still to come.
LEMMA DeclareIntrospectedBound ==
  ASSUME Inv, BoundInv, DeclareIntrospected
  PROVE  BoundInv'
<1> PICK k \in Factories : k = m_context[loading] /\ k = Ctx
  BY DEF Inv, TypeOK, Ctx
<1>1. /\ todo # <<>> /\ todo' = Tail(todo) /\ Node.kind = "introspect"
      /\ UNCHANGED <<m_context, loading, moduleInfo, modulesMap, m_moduleMap,
                     brokenModules>>
  BY DEF DeclareIntrospected, AtNode
<1>2. /\ TodoOK' /\ Node = todo[1] /\ Node \in Entries
      /\ Len(todo') = Len(todo) - 1
      /\ \A j \in 1 .. Len(todo') : todo'[j] = todo[j + 1] /\ j + 1 \in 1 .. Len(todo)
  BY <1>1, Shortened DEF Inv
<1>3. Len(todo) \in Nat /\ Len(todo) > 0
  BY <1>1 DEF Inv, TodoOK
<1>4. PICK c \in Components : c = Node.id
  BY <1>1, <1>2 DEF Entries, Nodes
<1>5. PICK o \in 1 .. Len(objects) : o = moduleInfo
  BY ReadsInModule DEF Objects
<1>6. PICK m \in Modules : m = objects[o].uuid
  BY <1>5, ReadsInModule
<1>7. /\ m_moduleMap[m] = o /\ moduleInfo # None
      /\ Entry(o, c) # None
      /\ c \in Listed(m) /\ Entry(o, c) \subseteq Implements[c]
  <2>1. moduleInfo # None /\ m_moduleMap[m] = o
    BY <1>1, <1>2, <1>5, <1>6, ReadsInModule DEF BoundInv, FillsItsObject
  <2>2. Entry(o, c) # None
    BY <1>1, <1>2, <1>3, <1>4, <1>5 DEF Inv, LoadOK, Entry
  <2> QED
    BY <1>5, <2>1, <2>2 DEF BoundInv, ManagerObjectsList
<1>8. PICK v \in SUBSET Interfaces : v = Entry(o, c) \union Implements[c]
  BY <1>7, ImplementsAssumption
<1>9. /\ v \subseteq Implements[c]
      /\ objects' = WithEntry(objects, o, c, v)
      /\ ModuleOfFirst(k, c, m) /\ Autobind(k, c, Implements[c])
  BY <1>4, <1>5, <1>6, <1>7, <1>8 DEF DeclareIntrospected
<1>10. /\ objects'[o].uuid = m
       /\ objects'[o].components[c] = v
       /\ \A i \in 1 .. Len(objects), d \in Components :
            i # o \/ d # c => objects'[i].components[d] = objects[i].components[d]
  <2>1. objects \in Seq(ModuleObjects)
    BY DEF Inv, TypeOK
  <2> QED
    BY <1>6, <1>9, <2>1, Filled
<1>11. /\ \A h \in Factories : bound[h] \subseteq bound'[h]
       /\ \A i \in Implements[c] : <<i, c>> \in bound'[k]
  BY <1>9, ImplementsAssumption, AutobindsAdd DEF Inv
<1>12. \A h \in Factories, d \in Components :
         componentModuleUUIDMap[h][d] # None
           => componentModuleUUIDMap'[h][d] # None
  BY <1>9, Records DEF Inv
<1>13. \A h \in Factories, p \in Modules :
         modulesMap[h][p] # None
           => /\ modulesMap[h][p] \in 1 .. Len(objects)
              /\ modulesMap[h][p] = o => p = m
  BY <1>6 DEF Inv, TypeOK, Objects
<1>14. FileObjectsBound'
  <2> SUFFICES ASSUME NEW h \in Factories, NEW p \in Modules, NEW d \in Components,
                      modulesMap[h][p] \notin {None, m_moduleMap[p]},
                      objects'[modulesMap[h][p]].components[d] # None
               PROVE  /\ componentModuleUUIDMap'[h][d] # None
                      /\ \A i \in objects'[modulesMap[h][p]].components[d] :
                           <<i, d>> \in bound'[h]
    BY <1>1 DEF FileObjectsBound, Entry, BoundTo
  <2>1. modulesMap[h][p] # o
    BY <1>7, <1>13
  <2>2. objects'[modulesMap[h][p]].components[d]
          = objects[modulesMap[h][p]].components[d]
    BY <1>10, <1>13, <2>1
  <2>3. /\ componentModuleUUIDMap[h][d] # None
        /\ \A i \in objects[modulesMap[h][p]].components[d] : <<i, d>> \in bound[h]
    BY <2>2 DEF BoundInv, FileObjectsBound, Entry, BoundTo
  <2> QED
    BY <1>11, <1>12, <2>2, <2>3
<1>15. ManagerObjectsList'
  <2> SUFFICES ASSUME NEW p \in Modules, m_moduleMap[p] # None, NEW d \in Components,
                      objects'[m_moduleMap[p]].components[d] # None
               PROVE  /\ d \in Listed(p)
                      /\ objects'[m_moduleMap[p]].components[d] \subseteq Implements[d]
    BY <1>1 DEF ManagerObjectsList, Entry, Listed
  <2>1. m_moduleMap[p] \in 1 .. Len(objects) /\ (m_moduleMap[p] = o => p = m)
    BY <1>6 DEF Inv, TypeOK, Objects, ManagerOK
  <2>2. CASE m_moduleMap[p] = o /\ d = c
    BY <1>7, <1>9, <1>10, <2>1, <2>2
  <2>3. CASE m_moduleMap[p] # o \/ d # c
    <3>1. objects'[m_moduleMap[p]].components[d] = objects[m_moduleMap[p]].components[d]
      BY <1>10, <2>1, <2>3
    <3> QED
      BY <3>1 DEF BoundInv, ManagerObjectsList, Entry
  <2> QED
    BY <2>2, <2>3
<1>16. IntrospectedBound'
  <2> SUFFICES ASSUME NEW h \in Factories, NEW p \in Modules, p \notin brokenModules,
                      modulesMap[h][p] # None, modulesMap[h][p] = m_moduleMap[p],
                      NEW d \in Listed(p)
               PROVE  Pending(h, p, d)' \/ BoundTo(h, d, Implements[d])'
    BY <1>1 DEF IntrospectedBound, Listed
  <2>1. Pending(h, p, d) \/ BoundTo(h, d, Implements[d])
    BY DEF BoundInv, IntrospectedBound
  <2>2. CASE BoundTo(h, d, Implements[d])
    BY <1>11, <2>2 DEF BoundTo
  <2>3. CASE Pending(h, p, d)
    <3>1. h = k /\ p = m
      BY <1>5, <1>6, <2>3 DEF Pending
    <3>2. PICK j \in 1 .. Len(todo) : todo[j].kind = "introspect" /\ todo[j].id = d
      BY <2>3 DEF Pending
    <3>3. CASE j = 1
      BY <1>2, <1>4, <1>11, <3>1, <3>2, <3>3 DEF BoundTo
    <3>4. CASE j # 1
      <4>1. j - 1 \in 1 .. Len(todo') /\ todo'[j - 1] = todo[j]
        BY <1>2, <1>3, <3>4
      <4> QED
        BY <1>1, <1>5, <1>7, <1>10, <3>1, <3>2, <4>1 DEF Pending
    <3> QED
      BY <3>3, <3>4
  <2> QED
    BY <2>1, <2>2, <2>3
<1>17. FillsItsObject'
  <2>1. todo' # <<>> => todo'[1].kind = "introspect"
    BY <1>1, <1>2 DEF Inv, TodoOK
  <2> QED
    BY <1>1, <1>5, <1>7, <1>10, <2>1 DEF FillsItsObject
<1> QED
  BY <1>14, <1>15, <1>16, <1>17 DEF BoundInv

\* An introspection that is cut short leaves its module among the broken ones.
LEMMA CreateFailsBound ==
  ASSUME Inv, BoundInv, CreateFails
  PROVE  BoundInv'
<1> PICK k \in Factories : k = m_context[loading] /\ k = Ctx
  BY DEF Inv, TypeOK, Ctx
<1>1. /\ todo # <<>> /\ todo' = <<>> /\ Node.kind = "introspect"
      /\ UNCHANGED <<modulesMap, m_moduleMap, bound, objects>>
      /\ brokenModules' = brokenModules \union {objects[moduleInfo].uuid}
  BY DEF CreateFails
<1>2. PICK c \in Components : c = Node.id
  BY <1>1 DEF Inv, TodoOK, Entries, Nodes, Node
<1>3. \A h \in Factories, d \in Components :
        componentModuleUUIDMap[h][d] # None => componentModuleUUIDMap'[h][d] # None
  <2>1. ModuleOfFirst(k, c, objects[moduleInfo].uuid)
    BY <1>2 DEF CreateFails
  <2> QED
    BY <2>1, ReadsInModule, Records DEF Inv
<1>4. FileObjectsBound'
  BY <1>1, <1>3 DEF BoundInv, FileObjectsBound, Entry, BoundTo
<1>5. ManagerObjectsList'
  BY <1>1 DEF BoundInv, ManagerObjectsList, Entry, Listed
<1>6. \A h, p, d : Pending(h, p, d) => p \in brokenModules'
  BY <1>1 DEF Pending
<1>7. \A h \in Factories, p \in Modules :
        (/\ p \notin brokenModules'
         /\ modulesMap[h][p] # None /\ modulesMap[h][p] = m_moduleMap[p])
          => \A d \in Listed(p) : BoundTo(h, d, Implements[d])
  BY <1>1, <1>6 DEF BoundInv, IntrospectedBound
<1>8. IntrospectedBound'
  BY <1>1, <1>7 DEF IntrospectedBound, BoundTo, Listed
<1>9. FillsItsObject'
  BY <1>1 DEF FillsItsObject
<1> QED
  BY <1>4, <1>5, <1>8, <1>9 DEF BoundInv

\* A file that begins reads into no object yet.
LEMMA LoadLibraryBound ==
  ASSUME Inv, BoundInv, NEW f \in Factories, NEW file \in Files, LoadLibrary(f, file)
  PROVE  BoundInv'
<1>1. /\ todo = <<>> /\ moduleInfo' = None
      /\ UNCHANGED <<modulesMap, componentModuleUUIDMap, bound, m_moduleMap,
                     objects, brokenModules>>
  BY DEF LoadLibrary, Begin, registryVars
<1>2. FillsItsObject'
  BY <1>1 DEF FillsItsObject
<1> QED
  BY <1>1, <1>2, QuietBound DEF BoundInv

\* A context that is cleared has no module, and the objects stay.
LEMMA ClearBound ==
  ASSUME Inv, BoundInv, NEW f \in Factories, Clear(f)
  PROVE  BoundInv'
<1>1. PICK k \in Factories : k = m_context[f]
  BY DEF Clear, Begin, Inv, TypeOK
<1>2. /\ todo = <<>> /\ todo' = <<>>
      /\ UNCHANGED <<m_moduleMap, objects, brokenModules>>
  BY DEF Clear, Begin, loadVars
<1>3. \A h \in Factories :
        \/ /\ modulesMap'[h] = modulesMap[h]
           /\ componentModuleUUIDMap'[h] = componentModuleUUIDMap[h]
           /\ bound'[h] = bound[h]
        \/ \A p \in Modules : modulesMap'[h][p] = None
  BY <1>1 DEF Clear, ClearModules, NoModules, Inv, TypeOK
<1>4. FileObjectsBound'
  BY <1>2, <1>3 DEF BoundInv, FileObjectsBound, Entry, BoundTo
<1>5. ManagerObjectsList'
  BY <1>2 DEF BoundInv, ManagerObjectsList, Entry, Listed
<1>6. \A h \in Factories, p \in Modules :
        (/\ p \notin brokenModules
         /\ modulesMap[h][p] # None /\ modulesMap[h][p] = m_moduleMap[p])
          => \A d \in Listed(p) : BoundTo(h, d, Implements[d])
  BY <1>2, NothingPending DEF BoundInv, IntrospectedBound
<1>7. IntrospectedBound'
  BY <1>2, <1>3, <1>6 DEF IntrospectedBound, BoundTo, Listed
<1>8. FillsItsObject'
  BY <1>2 DEF FillsItsObject
<1> QED
  BY <1>4, <1>5, <1>7, <1>8 DEF BoundInv

\* A new factory has an empty context, a shared one, or a copy: what was bound
\* to what is copied with it.
LEMMA CreateNewFactoryContextBound ==
  ASSUME Inv, BoundInv, NEW f \in Factories, NEW new \in Factories,
         NEW mode \in {"Empty", "Cloned", "Shared"},
         CreateNewFactoryContext(f, new, mode)
  PROVE  BoundInv'
<1>1. PICK k \in Factories : k = m_context[f]
  BY DEF CreateNewFactoryContext, Begin, Inv, TypeOK
<1>2. /\ todo = <<>> /\ todo' = <<>>
      /\ UNCHANGED <<m_moduleMap, objects, brokenModules>>
  BY DEF CreateNewFactoryContext, Begin, loadVars
<1>3. \A h \in Factories : \E g \in Factories :
        /\ modulesMap'[h] = modulesMap[g]
        /\ componentModuleUUIDMap'[h] = componentModuleUUIDMap[g]
        /\ bound'[h] = bound[g]
  <2>1. CASE mode = "Cloned"
    <3>1. CopyContext(k, new)
      BY <1>1, <2>1 DEF CreateNewFactoryContext
    <3>2. \A h \in Factories :
            IF h = new
              THEN /\ modulesMap'[h] = modulesMap[k]
                   /\ componentModuleUUIDMap'[h] = componentModuleUUIDMap[k]
                   /\ bound'[h] = bound[k]
              ELSE /\ modulesMap'[h] = modulesMap[h]
                   /\ componentModuleUUIDMap'[h] = componentModuleUUIDMap[h]
                   /\ bound'[h] = bound[h]
      BY <3>1 DEF CopyContext, Inv, TypeOK
    <3> QED
      BY <1>1, <3>2
  <2>2. CASE mode # "Cloned"
    BY <2>2 DEF CreateNewFactoryContext, registryVars
  <2> QED
    BY <2>1, <2>2
<1>4. FileObjectsBound'
  <2> SUFFICES ASSUME NEW h \in Factories, NEW p \in Modules, NEW d \in Components,
                      modulesMap'[h][p] \notin {None, m_moduleMap[p]},
                      objects[modulesMap'[h][p]].components[d] # None
               PROVE  /\ componentModuleUUIDMap'[h][d] # None
                      /\ \A i \in objects[modulesMap'[h][p]].components[d] :
                           <<i, d>> \in bound'[h]
    BY <1>2 DEF FileObjectsBound, Entry, BoundTo
  <2>1. PICK g \in Factories :
          /\ modulesMap'[h] = modulesMap[g]
          /\ componentModuleUUIDMap'[h] = componentModuleUUIDMap[g]
          /\ bound'[h] = bound[g]
    BY <1>3
  <2> QED
    BY <2>1 DEF BoundInv, FileObjectsBound, Entry, BoundTo
<1>5. ManagerObjectsList'
  BY <1>2 DEF BoundInv, ManagerObjectsList, Entry, Listed
<1>6. \A h \in Factories, p \in Modules :
        (/\ p \notin brokenModules
         /\ modulesMap[h][p] # None /\ modulesMap[h][p] = m_moduleMap[p])
          => \A d \in Listed(p) : \A i \in Implements[d] : <<i, d>> \in bound[h]
  BY <1>2, NothingPending DEF BoundInv, IntrospectedBound, BoundTo
<1>7. IntrospectedBound'
  <2> SUFFICES ASSUME NEW h \in Factories, NEW p \in Modules, p \notin brokenModules,
                      modulesMap'[h][p] # None, modulesMap'[h][p] = m_moduleMap[p],
                      NEW d \in Listed(p)
               PROVE  \A i \in Implements[d] : <<i, d>> \in bound'[h]
    BY <1>2 DEF IntrospectedBound, BoundTo, Listed
  <2>1. PICK g \in Factories :
          modulesMap'[h] = modulesMap[g] /\ bound'[h] = bound[g]
    BY <1>3
  <2> QED
    BY <1>6, <2>1
<1>8. FillsItsObject'
  BY <1>2 DEF FillsItsObject
<1> QED
  BY <1>4, <1>5, <1>7, <1>8 DEF BoundInv

\* What the introspection of a module by a factory of the context k does: o is
\* the object of the first time, or a new one that lists the components of the
\* library without interfaces; and all of them are to come.
Introspecting(k, m, o) ==
  /\ moduleInfo' = o /\ objects'[o].uuid = m
  /\ m_moduleMap'[m] = o
  /\ \A p \in Modules : p # m => m_moduleMap'[p] = m_moduleMap[p]
  /\ \A i \in 1 .. Len(objects) : objects'[i] = objects[i]
  /\ m_moduleMap[m] = None =>
       /\ o \notin 1 .. Len(objects)
       /\ objects'[o].components
            = [c \in Components |-> IF c \in Listed(m) THEN {} ELSE None]
  /\ m_moduleMap[m] # None => o \in 1 .. Len(objects) /\ o = m_moduleMap[m]
  /\ \A h \in Factories, p \in Modules :
       \/ modulesMap'[h][p] = modulesMap[h][p]
       \/ h = k /\ p = m /\ modulesMap'[h][p] = o
  /\ \A c \in Listed(m) :
       \E j \in 1 .. Len(todo') : todo'[j].kind = "introspect" /\ todo'[j].id = c
  /\ todo' # <<>> => todo'[1].kind = "introspect"

\* loadModuleMetadata, of a module that is new or not, is such a step.
LEMMA Introspects ==
  ASSUME Inv, NEW f \in Factories, NEW m \in Modules, LoadModuleMetadata(f, m)
  PROVE  ObjectOf(m) \in Nat /\ Introspecting(m_context[f], m, ObjectOf(m))
<1> DEFINE listing == [c \in Components |-> IF c \in Listed(m) THEN {} ELSE None]
<1> PICK new : new = [uuid |-> m, components |-> listing]
  OBVIOUS
<1>1. objects \in Seq(ModuleObjects) /\ Len(objects) \in Nat
  BY DEF Inv, TypeOK
<1>2. new \in ModuleObjects /\ new.uuid = m /\ new.components = listing
  BY DEF ModuleObjects
<1>3. PICK o : o = ObjectOf(m)
  OBVIOUS
<1>4. /\ m_moduleMap' = [m_moduleMap EXCEPT ![m] = o]
      /\ objects' = IF m_moduleMap[m] = None THEN Append(objects, new) ELSE objects
      /\ AddModuleMetadata(m_context[f], m, o)
      /\ moduleInfo' = o
      /\ todo' = [j \in DOMAIN Index[m] |->
                    [kind |-> "introspect", id |-> Index[m][j]]]
  BY <1>3 DEF LoadModuleMetadata
<1>5. /\ o \in Nat /\ objects'[o].uuid = m
      /\ \A i \in 1 .. Len(objects) : objects'[i] = objects[i]
      /\ m_moduleMap[m] = None
           => o \notin 1 .. Len(objects) /\ objects'[o].components = listing
      /\ m_moduleMap[m] # None => o \in 1 .. Len(objects) /\ o = m_moduleMap[m]
  <2> HIDE DEF listing
  <2>1. CASE m_moduleMap[m] = None
    <3>1. o = Len(objects) + 1 /\ objects' = Append(objects, new)
      BY <1>3, <1>4, <2>1 DEF ObjectOf
    <3>2. /\ objects'[o] = new
          /\ \A i \in 1 .. Len(objects) : objects'[i] = objects[i]
      BY <1>1, <1>2, <3>1, Appended
    <3> QED
      BY <1>1, <1>2, <2>1, <3>1, <3>2
  <2>2. CASE m_moduleMap[m] # None
    <3>1. o = m_moduleMap[m] /\ objects' = objects
      BY <1>3, <1>4, <2>2 DEF ObjectOf
    <3>2. o \in 1 .. Len(objects) /\ objects[o].uuid = m
      BY <2>2, <3>1 DEF Inv, TypeOK, ManagerOK, Objects
    <3> QED
      BY <1>1, <2>2, <3>1, <3>2
  <2> QED
    BY <2>1, <2>2
<1>6. /\ m_moduleMap'[m] = o
      /\ \A p \in Modules : p # m => m_moduleMap'[p] = m_moduleMap[p]
  BY <1>4 DEF Inv, TypeOK
<1>7. \A h \in Factories, p \in Modules :
        \/ modulesMap'[h][p] = modulesMap[h][p]
        \/ h = m_context[f] /\ p = m /\ modulesMap'[h][p] = o
  BY <1>4 DEF AddModuleMetadata, Inv, TypeOK
<1>8. PICK n \in Nat : DOMAIN Index[m] = 1 .. n
  BY IndexAssumption
<1>9. Len(todo') = n
  BY <1>4, <1>8
<1>10. \A c \in Listed(m) :
         \E j \in 1 .. Len(todo') : todo'[j].kind = "introspect" /\ todo'[j].id = c
  <2> SUFFICES ASSUME NEW j \in 1 .. n
               PROVE  \E i \in 1 .. Len(todo') :
                        todo'[i].kind = "introspect" /\ todo'[i].id = Index[m][j]
    BY <1>8 DEF Listed
  <2> QED
    BY <1>4, <1>8, <1>9
<1>11. todo' # <<>> => todo'[1].kind = "introspect"
  <2>1. TodoOK' /\ \A j \in 1 .. n : todo'[j].kind = "introspect"
    BY <1>4, <1>8, LoadModuleMetadataInv DEF Inv
  <2> QED
    BY <1>9, <2>1 DEF TodoOK
<1>12. m_moduleMap[m] = None =>
         /\ o \notin 1 .. Len(objects)
         /\ objects'[o].components
              = [c \in Components |-> IF c \in Listed(m) THEN {} ELSE None]
  BY <1>5
<1> HIDE DEF listing
<1>13. Introspecting(m_context[f], m, o)
  BY <1>4, <1>5, <1>6, <1>7, <1>10, <1>11, <1>12 DEF Introspecting
<1> QED
  BY <1>3, <1>5, <1>13

\* Where a module that is introspected is registered by the shared object,
\* either it was before, or its introspection is the one that begins.
LEMMA LoadModuleMetadataBound ==
  ASSUME Inv, BoundInv, NEW f \in Factories, NEW m \in Modules,
         LoadModuleMetadata(f, m)
  PROVE  BoundInv'
<1> PICK o \in Nat : o = ObjectOf(m)
  BY Introspects
<1>1. Introspecting(m_context[f], m, o)
  BY Introspects
<1>2. /\ todo = <<>> /\ m_context[f] # None
      /\ UNCHANGED <<componentModuleUUIDMap, bound, brokenModules, m_context>>
      /\ loading' = f
  BY DEF LoadModuleMetadata, Begin
<1>3. /\ \A h \in Factories, p \in Modules :
           modulesMap[h][p] # None => modulesMap[h][p] \in 1 .. Len(objects)
      /\ \A p \in Modules :
           m_moduleMap[p] # None => m_moduleMap[p] \in 1 .. Len(objects)
      /\ o # None
  BY NoneAssumption DEF Inv, TypeOK, Objects
<1>4. FileObjectsBound'
  <2> SUFFICES ASSUME NEW h \in Factories, NEW p \in Modules, NEW d \in Components,
                      modulesMap'[h][p] \notin {None, m_moduleMap'[p]},
                      objects'[modulesMap'[h][p]].components[d] # None
               PROVE  /\ componentModuleUUIDMap[h][d] # None
                      /\ \A i \in objects'[modulesMap'[h][p]].components[d] :
                           <<i, d>> \in bound[h]
    BY <1>2 DEF FileObjectsBound, Entry, BoundTo
  <2>1. modulesMap'[h][p] = modulesMap[h][p]
    BY <1>1 DEF Introspecting
  <2>2. modulesMap[h][p] # m_moduleMap[p]
    BY <1>1, <2>1 DEF Introspecting
  <2>3. objects'[modulesMap'[h][p]] = objects[modulesMap[h][p]]
    BY <1>1, <1>3, <2>1 DEF Introspecting
  <2> QED
    BY <2>1, <2>2, <2>3 DEF BoundInv, FileObjectsBound, Entry, BoundTo
<1>5. ManagerObjectsList'
  <2> SUFFICES ASSUME NEW p \in Modules, m_moduleMap'[p] # None, NEW d \in Components,
                      objects'[m_moduleMap'[p]].components[d] # None
               PROVE  /\ d \in Listed(p)
                      /\ objects'[m_moduleMap'[p]].components[d] \subseteq Implements[d]
    BY DEF ManagerObjectsList, Entry, Listed
  <2>1. CASE p = m /\ m_moduleMap[m] = None
    BY <1>1, <2>1 DEF Introspecting
  <2>2. CASE p # m \/ m_moduleMap[m] # None
    <3>1. m_moduleMap'[p] = m_moduleMap[p] /\ m_moduleMap[p] \in 1 .. Len(objects)
      BY <1>1, <1>3, <2>2 DEF Introspecting
    <3> QED
      BY <1>1, <3>1 DEF BoundInv, ManagerObjectsList, Entry, Introspecting
  <2> QED
    BY <2>1, <2>2
<1>6. IntrospectedBound'
  <2> SUFFICES ASSUME NEW h \in Factories, NEW p \in Modules, p \notin brokenModules,
                      modulesMap'[h][p] # None, modulesMap'[h][p] = m_moduleMap'[p],
                      NEW d \in Listed(p)
               PROVE  Pending(h, p, d)' \/ \A i \in Implements[d] : <<i, d>> \in bound[h]
    BY <1>2 DEF IntrospectedBound, BoundTo, Listed
  <2>1. CASE h = m_context[f] /\ p = m
    BY <1>1, <1>2, <1>3, <2>1 DEF Pending, Introspecting
  <2>2. CASE h # m_context[f] \/ p # m
    <3>1. modulesMap'[h][p] = modulesMap[h][p] /\ modulesMap[h][p] \in 1 .. Len(objects)
      BY <1>1, <1>3, <2>2 DEF Introspecting
    <3>2. m_moduleMap[p] = modulesMap[h][p]
      <4>1. CASE p # m
        BY <1>1, <3>1, <4>1 DEF Introspecting
      <4>2. CASE p = m
        BY <1>1, <3>1, <4>2 DEF Introspecting
      <4> QED
        BY <4>1, <4>2
    <3> QED
      BY <1>2, <3>1, <3>2, NothingPending DEF BoundInv, IntrospectedBound, BoundTo
  <2> QED
    BY <2>1, <2>2
<1>7. FillsItsObject'
  BY <1>1 DEF FillsItsObject, Introspecting
<1> QED
  BY <1>4, <1>5, <1>6, <1>7 DEF BoundInv

\* Nothing happens.
LEMMA StutterBound == ASSUME Inv, BoundInv, UNCHANGED vars PROVE BoundInv'
<1>1. /\ UNCHANGED <<m_context, modulesMap, componentModuleUUIDMap, bound>>
      /\ UNCHANGED <<m_moduleMap, objects, loading, todo, moduleInfo, brokenModules>>
  BY DEF vars, registryVars, loadVars
<1>2. FileObjectsBound' /\ ManagerObjectsList'
  BY <1>1 DEF BoundInv, FileObjectsBound, ManagerObjectsList, Entry, BoundTo, Listed
<1>3. IntrospectedBound'
  BY <1>1 DEF BoundInv, IntrospectedBound, Pending, BoundTo, Listed
<1>4. FillsItsObject'
  BY <1>1 DEF BoundInv, FillsItsObject
<1> QED
  BY <1>2, <1>3, <1>4 DEF BoundInv

\* No step lists what is not bound.
LEMMA BoundStep == Inv /\ BoundInv /\ [Next]_vars => BoundInv'
<1> SUFFICES ASSUME Inv, BoundInv, [Next]_vars PROVE BoundInv'
  OBVIOUS
<1>1. CASE \E f \in Factories, file \in Files : LoadLibrary(f, file)
  BY <1>1, LoadLibraryBound
<1>2. CASE \E f \in Factories, m \in Modules : LoadModuleMetadata(f, m)
  BY <1>2, LoadModuleMetadataBound
<1>3. CASE \E f \in Factories : Clear(f)
  BY <1>3, ClearBound
<1>4. CASE \E f, new \in Factories, mode \in {"Empty", "Cloned", "Shared"} :
             CreateNewFactoryContext(f, new, mode)
  BY <1>4, CreateNewFactoryContextBound
<1>5. CASE NodeStep
  BY <1>5, DeclareModuleBound, DeclareComponentBound, DeclareInterfaceNodeBound,
     PlainNodeBound DEF NodeStep
<1>6. CASE DeclareIntrospected
  BY <1>6, DeclareIntrospectedBound
<1>7. CASE CreateFails
  BY <1>7, CreateFailsBound
<1>8. CASE UNCHANGED vars
  BY <1>8, StutterBound
<1> QED
  BY <1>1, <1>2, <1>3, <1>4, <1>5, <1>6, <1>7, <1>8 DEF Next

\* Whatever is loaded, introspected, cleared, copied or shared, and wherever a
\* load fails, the interfaces that findComponentMetadata lists for a component
\* are bound to it in that context, unless an introspection of its module was
\* cut short: the file's own object and the ModuleManager's shared one are
\* never filled by the same load.
THEOREM ListedAreBound == Spec => []ListedInterfacesAreBound
<1>1. Init => BoundInv
  BY DEF Init, BoundInv, FileObjectsBound, ManagerObjectsList, IntrospectedBound,
     FillsItsObject, NoModules
<1>2. Inv /\ BoundInv /\ [Next]_vars => BoundInv'
  BY BoundStep
<1>3. Inv /\ BoundInv => ListedInterfacesAreBound
  BY BoundInvImplies
<1> QED
  BY <1>1, <1>2, <1>3, Invariant, PTL DEF Spec

=============================================================================
