------------------------- MODULE PropertyManagerProofs -------------------------
(***************************************************************************)
(* A proof about the files that configure components: it rests on the      *)
(* invariant of the registry, whose steps PropertyManager composes.        *)
(***************************************************************************)
EXTENDS PropertyManager, RegistryProofs

MapsOK ==
  /\ moduleConfigMap \in [Factories -> [Modules -> Paths \union {None}]]
  /\ componentConfigMap \in [Factories -> [Uuids -> Paths \union {None}]]
  /\ configuredBy \in [Factories -> [Uuids -> SUBSET Paths]]

\* The nodes of a file are read under the path of the file.
PathOK ==
  (\E j \in 1 .. Len(todo) : todo[j].kind # "introspect") => configFilePath \in Paths

\* A component's own path is one of its declarers'.
OwnPathDeclared ==
  \A k \in Factories, u \in Uuids :
    componentConfigMap[k][u] # None
      => componentConfigMap[k][u] \in configuredBy[k][u]

ConfigInv == MapsOK /\ PathOK /\ OwnPathDeclared /\ ConfiguredFromADeclarer

\* No step but a clear or a new context takes a component from its module.
Keeps ==
  \A k \in Factories, c \in Components :
    Known(k, c) => componentModuleUUIDMap'[k][c] = componentModuleUUIDMap[k][c]

-----------------------------------------------------------------------------
\* The composition adds variables to the registry's steps, never a step.
LEMMA StepOfRegistry == [ConfigNext]_allVars => [Next]_vars
<1> SUFFICES ASSUME [ConfigNext]_allVars PROVE [Next]_vars
  OBVIOUS
<1>1. ASSUME NEW f \in Factories, NEW file \in Files, Load(f, file) PROVE Next
  BY <1>1 DEF Load, Next
<1>2. ASSUME NEW f \in Factories, ClearAll(f) PROVE Next
  BY <1>2 DEF ClearAll, Next
<1>3. ASSUME NEW f \in Factories, NEW new \in Factories,
             NEW mode \in {"Empty", "Cloned", "Shared"}, NewContext(f, new, mode)
      PROVE  Next
  BY <1>3 DEF NewContext, Next
<1>4. CASE DeclareConfigured
  BY <1>4 DEF DeclareConfigured, Next, NodeStep
<1>5. CASE RegistryOnly
  BY <1>5 DEF RegistryOnly, Next, NodeStep
<1>6. CASE UNCHANGED allVars
  BY <1>6 DEF allVars
<1> QED
  BY <1>1, <1>2, <1>3, <1>4, <1>5, <1>6 DEF ConfigNext

\* So the registry keeps its invariant.
LEMMA RegistryInvariant == ConfigSpec => []Inv
<1>1. ConfigInit => Inv
  BY InitInv DEF ConfigInit
<1>2. Inv /\ [ConfigNext]_allVars => Inv'
  BY StepOfRegistry, NextInv
<1> QED
  BY <1>1, <1>2, PTL DEF ConfigSpec

\* ModuleOfFirst is what keeps a component where it is.
LEMMA FirstKeeps ==
  ASSUME Inv, NEW k \in Factories, NEW c, NEW m, ModuleOfFirst(k, c, m)
  PROVE  Keeps
<1>1. componentModuleUUIDMap \in [Factories -> [Components -> Modules \union {None}]]
  BY DEF Inv, TypeOK
<1>2. CASE componentModuleUUIDMap[k][c] # None
  BY <1>2 DEF ModuleOfFirst, Keeps
<1>3. CASE componentModuleUUIDMap[k][c] = None
  <2>1. componentModuleUUIDMap' = [componentModuleUUIDMap EXCEPT ![k][c] = m]
    BY <1>3 DEF ModuleOfFirst
  <2>2. /\ \A h \in Factories :
             h # k => componentModuleUUIDMap'[h] = componentModuleUUIDMap[h]
        /\ \A d \in Components :
             d # c => componentModuleUUIDMap'[k][d] = componentModuleUUIDMap[k][d]
    BY <1>1, <2>1
  <2> QED
    BY <1>3, <2>2 DEF Keeps, Known
<1> QED
  BY <1>2, <1>3

\* The steps that the property manager takes no part in.
LEMMA RegistryOnlyKeeps == ASSUME Inv, RegistryOnly PROVE Keeps
<1>1. Ctx \in Factories
  BY DEF Inv, TypeOK, Ctx
<1>2. CASE UNCHANGED componentModuleUUIDMap
  BY <1>2 DEF Keeps
<1>3. CASE DeclareComponent
  BY <1>1, <1>2, <1>3, FirstKeeps DEF DeclareComponent
<1>4. CASE DeclareIntrospected \/ CreateFails
  BY <1>1, <1>4, FirstKeeps DEF DeclareIntrospected, CreateFails
<1>5. CASE \/ DeclareModule \/ SkipInterfaceNode \/ DeclareInterfaceNode
           \/ DeclareAliasNode \/ NodeFails
           \/ \E f \in Factories, m \in Modules : LoadModuleMetadata(f, m)
  BY <1>2, <1>5 DEF DeclareModule, SkipInterfaceNode, DeclareInterfaceNode,
                    DeclareAliasNode, NodeFails, LoadModuleMetadata, registryVars
<1> QED
  BY <1>3, <1>4, <1>5 DEF RegistryOnly

\* What a step leaves of the rest of a load.
LEMMA RegistryOnlyTodo ==
  ASSUME Inv, RegistryOnly, PathOK, UNCHANGED configFilePath PROVE PathOK'
<1>1. CASE todo' = <<>>
  BY <1>1 DEF PathOK
<1>2. CASE todo # <<>> /\ todo' = Tail(todo)
  <2>1. \A j \in 1 .. Len(todo') : todo'[j] = todo[j + 1] /\ j + 1 \in 1 .. Len(todo)
    BY <1>2, Shortened DEF Inv
  <2> QED
    BY <2>1 DEF PathOK
<1>3. ASSUME NEW f \in Factories, NEW m \in Modules, LoadModuleMetadata(f, m)
      PROVE  PathOK'
  <2>1. /\ Index[m] \in Seq(Components)
        /\ todo' = [j \in DOMAIN Index[m] |->
                      [kind |-> "introspect", id |-> Index[m][j]]]
    BY <1>3, IndexAssumption DEF LoadModuleMetadata
  <2>2. \A j \in 1 .. Len(todo') : todo'[j].kind = "introspect"
    BY <2>1
  <2> QED
    BY <2>2 DEF PathOK
<1> QED
  BY <1>1, <1>2, <1>3
     DEF RegistryOnly, DeclareModule, DeclareComponent, SkipInterfaceNode,
         DeclareInterfaceNode, DeclareAliasNode, NodeFails, DeclareIntrospected,
         CreateFails, AtNode

-----------------------------------------------------------------------------
\* It holds at first.
LEMMA ConfigInitInv == ConfigInit => ConfigInv
BY DEF ConfigInit, Init, ConfigInv, MapsOK, PathOK, OwnPathDeclared,
       ConfiguredFromADeclarer, NoModuleConfig, NoComponentConfig, ConfiguredByNone

\* Maps that stay serve the components whose modules stay.
LEMMA UnchangedMaps ==
  ASSUME ConfigInv, Keeps, UNCHANGED mapVars, PathOK' PROVE ConfigInv'
<1>1. MapsOK' /\ OwnPathDeclared'
  BY DEF ConfigInv, MapsOK, OwnPathDeclared, mapVars
<1>2. ASSUME NEW k \in Factories, NEW u \in Uuids, configuredBy[k][u] # {}
      PROVE  ConfigPath(k, u)' = ConfigPath(k, u)
  <2>1. ConfigPath(k, u) # None
    BY <1>2, PathsAssumption DEF ConfigInv, ConfiguredFromADeclarer, MapsOK
  <2>2. CASE componentConfigMap[k][u] # None
    BY <2>2 DEF ConfigPath, mapVars
  <2>3. CASE componentConfigMap[k][u] = None
    <3>1. u \in Components /\ Known(k, u) /\ ModuleOf(k, u) = componentModuleUUIDMap[k][u]
      BY <2>1, <2>3 DEF ConfigPath, ModuleOf, Known
    <3>2. ModuleOf(k, u)' = ModuleOf(k, u)
      BY <3>1 DEF Keeps, ModuleOf
    <3> QED
      BY <2>3, <3>2 DEF ConfigPath, mapVars
  <2> QED
    BY <2>2, <2>3
<1>3. ConfiguredFromADeclarer'
  BY <1>2 DEF ConfigInv, ConfiguredFromADeclarer, mapVars
<1> QED
  BY <1>1, <1>3 DEF ConfigInv

\* A component that is declared gets the path of the file, or keeps that of an
\* earlier one; the other components of its module keep what they have.
LEMMA DeclareConfiguredInv ==
  ASSUME Inv, ConfigInv, DeclareConfigured PROVE ConfigInv'
<1> DEFINE k == Ctx
           u == Configured
           m == ModuleOf(k, u)
<1>1. /\ TodoOK /\ todo # <<>> /\ todo' = Tail(todo)
      /\ Node.kind \in {"configuration", "configure"} /\ Configured # Invalid
      /\ UNCHANGED <<componentModuleUUIDMap, configFilePath>>
  BY DEF Inv, DeclareConfigured, ConfigureNode, registryVars
<1>2. /\ Node \in Entries /\ Node = todo[1] /\ Len(todo) >= 1
      /\ \A j \in 1 .. Len(todo') : todo'[j] = todo[j + 1] /\ j + 1 \in 1 .. Len(todo)
  BY <1>1, Shortened DEF TodoOK
<1>3. k \in Factories /\ aliases[k] \in AliasMaps
  BY DEF Inv, TypeOK, Ctx
<1>4. u \in Uuids
  <2>1. Node.id \in Uuids \union {Invalid}
        /\ (Node.kind = "configure" => Node.name \in Names \union {None})
    BY <1>1, <1>2 DEF Entries, Nodes
  <2>2. ByAlias \in Uuids \union {None}
    BY <1>3, <2>1 DEF ByAlias, AliasMaps, AliasTypes
  <2> QED
    BY <1>1, <2>1, <2>2 DEF Configured
<1>5. configFilePath \in Paths /\ configFilePath # None
  BY <1>1, <1>2, PathsAssumption DEF ConfigInv, PathOK
<1>6. componentModuleUUIDMap \in [Factories -> [Components -> Modules \union {None}]]
  BY DEF Inv, TypeOK
<1>7. m \in Modules \union {None}
  BY <1>3, <1>4, <1>6 DEF ModuleOf
<1> HIDE DEF u
\* The maps, place by place.
<1>8. /\ moduleConfigMap' \in [Factories -> [Modules -> Paths \union {None}]]
      /\ \A h \in Factories, p \in Modules :
           moduleConfigMap'[h][p] =
             IF h = k /\ p = m /\ moduleConfigMap[h][p] = None
               THEN configFilePath ELSE moduleConfigMap[h][p]
  <2>1. moduleConfigMap' =
          IF m # None /\ moduleConfigMap[k][m] = None
            THEN [moduleConfigMap EXCEPT ![k][m] = configFilePath]
            ELSE moduleConfigMap
    BY DEF DeclareConfigured, ModulePath, WithModulePath, u
  <2>2. moduleConfigMap \in [Factories -> [Modules -> Paths \union {None}]]
    BY DEF ConfigInv, MapsOK
  <2> HIDE DEF k, m
  <2>3. None \notin Modules
    BY NoneAssumption DEF Uuids
  <2>4. CASE m # None /\ moduleConfigMap[k][m] = None
    <3>1. m \in Modules
      BY <1>7, <2>4
    <3> QED
      BY <1>3, <1>5, <2>1, <2>2, <2>4, <3>1
  <2>5. CASE ~(m # None /\ moduleConfigMap[k][m] = None)
    BY <2>1, <2>2, <2>3, <2>5
  <2> QED
    BY <2>4, <2>5
<1>9. /\ componentConfigMap' \in [Factories -> [Uuids -> Paths \union {None}]]
      /\ \A h \in Factories, v \in Uuids :
           componentConfigMap'[h][v] =
             IF h = k /\ v = u /\ OwnPath(k, u)
               THEN configFilePath ELSE componentConfigMap[h][v]
  <2>1. componentConfigMap' =
          IF OwnPath(k, u)
            THEN [componentConfigMap EXCEPT ![k][u] = configFilePath]
            ELSE componentConfigMap
    BY DEF DeclareConfigured, WithComponentPath, u
  <2>2. componentConfigMap \in [Factories -> [Uuids -> Paths \union {None}]]
    BY DEF ConfigInv, MapsOK
  <2> HIDE DEF k
  <2> QED
    BY <1>3, <1>4, <1>5, <2>1, <2>2
<1>10. /\ configuredBy' \in [Factories -> [Uuids -> SUBSET Paths]]
       /\ \A h \in Factories, v \in Uuids :
            configuredBy'[h][v] =
              IF h = k /\ v = u THEN configuredBy[h][v] \union {configFilePath}
                                ELSE configuredBy[h][v]
  <2>1. configuredBy' = [configuredBy EXCEPT ![k][u] = @ \union {configFilePath}]
    BY DEF DeclareConfigured, WithDeclarer, u
  <2>2. configuredBy \in [Factories -> [Uuids -> SUBSET Paths]]
    BY DEF ConfigInv, MapsOK
  <2> HIDE DEF k
  <2> QED
    BY <1>3, <1>4, <1>5, <2>1, <2>2
<1>11. \A h \in Factories, v \in Uuids : ModuleOf(h, v)' = ModuleOf(h, v)
  BY <1>1 DEF ModuleOf
<1> HIDE DEF k
<1>12. OwnPathDeclared'
  BY <1>9, <1>10 DEF ConfigInv, OwnPathDeclared
<1>13. ConfiguredFromADeclarer'
  <2> SUFFICES ASSUME NEW h \in Factories, NEW v \in Uuids, configuredBy'[h][v] # {}
               PROVE  ConfigPath(h, v)' \in configuredBy'[h][v]
    BY DEF ConfiguredFromADeclarer
  <2>1. CASE componentConfigMap'[h][v] # None
    BY <1>12, <2>1 DEF OwnPathDeclared, ConfigPath
  <2>2. CASE componentConfigMap'[h][v] = None /\ h = k /\ v = u
    <3>1. ~OwnPath(k, u)
      BY <1>5, <1>9, <2>2
    <3>2. m # None /\ moduleConfigMap[k][m] \in {None, configFilePath}
      BY <3>1 DEF OwnPath
    <3>3. m \in Modules
      BY <1>7, <3>2
    <3>4. moduleConfigMap'[k][m] = configFilePath
      BY <1>3, <1>8, <3>2, <3>3
    <3>5. ModuleOf(h, v)' = m
      BY <1>11, <2>2
    <3>6. ConfigPath(h, v)' = configFilePath
      BY <2>2, <3>2, <3>4, <3>5 DEF ConfigPath
    <3> QED
      BY <1>10, <2>2, <3>6
  <2>3. CASE componentConfigMap'[h][v] = None /\ ~(h = k /\ v = u)
    <3>1. configuredBy'[h][v] = configuredBy[h][v] /\ componentConfigMap[h][v] = None
      BY <1>9, <1>10, <2>3
    <3>2. ConfigPath(h, v) \in configuredBy[h][v] /\ ConfigPath(h, v) # None
      BY <3>1, PathsAssumption DEF ConfigInv, ConfiguredFromADeclarer, MapsOK
    <3> DEFINE p == ModuleOf(h, v)
    <3>3. p # None /\ ConfigPath(h, v) = moduleConfigMap[h][p]
      BY <3>1, <3>2 DEF ConfigPath
    <3>4. p \in Modules
      BY <1>6, <3>3 DEF ModuleOf
    <3>5. moduleConfigMap'[h][p] = moduleConfigMap[h][p]
      BY <1>8, <3>2, <3>3, <3>4
    <3>6. ConfigPath(h, v)' = moduleConfigMap'[h][p]
      BY <1>11, <2>3, <3>3 DEF ConfigPath
    <3> QED
      BY <3>1, <3>2, <3>3, <3>5, <3>6
  <2> QED
    BY <2>1, <2>2, <2>3
<1>14. PathOK'
  BY <1>1, <1>5 DEF PathOK
<1> QED
  BY <1>8, <1>9, <1>10, <1>12, <1>13, <1>14 DEF ConfigInv, MapsOK

\* A context that is cleared has no file, and no component that one configures.
LEMMA ClearAllInv ==
  ASSUME Inv, ConfigInv, NEW f \in Factories, ClearAll(f) PROVE ConfigInv'
<1> DEFINE k == m_context[f]
<1>1. k \in Factories
  BY DEF Inv, TypeOK, ClearAll, Clear, Begin
<1>2. UNCHANGED <<todo, configFilePath>>
  BY DEF ClearAll, Clear, loadVars
<1>3. /\ moduleConfigMap' = [moduleConfigMap EXCEPT ![k] = NoModuleConfig]
      /\ componentConfigMap' = [componentConfigMap EXCEPT ![k] = NoComponentConfig]
      /\ configuredBy' = [configuredBy EXCEPT ![k] = ConfiguredByNone]
      /\ componentModuleUUIDMap' = [componentModuleUUIDMap EXCEPT ![k] = Unknown]
  BY DEF ClearAll, Clear, ClearModules
<1>4. componentModuleUUIDMap \in [Factories -> [Components -> Modules \union {None}]]
  BY DEF Inv, TypeOK
<1> HIDE DEF k
<1>5. MapsOK'
  BY <1>1, <1>3
     DEF ConfigInv, MapsOK, NoModuleConfig, NoComponentConfig, ConfiguredByNone
<1>6. PathOK'
  BY <1>2 DEF ConfigInv, PathOK
<1>7. /\ \A u \in Uuids : configuredBy'[k][u] = {} /\ componentConfigMap'[k][u] = None
      /\ \A h \in Factories :
           h # k => /\ configuredBy'[h] = configuredBy[h]
                    /\ componentConfigMap'[h] = componentConfigMap[h]
                    /\ moduleConfigMap'[h] = moduleConfigMap[h]
                    /\ componentModuleUUIDMap'[h] = componentModuleUUIDMap[h]
  BY <1>1, <1>3, <1>4 DEF ConfigInv, MapsOK, NoComponentConfig, ConfiguredByNone
<1>8. OwnPathDeclared'
  BY <1>7 DEF ConfigInv, OwnPathDeclared
<1>9. \A h \in Factories, u \in Uuids : h # k => ConfigPath(h, u)' = ConfigPath(h, u)
  BY <1>7 DEF ConfigPath, ModuleOf
<1>10. ConfiguredFromADeclarer'
  BY <1>7, <1>9 DEF ConfigInv, ConfiguredFromADeclarer
<1> QED
  BY <1>5, <1>6, <1>8, <1>10 DEF ConfigInv

\* A clone has the maps of the registry and of the property manager.
LEMMA NewContextInv ==
  ASSUME Inv, ContextsOK, ConfigInv, NEW f \in Factories, NEW new \in Factories,
         NEW mode, NewContext(f, new, mode)
  PROVE  ConfigInv'
<1> DEFINE k == m_context[f]
<1>1. /\ k \in Factories
      /\ UNCHANGED <<todo, configFilePath>>
      /\ componentModuleUUIDMap \in [Factories -> [Components -> Modules \union {None}]]
  BY DEF Inv, TypeOK, NewContext, CreateNewFactoryContext, Begin, loadVars
<1>2. PathOK'
  BY <1>1 DEF ConfigInv, PathOK
<1>3. CASE mode # "Cloned"
  <2>1. UNCHANGED mapVars /\ UNCHANGED componentModuleUUIDMap
    BY <1>3 DEF NewContext, CreateNewFactoryContext, registryVars
  <2>2. Keeps
    BY <2>1 DEF Keeps
  <2> QED
    BY <1>2, <2>1, <2>2, UnchangedMaps
<1>4. CASE mode = "Cloned"
  <2>1. /\ moduleConfigMap' = [moduleConfigMap EXCEPT ![new] = moduleConfigMap[k]]
        /\ componentConfigMap' = [componentConfigMap EXCEPT ![new] = componentConfigMap[k]]
        /\ configuredBy' = [configuredBy EXCEPT ![new] = configuredBy[k]]
        /\ componentModuleUUIDMap' =
             [componentModuleUUIDMap EXCEPT ![new] = componentModuleUUIDMap[k]]
    BY <1>4 DEF NewContext, CopyConfig, CreateNewFactoryContext, CopyContext
  <2> HIDE DEF k
  <2> DEFINE from(h) == IF h = new THEN k ELSE h
  <2>2. \A h \in Factories :
          /\ from(h) \in Factories
          /\ moduleConfigMap'[h] = moduleConfigMap[from(h)]
          /\ componentConfigMap'[h] = componentConfigMap[from(h)]
          /\ configuredBy'[h] = configuredBy[from(h)]
          /\ componentModuleUUIDMap'[h] = componentModuleUUIDMap[from(h)]
    BY <1>1, <2>1 DEF ConfigInv, MapsOK
  <2>3. MapsOK'
    BY <1>1, <2>1 DEF ConfigInv, MapsOK
  <2> HIDE DEF from
  <2>4. OwnPathDeclared'
    BY <2>2 DEF ConfigInv, OwnPathDeclared
  <2>5. \A h \in Factories, u \in Uuids : ConfigPath(h, u)' = ConfigPath(from(h), u)
    BY <2>2 DEF ConfigPath, ModuleOf
  <2>6. ConfiguredFromADeclarer'
    BY <2>2, <2>5 DEF ConfigInv, ConfiguredFromADeclarer
  <2> QED
    BY <1>2, <2>3, <2>4, <2>6 DEF ConfigInv
<1> QED
  BY <1>3, <1>4

-----------------------------------------------------------------------------
\* Every step keeps it.
LEMMA ConfigNextInv ==
  Inv /\ ContextsOK /\ ConfigInv /\ [ConfigNext]_allVars => ConfigInv'
<1> SUFFICES ASSUME Inv, ContextsOK, ConfigInv, [ConfigNext]_allVars
             PROVE  ConfigInv'
  OBVIOUS
<1>1. ASSUME NEW f \in Factories, NEW file \in Files, Load(f, file) PROVE ConfigInv'
  <2>1. configFilePath' \in Paths /\ UNCHANGED mapVars
        /\ UNCHANGED componentModuleUUIDMap
    BY <1>1, PathsAssumption DEF Load, LoadLibrary, registryVars
  <2>2. Keeps /\ PathOK'
    BY <2>1 DEF Keeps, PathOK
  <2> QED
    BY <2>1, <2>2, UnchangedMaps
<1>2. ASSUME NEW f \in Factories, ClearAll(f) PROVE ConfigInv'
  BY <1>2, ClearAllInv
<1>3. ASSUME NEW f \in Factories, NEW new \in Factories, NEW mode,
             NewContext(f, new, mode)
      PROVE  ConfigInv'
  BY <1>3, NewContextInv
<1>4. CASE DeclareConfigured
  BY <1>4, DeclareConfiguredInv
<1>5. CASE RegistryOnly /\ UNCHANGED configVars
  <2>1. Keeps /\ PathOK'
    BY <1>5, RegistryOnlyKeeps, RegistryOnlyTodo DEF ConfigInv, configVars
  <2> QED
    BY <1>5, <2>1, UnchangedMaps DEF configVars
<1>6. CASE UNCHANGED allVars
  <2>1. UNCHANGED mapVars /\ UNCHANGED <<configFilePath, todo, componentModuleUUIDMap>>
    BY <1>6 DEF allVars, configVars, vars, registryVars, loadVars
  <2>2. Keeps /\ PathOK'
    BY <2>1 DEF Keeps, PathOK, ConfigInv
  <2> QED
    BY <2>1, <2>2, UnchangedMaps
<1> QED
  BY <1>1, <1>2, <1>3, <1>4, <1>5, <1>6 DEF ConfigNext

\* The contexts are as ModulesAreKept needs them.
LEMMA ContextsInvariant == ConfigSpec => []ContextsOK
<1>1. ConfigInit => ContextsOK
  <2> SUFFICES ASSUME ConfigInit PROVE ContextsOK
    OBVIOUS
  <2>1. /\ m_context = [f \in Factories |-> IF f = Main THEN Main ELSE None]
        /\ \A h \in Factories : componentModuleUUIDMap[h] = Unknown
    BY DEF ConfigInit, Init
  <2>2. Main # None
    BY MainAssumption, NoneAssumption
  <2> QED
    BY <2>1, <2>2, MainAssumption DEF ContextsOK
<1>2. Inv /\ ContextsOK /\ [ConfigNext]_allVars => ContextsOK'
  BY StepOfRegistry, ContextStep
<1> QED
  BY <1>1, <1>2, RegistryInvariant, PTL DEF ConfigSpec

\* For any files and libraries, loads that fail half-way, clears and contexts
\* copied or shared: a component that some file configures is configured from
\* one that does.
THEOREM ConfiguredFromDeclarers == ConfigSpec => []ConfiguredFromADeclarer
<1>1. ConfigInv => ConfiguredFromADeclarer
  BY DEF ConfigInv
<1> QED
  BY <1>1, ConfigInitInv, ConfigNextInv, RegistryInvariant, ContextsInvariant, PTL
     DEF ConfigSpec
=============================================================================
