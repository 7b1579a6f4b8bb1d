---------------------------- MODULE PropertyManager ----------------------------
(***************************************************************************)
(* Which file configures a component: the maps of PropertyManager.cpp,     *)
(* filled as a file is read and asked when a component is created.  They   *)
(* are composed with Registry, whose steps they follow: a file is declared *)
(* for the module of the component, if the registry knows one.             *)
(***************************************************************************)
EXTENDS Registry

CONSTANT Paths

ASSUME PathsAssumption == None \notin Paths /\ \A file \in Files : file.path \in Paths

VARIABLES
  moduleConfigMap,     \* PropertyContext, for each context of a factory
  componentConfigMap,
  configFilePath,      \* the file that is being loaded
  configuredBy         \* history: the files that declared each component

mapVars == <<moduleConfigMap, componentConfigMap, configuredBy>>
configVars == <<mapVars, configFilePath>>
allVars == <<vars, configVars>>

NoModuleConfig == [m \in Modules |-> None]
NoComponentConfig == [u \in Uuids |-> None]
ConfiguredByNone == [u \in Uuids |-> {}]

ConfigInit ==
  /\ Init
  /\ moduleConfigMap = [k \in Factories |-> NoModuleConfig]
  /\ componentConfigMap = [k \in Factories |-> NoComponentConfig]
  /\ configFilePath = None
  /\ configuredBy = [k \in Factories |-> ConfiguredByNone]

\* m_registry->getModuleUUID, None for a ModuleNotFoundException.
ModuleOf(k, u) == IF u \in Components THEN componentModuleUUIDMap[k][u] ELSE None

-----------------------------------------------------------------------------
\* (Definitions marked "Faulty" are variants with a plausible mistake.  No
\* specification uses them: put in place of the definition that follows, each
\* makes one of the properties fail.)

\* Faulty: only the first file of a module counts.
OwnPathIfModuleUnknown(k, u) == ModuleOf(k, u) = None

\* The component has a path of its own if its module, unless nothing is known
\* of it, has another one.
OwnPath(k, u) ==
  LET m == ModuleOf(k, u)
  IN  m = None \/ moduleConfigMap[k][m] \notin {None, configFilePath}

\* The first file that configures a component of a module is the module's.
ModulePath(k, u) ==
  LET m == ModuleOf(k, u) IN m # None /\ moduleConfigMap[k][m] = None

WithModulePath(of, k, m) == [of EXCEPT ![k][m] = configFilePath]
WithComponentPath(of, k, u) == [of EXCEPT ![k][u] = configFilePath]
WithDeclarer(of, k, u) == [of EXCEPT ![k][u] = @ \union {configFilePath}]

\* declareComponent and declareConfigure
DeclareConfigured ==
  LET k == Ctx
      u == Configured
  IN  /\ ConfigureNode
      /\ moduleConfigMap' =
           IF ModulePath(k, u)
             THEN WithModulePath(moduleConfigMap, k, ModuleOf(k, u))
             ELSE moduleConfigMap
      /\ componentConfigMap' =
           IF OwnPath(k, u) THEN WithComponentPath(componentConfigMap, k, u)
                            ELSE componentConfigMap
      /\ configuredBy' = WithDeclarer(configuredBy, k, u)
      /\ UNCHANGED configFilePath

\* The other steps that concern the maps: a file is opened, a factory cleared,
\* a context created.
Load(f, file) ==
  /\ LoadLibrary(f, file)
  /\ configFilePath' = file.path
  /\ UNCHANGED mapVars

ClearAll(f) ==
  LET k == m_context[f]
  IN  /\ Clear(f)
      /\ moduleConfigMap' = [moduleConfigMap EXCEPT ![k] = NoModuleConfig]
      /\ componentConfigMap' = [componentConfigMap EXCEPT ![k] = NoComponentConfig]
      /\ configuredBy' = [configuredBy EXCEPT ![k] = ConfiguredByNone]
      /\ UNCHANGED configFilePath

CopyConfig(from, to) ==
  /\ moduleConfigMap' = [moduleConfigMap EXCEPT ![to] = moduleConfigMap[from]]
  /\ componentConfigMap' =
       [componentConfigMap EXCEPT ![to] = componentConfigMap[from]]
  /\ configuredBy' = [configuredBy EXCEPT ![to] = configuredBy[from]]

NewContext(f, new, mode) ==
  /\ CreateNewFactoryContext(f, new, mode)
  /\ IF mode = "Cloned" THEN CopyConfig(m_context[f], new) ELSE UNCHANGED mapVars
  /\ UNCHANGED configFilePath

\* The steps of the registry that the property manager takes no part in.
RegistryOnly ==
  \/ DeclareModule \/ DeclareComponent \/ SkipInterfaceNode
  \/ DeclareInterfaceNode \/ DeclareAliasNode \/ NodeFails
  \/ DeclareIntrospected \/ CreateFails
  \/ \E f \in Factories, m \in Modules : LoadModuleMetadata(f, m)

ConfigNext ==
  \/ \E f \in Factories :
       \/ \E file \in Files : Load(f, file)
       \/ ClearAll(f)
       \/ \E new \in Factories, mode \in {"Empty", "Cloned", "Shared"} :
            NewContext(f, new, mode)
  \/ DeclareConfigured
  \/ RegistryOnly /\ UNCHANGED configVars

ConfigSpec == ConfigInit /\ [][ConfigNext]_allVars
-----------------------------------------------------------------------------
\* getConfigPath: None for the empty path, with which nothing is configured.
ConfigPath(k, u) ==
  IF componentConfigMap[k][u] # None THEN componentConfigMap[k][u]
  ELSE IF ModuleOf(k, u) = None THEN None
  ELSE moduleConfigMap[k][ModuleOf(k, u)]

\* A component that some file configures is configured from a file that does,
\* although the path is looked up under the module known when the component is
\* created and was stored under the module known when the file was read, which
\* files, introspection, clears and clones may have changed in between.
ConfiguredFromADeclarer ==
  \A k \in Factories, u \in Uuids :
    configuredBy[k][u] # {} => ConfigPath(k, u) \in configuredBy[k][u]
=============================================================================
