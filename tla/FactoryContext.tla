---------------------------- MODULE FactoryContext ----------------------------
(***************************************************************************)
(* The bindings of Factory.cpp: what bind, the XML declarations and the    *)
(* autobinds of the registry put in a FactoryContext, which factories own, *)
(* copy or share one, and how resolveBind searches it.                     *)
(*                                                                         *)
(* A bindingRangeMask is the set of its flags, the core mask 0 the empty   *)
(* set.  The properties name of a bind only selects what configure reads   *)
(* and is left out.  A step is one bind or one node of a configuration     *)
(* file: a file that fails half-way has made the steps up to there.        *)
(***************************************************************************)
EXTENDS Naturals, Sequences, FiniteSets

CONSTANTS
  Factories,       \* the factories, and the contexts their constructors make
  Main,            \* the factory of the ComponentManager
  Interfaces,
  Components,
  Names,
  Implements,      \* the interfaces a <component> node or getInterfaces lists
  CoreBindings,    \* the binds of the constructor: core interface -> component
  BindCalls,       \* the binds that the application or its XML files declare
  ConfigBound,     \* bound: binds, loads, clears and new factories
  None

Flags == {"Explicit", "WithParents", "Named", "Default", "All"}
BindInfos ==
  [component : Components, scope : {"Transient", "Singleton"},
   range : SUBSET Flags]

\* The five kinds of bind, as the overloads of bind and the XML nodes make
\* them; the factory function of a bind is called method.
BindCall ==
  [kind : {"default", "named", "specific", "specificNamed", "multi"},
   itf : Interfaces, name : Names \union {None},
   target : Components \union {None}, infos : BindInfos,
   xml : BOOLEAN, method : BOOLEAN]

ASSUME MainAssumption == Main \in Factories
ASSUME NoneAssumption ==
  /\ None \notin Names \union Components \union Factories \union BindInfos
ASSUME ImplementsAssumption == Implements \in [Components -> SUBSET Interfaces]
ASSUME CoreAssumption ==
  /\ DOMAIN CoreBindings \subseteq Interfaces
  /\ CoreBindings \in [DOMAIN CoreBindings -> Components]
\* Mask 0 is the core mask; an application that passes it is outside the model.
ASSUME BindCallsAssumption ==
  /\ BindCalls \subseteq BindCall
  /\ \A b \in BindCalls : b.xml \/ b.infos.range # {}
ASSUME ConfigBoundAssumption == ConfigBound \in Nat

VARIABLES
  \* FactoryContext, and the registry context that is shared and copied with it
  autoBindings, defaultBindings, namedBindings, multiBindings,
  specificBindings, specificNamedBindings, factoryMethods,
  multiBound,                \* the interfaces that are keys of multiBindings
  componentModuleUUIDMap,    \* the components some module is known to hold
  m_context,                 \* the context of each factory that exists
  configLeft                 \* steps that ConfigBound still allows

bindVars == <<autoBindings, defaultBindings, namedBindings, multiBindings,
              specificBindings, specificNamedBindings, factoryMethods,
              multiBound, componentModuleUUIDMap>>
contextVars == <<bindVars, m_context, configLeft>>

NoBinds == [i \in Interfaces |-> None]
NoNamedBinds == [k \in Interfaces \X Names |-> None]

ContextInit ==
  /\ autoBindings = [k \in Factories |-> NoBinds]
  /\ defaultBindings = [k \in Factories |-> NoBinds]
  /\ namedBindings = [k \in Factories |-> NoNamedBinds]
  /\ multiBindings = [k \in Factories |-> [i \in Interfaces |-> <<>>]]
  /\ specificBindings =
       [k \in Factories |-> [c \in Components |-> NoBinds]]
  /\ specificNamedBindings =
       [k \in Factories |-> [c \in Components |-> NoNamedBinds]]
  /\ factoryMethods = [k \in Factories |-> {}]
  /\ multiBound = [k \in Factories |-> {}]
  /\ componentModuleUUIDMap = [k \in Factories |-> {}]
  /\ m_context = [f \in Factories |-> IF f = Main THEN Main ELSE None]
  /\ configLeft = ConfigBound

\* The components modules hold; the core ones are part of the library.
ModuleComponents == Components \ {CoreBindings[i] : i \in DOMAIN CoreBindings}

Exists(f) == m_context[f] # None

-----------------------------------------------------------------------------
(* Declaring bindings.                                                     *)

Configure(f) ==
  /\ Exists(f)
  /\ configLeft > 0
  /\ configLeft' = configLeft - 1

\* The flag that the XML declarations add to the range they read.
BindOf(b) ==
  LET flag == CASE b.kind \in {"default", "multi"} -> "Default"
                [] b.kind = "named" -> "Named"
                [] OTHER -> "Explicit"
  IN  IF b.xml THEN [b.infos EXCEPT !.range = @ \union {flag}] ELSE b.infos

\* (Definitions marked "Faulty" are variants with a plausible mistake.  No
\* specification uses them: put in place of the definition that follows, each
\* makes one of the properties fail.)

\* A bind with a factory function also registers the function for the
\* component, for every interface it is bound to.
RegisterMethod(k, b) ==
  factoryMethods' = IF b.method
                      THEN [factoryMethods EXCEPT ![k] = @ \union {b.infos.component}]
                      ELSE factoryMethods

\* bind of an interface: the last bind wins, and an autobind goes.
BindDefault(f, b) ==
  LET k == m_context[f]
  IN  /\ b.kind = "default"
      /\ Configure(f)
      /\ autoBindings' = [autoBindings EXCEPT ![k][b.itf] = None]
      /\ defaultBindings' = [defaultBindings EXCEPT ![k][b.itf] = BindOf(b)]
      /\ RegisterMethod(k, b)
      /\ UNCHANGED <<namedBindings, multiBindings, multiBound, specificBindings,
                     specificNamedBindings, componentModuleUUIDMap, m_context>>

BindNamed(f, b) ==
  LET k == m_context[f]
  IN  /\ b.kind = "named"
      /\ Configure(f)
      /\ namedBindings' =
           [namedBindings EXCEPT ![k][<<b.itf, b.name>>] = BindOf(b)]
      /\ RegisterMethod(k, b)
      /\ UNCHANGED <<autoBindings, defaultBindings, multiBindings, multiBound,
                     specificBindings, specificNamedBindings,
                     componentModuleUUIDMap, m_context>>

BindSpecific(f, b) ==
  LET k == m_context[f]
  IN  /\ b.kind = "specific"
      /\ Configure(f)
      /\ specificBindings' =
           [specificBindings EXCEPT ![k][b.target][b.itf] = BindOf(b)]
      /\ RegisterMethod(k, b)
      /\ UNCHANGED <<autoBindings, defaultBindings, namedBindings,
                     multiBindings, multiBound, specificNamedBindings,
                     componentModuleUUIDMap, m_context>>

BindSpecificNamed(f, b) ==
  LET k == m_context[f]
  IN  /\ b.kind = "specificNamed"
      /\ Configure(f)
      /\ specificNamedBindings' =
           [specificNamedBindings EXCEPT ![k][b.target][<<b.itf, b.name>>] = BindOf(b)]
      /\ RegisterMethod(k, b)
      /\ UNCHANGED <<autoBindings, defaultBindings, namedBindings,
                     multiBindings, multiBound, specificBindings, componentModuleUUIDMap,
                     m_context>>

\* One <component> node of a multiple bind; XML only.
DeclareMultiBind(f, b) ==
  LET k == m_context[f]
  IN  /\ b.kind = "multi"
      /\ Configure(f)
      /\ multiBindings' = [multiBindings EXCEPT ![k][b.itf] = Append(@, BindOf(b))]
      /\ multiBound' = [multiBound EXCEPT ![k] = @ \union {b.itf}]
      /\ UNCHANGED <<autoBindings, defaultBindings, namedBindings,
                     specificBindings, specificNamedBindings, factoryMethods,
                     componentModuleUUIDMap, m_context>>

\* The same node when it cannot be read: the entry of the interface was made
\* before, and stays, empty if this was to be its first bind.
DeclareMultiBindFails(f, b) ==
  /\ b.kind = "multi"
  /\ Configure(f)
  /\ multiBound' = [multiBound EXCEPT ![m_context[f]] = @ \union {b.itf}]
  /\ UNCHANGED <<autoBindings, defaultBindings, namedBindings, multiBindings,
                 specificBindings, specificNamedBindings, factoryMethods,
                 componentModuleUUIDMap, m_context>>

\* autobind of every interface of a component, where no explicit bind exists.
AutoBind(c) ==
  [component |-> c, scope |-> "Transient", range |-> {"All"}]

\* Faulty: explicit binds are not looked at.
AutoboundAlways(k, c) ==
  [i \in Interfaces |->
     IF i \in Implements[c] THEN AutoBind(c) ELSE autoBindings[k][i]]

Autobound(k, c) ==
  [i \in Interfaces |->
     IF i \in Implements[c] /\ defaultBindings[k][i] = None
       THEN AutoBind(c) ELSE autoBindings[k][i]]

DeclareAutobinds(f, c) ==
  /\ Configure(f)
  /\ autoBindings' = [autoBindings EXCEPT ![m_context[f]] = Autobound(m_context[f], c)]
  /\ componentModuleUUIDMap' =
       [componentModuleUUIDMap EXCEPT ![m_context[f]] = @ \union {c}]
  /\ UNCHANGED <<defaultBindings, namedBindings, multiBindings, multiBound,
                 specificBindings, specificNamedBindings, factoryMethods,
                 m_context>>

\* A <component> node: one that some module already declared is skipped.
DeclareComponent(f, c) ==
  /\ Exists(f)
  /\ c \notin componentModuleUUIDMap[m_context[f]]
  /\ DeclareAutobinds(f, c)

\* A component of a module that is introspected: bound again each time.
DeclareModuleMetadata(f, c) == DeclareAutobinds(f, c)

\* FactoryContext::clear, and the clear of the registry.
EmptyContext(k) ==
  /\ autoBindings' = [autoBindings EXCEPT ![k] = NoBinds]
  /\ defaultBindings' = [defaultBindings EXCEPT ![k] = NoBinds]
  /\ namedBindings' = [namedBindings EXCEPT ![k] = NoNamedBinds]
  /\ multiBindings' = [multiBindings EXCEPT ![k] = [i \in Interfaces |-> <<>>]]
  /\ specificBindings' =
       [specificBindings EXCEPT ![k] = [c \in Components |-> NoBinds]]
  /\ specificNamedBindings' =
       [specificNamedBindings EXCEPT ![k] = [c \in Components |-> NoNamedBinds]]
  /\ factoryMethods' = [factoryMethods EXCEPT ![k] = {}]
  /\ multiBound' = [multiBound EXCEPT ![k] = {}]
  /\ componentModuleUUIDMap' = [componentModuleUUIDMap EXCEPT ![k] = {}]

ClearContext(f) ==
  /\ Configure(f)
  /\ EmptyContext(m_context[f])
  /\ UNCHANGED m_context

\* createNewFactoryContext.  A new factory starts with a context of its own,
\* empty or copied, or takes over the one of its creator.
CopyContext(from, to) ==
  /\ autoBindings' = [autoBindings EXCEPT ![to] = autoBindings[from]]
  /\ defaultBindings' = [defaultBindings EXCEPT ![to] = defaultBindings[from]]
  /\ namedBindings' = [namedBindings EXCEPT ![to] = namedBindings[from]]
  /\ multiBindings' = [multiBindings EXCEPT ![to] = multiBindings[from]]
  /\ specificBindings' = [specificBindings EXCEPT ![to] = specificBindings[from]]
  /\ specificNamedBindings' =
       [specificNamedBindings EXCEPT ![to] = specificNamedBindings[from]]
  /\ factoryMethods' = [factoryMethods EXCEPT ![to] = factoryMethods[from]]
  /\ multiBound' = [multiBound EXCEPT ![to] = multiBound[from]]
  /\ componentModuleUUIDMap' =
       [componentModuleUUIDMap EXCEPT ![to] = componentModuleUUIDMap[from]]

CreateNewFactoryContext(f, new, mode) ==
  /\ Configure(f)
  /\ ~Exists(new)
  /\ m_context' = [m_context EXCEPT ![new] = IF mode = "Shared" THEN m_context[f] ELSE new]
  /\ IF mode = "Cloned" THEN CopyContext(m_context[f], new)
                        ELSE UNCHANGED bindVars

Modes == {"Empty", "Cloned", "Shared"}

Declare(f) ==
  \/ \E b \in BindCalls :
       \/ BindDefault(f, b)
       \/ BindNamed(f, b)
       \/ BindSpecific(f, b)
       \/ BindSpecificNamed(f, b)
       \/ DeclareMultiBind(f, b)
       \/ DeclareMultiBindFails(f, b)
  \/ \E c \in ModuleComponents : DeclareComponent(f, c) \/ DeclareModuleMetadata(f, c)
  \/ \E new \in Factories, mode \in Modes : CreateNewFactoryContext(f, new, mode)

ContextNext == \E f \in Factories : Declare(f) \/ ClearContext(f)

ContextSpec == ContextInit /\ [][ContextNext]_contextVars

-----------------------------------------------------------------------------
(* resolveBind.  levels is the chain of binds that led here, innermost      *)
(* first; the search goes up while each level allows it.                    *)

\* Faulty: the range of a level does not end the search.
AlwaysClimbs(range) == TRUE

\* A search goes on with the parents only where the range allows it.
Climbs(range) == "WithParents" \in range

\* The level at which the search of the loop ends, having the components that
\* have a bind of their own; 0 when it runs out.
LastLevel(levels, owners) ==
  LET stops == {j \in DOMAIN levels :
                  \/ levels[j].component \in owners
                  \/ ~Climbs(levels[j].range)}
  IN  IF stops = {} THEN 0 ELSE CHOOSE j \in stops : \A i \in stops : j <= i

\* The range that decides on the global binds is that of the outermost level.
Allows(levels, flags) ==
  levels = <<>> \/ levels[Len(levels)].range \cap flags # {}

CoreBind(i) ==
  IF i \in DOMAIN CoreBindings
    THEN [component |-> CoreBindings[i], scope |-> "Singleton", range |-> {}]
    ELSE None

ResolveBind(f, i, levels) ==
  LET k == m_context[f]
      owners == {c \in Components : specificBindings[k][c][i] # None}
      last == LastLevel(levels, owners)
  IN  CASE last # 0 /\ levels[last].component \in owners ->
             specificBindings[k][levels[last].component][i]
        [] last # 0 /\ levels[last].component \notin owners
                    /\ levels[last].range = {"Explicit"} -> CoreBind(i)
        [] OTHER ->
             IF Allows(levels, {"Default", "All"}) /\ defaultBindings[k][i] # None
               THEN defaultBindings[k][i]
             ELSE IF Allows(levels, {"All"}) /\ autoBindings[k][i] # None
               THEN autoBindings[k][i]
             ELSE CoreBind(i)

\* The search by name; it falls back on the search without one.
ResolveNamedBind(f, i, n, levels) ==
  LET k == m_context[f]
      key == <<i, n>>
      owners == {c \in Components : specificNamedBindings[k][c][key] # None}
      last == LastLevel(levels, owners)
  IN  CASE last # 0 /\ levels[last].component \in owners ->
             specificNamedBindings[k][levels[last].component][key]
        [] last # 0 /\ levels[last].component \notin owners
                    /\ levels[last].range = {"Explicit"} -> None
        [] OTHER ->
             IF /\ Allows(levels, {"Named", "Default", "All"})
                /\ namedBindings[k][key] # None
               THEN namedBindings[k][key]
             ELSE IF Allows(levels, {"Default", "All"})
               THEN ResolveBind(f, i, levels)
             ELSE None
-----------------------------------------------------------------------------
(* Properties.                                                             *)

Bind == BindInfos \union {None}

ContextTypeOK ==
  /\ autoBindings \in [Factories -> [Interfaces -> Bind]]
  /\ defaultBindings \in [Factories -> [Interfaces -> Bind]]
  /\ namedBindings \in [Factories -> [Interfaces \X Names -> Bind]]
  /\ multiBindings \in [Factories -> [Interfaces -> Seq(BindInfos)]]
  /\ specificBindings \in [Factories -> [Components -> [Interfaces -> Bind]]]
  /\ specificNamedBindings \in
       [Factories -> [Components -> [Interfaces \X Names -> Bind]]]
  /\ factoryMethods \in [Factories -> SUBSET Components]
  /\ multiBound \in [Factories -> SUBSET Interfaces]
  /\ componentModuleUUIDMap \in [Factories -> SUBSET Components]
  /\ m_context \in [Factories -> Factories \union {None}]
  /\ configLeft \in Nat

\* An explicit bind and an autobind of one interface never coexist, in
\* whatever order binds, module loads, copies and clears of shared contexts
\* come: a later load cannot bring back what bind removed.
ExplicitBindReplacesAutobind ==
  \A k \in Factories, i \in Interfaces :
    defaultBindings[k][i] = None \/ autoBindings[k][i] = None

\* The first autobind of an interface is maintained when another component
\* that declares the interface is met.
FirstAutobindIsMaintained ==
  [][\A k \in Factories, i \in Interfaces :
       autoBindings[k][i] # None
         => autoBindings'[k][i] \in {autoBindings[k][i], None}]_contextVars

=============================================================================
