---------------------------- MODULE FactoryProofs ----------------------------
(***************************************************************************)
(* Proofs about the bindings of a factory and about the recursion that     *)
(* builds components by them, for any factories, interfaces, components,   *)
(* binds, injectables and bounds.                                          *)
(***************************************************************************)
EXTENDS Factory, SequenceTheorems, TLAPS

\* What the proof that explicit binds replace autobinds carries along: the
\* types, which say that each context of a factory is one of the contexts.
ContextInv == ContextTypeOK /\ ExplicitBindReplacesAutobind

\* The bind that a declaration stores is a bind, its flag added or not.
LEMMA BindOfType ==
  ASSUME NEW b \in BindCalls
  PROVE  /\ BindOf(b) \in BindInfos
         /\ b.itf \in Interfaces
         /\ b.infos.component \in Components
BY BindCallsAssumption DEF BindOf, BindCall, BindInfos, Flags

\* An autobind is a bind.
LEMMA AutoBindType ==
  ASSUME NEW c \in Components
  PROVE  AutoBind(c) \in BindInfos
BY DEF AutoBind, BindInfos, Flags

\* No constructor has declared a bind yet.
LEMMA InitContextInv == ContextInit => ContextInv
BY MainAssumption, ConfigBoundAssumption
   DEF ContextInit, ContextInv, ContextTypeOK, ExplicitBindReplacesAutobind,
       NoBinds, NoNamedBinds, Bind

\* A factory that exists works on one of the contexts.
LEMMA ContextOfFactory ==
  ASSUME ContextTypeOK, NEW f \in Factories, Exists(f)
  PROVE  m_context[f] \in Factories
BY DEF ContextTypeOK, Exists

\* No declaration breaks the types or brings an autobind next to a bind.
LEMMA NextContextInv ==
  ContextInv /\ [ContextNext]_contextVars => ContextInv'
<1> SUFFICES ASSUME ContextInv, [ContextNext]_contextVars
             PROVE  ContextInv'
  OBVIOUS
<1>1. ASSUME NEW f \in Factories, NEW b \in BindCalls, BindDefault(f, b)
      PROVE  ContextInv'
  <2> DEFINE k == m_context[f]
  <2>1. k \in Factories /\ Exists(f)
    BY <1>1, ContextOfFactory DEF BindDefault, Configure, ContextInv
  <2>2. BindOf(b) \in Bind /\ b.itf \in Interfaces /\ None \in Bind
    BY BindOfType DEF Bind
  <2> HIDE DEF k
  <2>3. /\ autoBindings' = [autoBindings EXCEPT ![k][b.itf] = None]
        /\ defaultBindings' = [defaultBindings EXCEPT ![k][b.itf] = BindOf(b)]
    BY <1>1 DEF BindDefault, k
  <2>4. autoBindings' \in [Factories -> [Interfaces -> Bind]]
    BY <2>1, <2>2, <2>3 DEF ContextInv, ContextTypeOK
  <2>5. defaultBindings' \in [Factories -> [Interfaces -> Bind]]
    BY <2>1, <2>2, <2>3 DEF ContextInv, ContextTypeOK
  <2>6. factoryMethods' \in [Factories -> SUBSET Components]
    BY <1>1, <2>1, BindOfType DEF BindDefault, RegisterMethod, ContextInv, ContextTypeOK, k
  <2>7. configLeft' \in Nat
    BY <1>1 DEF BindDefault, Configure, ContextInv, ContextTypeOK
  <2>8. UNCHANGED <<namedBindings, multiBindings, multiBound, specificBindings,
                   specificNamedBindings, componentModuleUUIDMap, m_context>>
    BY <1>1 DEF BindDefault
  <2>9. ContextTypeOK'
    BY <2>4, <2>5, <2>6, <2>7, <2>8 DEF ContextInv, ContextTypeOK
  <2>10. ExplicitBindReplacesAutobind'
    BY <2>1, <2>2, <2>3 DEF ContextInv, ContextTypeOK, ExplicitBindReplacesAutobind
  <2> QED BY <2>9, <2>10 DEF ContextInv
<1>2. ASSUME NEW f \in Factories, NEW b \in BindCalls, BindNamed(f, b)
      PROVE  ContextInv'
  <2>1. m_context[f] \in Factories
    BY <1>2, ContextOfFactory DEF BindNamed, Configure, ContextInv
  <2>2. namedBindings' \in [Factories -> [Interfaces \X Names -> Bind]]
    BY <1>2, <2>1, BindOfType DEF BindNamed, ContextInv, ContextTypeOK, Bind
  <2>3. factoryMethods' \in [Factories -> SUBSET Components]
    BY <1>2, <2>1, BindOfType
       DEF BindNamed, RegisterMethod, ContextInv, ContextTypeOK
  <2>4. configLeft' \in Nat
    BY <1>2 DEF BindNamed, Configure, ContextInv, ContextTypeOK
  <2>5. UNCHANGED <<autoBindings, defaultBindings, multiBindings, multiBound, specificBindings,
                   specificNamedBindings, componentModuleUUIDMap, m_context>>
    BY <1>2 DEF BindNamed
  <2> QED
    BY <2>2, <2>3, <2>4, <2>5
       DEF ContextInv, ContextTypeOK, ExplicitBindReplacesAutobind
<1>3. ASSUME NEW f \in Factories, NEW b \in BindCalls, BindSpecific(f, b)
      PROVE  ContextInv'
  <2>1. m_context[f] \in Factories
    BY <1>3, ContextOfFactory DEF BindSpecific, Configure, ContextInv
  <2>2. specificBindings' \in [Factories -> [Components -> [Interfaces -> Bind]]]
    <3> DEFINE row == specificBindings[m_context[f]]
               cell == row[b.target]
               newCell == [cell EXCEPT ![b.itf] = BindOf(b)]
               newRow == [row EXCEPT ![b.target] = newCell]
    <3>1. row \in [Components -> [Interfaces -> Bind]]
      BY <2>1 DEF ContextInv, ContextTypeOK
    <3>2. BindOf(b) \in Bind
      BY BindOfType DEF Bind
    <3>3. b.target \in Components => newCell \in [Interfaces -> Bind]
      BY <3>1, <3>2
    <3>4. newRow \in [Components -> [Interfaces -> Bind]]
      BY <3>1, <3>3
    <3>5. specificBindings' = [specificBindings EXCEPT ![m_context[f]] = newRow]
      BY <1>3 DEF BindSpecific
    <3> QED BY <2>1, <3>4, <3>5 DEF ContextInv, ContextTypeOK
  <2>3. factoryMethods' \in [Factories -> SUBSET Components]
    BY <1>3, <2>1, BindOfType
       DEF BindSpecific, RegisterMethod, ContextInv, ContextTypeOK
  <2>4. configLeft' \in Nat
    BY <1>3 DEF BindSpecific, Configure, ContextInv, ContextTypeOK
  <2>5. UNCHANGED <<autoBindings, defaultBindings, namedBindings, multiBindings, multiBound,
                   specificNamedBindings, componentModuleUUIDMap, m_context>>
    BY <1>3 DEF BindSpecific
  <2> QED
    BY <2>2, <2>3, <2>4, <2>5
       DEF ContextInv, ContextTypeOK, ExplicitBindReplacesAutobind
<1>4. ASSUME NEW f \in Factories, NEW b \in BindCalls, BindSpecificNamed(f, b)
      PROVE  ContextInv'
  <2>1. m_context[f] \in Factories
    BY <1>4, ContextOfFactory DEF BindSpecificNamed, Configure, ContextInv
  <2>2. specificNamedBindings' \in [Factories -> [Components -> [Interfaces \X Names -> Bind]]]
    <3> DEFINE row == specificNamedBindings[m_context[f]]
               cell == row[b.target]
               newCell == [cell EXCEPT ![<<b.itf, b.name>>] = BindOf(b)]
               newRow == [row EXCEPT ![b.target] = newCell]
    <3>1. row \in [Components -> [Interfaces \X Names -> Bind]]
      BY <2>1 DEF ContextInv, ContextTypeOK
    <3>2. BindOf(b) \in Bind
      BY BindOfType DEF Bind
    <3>3. b.target \in Components => newCell \in [Interfaces \X Names -> Bind]
      BY <3>1, <3>2
    <3>4. newRow \in [Components -> [Interfaces \X Names -> Bind]]
      BY <3>1, <3>3
    <3>5. specificNamedBindings' = [specificNamedBindings EXCEPT ![m_context[f]] = newRow]
      BY <1>4 DEF BindSpecificNamed
    <3> QED BY <2>1, <3>4, <3>5 DEF ContextInv, ContextTypeOK
  <2>3. factoryMethods' \in [Factories -> SUBSET Components]
    BY <1>4, <2>1, BindOfType
       DEF BindSpecificNamed, RegisterMethod, ContextInv, ContextTypeOK
  <2>4. configLeft' \in Nat
    BY <1>4 DEF BindSpecificNamed, Configure, ContextInv, ContextTypeOK
  <2>5. UNCHANGED <<autoBindings, defaultBindings, namedBindings, multiBindings, multiBound,
                   specificBindings, componentModuleUUIDMap, m_context>>
    BY <1>4 DEF BindSpecificNamed
  <2> QED
    BY <2>2, <2>3, <2>4, <2>5
       DEF ContextInv, ContextTypeOK, ExplicitBindReplacesAutobind
<1>5. ASSUME NEW f \in Factories, NEW b \in BindCalls, DeclareMultiBind(f, b)
      PROVE  ContextInv'
  <2>1. m_context[f] \in Factories
    BY <1>5, ContextOfFactory DEF DeclareMultiBind, Configure, ContextInv
  <2>2. multiBindings' \in [Factories -> [Interfaces -> Seq(BindInfos)]]
    BY <1>5, <2>1, BindOfType DEF DeclareMultiBind, ContextInv, ContextTypeOK, Bind
  <2>3. multiBound' \in [Factories -> SUBSET Interfaces]
    <3>1. multiBound' = [multiBound EXCEPT ![m_context[f]] = @ \union {b.itf}]
      BY <1>5 DEF DeclareMultiBind
    <3> QED BY <2>1, <3>1, BindOfType DEF ContextInv, ContextTypeOK
  <2>4. configLeft' \in Nat
    BY <1>5 DEF DeclareMultiBind, Configure, ContextInv, ContextTypeOK
  <2>5. UNCHANGED <<autoBindings, defaultBindings, namedBindings, specificBindings,
                   specificNamedBindings, factoryMethods, componentModuleUUIDMap,
                   m_context>>
    BY <1>5 DEF DeclareMultiBind
  <2> QED
    BY <2>2, <2>3, <2>4, <2>5
       DEF ContextInv, ContextTypeOK, ExplicitBindReplacesAutobind
<1>6. ASSUME NEW f \in Factories, NEW c \in Components, DeclareAutobinds(f, c)
      PROVE  ContextInv'
  <2> DEFINE k == m_context[f]
  <2>1. k \in Factories
    BY <1>6, ContextOfFactory DEF DeclareAutobinds, Configure, ContextInv
  <2> HIDE DEF k
  <2>2. Autobound(k, c) \in [Interfaces -> Bind]
    BY <2>1, AutoBindType DEF Autobound, Bind, ContextInv, ContextTypeOK
  <2>3. autoBindings' = [autoBindings EXCEPT ![k] = Autobound(k, c)]
    BY <1>6 DEF DeclareAutobinds, k
  <2>4. autoBindings' \in [Factories -> [Interfaces -> Bind]]
    BY <2>1, <2>2, <2>3 DEF ContextInv, ContextTypeOK
  <2>5. componentModuleUUIDMap' \in [Factories -> SUBSET Components]
    BY <1>6, <2>1 DEF DeclareAutobinds, ContextInv, ContextTypeOK, k
  <2>6. configLeft' \in Nat
    BY <1>6 DEF DeclareAutobinds, Configure, ContextInv, ContextTypeOK
  <2>7. UNCHANGED <<defaultBindings, namedBindings, multiBindings, multiBound,
                   specificBindings, specificNamedBindings, factoryMethods, m_context>>
    BY <1>6 DEF DeclareAutobinds
  <2>8. ContextTypeOK'
    BY <2>4, <2>5, <2>6, <2>7 DEF ContextInv, ContextTypeOK
  <2>9. ASSUME NEW j \in Factories, NEW i \in Interfaces
        PROVE  defaultBindings'[j][i] = None \/ autoBindings'[j][i] = None
    <3>1. CASE j = k
      BY <2>1, <2>3, <2>7, <3>1
         DEF Autobound, ContextInv, ContextTypeOK, ExplicitBindReplacesAutobind
    <3>2. CASE j # k
      BY <2>1, <2>3, <2>7, <3>2
         DEF ContextInv, ContextTypeOK, ExplicitBindReplacesAutobind
    <3> QED BY <3>1, <3>2
  <2> QED BY <2>8, <2>9 DEF ContextInv, ExplicitBindReplacesAutobind
<1>7. ASSUME NEW f \in Factories, ClearContext(f)
      PROVE  ContextInv'
  <2> DEFINE k == m_context[f]
  <2>1. k \in Factories
    BY <1>7, ContextOfFactory DEF ClearContext, Configure, ContextInv
  <2>2. EmptyContext(k) /\ UNCHANGED m_context
    BY <1>7 DEF ClearContext
  <2> HIDE DEF k
  <2>3. /\ autoBindings' \in [Factories -> [Interfaces -> Bind]]
        /\ defaultBindings' \in [Factories -> [Interfaces -> Bind]]
        /\ namedBindings' \in [Factories -> [Interfaces \X Names -> Bind]]
    BY <2>1, <2>2
       DEF EmptyContext, NoBinds, NoNamedBinds, Bind, ContextInv, ContextTypeOK
  <2>4. /\ multiBindings' \in [Factories -> [Interfaces -> Seq(BindInfos)]]
        /\ specificBindings' \in [Factories -> [Components -> [Interfaces -> Bind]]]
        /\ specificNamedBindings' \in
             [Factories -> [Components -> [Interfaces \X Names -> Bind]]]
    <3>1. /\ NoBinds \in [Interfaces -> Bind]
          /\ NoNamedBinds \in [Interfaces \X Names -> Bind]
      BY DEF NoBinds, NoNamedBinds, Bind
    <3>2. multiBindings' \in [Factories -> [Interfaces -> Seq(BindInfos)]]
      BY <2>1, <2>2 DEF EmptyContext, ContextInv, ContextTypeOK
    <3>3. specificBindings' \in [Factories -> [Components -> [Interfaces -> Bind]]]
      BY <2>1, <2>2, <3>1 DEF EmptyContext, ContextInv, ContextTypeOK
    <3>4. specificNamedBindings' \in
            [Factories -> [Components -> [Interfaces \X Names -> Bind]]]
      BY <2>1, <2>2, <3>1 DEF EmptyContext, ContextInv, ContextTypeOK
    <3> QED BY <3>2, <3>3, <3>4
  <2>5. /\ multiBound' \in [Factories -> SUBSET Interfaces]
        /\ factoryMethods' \in [Factories -> SUBSET Components]
        /\ componentModuleUUIDMap' \in [Factories -> SUBSET Components]
    BY <2>1, <2>2 DEF EmptyContext, ContextInv, ContextTypeOK
  <2>6. configLeft' \in Nat
    BY <1>7 DEF ClearContext, Configure, ContextInv, ContextTypeOK
  <2>7. ContextTypeOK'
    BY <2>2, <2>3, <2>4, <2>5, <2>6 DEF ContextInv, ContextTypeOK
  <2>8. ExplicitBindReplacesAutobind'
    BY <2>1, <2>2
       DEF EmptyContext, NoBinds, ContextInv, ContextTypeOK,
           ExplicitBindReplacesAutobind
  <2> QED BY <2>7, <2>8 DEF ContextInv
<1>8. ASSUME NEW f \in Factories, NEW new \in Factories, NEW mode \in Modes,
             CreateNewFactoryContext(f, new, mode)
      PROVE  ContextInv'
  <2> DEFINE k == m_context[f]
  <2>1. k \in Factories
    BY <1>8, ContextOfFactory DEF CreateNewFactoryContext, Configure, ContextInv
  <2>2. m_context' \in [Factories -> Factories \union {None}]
    BY <1>8, <2>1 DEF CreateNewFactoryContext, ContextInv, ContextTypeOK
  <2>3. configLeft' \in Nat
    BY <1>8 DEF CreateNewFactoryContext, Configure, ContextInv, ContextTypeOK
  <2>4. CASE CopyContext(k, new)
    <3> HIDE DEF k
    <3>1. /\ autoBindings' \in [Factories -> [Interfaces -> Bind]]
          /\ defaultBindings' \in [Factories -> [Interfaces -> Bind]]
          /\ namedBindings' \in [Factories -> [Interfaces \X Names -> Bind]]
      BY <2>1, <2>4 DEF CopyContext, ContextInv, ContextTypeOK
    <3>2. /\ multiBindings' \in [Factories -> [Interfaces -> Seq(BindInfos)]]
          /\ specificBindings' \in [Factories -> [Components -> [Interfaces -> Bind]]]
          /\ specificNamedBindings' \in
               [Factories -> [Components -> [Interfaces \X Names -> Bind]]]
      BY <2>1, <2>4 DEF CopyContext, ContextInv, ContextTypeOK
    <3>3. /\ multiBound' \in [Factories -> SUBSET Interfaces]
          /\ factoryMethods' \in [Factories -> SUBSET Components]
          /\ componentModuleUUIDMap' \in [Factories -> SUBSET Components]
      BY <2>1, <2>4 DEF CopyContext, ContextInv, ContextTypeOK
    <3>4. ContextTypeOK'
      BY <2>2, <2>3, <3>1, <3>2, <3>3 DEF ContextTypeOK
    <3>5. ExplicitBindReplacesAutobind'
      BY <2>1, <2>4
         DEF CopyContext, ContextInv, ContextTypeOK, ExplicitBindReplacesAutobind
    <3> QED BY <3>4, <3>5 DEF ContextInv
  <2>5. CASE UNCHANGED bindVars
    BY <2>2, <2>3, <2>5
       DEF bindVars, ContextInv, ContextTypeOK, ExplicitBindReplacesAutobind
  <2> QED BY <1>8, <2>4, <2>5 DEF CreateNewFactoryContext
<1>9. ASSUME NEW f \in Factories, NEW b \in BindCalls, DeclareMultiBindFails(f, b)
      PROVE  ContextInv'
  <2>1. m_context[f] \in Factories
    BY <1>9, ContextOfFactory DEF DeclareMultiBindFails, Configure, ContextInv
  <2>2. multiBound' \in [Factories -> SUBSET Interfaces]
    <3>1. multiBound' = [multiBound EXCEPT ![m_context[f]] = @ \union {b.itf}]
      BY <1>9 DEF DeclareMultiBindFails
    <3> QED BY <2>1, <3>1, BindOfType DEF ContextInv, ContextTypeOK
  <2>3. configLeft' \in Nat
    BY <1>9 DEF DeclareMultiBindFails, Configure, ContextInv, ContextTypeOK
  <2>4. UNCHANGED <<autoBindings, defaultBindings, namedBindings, multiBindings,
                   specificBindings, specificNamedBindings, factoryMethods,
                   componentModuleUUIDMap, m_context>>
    BY <1>9 DEF DeclareMultiBindFails
  <2> QED
    BY <2>2, <2>3, <2>4
       DEF ContextInv, ContextTypeOK, ExplicitBindReplacesAutobind
<1>10. CASE UNCHANGED contextVars
  BY <1>10
     DEF contextVars, bindVars, ContextInv, ContextTypeOK,
         ExplicitBindReplacesAutobind
<1> QED
  BY <1>1, <1>2, <1>3, <1>4, <1>5, <1>6, <1>7, <1>8, <1>9, <1>10
     DEF ContextNext, Declare, DeclareComponent, DeclareModuleMetadata,
         ModuleComponents

\* A step of the factory is a declaration or leaves the bindings alone.
LEMMA FactoryStepsAreContextSteps ==
  [Next]_vars => [ContextNext]_contextVars
<1> SUFFICES ASSUME [Next]_vars PROVE [ContextNext]_contextVars
  OBVIOUS
<1>1. CASE Configuring
  BY <1>1 DEF Configuring, Clear, ContextNext
<1>2. CASE CallStep
  BY <1>2 DEF CallStep, Resolve, ResolveAll, CreateComponent, Begin
<1>3. CASE RunStep
  BY <1>3 DEF RunStep, InjectNext, MultiNext, MultiReturn, FinishComponent,
              ConfigureFails, ConfigureIgnored, Unwind, Injected, Running
<1>4. CASE UNCHANGED vars
  BY <1>4 DEF vars
<1> QED BY <1>1, <1>2, <1>3, <1>4 DEF Next

\* bind and autobind in Factory.cpp: whatever binds, loads, copies of a
\* context and clears of a shared one are mixed, an interface bound
\* explicitly never has an autobind beside it.
THEOREM ExplicitBindsPrevail == Spec => []ExplicitBindReplacesAutobind
<1>1. Init => ContextInv
  BY InitContextInv DEF Init
<1>2. ContextInv /\ [Next]_vars => ContextInv'
  BY NextContextInv, FactoryStepsAreContextSteps
<1> QED BY <1>1, <1>2, PTL DEF Spec, ContextInv

-----------------------------------------------------------------------------
(* The recursion.  A call is described by the instances made so far and the *)
(* stack of its frames; f is the factory that it runs on.                   *)

ComponentFrame ==
  [kind : {"component"}, component : Components, levels : Seq(BindInfos),
   inst : Nat, cache : {"none", "singleton", "named"},
   name : Names \union {None}]

ResolveAllFrame ==
  [kind : {"all"}, itf : Interfaces, levels : Seq(BindInfos), next : Nat,
   phase : {"shared", "own"}, got : SUBSET Nat]

Frame == ComponentFrame \union ResolveAllFrame

Instance ==
  [component : Components, factory : Factories,
   scope : {"Transient", "Singleton"}, cache : {"none", "singleton", "named"},
   strict : BOOLEAN, injected : Seq(SUBSET Nat), complete : BOOLEAN,
   stale : BOOLEAN]

Finished(made, ids) ==
  \A d \in ids \ {CoreInst} : d \in DOMAIN made /\ made[d].complete

Missing(inst) == Len(Injectables[inst.component]) - Len(inst.injected)

(* The injectable that an instance is waiting for.                          *)
NextOf(inst) == Injectables[inst.component][Len(inst.injected) + 1]

(* A component may get nothing for an optional or a multiple injectable.    *)
MayMiss(injectable) == injectable.optional \/ injectable.multi

(* What has been injected is finished, and is there if it is mandatory.     *)
InjectedOK(made) ==
  \A id \in DOMAIN made :
    /\ Missing(made[id]) >= 0
    /\ made[id].complete => Missing(made[id]) = 0
    /\ \A j \in 1..Len(made[id].injected) :
         /\ \/ MayMiss(Injectables[made[id].component][j])
            \/ made[id].injected[j] # {}
         /\ Finished(made, made[id].injected[j])

(* A frame of resolveComponent builds an instance that is not stale; only   *)
(* the outermost may have been made by createComponent.                     *)
ComponentOK(f, made, frame, j) ==
  /\ frame.inst \in DOMAIN made
  /\ made[frame.inst].component = frame.component
  /\ made[frame.inst].factory = f
  /\ ~made[frame.inst].stale
  /\ made[frame.inst].strict \/ j = 1
  /\ frame.levels # <<>> => frame.levels[1].component = frame.component

(* A frame of resolveAll has collected finished instances.                  *)
ResolveAllOK(f, made, frame) ==
  LET binds == multiBindings[m_context[f]][frame.itf]
  IN  /\ frame.next >= 1
      /\ frame.next <= Len(binds) =>
           frame.levels # <<>> /\ frame.levels[1] = binds[frame.next]
      /\ Finished(made, frame.got)

FrameOK(f, made, frame, j) ==
  /\ frame.kind = "component" => ComponentOK(f, made, frame, j)
  /\ frame.kind = "all" => ResolveAllOK(f, made, frame)

(* The outer constructions began first.                                     *)
Ordered(stk) ==
  \A j, k \in DOMAIN stk :
    /\ j < k
    /\ stk[j].kind = "component"
    /\ stk[k].kind = "component"
    => stk[j].inst < stk[k].inst

CallState(f, made, stk) ==
  /\ made \in Seq(Instance)
  /\ stk \in Seq(Frame)
  /\ InjectedOK(made)
  /\ \A j \in 1..Len(stk) : FrameOK(f, made, stk[j], j)
  /\ Ordered(stk)

(* resolveAll runs for a multiple injectable or for the application.        *)
AllFramesCalled(made, stk) ==
  \A j \in 1..(Len(stk) - 1) :
    stk[j + 1].kind = "all" =>
      stk[j].kind = "component" /\ NextOf(made[stk[j].inst]).multi

(* The first n frames wait for an injectable of theirs.                     *)
Waiting(made, stk, n) ==
  /\ \A j \in 1..n : stk[j].kind = "component" => Missing(made[stk[j].inst]) > 0
  /\ AllFramesCalled(made, stk)

(* A cached instance is finished, and was built by the factory that has it. *)
CachedOK(f, made, id) ==
  id # None =>
    /\ Exists(f)
    /\ id \in DOMAIN made
    /\ made[id].complete
    /\ made[id].factory = f

CachesOK ==
  /\ m_singletonInstances \in [Factories -> [Components -> Nat \union {None}]]
  /\ m_namedSingletonInstances \in
       [Factories -> [Components \X Names -> Nat \union {None}]]
  /\ \A f \in Factories :
       /\ \A c \in Components : CachedOK(f, instances, m_singletonInstances[f][c])
       /\ \A k \in Components \X Names :
            CachedOK(f, instances, m_namedSingletonInstances[f][k])

(* What a caller got is finished, or was made by createComponent and has    *)
(* all that could be injected.                                              *)
Returnable(made, ids) ==
  \A id \in ids \ {CoreInst} :
    /\ id \in DOMAIN made
    /\ made[id].complete \/ ~made[id].strict
    /\ Missing(made[id]) = 0

CallInv ==
  /\ active \in Factories
  /\ stack # <<>> => Exists(active)
  /\ thrown # NoException => stack # <<>>
  /\ CallState(active, instances, stack)
  /\ Waiting(instances, stack, Len(stack) - 1)
  /\ thrown # NoException => Waiting(instances, stack, Len(stack))
  /\ CachesOK
  /\ Returnable(instances, outcome.ids)

(* What a step of a call may do to the instances.                           *)
KeptIn(made, after) ==
  \A id \in DOMAIN made :
    /\ id \in DOMAIN after
    /\ made[id].complete => after[id].complete
    /\ after[id].component = made[id].component
    /\ after[id].factory = made[id].factory
    /\ after[id].strict = made[id].strict
    /\ after[id].stale = made[id].stale
    /\ Missing(made[id]) = 0 => Missing(after[id]) = 0

\* A component's injectables are a sequence.
LEMMA MissingType ==
  ASSUME NEW inst \in Instance
  PROVE  /\ Len(inst.injected) \in Nat
         /\ Len(Injectables[inst.component]) \in Nat
         /\ Missing(inst) \in Int
         /\ inst.injected \in Seq(SUBSET Nat)
<1>1. inst.injected \in Seq(SUBSET Nat) /\ inst.component \in Components
  BY DEF Instance
<1>2. Injectables[inst.component] \in Seq(Injectable)
  BY <1>1, InjectablesAssumption
<1> QED BY <1>1, <1>2, LenProperties DEF Missing

\* What is finished stays finished while instances are only added to.
LEMMA FinishedIsKept ==
  ASSUME NEW made, NEW after, NEW ids, KeptIn(made, after), Finished(made, ids)
  PROVE  Finished(after, ids)
BY DEF KeptIn, Finished

\* A new instance: nothing is injected in it yet, and nothing depends on it.
LEMMA InstanceAdded ==
  ASSUME NEW made \in Seq(Instance), InjectedOK(made),
         NEW inst \in Instance, inst.injected = <<>>, ~inst.complete
  PROVE  /\ Append(made, inst) \in Seq(Instance)
         /\ Len(Append(made, inst)) = Len(made) + 1
         /\ Append(made, inst)[Len(made) + 1] = inst
         /\ \A id \in DOMAIN made : Append(made, inst)[id] = made[id]
         /\ InjectedOK(Append(made, inst))
         /\ KeptIn(made, Append(made, inst))
<1> DEFINE after == Append(made, inst)
<1>1. /\ after \in Seq(Instance)
      /\ Len(after) = Len(made) + 1
      /\ after[Len(made) + 1] = inst
      /\ DOMAIN made = 1..Len(made)
      /\ DOMAIN after = 1..(Len(made) + 1)
      /\ Len(made) \in Nat
      /\ \A id \in DOMAIN made : after[id] = made[id]
  BY AppendProperties, LenProperties
<1> HIDE DEF after
<1>2. KeptIn(made, after)
  BY <1>1 DEF KeptIn
<1>3. InjectedOK(after)
  <2> SUFFICES ASSUME NEW id \in DOMAIN after
               PROVE  /\ Missing(after[id]) >= 0
                      /\ after[id].complete => Missing(after[id]) = 0
                      /\ \A j \in 1..Len(after[id].injected) :
                           /\ \/ MayMiss(Injectables[after[id].component][j])
                              \/ after[id].injected[j] # {}
                           /\ Finished(after, after[id].injected[j])
    BY DEF InjectedOK
  <2>1. CASE id \in DOMAIN made
    <3>1. after[id] = made[id]
      BY <1>1, <2>1
    <3>2. \A j \in 1..Len(made[id].injected) : Finished(made, made[id].injected[j])
      BY <2>1 DEF InjectedOK
    <3>3. \A j \in 1..Len(made[id].injected) : Finished(after, made[id].injected[j])
      BY <3>2, <1>2, FinishedIsKept
    <3> QED BY <2>1, <3>1, <3>3 DEF InjectedOK
  <2>2. CASE id = Len(made) + 1
    BY <1>1, <2>2, MissingType DEF Missing
  <2> QED BY <1>1, <2>1, <2>2
<1> QED BY <1>1, <1>2, <1>3 DEF after

\* inject: one more injectable of an instance that misses some.
LEMMA InstanceInjected ==
  ASSUME NEW made \in Seq(Instance), InjectedOK(made),
         NEW n \in DOMAIN made, Missing(made[n]) > 0,
         NEW ids \in SUBSET Nat, Finished(made, ids),
         \/ ids # {}
         \/ MayMiss(NextOf(made[n])),
         NEW new, new = [made[n] EXCEPT !.injected = Append(@, ids)],
         NEW after, after = [made EXCEPT ![n] = new]
  PROVE  /\ after \in Seq(Instance)
         /\ Len(after) = Len(made)
         /\ \A id \in DOMAIN made \ {n} : after[id] = made[id]
         /\ InjectedOK(after)
         /\ KeptIn(made, after)
<1> DEFINE old == made[n]
           more == Append(old.injected, ids)
<1>1. /\ old \in Instance
      /\ old.injected \in Seq(SUBSET Nat)
      /\ Len(old.injected) \in Nat
      /\ DOMAIN made = 1..Len(made)
      /\ Len(made) \in Nat
  BY LenProperties, MissingType
<1>2. /\ more \in Seq(SUBSET Nat)
      /\ Len(more) = Len(old.injected) + 1
      /\ \A j \in 1..Len(old.injected) : more[j] = old.injected[j]
      /\ more[Len(old.injected) + 1] = ids
  BY <1>1, AppendProperties
<1>3. new = [old EXCEPT !.injected = more]
  OBVIOUS
<1> HIDE DEF more
<1>4. new \in Instance
  BY <1>1, <1>2, <1>3 DEF Instance
<1>0. /\ new.injected = more
      /\ new.component = old.component
      /\ new.factory = old.factory
      /\ new.strict = old.strict
      /\ new.stale = old.stale
      /\ new.complete = old.complete
  BY <1>1, <1>2, <1>3 DEF Instance
<1>5. /\ after \in Seq(Instance)
      /\ Len(after) = Len(made)
      /\ DOMAIN after = DOMAIN made
      /\ after[n] = new
      /\ \A id \in DOMAIN made \ {n} : after[id] = made[id]
  BY <1>1, <1>4
<1>6. /\ Missing(old) > 0
      /\ ~old.complete
      /\ Missing(new) = Missing(old) - 1
      /\ Missing(old) \in Int
  <2>1. Missing(old) > 0 /\ Missing(old) \in Int
    BY <1>1, MissingType
  <2>2. ~old.complete
    BY <2>1 DEF InjectedOK
  <2>3. Missing(new) = Missing(old) - 1
    <3>1. Len(Injectables[old.component]) \in Nat
      BY <1>1, MissingType
    <3>2. Missing(new) = Len(Injectables[old.component]) - (Len(old.injected) + 1)
      BY <1>0, <1>2 DEF Missing
    <3>3. Missing(old) = Len(Injectables[old.component]) - Len(old.injected)
      BY DEF Missing
    <3> HIDE DEF Missing, old
    <3> QED BY <1>1, <3>1, <3>2, <3>3
  <2> QED BY <2>1, <2>2, <2>3
<1>7. KeptIn(made, after)
  BY <1>0, <1>5, <1>6 DEF KeptIn
<1>8. InjectedOK(after)
  <2> SUFFICES ASSUME NEW id \in DOMAIN made
               PROVE  /\ Missing(after[id]) >= 0
                      /\ after[id].complete => Missing(after[id]) = 0
                      /\ \A j \in 1..Len(after[id].injected) :
                           /\ \/ MayMiss(Injectables[after[id].component][j])
                              \/ after[id].injected[j] # {}
                           /\ Finished(after, after[id].injected[j])
    BY <1>5 DEF InjectedOK
  <2>1. \A j \in 1..Len(made[id].injected) : Finished(after, made[id].injected[j])
    BY <1>7, FinishedIsKept DEF InjectedOK
  <2>2. CASE id # n
    BY <1>5, <2>1, <2>2 DEF InjectedOK
  <2>3. CASE id = n
    <3>1. Missing(after[id]) >= 0
      <4>1. Missing(new) >= 0
        BY <1>6
      <4> QED BY <1>5, <2>3, <4>1
    <3>2. ~after[id].complete
      BY <1>0, <1>5, <1>6, <2>3
    <3>3. ASSUME NEW j \in 1..Len(more)
          PROVE  /\ MayMiss(Injectables[old.component][j]) \/ more[j] # {}
                 /\ Finished(after, more[j])
      <4>1. CASE j \in 1..Len(old.injected)
        BY <1>2, <2>1, <2>3, <4>1 DEF InjectedOK
      <4>2. CASE j = Len(old.injected) + 1
        BY <1>2, <1>7, <4>2, FinishedIsKept DEF NextOf
      <4> QED BY <1>1, <1>2, <4>1, <4>2
    <3> QED BY <1>0, <1>5, <2>3, <3>1, <3>2, <3>3
  <2> QED BY <2>2, <2>3
<1> QED BY <1>5, <1>7, <1>8

\* The last step of resolveComponent: an instance that misses nothing is
\* complete.
LEMMA InstanceCompleted ==
  ASSUME NEW made \in Seq(Instance), InjectedOK(made),
         NEW n \in DOMAIN made, Missing(made[n]) = 0,
         NEW new, new = [made[n] EXCEPT !.complete = TRUE],
         NEW after, after = [made EXCEPT ![n] = new]
  PROVE  /\ after \in Seq(Instance)
         /\ Len(after) = Len(made)
         /\ after[n].complete
         /\ \A id \in DOMAIN made : Missing(after[id]) = Missing(made[id])
         /\ \A id \in DOMAIN made : NextOf(after[id]) = NextOf(made[id])
         /\ InjectedOK(after)
         /\ KeptIn(made, after)
<1> DEFINE old == made[n]
<1>1. /\ old \in Instance
      /\ DOMAIN made = 1..Len(made)
      /\ Len(made) \in Nat
  BY LenProperties
<1>3. new \in Instance
  BY <1>1 DEF Instance
<1>0. /\ new.injected = old.injected
      /\ new.component = old.component
      /\ new.factory = old.factory
      /\ new.strict = old.strict
      /\ new.stale = old.stale
      /\ new.complete
  BY <1>1 DEF Instance
<1>4. /\ after \in Seq(Instance)
      /\ Len(after) = Len(made)
      /\ DOMAIN after = DOMAIN made
      /\ after[n] = new
      /\ \A id \in DOMAIN made \ {n} : after[id] = made[id]
  BY <1>1, <1>3
<1>5. \A id \in DOMAIN made :
        /\ after[id].injected = made[id].injected
        /\ after[id].component = made[id].component
        /\ Missing(after[id]) = Missing(made[id])
        /\ NextOf(after[id]) = NextOf(made[id])
        /\ after[id].complete => made[id].complete \/ id = n
  BY <1>0, <1>4 DEF Missing, NextOf
<1>6. KeptIn(made, after)
  BY <1>0, <1>4, <1>5 DEF KeptIn
<1>7. InjectedOK(after)
  <2> SUFFICES ASSUME NEW id \in DOMAIN made
               PROVE  /\ Missing(after[id]) >= 0
                      /\ after[id].complete => Missing(after[id]) = 0
                      /\ \A j \in 1..Len(after[id].injected) :
                           /\ \/ MayMiss(Injectables[after[id].component][j])
                              \/ after[id].injected[j] # {}
                           /\ Finished(after, after[id].injected[j])
    BY <1>4 DEF InjectedOK
  <2>1. \A j \in 1..Len(made[id].injected) : Finished(after, made[id].injected[j])
    BY <1>6, FinishedIsKept DEF InjectedOK
  <2>2. /\ Missing(made[id]) >= 0
        /\ made[id].complete => Missing(made[id]) = 0
        /\ \A j \in 1..Len(made[id].injected) :
             \/ MayMiss(Injectables[made[id].component][j])
             \/ made[id].injected[j] # {}
    BY DEF InjectedOK
  <2>3. after[id].complete => Missing(after[id]) = 0
    BY <1>5, <2>2
  <2> QED BY <1>5, <2>1, <2>2, <2>3
<1> QED BY <1>0, <1>4, <1>5, <1>6, <1>7

\* Frames, caches and results stay in order while instances are only added to.
LEMMA StateIsKept ==
  ASSUME NEW f, NEW made, NEW after, NEW stk, CallState(f, made, stk),
         after \in Seq(Instance), InjectedOK(after), KeptIn(made, after)
  PROVE  CallState(f, after, stk)
<1> SUFFICES ASSUME NEW j \in 1..Len(stk)
             PROVE  FrameOK(f, after, stk[j], j)
  BY DEF CallState
<1>1. FrameOK(f, made, stk[j], j)
  BY DEF CallState
<1>2. stk[j].kind = "component" => ComponentOK(f, after, stk[j], j)
  BY <1>1 DEF FrameOK, ComponentOK, KeptIn
<1>3. stk[j].kind = "all" => ResolveAllOK(f, after, stk[j])
  BY <1>1, FinishedIsKept DEF FrameOK, ResolveAllOK
<1> QED BY <1>2, <1>3 DEF FrameOK

\* A cached instance stays what it is while instances are only added to.
LEMMA CachesAreKept ==
  ASSUME CachesOK, KeptIn(instances, instances'), UNCHANGED <<cacheVars, m_context>>
  PROVE  CachesOK'
<1>1. UNCHANGED <<m_singletonInstances, m_namedSingletonInstances>>
  BY DEF cacheVars
<1>2. \A f, id : CachedOK(f, instances, id) => CachedOK(f, instances, id)'
  BY DEF CachedOK, KeptIn, Exists
<1>3. \A f \in Factories, c \in Components :
        CachedOK(f, instances, m_singletonInstances[f][c])'
  BY <1>1, <1>2 DEF CachesOK
<1>4. \A f \in Factories, k \in Components \X Names :
        CachedOK(f, instances, m_namedSingletonInstances[f][k])'
  BY <1>1, <1>2 DEF CachesOK
<1> QED BY <1>1, <1>3, <1>4 DEF CachesOK

\* What a caller got stays what it is.
LEMMA ReturnableIsKept ==
  ASSUME NEW made, NEW after, NEW ids, Returnable(made, ids), KeptIn(made, after)
  PROVE  Returnable(after, ids)
BY DEF Returnable, KeptIn

\* Two steps that keep the instances keep them together.
LEMMA KeptIsTransitive ==
  ASSUME NEW a, NEW b, NEW c, KeptIn(a, b), KeptIn(b, c)
  PROVE  KeptIn(a, c)
BY DEF KeptIn

(* A return removes frames and changes none but that of a resolveAll.       *)
KeepsFrames(after, stk) ==
  /\ Len(after) <= Len(stk)
  /\ \A j \in 1..Len(after) :
       /\ after[j].kind = stk[j].kind
       /\ stk[j].kind = "component" => after[j] = stk[j]

IsExplicit(frame) ==
  /\ frame.kind = "component"
  /\ frame.levels # <<>>
  /\ frame.levels[1].range = {"Explicit"}

(* The binds a component bound for explicit injection may get.              *)
OwnBinds(k, c) ==
  {specificBindings[k][c][i] : i \in Interfaces}
    \union {specificNamedBindings[k][c][key] : key \in Interfaces \X Names}
    \union {CoreBind(i) : i \in Interfaces}

(* A singleton is begun when there is none, and what an explicit component  *)
(* gets is bound for it.                                                    *)
MayBegin(f, component, cache, levels) ==
  /\ cache = "singleton" => m_singletonInstances[f][component] = None
  /\ stack # <<>> /\ IsExplicit(Top) =>
       levels[1] \in OwnBinds(m_context[f], Top.component)

StackMoves(f) ==
  \/ KeepsFrames(stack', stack)
  \/ \E frame :
       /\ stack' = Append(stack, frame)
       /\ frame.kind = "component" =>
            MayBegin(f, frame.component, frame.cache, frame.levels)

(* What a step of a call on f leaves behind.                                *)
CallGoesOn(f) ==
  /\ CallState(f, instances', stack')
  /\ Waiting(instances', stack', Len(stack') - 1)
  /\ thrown' # NoException => stack' # <<>> /\ Waiting(instances', stack', Len(stack'))
  /\ KeptIn(instances, instances')
  /\ Returnable(instances', outcome'.ids)
  /\ StackMoves(f)

\* What resolveBind finds is a bind, whatever the levels.
LEMMA ResolvedType ==
  ASSUME ContextTypeOK, NEW f \in Factories, Exists(f), NEW i \in Interfaces,
         NEW levels
  PROVE  ResolveBind(f, i, levels) \in Bind
<1> DEFINE k == m_context[f]
<1>1. k \in Factories
  BY ContextOfFactory
<1> HIDE DEF k
<1>2. CoreBind(i) \in Bind
  BY CoreAssumption DEF CoreBind, Bind, BindInfos
<1>3. /\ defaultBindings[k][i] \in Bind
      /\ autoBindings[k][i] \in Bind
      /\ \A c \in Components : specificBindings[k][c][i] \in Bind
  BY <1>1 DEF ContextTypeOK
<1> QED BY <1>2, <1>3 DEF ResolveBind, k

\* What the search by name finds is a bind.
LEMMA ResolvedNamedType ==
  ASSUME ContextTypeOK, NEW f \in Factories, Exists(f), NEW i \in Interfaces,
         NEW n \in Names, NEW levels
  PROVE  ResolveNamedBind(f, i, n, levels) \in Bind
<1> DEFINE k == m_context[f]
<1>1. k \in Factories
  BY ContextOfFactory
<1> HIDE DEF k
<1>2. /\ namedBindings[k][<<i, n>>] \in Bind
      /\ \A c \in Components : specificNamedBindings[k][c][<<i, n>>] \in Bind
  BY <1>1 DEF ContextTypeOK
<1>3. ResolveBind(f, i, levels) \in Bind /\ None \in Bind
  BY ResolvedType DEF Bind
<1> QED BY <1>2, <1>3 DEF ResolveNamedBind, k

\* A bind of a multiple bind is a bind.
LEMMA MultiBindsType ==
  ASSUME ContextTypeOK, NEW f \in Factories, Exists(f), NEW i \in Interfaces
  PROVE  multiBindings[m_context[f]][i] \in Seq(BindInfos)
<1>1. multiBindings \in [Factories -> [Interfaces -> Seq(BindInfos)]]
  BY DEF ContextTypeOK
<1>2. m_context[f] \in Factories
  BY ContextOfFactory
<1> QED BY <1>1, <1>2

\* A frame is of one of two kinds.
LEMMA FrameKinds ==
  ASSUME NEW frame \in Frame
  PROVE  /\ frame.kind = "component" => frame \in ComponentFrame
         /\ frame.kind = "all" => frame \in ResolveAllFrame
         /\ frame.kind \in {"component", "all"}
BY DEF Frame, ComponentFrame, ResolveAllFrame

\* resolveAll moves to its next bind.
LEMMA AtBindOK ==
  ASSUME ContextTypeOK, NEW f \in Factories, Exists(f), NEW made,
         NEW frame \in ResolveAllFrame,
         Finished(made, frame.got), NEW j \in Nat, j >= 1
  PROVE  /\ AtBind(f, frame, j) \in ResolveAllFrame
         /\ ResolveAllOK(f, made, AtBind(f, frame, j))
<1> DEFINE binds == multiBindings[m_context[f]][frame.itf]
<1>1. /\ binds \in Seq(BindInfos)
      /\ frame.itf \in Interfaces
      /\ Len(binds) \in Nat
      /\ frame.levels \in Seq(BindInfos)
  BY MultiBindsType, LenProperties DEF ResolveAllFrame
<1>2. CASE j > Len(binds)
  <2>1. AtBind(f, frame, j) = [frame EXCEPT !.next = j]
    BY <1>2 DEF AtBind
  <2>2. [frame EXCEPT !.next = j] \in ResolveAllFrame
    BY DEF ResolveAllFrame
  <2>3. ResolveAllOK(f, made, [frame EXCEPT !.next = j])
    BY <1>1, <1>2 DEF ResolveAllOK, ResolveAllFrame
  <2> QED BY <2>1, <2>2, <2>3
<1>3. CASE j <= Len(binds)
  <2> DEFINE levels == <<binds[j]>> \o frame.levels
             phase == IF binds[j].scope = "Singleton" THEN "shared" ELSE "own"
             new == [frame EXCEPT !.next = j, !.levels = levels, !.phase = phase]
  <2>1. AtBind(f, frame, j) = new
    BY <1>1, <1>3 DEF AtBind
  <2>2. binds[j] \in BindInfos
    BY <1>1, <1>3
  <2>3. levels \in Seq(BindInfos) /\ levels # <<>> /\ levels[1] = binds[j]
    BY <1>1, <2>2
  <2>4. phase \in {"shared", "own"}
    OBVIOUS
  <2> HIDE DEF levels, phase, binds
  <2>5. new \in ResolveAllFrame
    BY <2>3, <2>4 DEF ResolveAllFrame
  <2>6. /\ new.itf = frame.itf
        /\ new.got = frame.got
        /\ new.next = j
        /\ new.levels = levels
    BY DEF ResolveAllFrame
  <2>7. ResolveAllOK(f, made, new)
    BY <2>3, <2>6 DEF ResolveAllOK, binds
  <2> QED BY <2>1, <2>5, <2>7
<1> QED BY <1>1, <1>2, <1>3

\* resolveAll takes the instances that a bind of it has led to.
LEMMA CollectedOK ==
  ASSUME ContextTypeOK, NEW f \in Factories, Exists(f), NEW made,
         NEW frame \in ResolveAllFrame, ResolveAllOK(f, made, frame),
         NEW ids \in SUBSET Nat, Finished(made, ids)
  PROVE  /\ Collected(f, frame, ids) \in ResolveAllFrame
         /\ ResolveAllOK(f, made, Collected(f, frame, ids))
<1> DEFINE with == [frame EXCEPT !.got = @ \union ids]
<1>1. /\ with \in ResolveAllFrame
      /\ with.itf = frame.itf
      /\ with.next = frame.next
      /\ with.levels = frame.levels
      /\ with.got = frame.got \union ids
  BY DEF ResolveAllFrame
<1> HIDE DEF with
<1>2. Finished(made, with.got)
  BY <1>1 DEF ResolveAllOK, Finished
<1>3. CASE frame.phase = "shared"
  <2> DEFINE new == [with EXCEPT !.phase = "own"]
  <2>1. Collected(f, frame, ids) = new
    BY <1>3 DEF Collected, with
  <2>2. /\ new \in ResolveAllFrame
        /\ new.itf = with.itf
        /\ new.next = with.next
        /\ new.levels = with.levels
        /\ new.got = with.got
    BY <1>1 DEF ResolveAllFrame
  <2> HIDE DEF new
  <2>3. ResolveAllOK(f, made, new)
    BY <1>1, <1>2, <2>2 DEF ResolveAllOK
  <2> QED BY <2>1, <2>2, <2>3
<1>4. CASE frame.phase # "shared"
  <2>1. Collected(f, frame, ids) = AtBind(f, with, frame.next + 1)
    BY <1>4 DEF Collected, with
  <2>2. frame.next \in Nat /\ frame.next >= 1
    BY DEF ResolveAllOK, ResolveAllFrame
  <2>4. frame.next + 1 \in Nat /\ frame.next + 1 >= 1
    BY <2>2
  <2>5. /\ AtBind(f, with, frame.next + 1) \in ResolveAllFrame
        /\ ResolveAllOK(f, made, AtBind(f, with, frame.next + 1))
    BY <1>1, <1>2, <2>4, AtBindOK
  <2> QED BY <2>1, <2>5
<1> QED BY <1>3, <1>4

\* The search for what an explicit component needs ends at its own binds.
LEMMA ExplicitEndsSearch ==
  ASSUME NEW levels \in Seq(BindInfos), levels # <<>>,
         levels[1].range = {"Explicit"}, NEW owners
  PROVE  LastLevel(levels, owners) = 1
<1> DEFINE stops == {j \in DOMAIN levels :
                       \/ levels[j].component \in owners
                       \/ ~Climbs(levels[j].range)}
<1>1. DOMAIN levels = 1..Len(levels) /\ Len(levels) \in Nat /\ Len(levels) >= 1
  BY LenProperties
<1>2. ~Climbs(levels[1].range)
  BY DEF Climbs
<1>3. 1 \in stops /\ stops \subseteq 1..Len(levels)
  <2>1. 1 \in DOMAIN levels
    BY <1>1
  <2>2. 1 \in stops
    BY <1>2, <2>1
  <2>3. stops \subseteq DOMAIN levels
    OBVIOUS
  <2> HIDE DEF stops
  <2> QED BY <1>1, <2>2, <2>3
<1>4. LastLevel(levels, owners) = CHOOSE j \in stops : \A i \in stops : j <= i
  BY <1>3 DEF LastLevel
<1> HIDE DEF stops
<1>5. \E j \in stops : \A i \in stops : j <= i
  BY <1>1, <1>3
<1>6. \A j \in stops : (\A i \in stops : j <= i) => j = 1
  BY <1>1, <1>3
<1> QED BY <1>4, <1>5, <1>6

\* resolveBind for an explicit component.
LEMMA ExplicitFindsItsOwn ==
  ASSUME NEW f, NEW i \in Interfaces,
         NEW levels \in Seq(BindInfos), levels # <<>>,
         levels[1].range = {"Explicit"}
  PROVE  ResolveBind(f, i, levels) \in OwnBinds(m_context[f], levels[1].component)
<1> DEFINE k == m_context[f]
           own == levels[1].component
<1> PICK owners : owners = {c \in Components : specificBindings[k][c][i] # None}
  OBVIOUS
<1>1. LastLevel(levels, owners) = 1 /\ 1 # 0
  BY ExplicitEndsSearch
<1>2. CASE own \in owners
  <2>1. ResolveBind(f, i, levels) = specificBindings[k][own][i]
    BY <1>1, <1>2, Zenon DEF ResolveBind
  <2> QED BY <2>1 DEF OwnBinds
<1>3. CASE own \notin owners
  <2>1. ResolveBind(f, i, levels) = CoreBind(i)
    BY <1>1, <1>3, Zenon DEF ResolveBind
  <2> QED BY <2>1 DEF OwnBinds
<1> QED BY <1>2, <1>3

\* The same by name.
LEMMA ExplicitFindsItsOwnNamed ==
  ASSUME NEW f, NEW i \in Interfaces, NEW n \in Names,
         NEW levels \in Seq(BindInfos), levels # <<>>,
         levels[1].range = {"Explicit"}
  PROVE  ResolveNamedBind(f, i, n, levels) \in
           OwnBinds(m_context[f], levels[1].component) \union {None}
<1> DEFINE k == m_context[f]
           own == levels[1].component
<1> PICK owners :
      owners = {c \in Components : specificNamedBindings[k][c][<<i, n>>] # None}
  OBVIOUS
<1>1. LastLevel(levels, owners) = 1 /\ 1 # 0
  BY ExplicitEndsSearch
<1>2. CASE own \in owners
  <2>1. ResolveNamedBind(f, i, n, levels) = specificNamedBindings[k][own][<<i, n>>]
    BY <1>1, <1>2, Zenon DEF ResolveNamedBind
  <2> QED BY <2>1 DEF OwnBinds
<1>3. CASE own \notin owners
  <2>1. ResolveNamedBind(f, i, n, levels) = None
    BY <1>1, <1>3, Zenon DEF ResolveNamedBind
  <2> QED BY <2>1
<1> QED BY <1>2, <1>3

\* A place of a stack under its last one.
LEMMA PlacesBelow ==
  ASSUME NEW n \in Nat, NEW j \in 1..n, j # n
  PROVE  j \in 1..(n - 1) /\ j + 1 \in 1..n
OBVIOUS

\* The stack without its innermost frame.
LEMMA BelowState ==
  ASSUME NEW f, NEW made, NEW stk, CallState(f, made, stk), stk # <<>>,
         Waiting(made, stk, Len(stk) - 1),
         NEW below, below = SubSeq(stk, 1, Len(stk) - 1)
  PROVE  /\ CallState(f, made, below)
         /\ Len(below) = Len(stk) - 1
         /\ \A j \in 1..Len(below) : below[j] = stk[j]
         /\ Waiting(made, below, Len(below))
         /\ KeepsFrames(below, stk)
<1>1. stk \in Seq(Frame) /\ Len(stk) \in Nat /\ Len(stk) >= 1
  BY LenProperties DEF CallState
<1>2. \A j \in 1..(Len(stk) - 1) : stk[j] \in Frame
  BY <1>1
<1>3. /\ below \in Seq(Frame)
      /\ Len(below) = Len(stk) - 1
      /\ \A j \in 1..(Len(stk) - 1) : below[j] = stk[j]
  <2>1. /\ below \in Seq(Frame)
        /\ Len(below) = IF 1 <= Len(stk) - 1 THEN Len(stk) - 1 - 1 + 1 ELSE 0
        /\ \A j \in 1..(Len(stk) - 1 - 1 + 1) : below[j] = stk[1 + j - 1]
    BY <1>1, <1>2, SubSeqProperties
  <2>2. Len(below) = Len(stk) - 1
    <3> DEFINE n == Len(stk)
    <3>1. n \in Nat /\ n >= 1 /\ Len(below) = IF 1 <= n - 1 THEN n - 1 - 1 + 1 ELSE 0
      BY <1>1, <2>1
    <3> HIDE DEF n
    <3>2. Len(below) = n - 1
      BY <3>1
    <3> QED BY <3>2 DEF n
  <2>3. ASSUME NEW j \in 1..(Len(stk) - 1)
        PROVE  below[j] = stk[j]
    <3>1. j \in 1..(Len(stk) - 1 - 1 + 1) /\ 1 + j - 1 = j
      BY <1>1
    <3> QED BY <2>1, <3>1
  <2> QED BY <2>1, <2>2, <2>3
<1>4. DOMAIN below = 1..(Len(stk) - 1) /\ DOMAIN stk = 1..Len(stk)
  BY <1>1, <1>3, LenProperties
<1>5. \A j \in 1..Len(below) : FrameOK(f, made, below[j], j)
  BY <1>1, <1>3 DEF CallState
<1>6. Ordered(below)
  BY <1>1, <1>3, <1>4 DEF CallState, Ordered
<1>7. CallState(f, made, below)
  BY <1>3, <1>5, <1>6 DEF CallState
<1>8. Waiting(made, below, Len(below))
  BY <1>1, <1>3 DEF Waiting, AllFramesCalled
<1>9. KeepsFrames(below, stk)
  BY <1>1, <1>3 DEF KeepsFrames
<1> QED BY <1>3, <1>7, <1>8, <1>9

\* A call returns finished instances to the frame that waits for them.
LEMMA Delivered ==
  ASSUME ContextTypeOK, NEW f \in Factories, Exists(f), NEW made, NEW stk,
         CallState(f, made, stk), stk # <<>>, Waiting(made, stk, Len(stk)),
         NEW ids \in SUBSET Nat, Finished(made, ids),
         stk[Len(stk)].kind = "component" =>
           ids # {} \/ MayMiss(NextOf(made[stk[Len(stk)].inst])),
         Deliver(f, stk, made, ids)
  PROVE  /\ CallState(f, instances', stack')
         /\ Waiting(instances', stack', Len(stack') - 1)
         /\ thrown' = NoException
         /\ outcome' = outcome
         /\ KeptIn(made, instances')
         /\ KeepsFrames(stack', stk)
<1> DEFINE last == Len(stk)
           top == stk[last]
<1>1. /\ stk \in Seq(Frame)
      /\ last \in Nat
      /\ last >= 1
      /\ DOMAIN stk = 1..last
      /\ top \in Frame
      /\ FrameOK(f, made, top, last)
      /\ top.kind = "component" => Missing(made[top.inst]) > 0
  BY LenProperties DEF CallState, Waiting
<1>2. thrown' = NoException /\ outcome' = outcome
  BY DEF Deliver
<1>3. CASE top.kind = "component"
  <2> DEFINE n == top.inst
             new == [made[n] EXCEPT !.injected = Append(@, ids)]
  <2>1. /\ stack' = stk
        /\ instances' = [made EXCEPT ![n].injected = Append(@, ids)]
    BY <1>3 DEF Deliver
  <2>2. instances' = [made EXCEPT ![n] = new]
    BY <2>1
  <2>3. /\ n \in DOMAIN made
        /\ made[n].component = top.component
        /\ Missing(made[n]) > 0
    BY <1>1, <1>3 DEF FrameOK, ComponentOK
  <2>4. made \in Seq(Instance) /\ InjectedOK(made)
    BY DEF CallState
  <2>5. ids # {} \/ MayMiss(NextOf(made[n]))
    BY <1>3
  <2> HIDE DEF new
  <2>6. new = [made[n] EXCEPT !.injected = Append(@, ids)]
    BY DEF new
  <2> HIDE DEF n
  <2>7. /\ instances' \in Seq(Instance)
        /\ \A id \in DOMAIN made \ {n} : instances'[id] = made[id]
        /\ InjectedOK(instances')
        /\ KeptIn(made, instances')
    BY <2>2, <2>3, <2>4, <2>5, <2>6, InstanceInjected
  <2>8. CallState(f, instances', stack')
    BY <2>1, <2>7, StateIsKept
  <2>9. ASSUME NEW j \in 1..(last - 1), stk[j].kind = "component"
        PROVE  Missing(instances'[stk[j].inst]) > 0
    <3>1. FrameOK(f, made, stk[j], j) /\ Missing(made[stk[j].inst]) > 0
      BY <1>1, <2>9 DEF CallState, Waiting
    <3>2. stk[j].inst \in DOMAIN made
      BY <2>9, <3>1 DEF FrameOK, ComponentOK
    <3>3. stk[j].inst < n
      BY <1>1, <1>3, <2>9 DEF CallState, Ordered, n
    <3>4. stk[j].inst # n
      <4>1. DOMAIN made = 1..Len(made) /\ Len(made) \in Nat
        BY <2>4, LenProperties
      <4> QED BY <2>3, <3>2, <3>3, <4>1
    <3> QED BY <2>7, <3>1, <3>2, <3>4
  <2>12. AllFramesCalled(instances', stack')
    <3> SUFFICES ASSUME NEW j \in 1..(last - 1), stk[j + 1].kind = "all"
                 PROVE  /\ stk[j].kind = "component"
                        /\ NextOf(instances'[stk[j].inst]).multi
      BY <2>1 DEF AllFramesCalled
    <3>1. stk[j].kind = "component" /\ NextOf(made[stk[j].inst]).multi
      BY DEF Waiting, AllFramesCalled
    <3>2. FrameOK(f, made, stk[j], j) /\ stk[j].inst \in DOMAIN made
      BY <1>1, <3>1 DEF CallState, FrameOK, ComponentOK
    <3>3. stk[j].inst < n
      BY <1>1, <1>3, <3>1 DEF CallState, Ordered, n
    <3>4. stk[j].inst # n
      <4>1. DOMAIN made = 1..Len(made) /\ Len(made) \in Nat
        BY <2>4, LenProperties
      <4> QED BY <2>3, <3>2, <3>3, <4>1
    <3> QED BY <2>7, <3>1, <3>2, <3>4
  <2>10. Waiting(instances', stack', Len(stack') - 1)
    BY <2>1, <2>9, <2>12 DEF Waiting
  <2>11. KeepsFrames(stack', stk)
    BY <1>1, <2>1 DEF KeepsFrames
  <2> QED BY <1>2, <2>7, <2>8, <2>10, <2>11
<1>4. CASE top.kind = "all"
  <2> DEFINE new == Collected(f, top, ids)
  <2>1. /\ stack' = [stk EXCEPT ![last] = new]
        /\ instances' = made
    BY <1>4 DEF Deliver
  <2>2. top \in ResolveAllFrame /\ ResolveAllOK(f, made, top)
    BY <1>1, <1>4, FrameKinds DEF FrameOK
  <2>3. new \in ResolveAllFrame /\ ResolveAllOK(f, made, new)
    BY <2>2, CollectedOK
  <2> HIDE DEF new
  <2>4. new \in Frame /\ new.kind = "all"
    BY <2>3 DEF Frame, ResolveAllFrame
  <2>5. /\ stack' \in Seq(Frame)
        /\ Len(stack') = last
        /\ DOMAIN stack' = 1..last
        /\ stack'[last] = new
        /\ \A j \in (1..last) \ {last} : stack'[j] = stk[j]
    BY <1>1, <2>1, <2>4
  <2>6. \A j \in 1..last : FrameOK(f, made, stack'[j], j)
    BY <1>1, <2>3, <2>4, <2>5 DEF CallState, FrameOK
  <2>7. KeepsFrames(stack', stk)
    <3>1. Len(stack') <= Len(stk)
      <4>1. Len(stack') = Len(stk) /\ Len(stk) \in Nat
        BY <1>1, <2>5
      <4> QED BY <4>1
    <3>2. ASSUME NEW j \in 1..Len(stack')
          PROVE  /\ stack'[j].kind = stk[j].kind
                 /\ stk[j].kind = "component" => stack'[j] = stk[j]
      <4>1. CASE j = last
        BY <1>4, <2>4, <2>5, <4>1
      <4>2. CASE j # last
        BY <2>5, <4>2
      <4> QED BY <4>1, <4>2
    <3> QED BY <3>1, <3>2 DEF KeepsFrames
  <2>8. Ordered(stack')
    BY <1>1, <2>5, <2>7 DEF CallState, Ordered, KeepsFrames
  <2>9. CallState(f, instances', stack')
    BY <2>1, <2>5, <2>6, <2>8 DEF CallState
  <2>12. AllFramesCalled(made, stack')
    <3> SUFFICES ASSUME NEW j \in 1..(last - 1), stack'[j + 1].kind = "all"
                 PROVE  /\ stack'[j].kind = "component"
                        /\ NextOf(made[stack'[j].inst]).multi
      BY <2>5 DEF AllFramesCalled
    <3>1. j \in (1..last) \ {last} /\ j + 1 \in 1..last
      <4>1. last \in Nat /\ j \in 1..(last - 1)
        BY <1>1
      <4> HIDE DEF last
      <4> QED BY <4>1
    <3>2. stk[j + 1].kind = "all" /\ stack'[j] = stk[j]
      BY <2>5, <2>7, <3>1 DEF KeepsFrames
    <3> QED BY <3>2 DEF Waiting, AllFramesCalled
  <2>10. Waiting(instances', stack', Len(stack') - 1)
    BY <1>1, <2>1, <2>5, <2>12 DEF Waiting
  <2>11. KeptIn(made, instances')
    BY <2>1 DEF KeptIn
  <2> QED BY <1>2, <2>7, <2>9, <2>10, <2>11
<1> QED BY <1>1, <1>3, <1>4, FrameKinds

\* resolveComponent begins: its frame is on top of those that wait for it.
LEMMA Entered ==
  ASSUME NEW f \in Factories, Exists(f), thrown = NoException,
         CallState(f, instances, stack), Waiting(instances, stack, Len(stack)),
         Returnable(instances, outcome.ids),
         NEW bind \in BindInfos, NEW levels \in Seq(BindInfos),
         levels # <<>> => levels[1].component = bind.component,
         NEW cache \in {"none", "singleton", "named"},
         NEW name \in Names \union {None},
         NEW strict \in BOOLEAN, strict \/ stack = <<>>,
         MayBegin(f, bind.component, cache, levels),
         NEW creatable, Enter(f, bind, levels, cache, name, strict, creatable)
  PROVE  CallGoesOn(f)
<1>1. /\ instances \in Seq(Instance)
      /\ InjectedOK(instances)
      /\ stack \in Seq(Frame)
      /\ Len(stack) \in Nat
      /\ Len(instances) \in Nat
      /\ DOMAIN instances = 1..Len(instances)
      /\ DOMAIN stack = 1..Len(stack)
  BY LenProperties DEF CallState
<1>2. Waiting(instances, stack, Len(stack) - 1)
  BY <1>1 DEF Waiting
<1>3. KeptIn(instances, instances)
  BY DEF KeptIn
<1>0. KeepsFrames(stack, stack)
  BY <1>1 DEF KeepsFrames
<1>4. ASSUME NEW inst,
             inst = NewInstance(f, bind.component, bind.scope, cache, strict),
             NEW frame,
             frame = [kind |-> "component", component |-> bind.component,
                      levels |-> levels, inst |-> Len(instances) + 1,
                      cache |-> cache, name |-> name],
             instances' = Append(instances, inst),
             stack' = Append(stack, frame),
             thrown' = thrown, outcome' = outcome
      PROVE  CallGoesOn(f)
  <2>1. /\ inst \in Instance
        /\ inst.injected = <<>>
        /\ ~inst.complete
        /\ ~inst.stale
        /\ inst.component = bind.component
        /\ inst.factory = f
        /\ inst.strict = strict
    BY <1>4 DEF NewInstance, Instance, BindInfos
  <2>2. /\ instances' \in Seq(Instance)
        /\ Len(instances') = Len(instances) + 1
        /\ instances'[Len(instances) + 1] = inst
        /\ \A id \in DOMAIN instances : instances'[id] = instances[id]
        /\ InjectedOK(instances')
        /\ KeptIn(instances, instances')
    BY <1>1, <1>4, <2>1, InstanceAdded
  <2>3. /\ frame \in Frame
        /\ frame.kind = "component"
        /\ frame.inst = Len(instances) + 1
        /\ frame.component = bind.component
        /\ frame.levels = levels
        /\ frame.cache = cache
    BY <1>1, <1>4 DEF Frame, ComponentFrame, BindInfos
  <2>4. /\ stack' \in Seq(Frame)
        /\ Len(stack') = Len(stack) + 1
        /\ \A j \in 1..Len(stack) : stack'[j] = stack[j]
        /\ stack'[Len(stack) + 1] = frame
    BY <1>1, <1>4, <2>3, AppendProperties
  <2>5. CallState(f, instances', stack)
    BY <2>2, StateIsKept
  <2>6. DOMAIN instances' = 1..(Len(instances) + 1) /\ DOMAIN stack' = 1..(Len(stack) + 1)
    BY <1>1, <2>2, <2>4, LenProperties
  <2>7. FrameOK(f, instances', frame, Len(stack) + 1)
    <3>1. strict \/ Len(stack) + 1 = 1
      BY <1>1
    <3>2. ComponentOK(f, instances', frame, Len(stack) + 1)
      BY <1>1, <2>1, <2>2, <2>3, <2>6, <3>1 DEF ComponentOK
    <3> QED BY <2>3, <3>2 DEF FrameOK
  <2>8. \A j \in 1..Len(stack') : FrameOK(f, instances', stack'[j], j)
    BY <1>1, <2>4, <2>5, <2>7 DEF CallState
  <2>9. \A j \in 1..Len(stack) :
          stack[j].kind = "component" => stack[j].inst \in DOMAIN instances
    BY DEF CallState, FrameOK, ComponentOK
  <2>10. Ordered(stack')
    <3> SUFFICES ASSUME NEW j \in 1..(Len(stack) + 1), NEW m \in 1..(Len(stack) + 1),
                        j < m, stack'[j].kind = "component",
                        stack'[m].kind = "component"
                 PROVE  stack'[j].inst < stack'[m].inst
      BY <2>6 DEF Ordered
    <3>1. j \in 1..Len(stack) /\ stack'[j] = stack[j]
      BY <1>1, <2>4
    <3>2. CASE m \in 1..Len(stack)
      BY <1>1, <2>4, <3>1, <3>2 DEF CallState, Ordered
    <3>3. CASE m = Len(stack) + 1
      BY <1>1, <2>3, <2>4, <2>9, <3>1, <3>3
    <3> QED BY <1>1, <3>2, <3>3
  <2>11. CallState(f, instances', stack')
    BY <2>2, <2>4, <2>8, <2>10 DEF CallState
  <2>15. AllFramesCalled(instances', stack')
    <3> SUFFICES ASSUME NEW j \in 1..Len(stack), stack'[j + 1].kind = "all"
                 PROVE  /\ stack'[j].kind = "component"
                        /\ NextOf(instances'[stack'[j].inst]).multi
      BY <1>1, <2>4 DEF AllFramesCalled
    <3>1. j # Len(stack)
      BY <2>3, <2>4
    <3>2. j \in 1..(Len(stack) - 1) /\ j + 1 \in 1..Len(stack)
      <4>1. Len(stack) \in Nat
        BY <1>1
      <4> QED BY <3>1, <4>1, PlacesBelow
    <3>3. stack[j].kind = "component" /\ NextOf(instances[stack[j].inst]).multi
      BY <2>4, <3>2 DEF Waiting, AllFramesCalled
    <3> QED BY <2>2, <2>4, <2>9, <3>3
  <2>12. Waiting(instances', stack', Len(stack') - 1)
    BY <1>1, <2>2, <2>4, <2>9, <2>15 DEF Waiting
  <2>13. Returnable(instances', outcome'.ids)
    BY <1>4, <2>2, ReturnableIsKept
  <2>14. StackMoves(f)
    BY <1>4, <2>3 DEF StackMoves
  <2> QED BY <1>4, <2>2, <2>11, <2>12, <2>13, <2>14 DEF CallGoesOn
<1>5. ASSUME NEW exception, Raise(stack, exception), UNCHANGED instances
      PROVE  CallGoesOn(f)
  <2>1. stack' = stack /\ instances' = instances /\ (thrown' # NoException => stack # <<>>)
    BY <1>5 DEF Raise
  <2>2. outcome'.ids \in {{}, outcome.ids}
    BY <1>5 DEF Raise
  <2>3. Returnable(instances, outcome'.ids)
    BY <2>2 DEF Returnable
  <2> QED BY <1>0, <1>2, <1>3, <2>1, <2>3 DEF CallGoesOn, StackMoves
<1>6. CASE UNCHANGED <<instances, stack, thrown, outcome>>
  BY <1>0, <1>2, <1>3, <1>6 DEF CallGoesOn, StackMoves
<1> QED BY <1>4, <1>5, <1>6 DEF Enter

\* Finished instances are fit for the caller of the factory.
LEMMA FinishedIsReturnable ==
  ASSUME NEW made, InjectedOK(made), NEW ids, Finished(made, ids)
  PROVE  Returnable(made, ids)
BY DEF Finished, Returnable, InjectedOK

\* A call returns finished instances, to a frame or to the application.
LEMMA Returned ==
  ASSUME ContextTypeOK, NEW f \in Factories, Exists(f), NEW made, NEW stk,
         CallState(f, made, stk), Waiting(made, stk, Len(stk)),
         KeepsFrames(stk, stack), stack \in Seq(Frame),
         KeptIn(instances, made), Returnable(instances, outcome.ids),
         NEW ids \in SUBSET Nat, Finished(made, ids),
         stk # <<>> /\ stk[Len(stk)].kind = "component" =>
           ids # {} \/ MayMiss(NextOf(made[stk[Len(stk)].inst])),
         Deliver(f, stk, made, ids)
  PROVE  CallGoesOn(f)
<1>1. CASE stk = <<>>
  <2>1. thrown' = NoException /\ outcome'.ids = ids /\ stack' = stk /\ instances' = made
    BY <1>1 DEF Deliver
  <2>2. Returnable(made, ids)
    BY FinishedIsReturnable DEF CallState
  <2>3. Waiting(made, stk, Len(stk) - 1)
    BY <1>1 DEF Waiting, AllFramesCalled
  <2> QED BY <2>1, <2>2, <2>3 DEF CallGoesOn, StackMoves
<1>2. CASE stk # <<>>
  <2>1. /\ CallState(f, instances', stack')
        /\ Waiting(instances', stack', Len(stack') - 1)
        /\ thrown' = NoException
        /\ outcome' = outcome
        /\ KeptIn(made, instances')
        /\ KeepsFrames(stack', stk)
    BY <1>2, Delivered
  <2>2. KeptIn(instances, instances')
    BY <2>1, KeptIsTransitive
  <2>3. Returnable(instances', outcome'.ids)
    BY <2>1, <2>2, ReturnableIsKept
  <2>4. KeepsFrames(stack', stack)
    <3>1. Len(stack') \in Nat /\ Len(stk) \in Nat /\ Len(stack) \in Nat
      BY <2>1, LenProperties DEF CallState
    <3> QED BY <2>1, <3>1 DEF KeepsFrames
  <2> QED BY <2>1, <2>2, <2>3, <2>4 DEF CallGoesOn, StackMoves
<1> QED BY <1>1, <1>2

\* An exception leaves the frames that wait as they are.
LEMMA Raised ==
  ASSUME NEW f, NEW stk, CallState(f, instances, stk),
         Waiting(instances, stk, Len(stk)), Returnable(instances, outcome.ids),
         KeepsFrames(stk, stack),
         NEW exception, Raise(stk, exception), UNCHANGED instances
  PROVE  CallGoesOn(f)
<1>1. stack' = stk /\ (thrown' # NoException => stk # <<>>) /\ outcome'.ids \in {{}, outcome.ids}
  BY DEF Raise
<1>2. Returnable(instances, outcome'.ids)
  BY <1>1 DEF Returnable
<1>3. Len(stk) \in Nat
  BY LenProperties DEF CallState
<1>4. Waiting(instances, stk, Len(stk) - 1)
  BY <1>3 DEF Waiting
<1>5. KeptIn(instances, instances)
  BY DEF KeptIn
<1> QED BY <1>1, <1>2, <1>4, <1>5 DEF CallGoesOn, StackMoves

\* A cached singleton is finished.
LEMMA CachedIsFinished ==
  ASSUME CachesOK, NEW f \in Factories, NEW c \in Components,
         NEW n \in Names \union {None}, instances \in Seq(Instance),
         NEW id \in {m_singletonInstances[f][c], m_namedSingletonInstances[f][<<c, n>>]},
         id # None, id = m_singletonInstances[f][c] \/ n # None
  PROVE  {id} \in SUBSET Nat /\ Finished(instances, {id})
<1>1. CachedOK(f, instances, id)
  BY DEF CachesOK
<1>2. DOMAIN instances \subseteq Nat
  BY LenProperties
<1> QED BY <1>1, <1>2 DEF CachedOK, Finished

(* What is resolved for an explicit component starts from its own level.    *)
LevelsOfTop(levels) ==
  stack # <<>> /\ IsExplicit(Top) =>
    levels = Top.levels /\ levels[1].component = Top.component

\* resolve: a bind found, and its component cached or begun; or an exception.
LEMMA Requested ==
  ASSUME ContextTypeOK, CachesOK, NEW f \in Factories, Exists(f), thrown = NoException,
         CallState(f, instances, stack), Waiting(instances, stack, Len(stack)),
         Returnable(instances, outcome.ids),
         NEW i \in Interfaces, NEW n \in Names \union {None},
         NEW levels \in Seq(BindInfos), LevelsOfTop(levels),
         Request(f, i, n, levels)
  PROVE  CallGoesOn(f)
<1> PICK bind \in {IF n = None THEN ResolveBind(f, i, levels)
                               ELSE ResolveNamedBind(f, i, n, levels)} :
           IF bind = None
             THEN Raise(stack, "xpcf::Exception") /\ UNCHANGED <<instances, crashed>>
           ELSE IF bind.scope = "Singleton" /\ Cached(f, bind, n) # None
             THEN Deliver(f, stack, instances, {Cached(f, bind, n)}) /\ UNCHANGED crashed
           ELSE Enter(f, bind, <<bind>> \o levels,
                      IF bind.scope = "Transient" THEN "none"
                      ELSE IF n = None THEN "singleton" ELSE "named",
                      n, TRUE, Creatable(f, bind))
  BY DEF Request
<1>1. bind \in Bind
  <2>1. CASE n = None
    BY <2>1, ResolvedType
  <2>2. CASE n # None
    BY <2>2, ResolvedNamedType
  <2> QED BY <2>1, <2>2
<1>0. KeepsFrames(stack, stack)
  <2>1. Len(stack) \in Nat
    BY LenProperties DEF CallState
  <2> QED BY <2>1 DEF KeepsFrames
<1>2. CASE bind = None
  BY <1>0, <1>2, Raised
<1>3. CASE bind # None /\ bind.scope = "Singleton" /\ Cached(f, bind, n) # None
  <2>1. bind \in BindInfos /\ bind.component \in Components
    BY <1>1, <1>3 DEF Bind, BindInfos
  <2>2. {Cached(f, bind, n)} \in SUBSET Nat /\ Finished(instances, {Cached(f, bind, n)})
    <3>1. CASE n # None
      <4>1. Cached(f, bind, n) = m_namedSingletonInstances[f][<<bind.component, n>>]
        BY <3>1 DEF Cached
      <4> QED BY <1>3, <2>1, <3>1, <4>1, CachedIsFinished DEF CallState
    <3>2. CASE n = None /\ bind.range = {}
      <4>1. Cached(f, bind, n) = CoreInst
        BY <3>2 DEF Cached
      <4> QED BY <4>1 DEF CoreInst, Finished
    <3>3. CASE n = None /\ bind.range # {}
      <4>1. Cached(f, bind, n) = m_singletonInstances[f][bind.component]
        BY <3>3 DEF Cached
      <4> QED BY <1>3, <2>1, <3>3, <4>1, CachedIsFinished DEF CallState
    <3> QED BY <3>1, <3>2, <3>3
  <2>3. Deliver(f, stack, instances, {Cached(f, bind, n)})
    BY <1>3
  <2>4. KeptIn(instances, instances)
    BY DEF KeptIn
  <2> QED BY <1>0, <2>2, <2>3, <2>4, Returned DEF CallState
<1>4. CASE bind # None /\ ~(bind.scope = "Singleton" /\ Cached(f, bind, n) # None)
  <2> DEFINE cache == IF bind.scope = "Transient" THEN "none"
                      ELSE IF n = None THEN "singleton" ELSE "named"
             above == <<bind>> \o levels
  <2>1. Enter(f, bind, above, cache, n, TRUE, Creatable(f, bind))
    BY <1>4
  <2>2. bind \in BindInfos
    BY <1>1, <1>4 DEF Bind
  <2>3. above \in Seq(BindInfos) /\ above[1] = bind
    BY <2>2
  <2>4. cache \in {"none", "singleton", "named"}
    OBVIOUS
  <2>5. cache = "singleton" => m_singletonInstances[f][bind.component] = None
    <3> SUFFICES ASSUME cache = "singleton"
                 PROVE  m_singletonInstances[f][bind.component] = None
      OBVIOUS
    <3>1. n = None /\ bind.scope = "Singleton"
      BY <2>2 DEF BindInfos
    <3>2. Cached(f, bind, n) = None
      BY <1>4, <3>1
    <3> QED BY <3>1, <3>2, NoneIsNoInstance DEF Cached, CoreInst
  <2>6. ASSUME stack # <<>>, IsExplicit(Top)
        PROVE  bind \in OwnBinds(m_context[f], Top.component)
    <3>1. /\ levels # <<>>
          /\ levels[1].range = {"Explicit"}
          /\ levels[1].component = Top.component
      BY <2>6 DEF LevelsOfTop, IsExplicit
    <3>2. CASE n = None
      <4>1. bind = ResolveBind(f, i, levels)
        BY <3>2
      <4> QED BY <3>1, <4>1, ExplicitFindsItsOwn
    <3>3. CASE n # None
      <4>1. bind = ResolveNamedBind(f, i, n, levels)
        BY <3>3
      <4> QED BY <1>4, <3>1, <3>3, <4>1, ExplicitFindsItsOwnNamed
    <3> QED BY <3>2, <3>3
  <2>7. MayBegin(f, bind.component, cache, above)
    BY <2>3, <2>5, <2>6 DEF MayBegin
  <2> HIDE DEF above, cache
  <2> QED BY <2>1, <2>2, <2>3, <2>4, <2>7, Entered
<1> QED BY <1>2, <1>3, <1>4

\* resolveAll: a frame of its own for a multiple bind.
LEMMA RequestedAll ==
  ASSUME ContextTypeOK, CachesOK, NEW f \in Factories, Exists(f), thrown = NoException,
         CallState(f, instances, stack), Waiting(instances, stack, Len(stack)),
         Returnable(instances, outcome.ids),
         NEW i \in Interfaces, NEW levels \in Seq(BindInfos), LevelsOfTop(levels),
         stack # <<>> => Top.kind = "component" /\ NextOf(instances[Top.inst]).multi,
         RequestAll(f, i, levels)
  PROVE  CallGoesOn(f)
<1>1. CASE i \notin multiBound[m_context[f]]
  BY <1>1, Requested DEF RequestAll
<1>2. CASE i \in multiBound[m_context[f]]
  <2> DEFINE first == [kind |-> "all", itf |-> i, levels |-> levels,
                       next |-> 0, phase |-> "own", got |-> {}]
             frame == AtBind(f, first, 1)
  <2>1. /\ first \in ResolveAllFrame
        /\ first.itf = i
        /\ first.got = {}
    BY DEF ResolveAllFrame
  <2>2. /\ stack' = Append(stack, frame)
        /\ UNCHANGED <<instances, thrown, outcome>>
    BY <1>2 DEF RequestAll
  <2> HIDE DEF first
  <2>3. Finished(instances, first.got)
    BY <2>1 DEF Finished
  <2>4. frame \in ResolveAllFrame /\ ResolveAllOK(f, instances, frame)
    <3>1. 1 \in Nat /\ 1 >= 1
      OBVIOUS
    <3> QED BY <2>1, <2>3, <3>1, AtBindOK
  <2> HIDE DEF frame
  <2>5. frame \in Frame /\ frame.kind = "all"
    BY <2>4 DEF Frame, ResolveAllFrame
  <2>6. stack \in Seq(Frame) /\ Len(stack) \in Nat /\ DOMAIN stack = 1..Len(stack)
    BY LenProperties DEF CallState
  <2>7. /\ stack' \in Seq(Frame)
        /\ Len(stack') = Len(stack) + 1
        /\ DOMAIN stack' = 1..(Len(stack) + 1)
        /\ \A j \in 1..Len(stack) : stack'[j] = stack[j]
        /\ stack'[Len(stack) + 1] = frame
    BY <2>2, <2>5, <2>6, AppendProperties, LenProperties
  <2>8. FrameOK(f, instances, frame, Len(stack) + 1)
    BY <2>4, <2>5 DEF FrameOK
  <2>9. \A j \in 1..Len(stack') : FrameOK(f, instances, stack'[j], j)
    BY <2>6, <2>7, <2>8 DEF CallState
  <2>10. Ordered(stack')
    BY <2>5, <2>6, <2>7 DEF CallState, Ordered
  <2>11. CallState(f, instances', stack')
    BY <2>2, <2>7, <2>9, <2>10 DEF CallState
  <2>15. AllFramesCalled(instances, stack')
    <3> SUFFICES ASSUME NEW j \in 1..Len(stack), stack'[j + 1].kind = "all"
                 PROVE  /\ stack'[j].kind = "component"
                        /\ NextOf(instances[stack'[j].inst]).multi
      BY <2>6, <2>7 DEF AllFramesCalled
    <3>1. CASE j = Len(stack)
      BY <2>6, <2>7, <3>1 DEF Top
    <3>2. CASE j # Len(stack)
      <4>1. j \in 1..(Len(stack) - 1) /\ j + 1 \in 1..Len(stack)
        <5>1. Len(stack) \in Nat
          BY <2>6
        <5> QED BY <3>2, <5>1, PlacesBelow
      <4> QED BY <2>7, <4>1 DEF Waiting, AllFramesCalled
    <3> QED BY <3>1, <3>2
  <2>12. Waiting(instances', stack', Len(stack') - 1)
    BY <2>2, <2>6, <2>7, <2>15 DEF Waiting
  <2>13. KeptIn(instances, instances') /\ Returnable(instances', outcome'.ids)
    BY <2>2 DEF KeptIn
  <2>14. StackMoves(f)
    BY <2>2, <2>5 DEF StackMoves
  <2> QED BY <2>2, <2>11, <2>12, <2>13, <2>14 DEF CallGoesOn
<1> QED BY <1>1, <1>2

(* What the proofs say of every step of a call.                             *)
StepOK ==
  /\ CallInv'
  /\ KeptIn(instances, instances')
  /\ StackMoves(active')

\* The parts of CallInv again after a step of a call on the factory.
LEMMA CallInvAgain ==
  ASSUME CallGoesOn(active'), active' \in Factories,
         stack' # <<>> => Exists(active'), CachesOK',
         UNCHANGED <<multiBindings, m_context>>
  PROVE  StepOK
<1>1. \A j : FrameOK(active', instances', stack'[j], j) => FrameOK(active, instances, stack[j], j)'
  BY DEF FrameOK, ComponentOK, ResolveAllOK, Finished
<1>2. CallState(active, instances, stack)'
  BY <1>1 DEF CallGoesOn, CallState, InjectedOK, Finished, Ordered, Missing
<1>3. /\ Waiting(instances, stack, Len(stack) - 1)'
      /\ (thrown # NoException => Waiting(instances, stack, Len(stack)))'
      /\ (thrown # NoException => stack # <<>>)'
  BY DEF CallGoesOn, Waiting, AllFramesCalled, Missing, NextOf
<1>4. Returnable(instances, outcome.ids)'
  BY DEF CallGoesOn, Returnable, Missing
<1>5. (stack # <<>> => Exists(active))'
  BY DEF Exists
<1>6. CallInv'
  BY <1>2, <1>3, <1>4, <1>5 DEF CallInv
<1> QED BY <1>6 DEF CallGoesOn, StepOK

\* The innermost frame.
LEMMA TopFrame ==
  ASSUME CallInv, stack # <<>>
  PROVE  /\ stack \in Seq(Frame)
         /\ Len(stack) \in Nat
         /\ Len(stack) >= 1
         /\ Top = stack[Len(stack)]
         /\ Top \in Frame
         /\ FrameOK(active, instances, Top, Len(stack))
         /\ KeepsFrames(stack, stack)
<1>1. stack \in Seq(Frame) /\ Len(stack) \in Nat /\ Len(stack) >= 1
  BY LenProperties DEF CallInv, CallState
<1>2. KeepsFrames(stack, stack)
  BY <1>1 DEF KeepsFrames
<1> QED BY <1>1, <1>2 DEF CallInv, CallState, Top

\* A component that misses an injectable waits for it.
LEMMA TopWaits ==
  ASSUME CallInv, stack # <<>>,
         Top.kind = "component" => Missing(instances[Top.inst]) > 0
  PROVE  Waiting(instances, stack, Len(stack))
BY TopFrame DEF CallInv, Waiting

\* What inject counts is what the component misses.
LEMMA CurrentInjectable ==
  ASSUME CallInv, stack # <<>>, Top.kind = "component"
  PROVE  /\ Top.inst \in DOMAIN instances
         /\ instances[Top.inst] \in Instance
         /\ instances[Top.inst].component = Top.component
         /\ Current(Top) \in Nat
         /\ Current(Top) >= 1
         /\ Declared(Top) \in Seq(Injectable)
         /\ Missing(instances[Top.inst]) = Len(Declared(Top)) - Current(Top) + 1
         /\ Missing(instances[Top.inst]) >= 0
         /\ Len(Declared(Top)) \in Nat
<1> DEFINE inst == instances[Top.inst]
<1>1. /\ Top.inst \in DOMAIN instances
      /\ inst.component = Top.component
      /\ instances \in Seq(Instance)
      /\ InjectedOK(instances)
  BY TopFrame DEF CallInv, CallState, FrameOK, ComponentOK
<1>2. inst \in Instance /\ inst.component \in Components
  <2>1. inst \in Instance
    BY <1>1
  <2> QED BY <2>1 DEF Instance
<1>3. Missing(inst) >= 0
  BY <1>1 DEF InjectedOK
<1>4. Declared(Top) \in Seq(Injectable)
  BY <1>1, <1>2, InjectablesAssumption DEF Declared
<1>5. /\ Len(inst.injected) \in Nat
      /\ Current(Top) = Len(inst.injected) + 1
      /\ Len(Declared(Top)) \in Nat
      /\ Missing(inst) = Len(Declared(Top)) - Len(inst.injected)
  BY <1>1, <1>2, <1>4, MissingType, LenProperties DEF Current, Missing, Declared
<1> HIDE DEF inst
<1>6. Missing(inst) = Len(Declared(Top)) - Current(Top) + 1 /\ Current(Top) >= 1
  BY <1>5
<1> QED BY <1>1, <1>2, <1>3, <1>4, <1>5, <1>6 DEF inst

\* inject keeps the call in order.
LEMMA InjectNextInv ==
  ASSUME ContextTypeOK, CallInv, InjectNext
  PROVE  StepOK
<1>1. /\ stack # <<>> /\ thrown = NoException
      /\ Top.kind = "component"
      /\ Current(Top) <= Len(Declared(Top))
      /\ UNCHANGED <<cacheVars, contextVars, active>>
  BY DEF InjectNext, Running
<1>2. PICK inj \in {Declared(Top)[Current(Top)]} :
        IF inj.multi THEN RequestAll(active, inj.itf, Top.levels)
                     ELSE Request(active, inj.itf, inj.name, Top.levels)
  BY DEF InjectNext
<1>3. inj \in Injectable
  BY <1>1, <1>2, CurrentInjectable
<1>4. /\ inj.itf \in Interfaces
      /\ inj.name \in Names \union {None}
  BY <1>3 DEF Injectable
<1>5. Top.levels \in Seq(BindInfos)
  BY <1>1, TopFrame, FrameKinds DEF ComponentFrame
<1>6. Waiting(instances, stack, Len(stack))
  <2>1. Missing(instances[Top.inst]) > 0
    BY <1>1, CurrentInjectable
  <2> QED BY <1>1, <2>1, TopWaits
<1>7. /\ active \in Factories /\ Exists(active) /\ CachesOK
      /\ CallState(active, instances, stack)
      /\ Returnable(instances, outcome.ids)
  BY <1>1 DEF CallInv
<1>8. CallGoesOn(active)
  <2>1. LevelsOfTop(Top.levels)
    BY <1>1, TopFrame DEF LevelsOfTop, IsExplicit, FrameOK, ComponentOK
  <2>2. CASE inj.multi
    <3>1. Declared(Top)[Current(Top)] = NextOf(instances[Top.inst])
      BY <1>1, CurrentInjectable DEF Declared, Current, NextOf
    <3>2. RequestAll(active, inj.itf, Top.levels)
      BY <1>2, <2>2
    <3> QED BY <1>1, <1>2, <1>4, <1>5, <1>6, <1>7, <2>1, <2>2, <3>1, <3>2, RequestedAll
  <2>3. CASE ~inj.multi
    <3>1. Request(active, inj.itf, inj.name, Top.levels)
      BY <1>2, <2>3
    <3> QED BY <1>1, <1>4, <1>5, <1>6, <1>7, <2>1, <3>1, Requested
  <2> QED BY <2>2, <2>3
<1>9. CachesOK'
  BY <1>1, <1>7, <1>8, CachesAreKept DEF CallGoesOn, contextVars
<1> QED BY <1>1, <1>7, <1>8, <1>9, CallInvAgain DEF contextVars, bindVars

\* A bind of resolveAll leads to its shared instance or to a new one.
LEMMA MultiNextInv ==
  ASSUME ContextTypeOK, CallInv, MultiNext
  PROVE  StepOK
<1> DEFINE binds == multiBindings[m_context[active]][Top.itf]
           bind == binds[Top.next]
           shared == m_singletonInstances[active][bind.component]
<1>1. /\ stack # <<>> /\ thrown = NoException
      /\ Top.kind = "all"
      /\ Top.next <= Len(binds)
      /\ UNCHANGED <<cacheVars, contextVars, active>>
  BY DEF MultiNext, Running
<1>2. \/ /\ shared # None
         /\ Deliver(active, stack, instances, {shared})
      \/ /\ Top.phase # "shared" \/ shared = None
         /\ Enter(active, bind, Top.levels,
                  IF Top.phase = "shared" THEN "singleton" ELSE "none",
                  None, TRUE, Creatable(active, bind))
  BY DEF MultiNext
<1>3. /\ active \in Factories /\ Exists(active) /\ CachesOK
      /\ CallState(active, instances, stack)
      /\ Returnable(instances, outcome.ids)
      /\ Waiting(instances, stack, Len(stack))
  BY <1>1, TopWaits DEF CallInv
<1>4. Top \in ResolveAllFrame /\ ResolveAllOK(active, instances, Top)
  BY <1>1, TopFrame, FrameKinds DEF FrameOK
<1>5. binds \in Seq(BindInfos)
  BY <1>3, <1>4, MultiBindsType DEF ResolveAllFrame
<1>6. /\ bind \in BindInfos
      /\ bind.component \in Components
      /\ Top.levels \in Seq(BindInfos)
      /\ Top.levels # <<>>
      /\ Top.levels[1] = bind
  <2>1. Top.next \in Nat /\ Top.next >= 1 /\ Top.levels \in Seq(BindInfos)
    BY <1>4 DEF ResolveAllOK, ResolveAllFrame
  <2>2. bind \in BindInfos
    BY <1>1, <1>5, <2>1
  <2>3. Top.levels # <<>> /\ Top.levels[1] = bind
    BY <1>1, <1>4 DEF ResolveAllOK
  <2> QED BY <2>1, <2>2, <2>3 DEF BindInfos
<1> HIDE DEF bind, binds
<1>7. CallGoesOn(active)
  <2>0. stack \in Seq(Frame) /\ KeepsFrames(stack, stack)
    BY <1>1, TopFrame
  <2>1. CASE shared # None /\ Deliver(active, stack, instances, {shared})
    <3>1. {shared} \in SUBSET Nat /\ Finished(instances, {shared})
      BY <1>3, <1>6, <2>1, CachedIsFinished DEF CallState
    <3>2. KeptIn(instances, instances)
      BY DEF KeptIn
    <3> HIDE DEF shared
    <3> QED BY <1>3, <2>0, <2>1, <3>1, <3>2, Returned
  <2>2. CASE /\ Top.phase # "shared" \/ shared = None
             /\ Enter(active, bind, Top.levels,
                      IF Top.phase = "shared" THEN "singleton" ELSE "none",
                      None, TRUE, Creatable(active, bind))
    <3> DEFINE cache == IF Top.phase = "shared" THEN "singleton" ELSE "none"
    <3>1. cache \in {"none", "singleton", "named"}
      OBVIOUS
    <3>2. Enter(active, bind, Top.levels, cache, None, TRUE, Creatable(active, bind))
      BY <2>2
    <3>3. MayBegin(active, bind.component, cache, Top.levels)
      BY <1>1, <2>2 DEF MayBegin, IsExplicit
    <3> HIDE DEF cache
    <3> QED BY <1>1, <1>3, <1>6, <3>1, <3>2, <3>3, Entered
  <2> QED BY <1>2, <2>1, <2>2
<1>8. CachesOK'
  BY <1>1, <1>3, <1>7, CachesAreKept DEF CallGoesOn, contextVars
<1> QED BY <1>1, <1>3, <1>7, <1>8, CallInvAgain DEF contextVars, bindVars

\* resolveAll returns what its binds have led to, which may be nothing.
LEMMA MultiReturnInv ==
  ASSUME ContextTypeOK, CallInv, MultiReturn
  PROVE  StepOK
<1>1. /\ stack # <<>> /\ thrown = NoException
      /\ Top.kind = "all"
      /\ Top.next > Len(multiBindings[m_context[active]][Top.itf])
      /\ Deliver(active, Below, instances, Top.got)
      /\ UNCHANGED <<cacheVars, contextVars, active>>
  BY DEF MultiReturn, Running
<1>2. /\ active \in Factories /\ Exists(active) /\ CachesOK
      /\ CallState(active, instances, stack)
      /\ Waiting(instances, stack, Len(stack) - 1)
      /\ Returnable(instances, outcome.ids)
  BY <1>1 DEF CallInv
<1>3. /\ CallState(active, instances, Below)
      /\ Waiting(instances, Below, Len(Below))
      /\ KeepsFrames(Below, stack)
      /\ stack \in Seq(Frame)
  BY <1>1, <1>2, BelowState DEF Below, CallState
<1>4. Top \in ResolveAllFrame /\ ResolveAllOK(active, instances, Top)
  BY <1>1, TopFrame, FrameKinds DEF FrameOK
<1>5. Top.got \in SUBSET Nat /\ Finished(instances, Top.got)
  BY <1>4 DEF ResolveAllOK, ResolveAllFrame
<1>9. ASSUME Below # <<>>
      PROVE  MayMiss(NextOf(instances[Below[Len(Below)].inst]))
  <2> DEFINE j == Len(stack) - 1
  <2>0. /\ stack # <<>> /\ CallState(active, instances, stack)
        /\ Waiting(instances, stack, Len(stack) - 1)
        /\ Below = SubSeq(stack, 1, Len(stack) - 1)
    BY <1>1, <1>2 DEF Below
  <2>5. Len(Below) = Len(stack) - 1
    BY <2>0, BelowState
  <2>6. \A i \in 1..Len(Below) : Below[i] = stack[i]
    BY <2>0, BelowState
  <2>1. /\ Len(Below) = j
        /\ \A i \in 1..j : Below[i] = stack[i]
        /\ Len(stack) \in Nat /\ Below \in Seq(Frame)
    BY <1>3, <2>0, <2>5, <2>6, LenProperties DEF CallState
  <2>2. j \in 1..j /\ j + 1 = Len(stack)
    BY <1>9, <2>1
  <2>3. stack[j + 1].kind = "all"
    BY <1>1, <2>2 DEF Top
  <2>4. NextOf(instances[stack[j].inst]).multi
    BY <1>2, <2>2, <2>3 DEF Waiting, AllFramesCalled
  <2> QED BY <2>1, <2>2, <2>4 DEF MayMiss
<1>6. KeptIn(instances, instances)
  BY DEF KeptIn
<1>7. CallGoesOn(active)
  BY <1>1, <1>2, <1>3, <1>5, <1>6, <1>9, Returned
<1>8. CachesOK'
  BY <1>1, <1>2, <1>7, CachesAreKept DEF CallGoesOn, contextVars
<1> QED BY <1>1, <1>2, <1>7, <1>8, CallInvAgain DEF contextVars, bindVars

\* A component that misses nothing more.
LEMMA InjectedTop ==
  ASSUME CallInv, Injected
  PROVE  /\ stack # <<>> /\ thrown = NoException
         /\ Top.kind = "component"
         /\ Top \in ComponentFrame
         /\ ComponentOK(active, instances, Top, Len(stack))
         /\ Missing(instances[Top.inst]) = 0
         /\ UNCHANGED <<contextVars, active>>
         /\ active \in Factories /\ Exists(active) /\ CachesOK
         /\ instances \in Seq(Instance)
         /\ InjectedOK(instances)
         /\ Returnable(instances, outcome.ids)
         /\ CallState(active, instances, Below)
         /\ Waiting(instances, Below, Len(Below))
         /\ KeepsFrames(Below, stack)
         /\ stack \in Seq(Frame)
<1>1. /\ stack # <<>> /\ thrown = NoException
      /\ Top.kind = "component"
      /\ Current(Top) > Len(Declared(Top))
      /\ UNCHANGED <<contextVars, active>>
  BY DEF Injected, Running
<1>2. Top \in ComponentFrame /\ ComponentOK(active, instances, Top, Len(stack))
  BY <1>1, TopFrame, FrameKinds DEF FrameOK
<1>3. Missing(instances[Top.inst]) = 0
  <2>1. /\ Current(Top) \in Nat
        /\ Len(Declared(Top)) \in Nat
        /\ Missing(instances[Top.inst]) = Len(Declared(Top)) - Current(Top) + 1
        /\ Missing(instances[Top.inst]) >= 0
    BY <1>1, CurrentInjectable
  <2> QED BY <1>1, <2>1
<1>4. /\ CallState(active, instances, stack)
      /\ Waiting(instances, stack, Len(stack) - 1)
  BY DEF CallInv
<1>5. /\ CallState(active, instances, Below)
      /\ Waiting(instances, Below, Len(Below))
      /\ KeepsFrames(Below, stack)
  BY <1>1, <1>4, BelowState DEF Below
<1> QED BY <1>1, <1>2, <1>3, <1>4, <1>5 DEF CallInv, CallState

\* A component is cached and returned once everything is injected in it.
LEMMA FinishComponentInv ==
  ASSUME ContextTypeOK, CallInv, FinishComponent
  PROVE  StepOK
<1> PICK n : n = Top.inst
  OBVIOUS
<1> PICK new : new = [instances[n] EXCEPT !.complete = TRUE]
  OBVIOUS
<1> PICK made : made = [instances EXCEPT ![n] = new]
  OBVIOUS
<1>0. Injected /\ Store(Top) /\ Deliver(active, Below, made, {n})
  BY DEF FinishComponent
<1>1. /\ Top \in ComponentFrame
      /\ ComponentOK(active, instances, Top, Len(stack))
      /\ Missing(instances[n]) = 0
      /\ UNCHANGED <<contextVars, active>>
      /\ active \in Factories /\ Exists(active) /\ CachesOK
      /\ instances \in Seq(Instance)
      /\ InjectedOK(instances)
      /\ Returnable(instances, outcome.ids)
      /\ CallState(active, instances, Below)
      /\ Waiting(instances, Below, Len(Below))
      /\ KeepsFrames(Below, stack)
      /\ stack \in Seq(Frame)
  BY <1>0, InjectedTop
<1>2. /\ n \in DOMAIN instances /\ n \in Nat
      /\ instances[n].factory = active
      /\ Top.component \in Components
      /\ Top.name \in Names \union {None}
      /\ Top.cache = "named" => Top.name # None \/ Top.name = None
  BY <1>1 DEF ComponentOK, ComponentFrame
<1>4. /\ made \in Seq(Instance)
      /\ made[n].complete
      /\ \A id \in DOMAIN instances : Missing(made[id]) = Missing(instances[id])
      /\ \A id \in DOMAIN instances : NextOf(made[id]) = NextOf(instances[id])
      /\ InjectedOK(made)
      /\ KeptIn(instances, made)
  <2>1. instances \in Seq(Instance) /\ InjectedOK(instances) /\ Missing(instances[n]) = 0
    BY <1>1
  <2>2. n \in DOMAIN instances
    BY <1>2
  <2>3. made \in Seq(Instance) /\ InjectedOK(made) /\ KeptIn(instances, made)
    BY <2>1, <2>2, InstanceCompleted
  <2>4. made[n].complete
    BY <2>1, <2>2, InstanceCompleted
  <2>5. \A id \in DOMAIN instances :
          Missing(made[id]) = Missing(instances[id]) /\ NextOf(made[id]) = NextOf(instances[id])
    BY <2>1, <2>2, InstanceCompleted
  <2> QED BY <2>3, <2>4, <2>5
<1>5. CallState(active, made, Below)
  BY <1>1, <1>4, StateIsKept
<1>6. Waiting(made, Below, Len(Below))
  <2>1. \A j \in 1..Len(Below) : Below[j].kind = "component" => Below[j].inst \in DOMAIN instances
    BY <1>1 DEF CallState, FrameOK, ComponentOK
  <2>2. \A id \in DOMAIN instances : NextOf(made[id]) = NextOf(instances[id])
    BY <1>4
  <2>3. AllFramesCalled(made, Below)
    <3> SUFFICES ASSUME NEW j \in 1..(Len(Below) - 1), Below[j + 1].kind = "all"
                 PROVE  Below[j].kind = "component" /\ NextOf(made[Below[j].inst]).multi
      BY DEF AllFramesCalled
    <3>1. Below[j].kind = "component" /\ NextOf(instances[Below[j].inst]).multi
      BY <1>1 DEF Waiting, AllFramesCalled
    <3>2. j \in 1..Len(Below)
      BY <1>1, LenProperties DEF CallState
    <3> QED BY <2>1, <2>2, <3>1, <3>2
  <2> QED BY <1>1, <1>4, <2>1, <2>3 DEF Waiting
<1>7. {n} \in SUBSET Nat /\ Finished(made, {n})
  BY <1>2, <1>4 DEF Finished, KeptIn
<1>8. CallGoesOn(active) /\ KeptIn(made, instances')
  <2>1. CallGoesOn(active)
    BY <1>0, <1>1, <1>4, <1>5, <1>6, <1>7, Returned
  <2>2. CASE Below = <<>>
    BY <1>0, <2>1, <2>2 DEF Deliver, KeptIn
  <2>3. CASE Below # <<>>
    BY <1>0, <1>1, <1>5, <1>6, <1>7, <2>1, <2>3, Delivered
  <2> QED BY <2>1, <2>2, <2>3
<1>9. CachesOK'
  <2>1. UNCHANGED m_context
    BY <1>1 DEF contextVars
  <2>2. \A f, id : CachedOK(f, instances, id) => CachedOK(f, instances, id)'
    BY <1>8, <2>1 DEF CallGoesOn, CachedOK, KeptIn, Exists
  <2>3. CachedOK(active, instances, n)'
    <3>1. /\ n \in DOMAIN made
          /\ made[n].factory = active
          /\ made[n].complete
      BY <1>2, <1>4 DEF KeptIn
    <3>2. /\ n \in DOMAIN instances'
          /\ instances'[n].factory = active
          /\ instances'[n].complete
      BY <1>8, <3>1 DEF KeptIn
    <3> QED BY <1>1, <2>1, <3>2 DEF CachedOK, Exists, contextVars
  <2>4. /\ m_singletonInstances' \in [Factories -> [Components -> Nat \union {None}]]
        /\ \A f \in Factories, c \in Components :
             CachedOK(f, instances, m_singletonInstances[f][c])'
    <3>1. CASE Top.cache = "singleton"
      <4>1. m_singletonInstances' =
              [m_singletonInstances EXCEPT ![active][Top.component] = n]
        BY <1>0, <3>1 DEF Store
      <4>2. m_singletonInstances' \in [Factories -> [Components -> Nat \union {None}]]
        BY <1>1, <1>2, <4>1 DEF CachesOK
      <4>3. \A f \in Factories, c \in Components :
              \/ m_singletonInstances'[f][c] = m_singletonInstances[f][c]
              \/ f = active /\ m_singletonInstances'[f][c] = n
        BY <1>1, <1>2, <4>1 DEF CachesOK
      <4>4. ASSUME NEW f \in Factories, NEW c \in Components
            PROVE  CachedOK(f, instances, m_singletonInstances[f][c])'
        <5>1. CachedOK(f, instances, m_singletonInstances[f][c])
          BY <1>1 DEF CachesOK
        <5> QED BY <1>1, <2>2, <2>3, <4>3, <5>1
      <4> QED BY <4>2, <4>4
    <3>2. CASE Top.cache # "singleton"
      <4>1. UNCHANGED m_singletonInstances
        BY <1>0, <3>2 DEF Store
      <4> QED BY <1>1, <2>2, <4>1 DEF CachesOK
    <3> QED BY <3>1, <3>2
  <2>5. /\ m_namedSingletonInstances' \in
             [Factories -> [Components \X Names -> Nat \union {None}]]
        /\ \A f \in Factories, k \in Components \X Names :
             CachedOK(f, instances, m_namedSingletonInstances[f][k])'
    <3>1. CASE Top.cache = "named"
      <4>1. m_namedSingletonInstances' =
              [m_namedSingletonInstances EXCEPT ![active][<<Top.component, Top.name>>] = n]
        BY <1>0, <3>1 DEF Store
      <4>2. m_namedSingletonInstances' \in
              [Factories -> [Components \X Names -> Nat \union {None}]]
        BY <1>1, <1>2, <4>1 DEF CachesOK
      <4>3. \A f \in Factories, k \in Components \X Names :
              \/ m_namedSingletonInstances'[f][k] = m_namedSingletonInstances[f][k]
              \/ f = active /\ m_namedSingletonInstances'[f][k] = n
        BY <1>1, <1>2, <4>1 DEF CachesOK
      <4>4. ASSUME NEW f \in Factories, NEW k \in Components \X Names
            PROVE  CachedOK(f, instances, m_namedSingletonInstances[f][k])'
        <5>1. CachedOK(f, instances, m_namedSingletonInstances[f][k])
          BY <1>1 DEF CachesOK
        <5> QED BY <1>1, <2>2, <2>3, <4>3, <5>1
      <4> QED BY <4>2, <4>4
    <3>2. CASE Top.cache # "named"
      <4>1. UNCHANGED m_namedSingletonInstances
        BY <1>0, <3>2 DEF Store
      <4> QED BY <1>1, <2>2, <4>1 DEF CachesOK
    <3> QED BY <3>1, <3>2
  <2> QED BY <2>4, <2>5 DEF CachesOK
<1> QED BY <1>1, <1>8, <1>9, CallInvAgain DEF contextVars, bindVars

\* An error of configure leaves the caches without the component.
LEMMA ConfigureFailsInv ==
  ASSUME ContextTypeOK, CallInv, ConfigureFails
  PROVE  StepOK
<1> PICK exception \in Exceptions : Raise(Below, exception)
  BY DEF ConfigureFails
<1>0. Injected /\ UNCHANGED <<instances, cacheVars>>
  BY DEF ConfigureFails
<1>1. CallGoesOn(active)
  BY <1>0, InjectedTop, Raised
<1>2. CachesOK'
  BY <1>0, <1>1, InjectedTop, CachesAreKept DEF CallGoesOn, contextVars
<1> QED BY <1>0, <1>1, <1>2, InjectedTop, CallInvAgain DEF contextVars, bindVars

\* Only the outermost frame is one of createComponent.
LEMMA ConfigureIgnoredInv ==
  ASSUME ContextTypeOK, CallInv, ConfigureIgnored
  PROVE  StepOK
<1>0. /\ Injected /\ ~instances[Top.inst].strict
      /\ Deliver(active, Below, instances, {Top.inst})
      /\ UNCHANGED cacheVars
  BY DEF ConfigureIgnored
<1>1. Len(Below) = 0
  <2>1. Len(stack) = 1
    BY <1>0, InjectedTop DEF ComponentOK
  <2>2. Len(Below) = Len(stack) - 1
    BY <1>0, InjectedTop, BelowState DEF CallInv, Below
  <2> QED BY <2>1, <2>2
<1>2. Below = <<>>
  <2>1. Below \in Seq(Frame)
    BY <1>0, InjectedTop DEF CallState
  <2> QED BY <1>1, <2>1
<1>3. instances' = instances /\ stack' = Below /\ thrown' = NoException /\ outcome'.ids = {Top.inst}
  BY <1>0, <1>2 DEF Deliver
<1>4. Returnable(instances, {Top.inst})
  BY <1>0, InjectedTop DEF Returnable, ComponentOK
<1>5. Waiting(instances, Below, Len(Below) - 1) /\ KeptIn(instances, instances)
  BY <1>1 DEF Waiting, AllFramesCalled, KeptIn
<1>6. CallGoesOn(active)
  BY <1>0, <1>3, <1>4, <1>5, InjectedTop DEF CallGoesOn, StackMoves
<1>7. CachesOK'
  BY <1>0, <1>6, InjectedTop, CachesAreKept DEF CallGoesOn, contextVars
<1> QED BY <1>0, <1>6, <1>7, InjectedTop, CallInvAgain DEF contextVars, bindVars

\* An exception is swallowed for an optional injectable, or goes on.
LEMMA UnwindInv ==
  ASSUME ContextTypeOK, CallInv, Unwind
  PROVE  StepOK
<1>1. /\ stack # <<>> /\ thrown # NoException
      /\ UNCHANGED <<cacheVars, contextVars, active>>
  BY DEF Unwind, Running
<1>2. /\ active \in Factories /\ Exists(active) /\ CachesOK
      /\ CallState(active, instances, stack)
      /\ Waiting(instances, stack, Len(stack) - 1)
      /\ Waiting(instances, stack, Len(stack))
      /\ Returnable(instances, outcome.ids)
  BY <1>1 DEF CallInv
<1>3. CASE Swallows /\ SkipInjectable
  <2>1. /\ Deliver(active, stack, instances, {})
        /\ Top.kind = "component"
        /\ MayMiss(NextOf(instances[Top.inst]))
    BY <1>1, <1>3, CurrentInjectable
       DEF Swallows, SkipInjectable, Declared, Current, NextOf, MayMiss
  <2>2. {} \in SUBSET Nat /\ Finished(instances, {}) /\ KeptIn(instances, instances)
    BY DEF Finished, KeptIn
  <2>3. CallGoesOn(active)
    BY <1>1, <1>2, <2>1, <2>2, TopFrame, Returned DEF Top
  <2>4. CachesOK'
    BY <1>1, <1>2, <2>3, CachesAreKept DEF CallGoesOn, contextVars
  <2> QED BY <1>1, <1>2, <2>3, <2>4, CallInvAgain DEF contextVars, bindVars
<1>4. CASE Raise(Below, thrown) /\ UNCHANGED instances
  <2>1. /\ CallState(active, instances, Below)
        /\ Waiting(instances, Below, Len(Below))
        /\ KeepsFrames(Below, stack)
    BY <1>1, <1>2, BelowState DEF Below
  <2>2. CallGoesOn(active)
    BY <1>2, <1>4, <2>1, Raised
  <2>3. CachesOK'
    BY <1>1, <1>2, <2>2, CachesAreKept DEF CallGoesOn, contextVars
  <2> QED BY <1>1, <1>2, <2>2, <2>3, CallInvAgain DEF contextVars, bindVars
<1> QED BY <1>3, <1>4 DEF Unwind

\* The calls of an application begin with nothing on the stack.
LEMMA CallStepInv ==
  ASSUME ContextTypeOK, CallInv, CallStep
  PROVE  StepOK
<1> PICK f \in Factories :
      \/ \E i \in Interfaces, n \in Names \union {None} : Resolve(f, i, n)
      \/ \E i \in Interfaces : ResolveAll(f, i)
      \/ \E c \in ModuleComponents : CreateComponent(f, c)
  BY DEF CallStep
<1>1. /\ stack = <<>> /\ Exists(f) /\ active' = f
      /\ UNCHANGED <<contextVars, cacheVars>>
  BY DEF Resolve, ResolveAll, CreateComponent, Begin, Idle
<1>2. thrown = NoException /\ CachesOK /\ Returnable(instances, outcome.ids)
  BY <1>1 DEF CallInv
<1>3. CallState(f, instances, stack)
  BY <1>1 DEF CallInv, CallState
<1>4. Waiting(instances, stack, Len(stack))
  BY <1>1 DEF Waiting, AllFramesCalled
<1>5. <<>> \in Seq(BindInfos) /\ LevelsOfTop(<<>>)
  BY <1>1 DEF LevelsOfTop
<1>6. CallGoesOn(f)
  <2>1. ASSUME NEW i \in Interfaces, NEW n \in Names \union {None}, Resolve(f, i, n)
        PROVE  CallGoesOn(f)
    BY <1>1, <1>2, <1>3, <1>4, <1>5, <2>1, Requested DEF Resolve
  <2>2. ASSUME NEW i \in Interfaces, ResolveAll(f, i)
        PROVE  CallGoesOn(f)
    BY <1>1, <1>2, <1>3, <1>4, <1>5, <2>2, RequestedAll DEF ResolveAll
  <2>3. ASSUME NEW c \in ModuleComponents, CreateComponent(f, c)
        PROVE  CallGoesOn(f)
    <3>1. /\ AutoBind(c) \in BindInfos
          /\ Enter(f, AutoBind(c), <<>>, "none", None, FALSE,
                   c \in componentModuleUUIDMap[m_context[f]])
      BY <2>3, AutoBindType DEF CreateComponent, ModuleComponents
    <3>2. MayBegin(f, AutoBind(c).component, "none", <<>>)
      BY <1>1 DEF MayBegin
    <3> QED BY <1>1, <1>2, <1>3, <1>4, <1>5, <3>1, <3>2, Entered
  <2> QED BY <2>1, <2>2, <2>3
<1>7. CachesOK'
  BY <1>1, <1>2, <1>6, CachesAreKept DEF CallGoesOn, contextVars
<1> QED BY <1>1, <1>6, <1>7, CallInvAgain DEF contextVars, bindVars

\* Every step of a call.
LEMMA StepsOfCalls ==
  ASSUME ContextTypeOK, CallInv, CallStep \/ RunStep
  PROVE  StepOK
BY CallStepInv, InjectNextInv, MultiNextInv, MultiReturnInv, FinishComponentInv,
   ConfigureFailsInv, ConfigureIgnoredInv, UnwindInv DEF RunStep

\* clear makes instances out of date and changes nothing else in them.
LEMMA OutdatedInstances ==
  ASSUME instances \in Seq(Instance), NEW k, instances' = Outdated(k)
  PROVE  /\ instances' \in Seq(Instance)
         /\ DOMAIN instances' = DOMAIN instances
         /\ \A id \in DOMAIN instances :
              /\ instances'[id].component = instances[id].component
              /\ instances'[id].factory = instances[id].factory
              /\ instances'[id].strict = instances[id].strict
              /\ instances'[id].injected = instances[id].injected
              /\ instances'[id].complete = instances[id].complete
         /\ \A id \in DOMAIN instances :
              instances'[id].stale =>
                instances[id].stale \/ m_context[instances[id].factory] = k
<1>1. DOMAIN instances = 1..Len(instances) /\ Len(instances) \in Nat
  BY LenProperties
<1>2. /\ instances' = [j \in 1..Len(instances) |->
           IF m_context[instances[j].factory] = k
             THEN [instances[j] EXCEPT !.stale = TRUE] ELSE instances[j]]
  BY <1>1 DEF Outdated
<1>3. ASSUME NEW j \in 1..Len(instances)
      PROVE  /\ instances'[j] \in Instance
             /\ instances'[j].component = instances[j].component
             /\ instances'[j].factory = instances[j].factory
             /\ instances'[j].strict = instances[j].strict
             /\ instances'[j].injected = instances[j].injected
             /\ instances'[j].complete = instances[j].complete
             /\ instances'[j].stale =>
                  instances[j].stale \/ m_context[instances[j].factory] = k
  <2>1. instances[j] \in Instance
    OBVIOUS
  <2>2. CASE m_context[instances[j].factory] = k
    <3>1. instances'[j] = [instances[j] EXCEPT !.stale = TRUE]
      BY <1>2, <2>2
    <3> QED BY <2>1, <2>2, <3>1 DEF Instance
  <2>3. CASE m_context[instances[j].factory] # k
    <3>1. instances'[j] = instances[j]
      BY <1>2, <2>3
    <3> QED BY <2>1, <3>1
  <2> QED BY <2>2, <2>3
<1>4. instances' \in Seq(Instance)
  BY <1>1, <1>2, <1>3
<1>5. DOMAIN instances' = 1..Len(instances)
  BY <1>2
<1> QED BY <1>1, <1>3, <1>4, <1>5

\* Factories that exist go on existing, on the context they have.
LEMMA ContextsAreKept ==
  ASSUME ContextTypeOK, [ContextNext]_contextVars, NEW f \in Factories, Exists(f)
  PROVE  Exists(f)' /\ m_context'[f] = m_context[f]
<1>1. ASSUME NEW g \in Factories, NEW new \in Factories, NEW mode \in Modes,
             CreateNewFactoryContext(g, new, mode)
      PROVE  m_context'[f] = m_context[f]
  BY <1>1 DEF CreateNewFactoryContext, Exists, ContextTypeOK
<1>2. CASE UNCHANGED m_context
  BY <1>2 DEF Exists
<1>3. m_context'[f] = m_context[f]
  BY <1>1, <1>2
     DEF ContextNext, Declare, BindDefault, BindNamed, BindSpecific,
         BindSpecificNamed, DeclareMultiBind, DeclareMultiBindFails, DeclareComponent,
         DeclareModuleMetadata, DeclareAutobinds, ClearContext, contextVars
<1> QED BY <1>3 DEF Exists

\* Between the calls: binds and clears.
LEMMA ConfiguringInv ==
  ASSUME ContextTypeOK, CallInv, Configuring
  PROVE  CallInv'
<1> PICK f \in Factories :
      \/ Clear(f)
      \/ Idle /\ Declare(f) /\ UNCHANGED <<cacheVars, callVars, instances>>
  BY DEF Configuring
<1>1. stack = <<>> /\ UNCHANGED callVars /\ ContextNext
  BY DEF Clear, Idle, ContextNext
<1>2. /\ stack' = <<>> /\ thrown = NoException /\ thrown' = NoException /\ outcome' = outcome
      /\ active' = active /\ active \in Factories
  BY <1>1 DEF callVars, CallInv
<1>3. /\ instances \in Seq(Instance) /\ InjectedOK(instances)
      /\ Returnable(instances, outcome.ids) /\ CachesOK
  BY DEF CallInv, CallState
<1>4. /\ instances' \in Seq(Instance)
      /\ DOMAIN instances' = DOMAIN instances
      /\ \A id \in DOMAIN instances :
           /\ instances'[id].component = instances[id].component
           /\ instances'[id].factory = instances[id].factory
           /\ instances'[id].strict = instances[id].strict
           /\ instances'[id].injected = instances[id].injected
           /\ instances'[id].complete = instances[id].complete
  <2>1. CASE Clear(f)
    BY <1>3, <2>1, OutdatedInstances DEF Clear
  <2>2. CASE UNCHANGED instances
    BY <1>3, <2>2
  <2> QED BY <2>1, <2>2
<1>5. (InjectedOK(instances))'
  BY <1>3, <1>4 DEF InjectedOK, Finished, Missing
<1>6. (Returnable(instances, outcome.ids))'
  BY <1>2, <1>3, <1>4 DEF Returnable, Missing
<1>7. ASSUME NEW g \in Factories, NEW id, CachedOK(g, instances, id)
      PROVE  CachedOK(g, instances, id)'
  BY <1>1, <1>4, <1>7, ContextsAreKept DEF CachedOK
<1>8. CachesOK'
  <2>1. CASE UNCHANGED cacheVars
    BY <1>3, <1>7, <2>1 DEF CachesOK, cacheVars
  <2>2. CASE DropSingletons(f)
    <3>1. /\ m_singletonInstances' \in [Factories -> [Components -> Nat \union {None}]]
          /\ \A g \in Factories, c \in Components :
               m_singletonInstances'[g][c] \in {m_singletonInstances[g][c], None}
      BY <1>3, <2>2 DEF CachesOK, DropSingletons
    <3>2. /\ m_namedSingletonInstances' \in
               [Factories -> [Components \X Names -> Nat \union {None}]]
          /\ \A g \in Factories, k \in Components \X Names :
               m_namedSingletonInstances'[g][k] \in {m_namedSingletonInstances[g][k], None}
      BY <1>3, <2>2 DEF CachesOK, DropSingletons
    <3>3. \A g \in Factories : CachedOK(g, instances, None)'
      BY DEF CachedOK
    <3>4. \A g \in Factories, c \in Components :
            CachedOK(g, instances, m_singletonInstances[g][c])'
      BY <1>3, <1>7, <3>1, <3>3 DEF CachesOK
    <3>5. \A g \in Factories, k \in Components \X Names :
            CachedOK(g, instances, m_namedSingletonInstances[g][k])'
      BY <1>3, <1>7, <3>2, <3>3 DEF CachesOK
    <3> QED BY <3>1, <3>2, <3>4, <3>5 DEF CachesOK
  <2> QED BY <2>1, <2>2 DEF Clear
<1>9. CallState(active, instances, stack)'
  BY <1>2, <1>4, <1>5 DEF CallState, Ordered
<1>10. (Waiting(instances, stack, Len(stack) - 1))'
  BY <1>2 DEF Waiting, AllFramesCalled
<1> QED BY <1>2, <1>6, <1>8, <1>9, <1>10 DEF CallInv

\* No call has been made yet.
LEMMA InitCallInv == Init => CallInv
<1> SUFFICES ASSUME Init PROVE CallInv
  OBVIOUS
<1>1. CallState(active, instances, stack)
  BY DEF Init, CallState, InjectedOK, Ordered
<1>2. Waiting(instances, stack, Len(stack) - 1)
  BY DEF Init, Waiting, AllFramesCalled
<1>3. CachesOK
  BY DEF Init, CachesOK, CachedOK
<1>4. Returnable(instances, outcome.ids)
  BY DEF Init, Returnable
<1> QED BY <1>1, <1>2, <1>3, <1>4, MainAssumption DEF Init, CallInv

\* Every step of the factory keeps its calls in order.
LEMMA NextCallInv ==
  ContextInv /\ CallInv /\ [Next]_vars => CallInv'
<1> SUFFICES ASSUME ContextTypeOK, CallInv, [Next]_vars PROVE CallInv'
  BY DEF ContextInv
<1>1. CASE Configuring
  BY <1>1, ConfiguringInv
<1>2. CASE CallStep \/ RunStep
  BY <1>2, StepsOfCalls DEF StepOK
<1>4. CASE UNCHANGED vars
  <2>1. UNCHANGED <<multiBindings, m_context, m_singletonInstances,
                    m_namedSingletonInstances, active, stack, thrown, outcome, instances>>
    BY <1>4 DEF vars, callVars, cacheVars, contextVars, bindVars
  <2>2. CallState(active, instances, stack)'
    BY <2>1 DEF CallInv, CallState, InjectedOK, FrameOK, ComponentOK, ResolveAllOK,
                Ordered, Finished, Missing
  <2>3. CachesOK'
    BY <2>1 DEF CallInv, CachesOK, CachedOK, Exists
  <2> QED BY <2>1, <2>2, <2>3 DEF CallInv, Waiting, AllFramesCalled, NextOf, Returnable,
                                        Missing, Exists
<1> QED BY <1>1, <1>2, <1>4 DEF Next

\* The order of the calls is an invariant.
LEMMA CallsInOrder == Spec => [](ContextInv /\ CallInv)
<1>1. Init => ContextInv /\ CallInv
  BY InitContextInv, InitCallInv DEF Init
<1>2. ContextInv /\ CallInv /\ [Next]_vars => ContextInv' /\ CallInv'
  BY NextContextInv, FactoryStepsAreContextSteps, NextCallInv
<1> QED BY <1>1, <1>2, PTL DEF Spec

\* Calls in order let only finished components out.
LEMMA FinishedEscape == CallInv => OnlyFinishedComponentsEscape
<1> SUFFICES ASSUME CallInv, NEW id,
                    \/ id \in outcome.ids \ {CoreInst}
                    \/ \E f \in Factories : id \in CachedBy(f)
             PROVE  WellBuilt(id)
  BY DEF OnlyFinishedComponentsEscape
<1>1. instances \in Seq(Instance) /\ InjectedOK(instances)
  BY DEF CallInv, CallState
<1>2. /\ id \in DOMAIN instances
      /\ instances[id].complete \/ ~instances[id].strict
      /\ Missing(instances[id]) = 0
  <2>1. CASE id \in outcome.ids \ {CoreInst}
    BY <2>1 DEF CallInv, Returnable
  <2>2. CASE \E f \in Factories : id \in CachedBy(f)
    <3>1. PICK f \in Factories : id \in CachedBy(f)
      BY <2>2
    <3>2. id \in 1..Len(instances) /\ DOMAIN instances = 1..Len(instances)
      BY <1>1, <3>1, LenProperties DEF CachedBy, InstanceId
    <3>3. id # None
      BY <1>1, <3>2, NoneIsNoInstance
    <3>4. CachedOK(f, instances, id)
      BY <3>1 DEF CachedBy, CallInv, CachesOK
    <3>5. instances[id].complete
      BY <3>3, <3>4 DEF CachedOK
    <3> QED BY <1>1, <3>2, <3>5 DEF InjectedOK
  <2> QED BY <2>1, <2>2
<1> DEFINE inst == instances[id]
           deps == Injectables[inst.component]
<1>3. /\ Len(inst.injected) \in Nat
      /\ Len(deps) \in Nat
      /\ Missing(inst) = Len(deps) - Len(inst.injected)
  BY <1>1, <1>2, MissingType DEF Missing
<1>4. Len(inst.injected) = Len(deps)
  <2>1. Missing(inst) = 0
    BY <1>2
  <2> HIDE DEF inst, deps
  <2> QED BY <1>3, <2>1
<1>5. DOMAIN deps = 1..Len(deps)
  <2>1. inst \in Instance
    BY <1>1, <1>2
  <2>2. deps \in Seq(Injectable)
    BY <2>1, InjectablesAssumption DEF Instance
  <2> QED BY <2>2, LenProperties
<1>6. \A j \in 1..Len(inst.injected) :
        /\ MayMiss(deps[j]) \/ inst.injected[j] # {}
        /\ Finished(instances, inst.injected[j])
  BY <1>1, <1>2 DEF InjectedOK
<1> QED BY <1>2, <1>4, <1>5, <1>6 DEF WellBuilt, Finished, MayMiss

\* resolve, inject and the catch clauses of inject in Factory.cpp: whatever
\* fails, whatever is optional and however deep the recursion, a component
\* with something missing is never cached, injected or returned.
THEOREM OnlyFinishedEscape == Spec => []OnlyFinishedComponentsEscape
BY CallsInOrder, FinishedEscape, PTL

-----------------------------------------------------------------------------
(* Singletons and explicit binds.                                           *)

(* A component under construction has not been cached, unless by a          *)
(* construction that began after it.                                        *)
SingletonFramesOK ==
  \A j \in 1..Len(stack) :
    /\ stack[j].kind = "component"
    /\ stack[j].cache = "singleton"
    /\ m_singletonInstances[active][stack[j].component] # None
    => stack[j].inst < m_singletonInstances[active][stack[j].component]

\* Where the caches change hands: at the end of resolveComponent.
LEMMA StepsOfCaches ==
  ASSUME CallStep \/ RunStep
  PROVE  /\ UNCHANGED contextVars
         /\ UNCHANGED cacheVars \/ FinishComponent
         /\ stack # <<>> => UNCHANGED active
BY DEF CallStep, Resolve, ResolveAll, CreateComponent, Begin, Idle, RunStep,
       InjectNext, MultiNext, MultiReturn, ConfigureFails, ConfigureIgnored,
       FinishComponent, Unwind, Injected, Running

\* What FinishComponent caches, and the frame that it removes.
LEMMA FinishedLeaves ==
  ASSUME CallInv, FinishComponent
  PROVE  /\ Len(stack') = Len(stack) - 1
         /\ \A f \in Factories, c \in Components :
              \/ m_singletonInstances'[f][c] = m_singletonInstances[f][c]
              \/ /\ f = active /\ c = Top.component
                 /\ Top.cache = "singleton"
                 /\ m_singletonInstances'[f][c] = Top.inst
         /\ \A f \in Factories, k \in Components \X Names :
              \/ m_namedSingletonInstances'[f][k] = m_namedSingletonInstances[f][k]
              \/ f = active /\ m_namedSingletonInstances'[f][k] = Top.inst
<1>1. /\ Injected /\ Store(Top)
      /\ Deliver(active, Below, [instances EXCEPT ![Top.inst].complete = TRUE], {Top.inst})
  BY DEF FinishComponent
<1>2. /\ stack # <<>> /\ active \in Factories
      /\ CachesOK
      /\ Top \in ComponentFrame
      /\ Below \in Seq(Frame)
  BY <1>1, InjectedTop DEF CallState
<1>3. Len(Below) = Len(stack) - 1
  BY <1>2, BelowState DEF CallInv, Below
<1>4. Len(stack') = Len(Below)
  <2>1. \/ stack' = Below
        \/ \E e : stack' = [Below EXCEPT ![Len(Below)] = e]
    BY <1>1 DEF Deliver
  <2>2. ASSUME NEW e, stack' = [Below EXCEPT ![Len(Below)] = e]
        PROVE  Len(stack') = Len(Below)
    BY <1>2, <2>2, LenProperties
  <2> QED BY <2>1, <2>2
<1>5. Top.component \in Components /\ Top.inst \in Nat
  BY <1>2 DEF ComponentFrame
<1>6. ASSUME NEW f \in Factories, NEW c \in Components
      PROVE  \/ m_singletonInstances'[f][c] = m_singletonInstances[f][c]
             \/ /\ f = active /\ c = Top.component
                /\ Top.cache = "singleton"
                /\ m_singletonInstances'[f][c] = Top.inst
  BY <1>1, <1>2, <1>5 DEF Store, CachesOK
<1>7. ASSUME NEW f \in Factories, NEW k \in Components \X Names
      PROVE  \/ m_namedSingletonInstances'[f][k] = m_namedSingletonInstances[f][k]
             \/ f = active /\ m_namedSingletonInstances'[f][k] = Top.inst
  BY <1>1, <1>2, <1>5 DEF Store, CachesOK
<1> QED BY <1>3, <1>4, <1>6, <1>7

\* A step of a call keeps singletons in the order of their constructions.
LEMMA StepSingletonFrames ==
  ASSUME ContextTypeOK, CallInv, SingletonFramesOK, CallStep \/ RunStep
  PROVE  SingletonFramesOK'
<1>1. /\ StackMoves(active')
      /\ KeptIn(instances, instances')
      /\ CallInv'
  BY StepsOfCalls DEF StepOK
<1>2. /\ stack \in Seq(Frame) /\ Len(stack) \in Nat
      /\ stack' \in Seq(Frame) /\ Len(stack') \in Nat
      /\ stack = <<>> <=> Len(stack) = 0
      /\ DOMAIN stack = 1..Len(stack)
  BY <1>1, LenProperties DEF CallInv, CallState
<1>3. CASE FinishComponent
  <2>1. Len(stack') = Len(stack) - 1 /\ stack # <<>> /\ active' = active
    BY <1>3, FinishedLeaves, InjectedTop DEF FinishComponent
  <2>2. KeepsFrames(stack', stack)
    <3>1. ASSUME NEW frame, stack' = Append(stack, frame)
          PROVE  FALSE
      <4>1. Len(stack') = Len(stack) + 1
        BY <1>2, <3>1
      <4> QED BY <1>2, <2>1, <4>1
    <3> QED BY <1>1, <3>1 DEF StackMoves
  <2>3. ASSUME NEW j \in 1..Len(stack'), stack'[j].kind = "component",
               stack'[j].cache = "singleton",
               m_singletonInstances'[active'][stack'[j].component] # None
        PROVE  stack'[j].inst < m_singletonInstances'[active'][stack'[j].component]
    <3>1. /\ j \in 1..Len(stack) /\ j < Len(stack)
          /\ stack'[j] = stack[j]
      BY <1>2, <2>1, <2>2, <2>3 DEF KeepsFrames
    <3>2. active \in Factories /\ stack[j].component \in Components
      <4>1. stack[j] \in ComponentFrame
        BY <1>2, <2>3, <3>1, FrameKinds
      <4> QED BY <4>1 DEF ComponentFrame, CallInv
    <3>3. CASE m_singletonInstances'[active][stack[j].component]
                 = m_singletonInstances[active][stack[j].component]
      BY <2>1, <2>3, <3>1, <3>3 DEF SingletonFramesOK
    <3>4. CASE m_singletonInstances'[active][stack[j].component] = Top.inst
      <4>1. Top.kind = "component"
        BY <1>3, InjectedTop DEF FinishComponent
      <4>2. stack[j].inst < Top.inst
        BY <1>2, <2>1, <2>3, <3>1, <4>1 DEF CallInv, CallState, Ordered, Top
      <4> QED BY <2>1, <3>1, <3>4, <4>2
    <3> QED BY <1>3, <3>2, <3>3, <3>4, FinishedLeaves
  <2> QED BY <2>3 DEF SingletonFramesOK
<1>4. CASE UNCHANGED cacheVars
  <2> SUFFICES ASSUME NEW j \in 1..Len(stack'), stack'[j].kind = "component",
                      stack'[j].cache = "singleton",
                      m_singletonInstances'[active'][stack'[j].component] # None
               PROVE  stack'[j].inst < m_singletonInstances'[active'][stack'[j].component]
    BY DEF SingletonFramesOK
  <2>1. UNCHANGED m_singletonInstances
    BY <1>4 DEF cacheVars
  <2>2. ASSUME j \in 1..Len(stack), stack'[j] = stack[j]
        PROVE  stack'[j].inst < m_singletonInstances'[active'][stack'[j].component]
    <3>1. active' = active
      BY <1>2, <2>2, StepsOfCaches
    <3> QED BY <2>1, <2>2, <3>1 DEF SingletonFramesOK
  <2>3. CASE KeepsFrames(stack', stack)
    BY <1>2, <2>2, <2>3 DEF KeepsFrames
  <2>4. ASSUME NEW frame, stack' = Append(stack, frame),
               frame.kind = "component" =>
                 MayBegin(active', frame.component, frame.cache, frame.levels)
        PROVE  stack'[j].inst < m_singletonInstances'[active'][stack'[j].component]
    <3>1. CASE j = Len(stack) + 1
      <4>1. stack'[j] = frame
        BY <1>2, <2>4, <3>1
      <4> QED BY <2>1, <2>4, <4>1 DEF MayBegin
    <3>2. CASE j # Len(stack) + 1
      <4>1. j \in 1..Len(stack) /\ stack'[j] = stack[j]
        BY <1>2, <2>4, <3>2
      <4> QED BY <2>2, <4>1
    <3> QED BY <3>1, <3>2
  <2> QED BY <1>1, <2>3, <2>4 DEF StackMoves
<1> QED BY <1>3, <1>4, StepsOfCaches

\* What ExplicitOnlyGetsItsOwn says, in the terms of the proof.
LEMMA ExplicitAsOwnBinds ==
  ExplicitOnlyGetsItsOwn <=>
    \A j \in 1..(Len(stack) - 1) :
      IsExplicit(stack[j]) /\ stack[j + 1].kind = "component" =>
        stack[j + 1].levels[1] \in OwnBinds(m_context[active], stack[j].component)
BY DEF ExplicitOnlyGetsItsOwn, IsExplicit, OwnBinds

\* A step of a call gives an explicit component only what is bound for it.
LEMMA StepExplicit ==
  ASSUME ContextTypeOK, CallInv, ExplicitOnlyGetsItsOwn, CallStep \/ RunStep
  PROVE  ExplicitOnlyGetsItsOwn'
<1>1. StackMoves(active') /\ CallInv' /\ UNCHANGED contextVars
  BY StepsOfCalls, StepsOfCaches DEF StepOK
<1>2. /\ stack \in Seq(Frame) /\ Len(stack) \in Nat
      /\ stack' \in Seq(Frame) /\ Len(stack') \in Nat
      /\ stack = <<>> <=> Len(stack) = 0
  BY <1>1, LenProperties DEF CallInv, CallState
<1>3. \A k, c : OwnBinds(k, c)' = OwnBinds(k, c)
  BY <1>1 DEF OwnBinds, contextVars, bindVars
<1>4. ASSUME NEW j \in 1..(Len(stack') - 1), IsExplicit(stack'[j]),
             stack'[j + 1].kind = "component"
      PROVE  stack'[j + 1].levels[1] \in OwnBinds(m_context[active'], stack'[j].component)
  <2>1. j \in Nat /\ j + 1 \in 1..Len(stack') /\ j \in 1..Len(stack')
    BY <1>2
  <2>2. ASSUME j + 1 \in 1..Len(stack), stack'[j] = stack[j], stack'[j + 1] = stack[j + 1]
        PROVE  stack'[j + 1].levels[1] \in OwnBinds(m_context[active'], stack'[j].component)
    <3>1. active' = active
      BY <1>2, <2>2, StepsOfCaches
    <3>2. j \in 1..(Len(stack) - 1)
      BY <1>2, <2>1, <2>2
    <3> QED BY <1>4, <2>2, <3>1, <3>2, ExplicitAsOwnBinds
  <2>3. CASE KeepsFrames(stack', stack)
    <3>1. stack'[j].kind = "component"
      BY <1>4 DEF IsExplicit
    <3> QED BY <1>2, <1>4, <2>1, <2>2, <2>3, <3>1 DEF KeepsFrames
  <2>4. ASSUME NEW frame, stack' = Append(stack, frame),
               frame.kind = "component" =>
                 MayBegin(active', frame.component, frame.cache, frame.levels)
        PROVE  stack'[j + 1].levels[1] \in OwnBinds(m_context[active'], stack'[j].component)
    <3>1. /\ Len(stack') = Len(stack) + 1
          /\ \A i \in 1..Len(stack) : stack'[i] = stack[i]
          /\ stack'[Len(stack) + 1] = frame
      BY <1>2, <2>4
    <3>2. CASE j = Len(stack)
      <4>1. stack'[j] = Top /\ stack'[j + 1] = frame /\ stack # <<>>
        BY <1>2, <2>1, <3>1, <3>2 DEF Top
      <4> QED BY <1>4, <2>4, <4>1 DEF MayBegin
    <3>3. CASE j # Len(stack)
      <4>1. j + 1 \in 1..Len(stack) /\ j \in 1..Len(stack)
        BY <1>2, <2>1, <3>1, <3>3
      <4> QED BY <2>2, <3>1, <4>1
    <3> QED BY <3>2, <3>3
  <2> QED BY <1>1, <2>3, <2>4 DEF StackMoves
<1>5. UNCHANGED m_context
  BY <1>1 DEF contextVars
<1>6. (\A j \in 1..(Len(stack) - 1) :
        IsExplicit(stack[j]) /\ stack[j + 1].kind = "component" =>
          stack[j + 1].levels[1] \in OwnBinds(m_context[active], stack[j].component))'
  BY <1>3, <1>4, <1>5 DEF IsExplicit
<1> QED BY <1>6 DEF ExplicitOnlyGetsItsOwn, IsExplicit, OwnBinds

\* The cached instances of a factory are finished and made by it.
LEMMA CachedByOK ==
  ASSUME CallInv, NEW f \in Factories, NEW id \in CachedBy(f)
  PROVE  /\ id \in DOMAIN instances
         /\ Exists(f)
         /\ instances[id].factory = f
<1>1. id \in 1..Len(instances) /\ DOMAIN instances = 1..Len(instances) /\ Len(instances) \in Nat
  BY LenProperties DEF CachedBy, InstanceId, CallInv, CallState
<1>2. id # None
  BY <1>1, NoneIsNoInstance
<1>3. CachedOK(f, instances, id)
  BY DEF CachedBy, CallInv, CachesOK
<1> QED BY <1>2, <1>3 DEF CachedOK

(* A factory that shares its context with no other.                         *)
Alone(f) == \A g \in Factories : g # f => m_context[g] # m_context[f]

\* A step of a call caches no instance that is out of date.
LEMMA StepStale ==
  ASSUME ContextTypeOK, CallInv, StaleSingletonsOnlyWhenShared, CallStep \/ RunStep
  PROVE  StaleSingletonsOnlyWhenShared'
<1>1. KeptIn(instances, instances') /\ CallInv' /\ UNCHANGED m_context
  BY StepsOfCalls, StepsOfCaches DEF StepOK, contextVars
<1>2. ASSUME NEW f \in Factories, Alone(f), NEW id \in CachedBy(f)'
      PROVE  ~instances'[id].stale
  <2>1. /\ id \in 1..Len(instances')
        /\ \/ \E c \in Components : m_singletonInstances'[f][c] = id
           \/ \E k \in Components \X Names : m_namedSingletonInstances'[f][k] = id
    BY DEF CachedBy, InstanceId
  <2>2. id # None
    <3>1. Len(instances') \in Nat
      BY <1>1, LenProperties DEF CallInv, CallState
    <3> QED BY <2>1, <3>1, NoneIsNoInstance
  <2>3. ASSUME \/ \E c \in Components : m_singletonInstances[f][c] = id
               \/ \E k \in Components \X Names : m_namedSingletonInstances[f][k] = id
        PROVE  ~instances'[id].stale
    <3>1. CachedOK(f, instances, id)
      BY <2>3 DEF CallInv, CachesOK
    <3>2. id \in DOMAIN instances
      BY <2>2, <3>1 DEF CachedOK
    <3>3. DOMAIN instances = 1..Len(instances)
      BY LenProperties DEF CallInv, CallState
    <3>4. id \in CachedBy(f)
      BY <2>3, <3>2, <3>3 DEF CachedBy, InstanceId
    <3>5. ~instances[id].stale
      BY <1>2, <3>4 DEF StaleSingletonsOnlyWhenShared, Alone
    <3> QED BY <1>1, <3>2, <3>5 DEF KeptIn
  <2>4. CASE UNCHANGED cacheVars
    BY <2>1, <2>3, <2>4 DEF cacheVars
  <2>5. CASE FinishComponent
    <3>1. \/ \E c \in Components : m_singletonInstances[f][c] = id
          \/ \E k \in Components \X Names : m_namedSingletonInstances[f][k] = id
          \/ id = Top.inst
      BY <2>1, <2>5, FinishedLeaves
    <3>2. CASE id = Top.inst
      <4>1. ComponentOK(active, instances, Top, Len(stack))
        BY <2>5, InjectedTop DEF FinishComponent
      <4> QED BY <1>1, <3>2, <4>1 DEF ComponentOK, KeptIn
    <3> QED BY <2>3, <3>1, <3>2
  <2> QED BY <2>4, <2>5, StepsOfCaches
<1>3. \A f \in Factories : Alone(f)' => Alone(f)
  BY <1>1 DEF Alone
<1> QED BY <1>1, <1>2 DEF StaleSingletonsOnlyWhenShared, Alone

\* A bind, a load or a new factory changes no cache; a clear leaves nothing
\* in the caches of the factory, and what is out of date by it elsewhere was
\* made by a factory on the same context.
LEMMA ConfiguringStale ==
  ASSUME ContextTypeOK, CallInv, StaleSingletonsOnlyWhenShared, Configuring
  PROVE  StaleSingletonsOnlyWhenShared'
<1> PICK f \in Factories :
      \/ Clear(f)
      \/ Idle /\ Declare(f) /\ UNCHANGED <<cacheVars, callVars, instances>>
  BY DEF Configuring
<1>1. CallInv' /\ ContextNext
  BY ConfiguringInv DEF Clear, ContextNext
<1>2. ASSUME NEW g \in Factories, Alone(g)', NEW id \in CachedBy(g)'
      PROVE  ~instances'[id].stale
  <2>1. /\ id \in 1..Len(instances')
        /\ \/ \E c \in Components : m_singletonInstances'[g][c] = id
           \/ \E k \in Components \X Names : m_namedSingletonInstances'[g][k] = id
    BY DEF CachedBy, InstanceId
  <2>2. id # None
    <3>1. Len(instances') \in Nat
      BY <1>1, LenProperties DEF CallInv, CallState
    <3> QED BY <2>1, <3>1, NoneIsNoInstance
  <2>3. CASE Clear(f)
    <3>1. /\ DropSingletons(f) /\ instances' = Outdated(m_context[f])
          /\ UNCHANGED m_context
      BY <2>3 DEF Clear, ClearContext
    <3>2. /\ instances \in Seq(Instance) /\ CachesOK
          /\ DOMAIN instances' = DOMAIN instances
          /\ DOMAIN instances = 1..Len(instances)
          /\ DOMAIN instances' = 1..Len(instances')
      BY <1>1, <3>1, OutdatedInstances, LenProperties DEF CallInv, CallState
    <3>3. g # f
      BY <2>1, <2>2, <3>1, <3>2 DEF DropSingletons, CachesOK
    <3>4. id \in CachedBy(g)
      <4>1. /\ m_singletonInstances'[g] = m_singletonInstances[g]
            /\ m_namedSingletonInstances'[g] = m_namedSingletonInstances[g]
        BY <3>1, <3>2, <3>3 DEF DropSingletons, CachesOK
      <4>2. id \in 1..Len(instances)
        BY <2>1, <3>2
      <4> QED BY <2>1, <4>1, <4>2 DEF CachedBy, InstanceId
    <3>5. ~instances[id].stale
      BY <1>2, <3>1, <3>4 DEF StaleSingletonsOnlyWhenShared, Alone
    <3>6. id \in DOMAIN instances /\ instances[id].factory = g
      BY <3>4, CachedByOK
    <3>7. m_context[f] # m_context[g]
      BY <1>2, <3>1, <3>3 DEF Alone
    <3> QED BY <3>1, <3>2, <3>5, <3>6, <3>7, OutdatedInstances
  <2>4. CASE Declare(f) /\ UNCHANGED <<cacheVars, callVars, instances>>
    <3>1. id \in CachedBy(g)
      BY <2>1, <2>4 DEF CachedBy, InstanceId, cacheVars
    <3>2. Exists(g)
      BY <3>1, CachedByOK
    <3>3. Alone(g)
      <4>1. ASSUME NEW h \in Factories, h # g
            PROVE  m_context[h] # m_context[g]
        <5>1. m_context'[g] = m_context[g] /\ m_context[g] # None
          BY <1>1, <3>2, ContextsAreKept DEF Exists
        <5>2. CASE Exists(h)
          <6>1. m_context'[h] = m_context[h]
            BY <1>1, <5>2, ContextsAreKept
          <6> QED BY <1>2, <4>1, <5>1, <6>1 DEF Alone
        <5>3. CASE ~Exists(h)
          BY <5>1, <5>3 DEF Exists
        <5> QED BY <5>2, <5>3
      <4> QED BY <4>1 DEF Alone
    <3> QED BY <2>4, <3>1, <3>3 DEF StaleSingletonsOnlyWhenShared, Alone
  <2> QED BY <2>3, <2>4
<1> QED BY <1>2 DEF StaleSingletonsOnlyWhenShared, Alone

(* The invariant behind the three properties.                               *)
FactoryInv ==
  /\ ContextInv
  /\ CallInv
  /\ SingletonFramesOK
  /\ ExplicitOnlyGetsItsOwn
  /\ StaleSingletonsOnlyWhenShared

\* Nothing is cached and nothing is built at first.
LEMMA InitFactoryInv == Init => FactoryInv
<1> SUFFICES ASSUME Init PROVE FactoryInv
  OBVIOUS
<1>1. ContextInv /\ CallInv
  BY InitContextInv, InitCallInv DEF Init
<1>2. stack = <<>> /\ instances = <<>> /\ Len(stack) = 0 /\ Len(instances) = 0
  BY DEF Init
<1>3. SingletonFramesOK /\ ExplicitOnlyGetsItsOwn
  BY <1>2 DEF SingletonFramesOK, ExplicitOnlyGetsItsOwn
<1>4. \A f \in Factories : CachedBy(f) = {}
  BY <1>2 DEF CachedBy, InstanceId
<1>5. StaleSingletonsOnlyWhenShared
  BY <1>4 DEF StaleSingletonsOnlyWhenShared
<1> QED BY <1>1, <1>3, <1>5 DEF FactoryInv

\* The invariant holds again after a bind, a clear, a call or a step of one.
LEMMA NextFactoryInv == FactoryInv /\ [Next]_vars => FactoryInv'
<1> SUFFICES ASSUME FactoryInv, [Next]_vars PROVE FactoryInv'
  OBVIOUS
<1>1. ContextTypeOK /\ CallInv
  BY DEF FactoryInv, ContextInv
<1>2. ContextInv' /\ CallInv'
  BY <1>1, NextContextInv, FactoryStepsAreContextSteps, NextCallInv DEF FactoryInv
<1>3. CASE Configuring
  <2>1. /\ StaleSingletonsOnlyWhenShared'
        /\ stack' = <<>>
    BY <1>1, <1>3, ConfiguringStale
       DEF FactoryInv, Configuring, Clear, Idle, callVars
  <2>2. Len(stack') = 0
    BY <2>1
  <2>3. SingletonFramesOK' /\ ExplicitOnlyGetsItsOwn'
    BY <2>2 DEF SingletonFramesOK, ExplicitOnlyGetsItsOwn
  <2> QED BY <1>2, <2>1, <2>3 DEF FactoryInv
<1>4. CASE CallStep \/ RunStep
  BY <1>1, <1>2, <1>4, StepSingletonFrames, StepExplicit, StepStale DEF FactoryInv
<1>5. CASE UNCHANGED vars
  <2>1. UNCHANGED <<specificBindings, specificNamedBindings, m_context, active,
                    stack, instances, m_singletonInstances, m_namedSingletonInstances>>
    BY <1>5 DEF vars, callVars, cacheVars, contextVars, bindVars
  <2>2. SingletonFramesOK'
    BY <2>1 DEF FactoryInv, SingletonFramesOK
  <2>3. ExplicitOnlyGetsItsOwn'
    BY <2>1 DEF FactoryInv, ExplicitOnlyGetsItsOwn
  <2>4. \A f \in Factories : CachedBy(f)' = CachedBy(f)
    BY <2>1 DEF CachedBy, InstanceId
  <2>5. StaleSingletonsOnlyWhenShared'
    BY <2>1, <2>4 DEF FactoryInv, StaleSingletonsOnlyWhenShared
  <2> QED BY <1>2, <2>2, <2>3, <2>5 DEF FactoryInv
<1> QED BY <1>3, <1>4, <1>5 DEF Next

\* It holds in every state of a factory.
LEMMA FactoryInvariant == Spec => []FactoryInv
BY InitFactoryInv, NextFactoryInv, PTL DEF Spec

\* resolveBind and inject in Factory.cpp: however deep a component bound for
\* explicit injection is built, its injectables come from its own binds or
\* from the core.
THEOREM ExplicitGetsItsOwn == Spec => []ExplicitOnlyGetsItsOwn
BY FactoryInvariant, PTL DEF FactoryInv

\* clear in Factory.cpp: a singleton wired by binds that are gone outlives
\* them only in a factory on a shared context.
THEOREM StaleOnlyWhenShared == Spec => []StaleSingletonsOnlyWhenShared
BY FactoryInvariant, PTL DEF FactoryInv

\* resolve and resolveComponent in Factory.cpp: a cached singleton is only
\* forgotten by clear or overwritten by a construction around its own.
THEOREM SingletonsKept == Spec => SingletonsAreKept
<1>1. ASSUME FactoryInv, [Next]_vars,
             NEW f \in Factories, NEW c \in Components
      PROVE  \/ m_singletonInstances[f][c] = None
             \/ m_singletonInstances'[f][c] \in {m_singletonInstances[f][c], None}
             \/ stack[Len(stack)].inst < m_singletonInstances[f][c]
  <2>1. ContextTypeOK /\ CallInv /\ SingletonFramesOK /\ CachesOK
    BY <1>1 DEF FactoryInv, ContextInv, CallInv
  <2>2. CASE UNCHANGED m_singletonInstances
    BY <2>2
  <2>3. CASE Configuring
    BY <2>1, <2>2, <2>3
       DEF Configuring, Clear, DropSingletons, CachesOK, cacheVars
  <2>4. CASE FinishComponent
    <3>1. /\ Top.kind = "component" /\ stack # <<>>
      BY <2>1, <2>4, InjectedTop DEF FinishComponent
    <3>2. Top = stack[Len(stack)] /\ Len(stack) \in 1..Len(stack)
      BY <2>1, <3>1, TopFrame
    <3>3. \/ m_singletonInstances'[f][c] = m_singletonInstances[f][c]
          \/ f = active /\ c = Top.component /\ Top.cache = "singleton"
      BY <2>1, <2>4, FinishedLeaves
    <3> QED BY <2>1, <3>1, <3>2, <3>3 DEF SingletonFramesOK
  <2>5. CASE CallStep \/ RunStep
    BY <2>2, <2>4, <2>5, StepsOfCaches DEF cacheVars
  <2> QED BY <1>1, <2>2, <2>3, <2>5 DEF Next, vars, cacheVars
<1>2. FactoryInv /\ [Next]_vars =>
        [\A f \in Factories, c \in Components :
           LET old == m_singletonInstances[f][c]
           IN  \/ old = None
               \/ m_singletonInstances'[f][c] \in {old, None}
               \/ stack[Len(stack)].inst < old]_vars
  BY <1>1
<1> QED BY <1>2, FactoryInvariant, PTL DEF Spec, SingletonsAreKept
=============================================================================
