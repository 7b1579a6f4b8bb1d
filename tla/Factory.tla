------------------------------- MODULE Factory -------------------------------
(***************************************************************************)
(* The recursive construction of Factory.cpp: a component is created with  *)
(* everything it depends on, by the binds of the factory's context.        *)
(*                                                                         *)
(* The recursion resolve -> resolveComponent -> inject -> resolve is the   *)
(* variable stack: a frame for every resolveComponent and every resolveAll *)
(* in progress, the innermost last.  A step runs from one call or return   *)
(* of that recursion to the next; an exception in flight is the variable   *)
(* thrown, which tells an xpcf::Exception from all others, since only the  *)
(* former is caught on the way.  A factory has no lock: one thread uses it *)
(* at a time, and binds come between the calls.                            *)
(*                                                                         *)
(* Instances are named by their place in the order of creation, so that    *)
(* two of one component can be told apart.                                 *)
(***************************************************************************)
EXTENDS FactoryContext

CONSTANTS
  Injectables,     \* the injectables a component declares, in their order
  Unreliable,      \* components whose creation or configuration may fail
  CallBound,       \* bound: calls of resolve, resolveAll and createComponent
  DepthBound       \* bound: frames the thread's stack has room for

\* The core instances are made by the constructor and never replaced: all of
\* them are instance 0.
CoreInst == 0

Injectable ==
  [itf : Interfaces, name : Names \union {None}, multi : BOOLEAN,
   optional : BOOLEAN]

ASSUME InjectablesAssumption == Injectables \in [Components -> Seq(Injectable)]
ASSUME BoundsAssumption == CallBound \in Nat /\ DepthBound \in Nat
\* A map without an entry is told from one with the instance of a number.
ASSUME NoneIsNoInstance == None \notin Nat

VARIABLES
  m_singletonInstances, m_namedSingletonInstances,
  active,          \* the factory the call in progress runs on
  stack,
  thrown,          \* the exception in flight
  crashed,         \* the thread's stack overflowed
  outcome,         \* history: what the last call returned
  instances,       \* history: every component created so far
  callsLeft        \* calls that CallBound still allows

cacheVars == <<m_singletonInstances, m_namedSingletonInstances>>
callVars == <<active, stack, thrown, crashed, outcome, callsLeft>>
vars == <<contextVars, cacheVars, callVars, instances>>

NoException == "none"
Exceptions == {"xpcf::Exception", "other"}

\* An instance as its constructor leaves it: nothing injected yet.
NewInstance(f, c, scope, cache, strict) ==
  [component |-> c, factory |-> f, scope |-> scope, cache |-> cache,
   strict |-> strict, injected |-> <<>>, complete |-> FALSE, stale |-> FALSE]

Init ==
  /\ ContextInit
  /\ m_singletonInstances = [f \in Factories |-> [c \in Components |-> None]]
  /\ m_namedSingletonInstances =
       [f \in Factories |-> [k \in Components \X Names |-> None]]
  /\ active = Main
  /\ stack = <<>>
  /\ thrown = NoException
  /\ crashed = FALSE
  /\ outcome = [ids |-> {}, threw |-> FALSE]
  /\ instances = <<>>
  /\ callsLeft = CallBound

Idle == stack = <<>> /\ ~crashed

\* History: the instances wired by what the context held until now.
Outdated(k) ==
  [j \in DOMAIN instances |->
     IF m_context[instances[j].factory] = k
       THEN [instances[j] EXCEPT !.stale = TRUE] ELSE instances[j]]

\* Faulty (see FactoryContext): the named singletons are forgotten.
DropUnnamedSingletons(f) ==
  /\ m_singletonInstances' =
       [m_singletonInstances EXCEPT ![f] = [c \in Components |-> None]]
  /\ UNCHANGED m_namedSingletonInstances

DropSingletons(f) ==
  /\ m_singletonInstances' =
       [m_singletonInstances EXCEPT ![f] = [c \in Components |-> None]]
  /\ m_namedSingletonInstances' =
       [m_namedSingletonInstances EXCEPT ![f] =
          [k \in Components \X Names |-> None]]

\* clear empties the context, which other factories may share, and the
\* singletons of this factory only.
Clear(f) ==
  /\ Idle
  /\ ClearContext(f)
  /\ DropSingletons(f)
  /\ instances' = Outdated(m_context[f])
  /\ UNCHANGED callVars

-----------------------------------------------------------------------------
(* The recursion.                                                          *)

Top == stack[Len(stack)]
Below == SubSeq(stack, 1, Len(stack) - 1)

\* The bind a resolveAll is at.  Each bind is pushed in front of the levels
\* of the binds before it; a singleton bind is gone through twice, once for
\* the shared instance and once more for an instance of its own.
AtBind(f, frame, j) ==
  LET binds == multiBindings[m_context[f]][frame.itf]
  IN  IF j > Len(binds)
        THEN [frame EXCEPT !.next = j]
        ELSE [frame EXCEPT
                !.next = j,
                !.levels = <<binds[j]>> \o @,
                !.phase = IF binds[j].scope = "Singleton" THEN "shared" ELSE "own"]

Collected(f, frame, ids) ==
  LET with == [frame EXCEPT !.got = @ \union ids]
  IN  IF frame.phase = "shared" THEN [with EXCEPT !.phase = "own"]
                                ELSE AtBind(f, with, frame.next + 1)

\* A call returns ids to its caller, which is the last frame of stk.
Deliver(f, stk, made, ids) ==
  LET top == stk[Len(stk)]
  IN  /\ thrown' = NoException
      /\ IF stk = <<>>
           THEN /\ outcome' = [ids |-> ids, threw |-> FALSE]
                /\ stack' = stk
                /\ instances' = made
           ELSE /\ outcome' = outcome
                /\ IF top.kind = "component"
                     THEN /\ instances' = [made EXCEPT ![top.inst].injected = Append(@, ids)]
                          /\ stack' = stk
                     ELSE /\ stack' = [stk EXCEPT ![Len(stk)] = Collected(f, top, ids)]
                          /\ instances' = made

\* An exception reaches the last frame of stk, or the caller of the factory.
Raise(stk, exception) ==
  /\ stack' = stk
  /\ thrown' = IF stk = <<>> THEN NoException ELSE exception
  /\ outcome' = IF stk = <<>> THEN [ids |-> {}, threw |-> TRUE] ELSE outcome

\* createComponent() finds a core method, a factory function or a module.
Creatable(f, bind) ==
  \/ bind.range = {}
  \/ bind.component \in factoryMethods[m_context[f]]
  \/ bind.component \in componentModuleUUIDMap[m_context[f]]

\* resolveComponent begins: the component is created and becomes a frame.
\* The recursion has no guard of its own: a stack that is full ends the
\* process.
Enter(f, bind, levels, cache, name, strict, creatable) ==
  \/ /\ creatable
     /\ Len(stack) < DepthBound
     /\ instances' = Append(instances, NewInstance(f, bind.component, bind.scope, cache, strict))
     /\ stack' = Append(stack,
          [kind |-> "component", component |-> bind.component, levels |-> levels,
           inst |-> Len(instances) + 1, cache |-> cache, name |-> name])
     /\ UNCHANGED <<thrown, outcome, crashed>>
  \/ /\ \/ ~creatable /\ Raise(stack, "xpcf::Exception")
        \/ /\ bind.component \in Unreliable
           /\ \E exception \in Exceptions : Raise(stack, exception)
     /\ UNCHANGED <<instances, crashed>>
  \/ /\ creatable
     /\ Len(stack) = DepthBound
     /\ crashed' = TRUE
     /\ UNCHANGED <<instances, stack, thrown, outcome>>

\* Faulty: the unnamed singletons are not looked up.
CachedByNameOnly(f, bind, n) ==
  CASE n # None -> m_namedSingletonInstances[f][<<bind.component, n>>]
    [] n = None /\ bind.range = {} -> CoreInst
    [] OTHER -> None

Cached(f, bind, n) ==
  CASE n # None -> m_namedSingletonInstances[f][<<bind.component, n>>]
    [] n = None /\ bind.range = {} -> CoreInst
    [] OTHER -> m_singletonInstances[f][bind.component]

\* resolve, with and without a name.
Request(f, i, n, levels) ==
  \E bind \in {IF n = None THEN ResolveBind(f, i, levels)
                           ELSE ResolveNamedBind(f, i, n, levels)} :
    IF bind = None
      THEN Raise(stack, "xpcf::Exception") /\ UNCHANGED <<instances, crashed>>
    ELSE IF bind.scope = "Singleton" /\ Cached(f, bind, n) # None
      THEN Deliver(f, stack, instances, {Cached(f, bind, n)}) /\ UNCHANGED crashed
    ELSE Enter(f, bind, <<bind>> \o levels,
               IF bind.scope = "Transient" THEN "none"
               ELSE IF n = None THEN "singleton" ELSE "named",
               n, TRUE, Creatable(f, bind))

\* resolveAll: the binds of a multiple bind, which may have an entry without
\* any, else the single one.
RequestAll(f, i, levels) ==
  IF i \notin multiBound[m_context[f]]
    THEN Request(f, i, None, levels)
    ELSE /\ stack' = Append(stack,
              AtBind(f, [kind |-> "all", itf |-> i, levels |-> levels,
                         next |-> 0, phase |-> "own", got |-> {}], 1))
         /\ UNCHANGED <<instances, thrown, outcome, crashed>>

\* The calls an application makes.
Begin(f) ==
  /\ Idle
  /\ Exists(f)
  /\ callsLeft > 0
  /\ callsLeft' = callsLeft - 1
  /\ active' = f
  /\ UNCHANGED <<contextVars, cacheVars>>

Resolve(f, i, n) == Begin(f) /\ Request(f, i, n, <<>>)

ResolveAll(f, i) == Begin(f) /\ RequestAll(f, i, <<>>)

\* createComponent: straight from the module, without a bind, and not strict:
\* the error code of configure is not looked at.
CreateComponent(f, c) ==
  /\ Begin(f)
  /\ Enter(f, AutoBind(c), <<>>, "none", None, FALSE,
           c \in componentModuleUUIDMap[m_context[f]])

\* A step of the call in progress.
Running ==
  /\ stack # <<>>
  /\ ~crashed
  /\ UNCHANGED <<contextVars, callsLeft, active>>

Declared(frame) == Injectables[frame.component]
Current(frame) == Len(instances[frame.inst].injected) + 1

\* inject: the next injectable of the innermost component is resolved.
InjectNext ==
  /\ Running
  /\ thrown = NoException
  /\ Top.kind = "component"
  /\ Current(Top) <= Len(Declared(Top))
  /\ \E inj \in {Declared(Top)[Current(Top)]} :
       IF inj.multi THEN RequestAll(active, inj.itf, Top.levels)
                    ELSE Request(active, inj.itf, inj.name, Top.levels)
  /\ UNCHANGED cacheVars

\* The bind that the innermost resolveAll is at.
MultiNext ==
  LET binds == multiBindings[m_context[active]][Top.itf]
      bind == binds[Top.next]
  IN  /\ Running
      /\ thrown = NoException
      /\ Top.kind = "all"
      /\ Top.next <= Len(binds)
      /\ IF Top.phase = "shared" /\ m_singletonInstances[active][bind.component] # None
           THEN /\ Deliver(active, stack, instances,
                           {m_singletonInstances[active][bind.component]})
                /\ UNCHANGED crashed
           ELSE Enter(active, bind, Top.levels,
                      IF Top.phase = "shared" THEN "singleton" ELSE "none",
                      None, TRUE, Creatable(active, bind))
      /\ UNCHANGED cacheVars

MultiReturn ==
  /\ Running
  /\ thrown = NoException
  /\ Top.kind = "all"
  /\ Top.next > Len(multiBindings[m_context[active]][Top.itf])
  /\ Deliver(active, Below, instances, Top.got)
  /\ UNCHANGED <<cacheVars, crashed>>

\* Everything is injected and configured: the instance is cached if its
\* bind says so, and only then returned.
Store(frame) ==
  /\ m_singletonInstances' =
       IF frame.cache = "singleton"
         THEN [m_singletonInstances EXCEPT ![active][frame.component] = frame.inst]
         ELSE m_singletonInstances
  /\ m_namedSingletonInstances' =
       IF frame.cache = "named"
         THEN [m_namedSingletonInstances EXCEPT
                 ![active][<<frame.component, frame.name>>] = frame.inst]
         ELSE m_namedSingletonInstances

Injected ==
  /\ Running
  /\ thrown = NoException
  /\ Top.kind = "component"
  /\ Current(Top) > Len(Declared(Top))

FinishComponent ==
  /\ Injected
  /\ Store(Top)
  /\ Deliver(active, Below, [instances EXCEPT ![Top.inst].complete = TRUE], {Top.inst})
  /\ UNCHANGED crashed

\* configure throws (a number out of range is a std::out_of_range), or
\* resolveComponent does for an error code of configure.
ConfigureFails ==
  /\ Injected
  /\ Top.component \in Unreliable
  /\ \E exception \in Exceptions : Raise(Below, exception)
  /\ UNCHANGED <<instances, cacheVars, crashed>>

\* createComponent returns the component although configure gave an error code.
ConfigureIgnored ==
  /\ Injected
  /\ Top.component \in Unreliable
  /\ ~instances[Top.inst].strict
  /\ Deliver(active, Below, instances, {Top.inst})
  /\ UNCHANGED <<cacheVars, crashed>>

\* Faulty: every failure is swallowed.
SwallowsEverything == Top.kind = "component"

\* The catch clauses of inject: an optional injectable that cannot be made
\* with an xpcf::Exception is left out.  The same of a mandatory one leaves
\* the frame, and so does any exception of the standard library or a component.
Swallows ==
  /\ thrown = "xpcf::Exception"
  /\ Top.kind = "component"
  /\ Declared(Top)[Current(Top)].optional

\* Faulty: the injectable that failed is tried again.
RetryInjectable ==
  /\ thrown' = NoException
  /\ UNCHANGED <<stack, outcome, instances>>

SkipInjectable == Deliver(active, stack, instances, {})

Unwind ==
  /\ Running
  /\ thrown # NoException
  /\ IF Swallows
       THEN SkipInjectable
       ELSE Raise(Below, thrown) /\ UNCHANGED instances
  /\ UNCHANGED <<cacheVars, crashed>>

-----------------------------------------------------------------------------
Configuring ==
  \E f \in Factories :
    \/ Clear(f)
    \/ /\ Idle
       /\ Declare(f)
       /\ UNCHANGED <<cacheVars, callVars, instances>>

CallStep ==
  \E f \in Factories :
    \/ \E i \in Interfaces, n \in Names \union {None} : Resolve(f, i, n)
    \/ \E i \in Interfaces : ResolveAll(f, i)
    \/ \E c \in ModuleComponents : CreateComponent(f, c)

RunStep ==
  \/ InjectNext
  \/ MultiNext
  \/ MultiReturn
  \/ FinishComponent
  \/ ConfigureFails
  \/ ConfigureIgnored
  \/ Unwind

Next == Configuring \/ CallStep \/ RunStep

Spec == Init /\ [][Next]_vars

\* A call in progress runs on: it waits for nothing.
FairSpec == Spec /\ WF_vars(RunStep)
-----------------------------------------------------------------------------
(* Properties.                                                             *)

InstanceId == 1..Len(instances)

\* The instances that later calls on a factory can still return.
CachedBy(f) ==
  {id \in InstanceId :
     \/ \E c \in Components : m_singletonInstances[f][c] = id
     \/ \E k \in Components \X Names : m_namedSingletonInstances[f][k] = id}

WellBuilt(id) ==
  LET inst == instances[id]
      deps == Injectables[inst.component]
  IN  /\ inst.complete \/ ~inst.strict
      /\ Len(inst.injected) = Len(deps)
      /\ \A j \in DOMAIN deps :
           \/ deps[j].optional
           \/ deps[j].multi
           \/ inst.injected[j] # {}
      /\ \A j \in DOMAIN deps : \A d \in inst.injected[j] \ {CoreInst} :
           instances[d].complete

\* Nobody gets a half-built component: whatever fails on the way, and however
\* the recursion comes back to a component under construction, an instance
\* that is cached, handed to the caller or injected into a finished one has
\* all of its mandatory injectables, these are finished too, and it has been
\* configured unless createComponent made it.  (What a multiple injectable
\* gets may be empty, although it is mandatory: see DeclareMultiBindFails.)
OnlyFinishedComponentsEscape ==
  /\ \A f \in Factories : \A id \in CachedBy(f) : WellBuilt(id)
  /\ \A id \in outcome.ids \ {CoreInst} : WellBuilt(id)

\* A cached singleton changes hands only when clear forgets it or when the
\* component is being built twice in one recursion, the outer construction
\* having begun before the inner one was cached.
SingletonsAreKept ==
  [][\A f \in Factories, c \in Components :
       LET old == m_singletonInstances[f][c]
       IN  \/ old = None
           \/ m_singletonInstances'[f][c] \in {old, None}
           \/ stack[Len(stack)].inst < old]_vars

\* A singleton wired by binds that a clear has since removed survives only in
\* a factory that shares its context with the one that was cleared.
StaleSingletonsOnlyWhenShared ==
  \A f \in Factories :
    (\A g \in Factories : g # f => m_context[g] # m_context[f])
      => \A id \in CachedBy(f) : ~instances[id].stale

\* Whatever context it is built in, a component that was bound for explicit
\* injection only gets what was bound for itself, or a core component: the
\* search neither climbs to the binds of those it is built for nor falls back
\* on the binds of everyone.  (A multiple bind is resolved without contexts.)
ExplicitOnlyGetsItsOwn ==
  \A j \in 1..(Len(stack) - 1) :
    LET parent == stack[j]
        child == stack[j + 1]
        k == m_context[active]
    IN  /\ parent.kind = "component"
        /\ parent.levels # <<>>
        /\ parent.levels[1].range = {"Explicit"}
        /\ child.kind = "component"
        => child.levels[1] \in
             {specificBindings[k][parent.component][i] : i \in Interfaces}
             \union {specificNamedBindings[k][parent.component][key] :
                       key \in Interfaces \X Names}
             \union {CoreBind(i) : i \in Interfaces}

\* What an interface may be wired to, over all binds of the context.
Candidates(k, i) ==
  LET binds == {autoBindings[k][i], defaultBindings[k][i]}
                 \union {namedBindings[k][<<i, n>>] : n \in Names}
                 \union {specificBindings[k][c][i] : c \in Components}
                 \union {specificNamedBindings[k][c][<<i, n>>] :
                           c \in Components, n \in Names}
                 \union {multiBindings[k][i][j] : j \in DOMAIN multiBindings[k][i]}
                 \union {CoreBind(i)}
  IN  {b.component : b \in binds \ {None}}

Depends(k, c, d) ==
  \E j \in DOMAIN Injectables[c] : d \in Candidates(k, Injectables[c][j].itf)

Acyclic(k) ==
  ~ \E S \in SUBSET Components \ {{}} :
      \A c \in S : \E d \in S : Depends(k, c, d)

\* A call ends, with a result or with an exception, unless the binds can lead
\* from a component back to itself; optional injectables that fail do not
\* hold it up.
ResolveEnds ==
  (stack # <<>> /\ Acyclic(m_context[active])) ~> (stack = <<>>)

\* A singleton bind makes one instance of its component in a factory.
OneInstancePerSingleton ==
  \A a, b \in InstanceId :
    /\ instances[a].scope = "Singleton"
    /\ instances[b].scope = "Singleton"
    /\ instances[a].cache # "named"
    /\ instances[b].cache # "named"
    /\ instances[a].factory = instances[b].factory
    /\ instances[a].component = instances[b].component
    /\ instances[a].complete /\ instances[b].complete
    /\ ~instances[a].stale /\ ~instances[b].stale
    => a = b
=============================================================================
