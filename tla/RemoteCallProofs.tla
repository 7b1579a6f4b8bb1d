-------------------------- MODULE RemoteCallProofs --------------------------
(***************************************************************************)
(* What a caller of a proxy gets, whatever the interface, the              *)
(* configurations of both sides and the number of threads: a reference it  *)
(* holds changes only when another thread stores an answer in the member,  *)
(* a call within the limits of the generators is a call of the component,  *)
(* and the answer is compressed with what the proxy asked for.             *)
(***************************************************************************)
EXTENDS RemoteCall, FiniteSetTheorems, SequenceTheorems,
        WellFoundedInduction, TLAPS

Phases == {"idle", "sent", "handled", "storing", "returned", "threw"}

\* The fields of a call that the argument needs.
WellFormed(call) ==
  /\ call.phase \in Phases
  /\ call = [f \in DOMAIN call |-> call[f]]
  /\ "phase" \in DOMAIN call
  /\ call.phase # "idle" => "method" \in DOMAIN call /\ call.method \in Method
  /\ call.phase \in {"handled", "storing", "returned"} =>
       {"answer", "variables", "overwritten"} \subseteq DOMAIN call

CallsTypeOK ==
  /\ calls = [t \in Callers |-> calls[t]]
  /\ \A t \in Callers : WellFormed(calls[t])
  /\ kept = [n \in MethodNames |-> kept[n]]

KeptInv == CallsTypeOK /\ KeptAnswersStay

LEMMA KeptInit == Init => KeptInv
BY DEF Init, Idle, KeptInv, CallsTypeOK, WellFormed, Phases, KeptAnswersStay

\* A step of one thread that stores nothing leaves the others alone.
LEMMA StoresNothing ==
  ASSUME KeptInv, NEW t \in Callers, NEW call, WellFormed(call),
         calls' = [calls EXCEPT ![t] = call], kept' = kept,
         \/ call.phase \notin {"storing", "returned"}
         \/ ~IsKept(Interface[call.method])
         \/ /\ calls[t].phase = "storing"
            /\ call.method = calls[t].method
            /\ call.overwritten = calls[t].overwritten
            /\ call.answer = calls[t].answer
  PROVE  KeptInv'
<1>1. CallsTypeOK'
  BY DEF KeptInv, CallsTypeOK, WellFormed
<1>2. ASSUME NEW u \in Callers,
             calls'[u].phase \in {"storing", "returned"},
             IsKept(Interface[calls'[u].method]),
             ~calls'[u].overwritten
      PROVE  kept'[Interface[calls'[u].method].name] = calls'[u].answer
  <2>1. CASE u = t
    BY <1>2, <2>1 DEF KeptInv, CallsTypeOK, KeptAnswersStay
  <2>2. CASE u # t
    BY <1>2, <2>2 DEF KeptInv, CallsTypeOK, KeptAnswersStay
  <2> QED BY <2>1, <2>2
<1> QED BY <1>1, <1>2 DEF KeptInv, KeptAnswersStay

LEMMA CallProxyKeeps ==
  ASSUME KeptInv, NEW t \in Callers, NEW i \in Method, CallProxy(t, i)
  PROVE  KeptInv'
<1> DEFINE call == calls'[t]
<1>1. calls' = [calls EXCEPT ![t] = call] /\ kept' = kept
  BY DEF CallProxy, KeptInv, CallsTypeOK
<1>2. WellFormed(call) /\ call.phase = "sent"
  BY DEF CallProxy, KeptInv, CallsTypeOK, WellFormed, Phases
<1> QED BY <1>1, <1>2, StoresNothing

LEMMA HandleKeeps ==
  ASSUME KeptInv, NEW t \in Callers, Handle(t)
  PROVE  KeptInv'
<1> DEFINE call == calls'[t]
<1>1. calls' = [calls EXCEPT ![t] = call] /\ kept' = kept
  BY DEF Handle, KeptInv, CallsTypeOK
<1>2. calls[t].phase = "sent" /\ calls[t].method \in Method
  BY DEF Handle, KeptInv, CallsTypeOK, WellFormed
<1>3. PICK i \in Method : call = Handled(calls[t], i)
  BY DEF Handle, KeptInv, CallsTypeOK
<1>4. PICK response, answer, compression :
        call = [phase |-> "handled", method |-> calls[t].method,
                args |-> calls[t].args, variables |-> calls[t].variables,
                response |-> response, answer |-> answer,
                compression |-> compression, overwritten |-> FALSE]
  BY <1>3, Zenon DEF Handled
<1>5. WellFormed(call) /\ call.phase = "handled"
  BY <1>2, <1>4 DEF WellFormed, Phases
<1> QED BY <1>1, <1>5, StoresNothing

LEMMA RpcFailsKeeps ==
  ASSUME KeptInv, NEW t \in Callers, RpcFails(t)
  PROVE  KeptInv'
<1> DEFINE call == calls'[t]
<1>1. calls' = [calls EXCEPT ![t] = call] /\ kept' = kept
  BY DEF RpcFails, KeptInv, CallsTypeOK
<1>2. WellFormed(call) /\ call.phase = "threw"
  BY DEF RpcFails, KeptInv, CallsTypeOK, WellFormed, Phases
<1> QED BY <1>1, <1>2, StoresNothing

LEMMA DecodingFailsKeeps ==
  ASSUME KeptInv, NEW t \in Callers, DecodingFails(t)
  PROVE  KeptInv'
<1>1. PICK variables :
        calls' = [calls EXCEPT ![t] = [@ EXCEPT !.phase = "threw", !.variables = variables]]
  BY DEF DecodingFails
<1> DEFINE call == [calls[t] EXCEPT !.phase = "threw", !.variables = variables]
<1>2. calls' = [calls EXCEPT ![t] = call] /\ kept' = kept
  BY <1>1 DEF DecodingFails
<1>3. WellFormed(call) /\ call.phase = "threw"
  BY DEF DecodingFails, KeptInv, CallsTypeOK, WellFormed, Phases
<1> QED BY <1>2, <1>3, StoresNothing

LEMMA ReturnKeptKeeps ==
  ASSUME KeptInv, NEW t \in Callers, ReturnKept(t)
  PROVE  KeptInv'
<1> DEFINE call == [calls[t] EXCEPT !.phase = "returned"]
<1>1. calls' = [calls EXCEPT ![t] = call] /\ kept' = kept
  BY DEF ReturnKept
<1>2. /\ WellFormed(call)
      /\ calls[t].phase = "storing"
      /\ call.method = calls[t].method
      /\ call.overwritten = calls[t].overwritten
      /\ call.answer = calls[t].answer
  BY DEF ReturnKept, KeptInv, CallsTypeOK, WellFormed, Phases
<1> QED BY <1>1, <1>2, StoresNothing

\* The one step that stores: whoever else holds a reference to the member
\* learns of it, and a race for the member is known to the thread itself.
LEMMA ReceiveKeeps ==
  ASSUME KeptInv, NEW t \in Callers, Receive(t)
  PROVE  KeptInv'
<1> DEFINE m == Interface[calls[t].method]
           others == {u \in Callers \ {t} : SharesMember(t, u)}
           received == [calls[t] EXCEPT
                          !.variables = BindOutput(calls[t], ResponseFields(m))]
           racing == \E u \in others : calls[u].phase = "storing"
<1>1. /\ calls[t].phase = "handled"
      /\ calls[t].method \in Method
      /\ m.name \in MethodNames
  BY DEF Receive, KeptInv, CallsTypeOK, WellFormed, MethodNames
<1>2. CASE ~IsKept(m)
  <2> DEFINE call == [received EXCEPT !.phase = "returned"]
  <2>1. calls' = [calls EXCEPT ![t] = call] /\ kept' = kept
    BY <1>2 DEF Receive
  <2>2. WellFormed(call) /\ call.method = calls[t].method
    BY <1>1 DEF KeptInv, CallsTypeOK, WellFormed, Phases
  <2> QED BY <1>2, <2>1, <2>2, StoresNothing
<1>3. CASE IsKept(m)
  <2> DEFINE storing == [received EXCEPT !.phase = "storing"]
             mine == [storing EXCEPT !.overwritten = racing]
  <2>1. PICK answer \in {calls[t].answer} \union (IF racing THEN {Lost} ELSE {}) :
          /\ kept' = [kept EXCEPT ![m.name] = answer]
          /\ calls' = [[u \in Callers |->
                          CASE u = t -> storing
                            [] u \in others -> [calls[u] EXCEPT !.overwritten = TRUE]
                            [] OTHER -> calls[u]] EXCEPT ![t].overwritten = racing]
    BY <1>3 DEF Receive
  <2>2. /\ calls' = [u \in Callers |-> calls'[u]]
        /\ calls'[t] = mine
        /\ \A u \in others : calls'[u] = [calls[u] EXCEPT !.overwritten = TRUE]
        /\ \A u \in Callers \ {t} : u \notin others => calls'[u] = calls[u]
    BY <2>1
  <2>3. /\ WellFormed(mine)
        /\ mine.phase = "storing"
        /\ mine.method = calls[t].method
        /\ mine.answer = calls[t].answer
        /\ mine.overwritten = racing
    BY <1>1 DEF KeptInv, CallsTypeOK, WellFormed, Phases
  <2>4. ASSUME NEW u \in others
        PROVE  WellFormed(calls'[u]) /\ calls'[u].overwritten
    BY <2>2 DEF KeptInv, CallsTypeOK, WellFormed, Phases, SharesMember
  <2>5. CallsTypeOK'
    BY <2>1, <2>2, <2>3, <2>4 DEF KeptInv, CallsTypeOK
  <2>6. ASSUME NEW u \in Callers,
               calls'[u].phase \in {"storing", "returned"},
               IsKept(Interface[calls'[u].method]),
               ~calls'[u].overwritten
        PROVE  kept'[Interface[calls'[u].method].name] = calls'[u].answer
    <3>1. CASE u = t
      <4>1. ~racing
        BY <2>2, <2>3, <2>6, <3>1
      <4>2. answer = calls[t].answer
        BY <2>1, <4>1
      <4>3. kept'[m.name] = answer
        BY <1>1, <2>1 DEF KeptInv, CallsTypeOK
      <4> QED BY <2>2, <2>3, <3>1, <4>2, <4>3
    <3>2. CASE u # t
      <4>1. u \notin others /\ calls'[u] = calls[u]
        BY <2>2, <2>4, <2>6, <3>2
      <4>2. Interface[calls[u].method].name # m.name
        BY <2>6, <3>2, <4>1 DEF SharesMember
      <4>3. kept'[Interface[calls[u].method].name] = kept[Interface[calls[u].method].name]
        BY <2>1, <2>6, <4>1, <4>2 DEF KeptInv, CallsTypeOK, WellFormed, MethodNames
      <4> QED BY <2>6, <4>1, <4>3 DEF KeptInv, KeptAnswersStay
    <3> QED BY <3>1, <3>2
  <2> QED BY <2>5, <2>6 DEF KeptInv, KeptAnswersStay
<1> QED BY <1>2, <1>3

LEMMA KeptStep ==
  ASSUME KeptInv, [Next]_vars
  PROVE  KeptInv'
<1>1. CASE CallStep
  BY <1>1, CallProxyKeeps DEF CallStep
<1>2. CASE RunStep
  BY <1>2, HandleKeeps, RpcFailsKeeps, DecodingFailsKeeps, ReceiveKeeps,
     ReturnKeptKeeps DEF RunStep
<1>3. CASE UNCHANGED vars
  BY <1>3 DEF vars, KeptInv, CallsTypeOK, WellFormed, KeptAnswersStay
<1> QED BY <1>1, <1>2, <1>3 DEF Next

\* ProxyGenerator.cpp:221 and 237: the members of the proxy that hold answers
\* are shared by its threads and by the overloads of a method.  Only another
\* answer stored in the member takes a caller's answer away.
THEOREM AnswersAreKept == Spec => []KeptAnswersStay
<1>1. KeptInv => KeptAnswersStay
  BY DEF KeptInv
<1> QED BY KeptInit, KeptStep, <1>1, PTL DEF Spec

-----------------------------------------------------------------------------
(* What the generators make of a declaration.                              *)

\* What a message field has carried once it carries again.
LEMMA CarriedTwice ==
  ASSUME NEW type, NEW v
  PROVE  Transmitted(type, Transmitted(type, v)) = Transmitted(type, v)
BY DEF Transmitted

\* setIOType for each of two attributes at most.
LEMMA FewAttributes ==
  ASSUME NEW p, p.attributes \in Seq({"in", "out", "inout"}), Len(p.attributes) <= 2
  PROVE  \/ Len(p.attributes) = 0 /\ IOType(p) = Deduced(p.type)
         \/ /\ Len(p.attributes) = 1
            /\ IOType(p) = SetIOType(Deduced(p.type), p.attributes[1])
         \/ /\ Len(p.attributes) = 2
            /\ IOType(p) = SetIOType(SetIOType(Deduced(p.type), p.attributes[1]),
                                     p.attributes[2])
<1> DEFINE n == Len(p.attributes)
           d == Deduced(p.type)
           a == p.attributes
           Applies(io) == io = [k \in 0 .. n |->
                                  IF k = 0 THEN d ELSE SetIOType(io[k - 1], a[k])]
           io == CHOOSE f : Applies(f)
           by == [k \in 0 .. n |-> IF k = 0 THEN d
                                   ELSE IF k = 1 THEN SetIOType(d, a[1])
                                   ELSE SetIOType(SetIOType(d, a[1]), a[2])]
<1>1. n \in Nat /\ n <= 2
  OBVIOUS
<1>2. IOType(p) = io[n]
  BY DEF IOType
<1>3. Applies(by)
  BY <1>1
<1>4. Applies(io)
  BY <1>3
<1> HIDE DEF io, by, n, d, a
<1>5. io[0] = d
  BY <1>1, <1>4
<1>6. n >= 1 => io[1] = SetIOType(d, a[1])
  BY <1>1, <1>4, <1>5
<1>7. n >= 2 => io[2] = SetIOType(SetIOType(d, a[1]), a[2])
  BY <1>1, <1>4, <1>6
<1>8. n = 0 \/ n = 1 \/ n = 2
  BY <1>1
<1> QED
  BY <1>2, <1>5, <1>6, <1>7, <1>8 DEF n, d, a

\* The direction that two attributes at most leave a parameter.
LEMMA Directed ==
  ASSUME NEW p, p.attributes \in Seq({"in", "out", "inout"}), Len(p.attributes) <= 2
  PROVE  /\ IOType(p) \in {"none", "in", "inout", "out"}
         /\ IOType(p) = "out" => Declares(p, "out") /\ ~Declares(p, "in")
         /\ ~IsConst(p.type) /\ IsReference(p.type)
              /\ (~Declares(p, "in") \/ Declares(p, "out"))
              => IOType(p) \in {"inout", "out"}
<1> DEFINE d == Deduced(p.type)
           a == p.attributes
<1>0. \/ Len(a) = 0 /\ IOType(p) = d
      \/ Len(a) = 1 /\ IOType(p) = SetIOType(d, a[1])
      \/ Len(a) = 2 /\ IOType(p) = SetIOType(SetIOType(d, a[1]), a[2])
  BY FewAttributes
<1>1. /\ d \in {"none", "in", "inout"}
      /\ ~IsConst(p.type) /\ IsReference(p.type) => d = "inout"
  BY DEF Deduced
<1>2. \A attribute : Declares(p, attribute) <=> \E k \in 1 .. Len(a) : a[k] = attribute
  BY DEF Declares, Range
<1> HIDE DEF d
<1>3. CASE Len(a) = 0
  <2>1. IOType(p) = d
    BY <1>0, <1>3 DEF d
  <2> QED
    BY <1>1, <1>2, <1>3, <2>1
<1>4. CASE Len(a) = 1
  <2>0. IOType(p) = SetIOType(d, a[1])
    BY <1>0, <1>4 DEF d
  <2>1. IOType(p) = SetIOType(d, a[1]) /\ a[1] \in {"in", "out", "inout"}
    BY <1>4, <2>0
  <2>2. \A attribute : Declares(p, attribute) <=> a[1] = attribute
    BY <1>2, <1>4
  <2> HIDE DEF a
  <2> QED
    BY <1>1, <2>1, <2>2 DEF SetIOType
<1>5. CASE Len(a) = 2
  <2>0. IOType(p) = SetIOType(SetIOType(d, a[1]), a[2])
    BY <1>0, <1>5 DEF d
  <2>1. /\ IOType(p) = SetIOType(SetIOType(d, a[1]), a[2])
        /\ a[1] \in {"in", "out", "inout"} /\ a[2] \in {"in", "out", "inout"}
    BY <1>5, <2>0
  <2>2. \A attribute : Declares(p, attribute) <=> a[1] = attribute \/ a[2] = attribute
    BY <1>2, <1>5
  <2> HIDE DEF a
  <2>3. SetIOType(d, a[1]) \in {"in", "out", "inout"}
        /\ (SetIOType(d, a[1]) = "in" => a[1] = "in")
        /\ (SetIOType(d, a[1]) = "out" => a[1] = "out")
        /\ (SetIOType(d, a[1]) = "inout" => a[1] \in {"out", "inout"})
        /\ (a[1] = "in" => SetIOType(d, a[1]) = "in")
        /\ (d = "inout" => SetIOType(d, a[1]) = a[1])
    BY <1>1, <2>1 DEF SetIOType
  <2> QED
    BY <1>1, <2>1, <2>2, <2>3 DEF SetIOType
<1> QED
  BY <1>0, <1>3, <1>4, <1>5

\* Within the limits, what the component reads is sent, what it writes comes
\* back, and no value is cut off.
LEMMA Limits ==
  ASSUME NEW i \in Method, WithinLimits(Interface[i]),
         NEW j \in DOMAIN Interface[i].params, NEW p, p = Interface[i].params[j]
  PROVE  /\ \A v : Transmitted(p.type, v) = v
         /\ IOType(p) \in {"in", "inout", "out"}
         /\ ComponentReads(p) => IOType(p) \in {"in", "inout"}
         /\ ComponentWrites(p) => IOType(p) \in {"inout", "out"} /\ Has(p.type, "ref")
         /\ IOType(p) = "out" /\ Has(p.type, "ref") => ComponentWrites(p)
<1>1. /\ p.type.bits \in Nat /\ p.attributes \in Seq({"in", "out", "inout"})
  BY InterfaceAssumption
<1>2. /\ IsConst(p.type) => Has(p.type, "const") \/ ~Has(p.type, "ref")
      /\ ComponentWrites(p) => Has(p.type, "ref") /\ ~Has(p.type, "const")
      /\ IOType(p) # "none" /\ Len(p.attributes) <= 2
      /\ p.type.kind \in {"builtin", "enum"} => p.type.bits <= WireBits(p.type)
  BY DEF WithinLimits
<1>3. IOType(p) \in {"inout", "out"} => ~Has(p.type, "const")
  BY InterfaceCompiles DEF ParameterCompiles
<1>4. WireBits(p.type) \in Nat
  BY DEF WireBits
<1>5. \A v : Transmitted(p.type, v) = v
  BY <1>1, <1>2, <1>4 DEF Transmitted
<1>6. /\ IOType(p) \in {"in", "inout", "out"}
      /\ IOType(p) = "out" => Declares(p, "out") /\ ~Declares(p, "in")
      /\ ~IsConst(p.type) /\ IsReference(p.type)
           /\ (~Declares(p, "in") \/ Declares(p, "out"))
           => IOType(p) \in {"inout", "out"}
  BY <1>1, <1>2, Directed
<1>7. ComponentWrites(p) => IOType(p) \in {"inout", "out"}
  BY <1>2, <1>6 DEF ComponentWrites, IsReference
<1> QED
  BY <1>2, <1>3, <1>5, <1>6, <1>7 DEF ComponentReads, ComponentWrites

\* The service methods have different names: overloads are numbered.
LEMMA RpcNamesDiffer ==
  ASSUME NEW i \in Method, NEW k \in Method,
         RpcName(Interface, i) = RpcName(Interface, k)
  PROVE  i = k
<1> DEFINE Upto(x, n) == {y \in 1 .. x : Interface[y].name = n}
<1>1. i \in Nat \ {0} /\ k \in Nat \ {0}
  BY InterfaceAssumption
<1>2. PICK n : n = Interface[i].name /\ n = Interface[k].name
  BY DEF RpcName
<1>3. Cardinality(Upto(i, n)) = Cardinality(Upto(k, n))
  BY <1>2 DEF RpcName
<1>4. IsFiniteSet(Upto(i, n)) /\ IsFiniteSet(Upto(k, n))
  <2>1. IsFiniteSet(1 .. i) /\ IsFiniteSet(1 .. k)
    BY <1>1, FS_Interval
  <2> QED
    BY <2>1, FS_Subset
<1>5. Upto(i, n) \subseteq Upto(k, n) \/ Upto(k, n) \subseteq Upto(i, n)
  BY <1>1
<1>6. Upto(i, n) = Upto(k, n)
  BY <1>3, <1>4, <1>5, FS_Subset
<1>7. i \in 1 .. i /\ k \in 1 .. k
  BY <1>1
<1>8. i \in Upto(i, n)
  BY <1>2, <1>7
<1>9. k \in Upto(k, n)
  BY <1>2, <1>7
<1> QED
  BY <1>1, <1>6, <1>8, <1>9

-----------------------------------------------------------------------------
(* What a call is at each of its stages.                                   *)

\* What the component reads of the arguments of a call, and what it answers.
ReadOf(i, args) ==
  [j \in DOMAIN Interface[i].params |->
     IF IOType(Interface[i].params[j]) \in {"in", "inout"}
       THEN Transmitted(Interface[i].params[j].type, args[j])
       ELSE Lost]

WrittenOf(i, args) == AfterComponent(i, ReadOf(i, args))

AnswerOf(i, args) == IF IsReturned(Interface[i]) THEN Answer(i, 0, ReadOf(i, args)) ELSE Nothing

\* The variables of the caller when some outputs have been assigned.
BoundOf(i, args, done) ==
  [j \in DOMAIN args |->
     IF j \in done /\ Has(Interface[i].params[j].type, "ref")
       THEN Transmitted(Interface[i].params[j].type, WrittenOf(i, args)[j])
       ELSE args[j]]

AskedBy(i, client) == DeduceClient(ClientInfos(client), Interface[i].name).more

\* The message of the request, that of the response, and what became of them.
CallOK(call, client, server) ==
  LET i == call.method
      m == Interface[i]
  IN  call.phase # "idle" =>
        /\ {"args", "variables"} \subseteq DOMAIN call
        /\ call.args = [j \in DOMAIN m.params |-> call.args[j]]
        /\ call.phase \in {"sent", "handled"} => call.variables = call.args
        /\ call.phase = "sent" =>
             /\ "request" \in DOMAIN call
             /\ \A j \in InParams(m) \union InoutParams(m) :
                  call.request[j] = Transmitted(m.params[j].type, call.args[j])
             /\ Compressed(m) => call.request[0] = AskedBy(i, client)
        /\ call.phase = "handled" =>
             /\ {"response", "compression"} \subseteq DOMAIN call
             /\ \A j \in ResponseFields(m) :
                  call.response[j] = Transmitted(m.params[j].type, WrittenOf(i, call.args)[j])
             /\ Compressed(m) => call.compression =
                  DeduceServer(AskedBy(i, client), ServerInfos(server), m.name)
        /\ call.phase \in {"handled", "storing", "returned"} => call.answer = AnswerOf(i, call.args)
        /\ call.phase \in {"storing", "returned"} =>
             call.variables = BoundOf(i, call.args, ResponseFields(m))
        /\ call.phase = "threw" =>
             \E done \in SUBSET ResponseFields(m) : call.variables = BoundOf(i, call.args, done)

ConfigsKnown == proxyLines \in ClientConfigs /\ serverLines \in ServerConfigs

CallsOK == \A t \in Callers : CallOK(calls[t], proxyLines, serverLines)

AnswerInv == KeptInv /\ ConfigsKnown /\ CallsOK

LEMMA AnswerInit == Init => AnswerInv
BY KeptInit DEF Init, Idle, AnswerInv, ConfigsKnown, CallsOK, CallOK

\* Fields that the accounts do not mention may change.
LEMMA SameCall ==
  ASSUME NEW c, NEW d, NEW client, NEW server, CallOK(c, client, server),
         DOMAIN d = DOMAIN c, \A f \in DOMAIN c : f # "overwritten" => d[f] = c[f],
         {"phase", "method"} \subseteq DOMAIN c,
         c.phase \in {"handled", "storing", "returned"} => "answer" \in DOMAIN c
  PROVE  CallOK(d, client, server)
BY DEF CallOK

\* The arguments are in the request, and so is the wish of the client.
LEMMA CallProxyAnswers ==
  ASSUME AnswerInv, NEW t \in Callers, NEW i \in Method, CallProxy(t, i)
  PROVE  CallOK(calls'[t], proxyLines, serverLines)
<1> DEFINE m == Interface[i]
           args == [j \in DOMAIN m.params |-> Argument(t, j)]
           asked == DeduceClient(ClientInfos(proxyLines), m.name).more
           request == [j \in RequestFields(m) |->
              CASE j = 0 -> asked
                [] j \in Sent(m) -> Transmitted(m.params[j].type, args[j])
                [] OTHER -> Nothing]
<1>1. calls'[t] = [phase |-> "sent", method |-> i, args |-> args, variables |-> args,
                   request |-> request, overwritten |-> FALSE]
  BY DEF CallProxy, AnswerInv, KeptInv, CallsTypeOK
<1>2. ASSUME NEW j \in InParams(m) \union InoutParams(m)
      PROVE  request[j] = Transmitted(m.params[j].type, args[j])
  <2>1. j \in RequestFields(m) /\ j \in Sent(m)
    BY <1>2 DEF RequestFields, EmptyRequest, HasInputs, Sent
  <2>2. j # 0
    BY <1>2, InterfaceAssumption DEF InParams, InoutParams
  <2> QED
    BY <2>1, <2>2
<1>3. Compressed(m) => request[0] = asked
  <2>1. Compressed(m) => 0 \in RequestFields(m)
    BY DEF Compressed, RequestFields, EmptyRequest
  <2>2. 0 \notin Sent(m)
    BY InterfaceAssumption DEF Sent, InParams, InoutParams
  <2> QED
    BY <2>1, <2>2
<1> HIDE DEF request, args, asked
<1>4. args = [j \in DOMAIN m.params |-> args[j]]
  BY DEF args
<1>5. asked = AskedBy(i, proxyLines)
  BY DEF asked, AskedBy
<1> QED
  BY <1>1, <1>2, <1>3, <1>4, <1>5 DEF CallOK

\* The server calls the method that the caller called, with what was sent.
LEMMA HandleAnswers ==
  ASSUME AnswerInv, NEW t \in Callers, Handle(t)
  PROVE  CallOK(calls'[t], proxyLines, serverLines)
<1>1. PICK i \in Method :
        /\ calls[t].phase = "sent"
        /\ RpcName(Interface, i) = RpcName(Interface, calls[t].method)
        /\ calls' = [calls EXCEPT ![t] = Handled(calls[t], i)]
  BY DEF Handle
<1>2. calls[t].method \in Method
  BY <1>1 DEF AnswerInv, KeptInv, CallsTypeOK, WellFormed
<1>3. i = calls[t].method
  BY <1>1, <1>2, RpcNamesDiffer
<1> DEFINE m == Interface[i]
           args == calls[t].args
           request == calls[t].request
           read == [j \in DOMAIN m.params |-> ServerVariable(m, j, request)]
<1>4. CallOK(calls[t], proxyLines, serverLines)
  BY DEF AnswerInv, CallsOK
<1>5. /\ args = [j \in DOMAIN m.params |-> args[j]]
      /\ calls[t].variables = args
      /\ \A j \in InParams(m) \union InoutParams(m) :
           request[j] = Transmitted(m.params[j].type, args[j])
      /\ Compressed(m) => request[0] = AskedBy(i, proxyLines)
  BY <1>1, <1>3, <1>4 DEF CallOK
<1>6. read = ReadOf(i, args)
  <2>1. ASSUME NEW j \in DOMAIN m.params, IOType(m.params[j]) \in {"in", "inout"}
        PROVE  Transmitted(m.params[j].type, request[j]) = Transmitted(m.params[j].type, args[j])
    <3>1. j \in InParams(m) \union InoutParams(m)
      BY <2>1 DEF InParams, InoutParams
    <3> QED
      BY <1>5, <3>1, CarriedTwice
  <2> QED
    BY <2>1 DEF ReadOf, ServerVariable
<1> DEFINE response == [j \in ResponseFields(m) |->
                          Transmitted(m.params[j].type, AfterComponent(i, read)[j])]
           answer == IF IsReturned(m) THEN Answer(i, 0, read) ELSE Nothing
           compression == IF Compressed(m)
                            THEN DeduceServer(request[0], ServerInfos(serverLines), m.name)
                            ELSE Unspecified
<1>7. Handled(calls[t], i) =
        [phase |-> "handled", method |-> i, args |-> args, variables |-> args,
         response |-> response, answer |-> answer, compression |-> compression,
         overwritten |-> FALSE]
  BY <1>3, <1>5, Zenon DEF Handled
<1>8. \A j \in ResponseFields(m) :
        response[j] = Transmitted(m.params[j].type, WrittenOf(i, args)[j])
  BY <1>6 DEF WrittenOf
<1>9. answer = AnswerOf(i, args)
  BY <1>6 DEF AnswerOf
<1>10. Compressed(m) => compression =
         DeduceServer(AskedBy(i, proxyLines), ServerInfos(serverLines), m.name)
  BY <1>5
<1>11. calls'[t] = Handled(calls[t], i)
  BY <1>1 DEF AnswerInv, KeptInv, CallsTypeOK
<1> HIDE DEF args, request, read, response, answer, compression
<1> QED
  BY <1>5, <1>7, <1>8, <1>9, <1>10, <1>11 DEF CallOK

\* What the proxy assigns is what the component has written.
LEMMA BindsWhatIsWritten ==
  ASSUME AnswerInv, NEW t \in Callers, calls[t].phase = "handled",
         NEW done \in SUBSET ResponseFields(Interface[calls[t].method])
  PROVE  BindOutput(calls[t], done) = BoundOf(calls[t].method, calls[t].args, done)
<1> DEFINE i == calls[t].method
           m == Interface[i]
<1>1. CallOK(calls[t], proxyLines, serverLines)
  BY DEF AnswerInv, CallsOK
<1>2. /\ calls[t].variables = calls[t].args
      /\ \A j \in ResponseFields(m) : calls[t].response[j]
           = Transmitted(m.params[j].type, WrittenOf(i, calls[t].args)[j])
  BY <1>1 DEF CallOK
<1>3. \A j \in done : Transmitted(m.params[j].type, calls[t].response[j])
        = Transmitted(m.params[j].type, WrittenOf(i, calls[t].args)[j])
  BY <1>2, CarriedTwice
<1> QED
  BY <1>2, <1>3 DEF BindOutput, BoundOf

\* An answer is received, or what came is not one.
LEMMA ReceiveAnswers ==
  ASSUME AnswerInv, NEW t \in Callers, Receive(t), NEW u \in Callers
  PROVE  CallOK(calls'[u], proxyLines, serverLines)
<1> DEFINE m == Interface[calls[t].method]
           others == {x \in Callers \ {t} : SharesMember(t, x)}
           variables == BindOutput(calls[t], ResponseFields(m))
           received == [calls[t] EXCEPT !.variables = variables]
           racing == \E x \in others : calls[x].phase = "storing"
<1>1. /\ calls[t].phase = "handled"
      /\ CallOK(calls[t], proxyLines, serverLines) /\ CallOK(calls[u], proxyLines, serverLines)
      /\ WellFormed(calls[t]) /\ WellFormed(calls[u])
  BY DEF Receive, AnswerInv, CallsOK, KeptInv, CallsTypeOK
<1>2. variables = BoundOf(calls[t].method, calls[t].args, ResponseFields(m))
  BY <1>1, BindsWhatIsWritten
<1>3. ASSUME u = t PROVE calls'[t].phase \in {"storing", "returned"}
        /\ DOMAIN calls'[t] = DOMAIN calls[t] /\ calls'[t].variables = variables
        /\ \A f \in DOMAIN calls[t] : f \notin {"phase", "variables", "overwritten"}
             => calls'[t][f] = calls[t][f]
  <2>0. /\ calls[t] = [f \in DOMAIN calls[t] |-> calls[t][f]]
        /\ {"phase", "method", "variables", "overwritten"} \subseteq DOMAIN calls[t]
    BY <1>1 DEF WellFormed
  <2> HIDE DEF variables, racing
  <2>1. CASE ~IsKept(m)
    <3>1. calls' = [calls EXCEPT ![t] = [received EXCEPT !.phase = "returned"]]
      BY <2>1 DEF Receive, variables
    <3>2. calls'[t] = [received EXCEPT !.phase = "returned"]
      BY <3>1 DEF AnswerInv, KeptInv, CallsTypeOK
    <3> QED
      BY <2>0, <3>2
  <2>2. CASE IsKept(m)
    <3>1. calls' = [[x \in Callers |->
                       CASE x = t -> [received EXCEPT !.phase = "storing"]
                         [] x \in others -> [calls[x] EXCEPT !.overwritten = TRUE]
                         [] OTHER -> calls[x]] EXCEPT ![t].overwritten = racing]
      BY <2>2 DEF Receive, variables, racing
    <3>2. calls'[t] = [[received EXCEPT !.phase = "storing"] EXCEPT !.overwritten = racing]
      BY <3>1
    <3> QED
      BY <2>0, <3>2
  <2> QED
    BY <2>1, <2>2
<1>4. CASE u = t
  <2>1. /\ {"args", "method", "variables", "phase", "answer"} \subseteq DOMAIN calls[t]
        /\ calls[t].method \in Method
    BY <1>1 DEF WellFormed, CallOK
  <2>2. calls'[t].args = calls[t].args /\ calls'[t].method = calls[t].method
        /\ calls'[t].answer = calls[t].answer
    BY <1>3, <1>4, <2>1
  <2> QED
    BY <1>1, <1>2, <1>3, <1>4, <2>1, <2>2 DEF CallOK
<1>5. CASE u # t
  <2>1. calls'[u] = calls[u] \/ (u \in others /\ calls'[u] = [calls[u] EXCEPT !.overwritten = TRUE])
    <3>1. CASE ~IsKept(m)
      BY <1>5, <3>1 DEF Receive, AnswerInv, KeptInv, CallsTypeOK
    <3>2. CASE IsKept(m)
      <4>1. calls' = [[x \in Callers |->
                         CASE x = t -> [received EXCEPT !.phase = "storing"]
                           [] x \in others -> [calls[x] EXCEPT !.overwritten = TRUE]
                           [] OTHER -> calls[x]] EXCEPT ![t].overwritten = racing]
        BY <3>2 DEF Receive
      <4> HIDE DEF received, others, racing
      <4> QED
        BY <1>5, <4>1
    <3> QED
      BY <3>1, <3>2
  <2>2. CASE calls'[u] = calls[u]
    BY <1>1, <2>2
  <2>3. CASE u \in others /\ calls'[u] = [calls[u] EXCEPT !.overwritten = TRUE]
    <3>1. calls[u].phase \in {"storing", "returned"}
      BY <2>3 DEF SharesMember
    <3>2. /\ DOMAIN calls'[u] = DOMAIN calls[u]
          /\ \A f \in DOMAIN calls[u] : f # "overwritten" => calls'[u][f] = calls[u][f]
          /\ {"phase", "method", "answer"} \subseteq DOMAIN calls[u]
      BY <1>1, <2>3, <3>1 DEF WellFormed
    <3> QED
      BY <1>1, <3>2, SameCall
  <2> QED
    BY <2>1, <2>2, <2>3
<1> QED
  BY <1>4, <1>5

\* A call that fails has assigned nothing, or the outputs in front of the one
\* that cannot be read.
LEMMA FailureAnswers ==
  ASSUME AnswerInv, NEW t \in Callers, RpcFails(t) \/ DecodingFails(t)
  PROVE  CallOK(calls'[t], proxyLines, serverLines)
<1> DEFINE i == calls[t].method
           m == Interface[i]
<1>1. /\ calls[t].phase \in {"sent", "handled"}
      /\ CallOK(calls[t], proxyLines, serverLines) /\ WellFormed(calls[t])
  BY DEF RpcFails, DecodingFails, AnswerInv, CallsOK, KeptInv, CallsTypeOK
<1>2. /\ calls[t] = [f \in DOMAIN calls[t] |-> calls[t][f]]
      /\ {"phase", "method", "args", "variables"} \subseteq DOMAIN calls[t]
      /\ calls[t].args = [j \in DOMAIN m.params |-> calls[t].args[j]]
      /\ calls[t].variables = calls[t].args
  BY <1>1 DEF WellFormed, CallOK
<1>3. PICK variables :
        /\ calls'[t] = [calls[t] EXCEPT !.phase = "threw", !.variables = variables]
        /\ \E done \in SUBSET ResponseFields(m) : variables = BoundOf(i, calls[t].args, done)
  <2>1. CASE RpcFails(t)
    <3>1. calls'[t] = [calls[t] EXCEPT !.phase = "threw"]
      BY <2>1 DEF RpcFails, AnswerInv, KeptInv, CallsTypeOK
    <3>2. calls'[t] = [calls[t] EXCEPT !.phase = "threw", !.variables = calls[t].variables]
      BY <1>2, <3>1
    <3>3. {} \in SUBSET ResponseFields(m)
          /\ calls[t].variables = BoundOf(i, calls[t].args, {})
      BY <1>2 DEF BoundOf
    <3> QED
      BY <3>2, <3>3
  <2>2. CASE DecodingFails(t)
    <3>1. PICK j : calls' = [calls EXCEPT ![t] =
                 [@ EXCEPT !.phase = "threw",
                           !.variables = BindOutput(calls[t], ReadBefore(m, j))]]
      BY <2>2 DEF DecodingFails
    <3>2. calls'[t] = [calls[t] EXCEPT !.phase = "threw",
                         !.variables = BindOutput(calls[t], ReadBefore(m, j))]
      BY <3>1 DEF AnswerInv, KeptInv, CallsTypeOK
    <3>3. ReadBefore(m, j) \in SUBSET ResponseFields(m)
      BY DEF ReadBefore, ResponseFields
    <3>4. BindOutput(calls[t], ReadBefore(m, j)) = BoundOf(i, calls[t].args, ReadBefore(m, j))
      BY <2>2, <3>3, BindsWhatIsWritten DEF DecodingFails
    <3> QED
      BY <3>2, <3>3, <3>4
  <2> QED
    BY <2>1, <2>2
<1>4. /\ DOMAIN calls'[t] = DOMAIN calls[t] /\ calls'[t].phase = "threw"
      /\ calls'[t].variables = variables
      /\ calls'[t].args = calls[t].args /\ calls'[t].method = i
  BY <1>2, <1>3
<1> QED
  BY <1>2, <1>3, <1>4 DEF CallOK

\* The reference is returned.
LEMMA ReturnAnswers ==
  ASSUME AnswerInv, NEW t \in Callers, ReturnKept(t)
  PROVE  CallOK(calls'[t], proxyLines, serverLines)
<1>1. /\ calls[t].phase = "storing" /\ WellFormed(calls[t])
      /\ CallOK(calls[t], proxyLines, serverLines)
      /\ calls'[t] = [calls[t] EXCEPT !.phase = "returned"]
  BY DEF ReturnKept, AnswerInv, CallsOK, KeptInv, CallsTypeOK
<1>2. {"phase", "method", "args", "variables", "answer"} \subseteq DOMAIN calls[t]
  BY <1>1 DEF WellFormed, CallOK
<1>3. /\ DOMAIN calls'[t] = DOMAIN calls[t] /\ calls'[t].phase = "returned"
      /\ calls'[t].args = calls[t].args /\ calls'[t].method = calls[t].method
      /\ calls'[t].answer = calls[t].answer /\ calls'[t].variables = calls[t].variables
  BY <1>1, <1>2 DEF WellFormed
<1> QED
  BY <1>1, <1>2, <1>3 DEF CallOK

LEMMA AnswerStep ==
  ASSUME AnswerInv, [Next]_vars
  PROVE  AnswerInv'
<1>1. KeptInv'
  BY KeptStep DEF AnswerInv
<1>2. UNCHANGED <<proxyLines, serverLines>>
  BY DEF Next, CallStep, RunStep, CallProxy, Handle, RpcFails, DecodingFails, Receive,
         ReturnKept, vars
<1>3. ASSUME NEW u \in Callers PROVE CallOK(calls'[u], proxyLines, serverLines)
  <2>0. CallOK(calls[u], proxyLines, serverLines) /\ calls = [x \in Callers |-> calls[x]]
    BY DEF AnswerInv, CallsOK, KeptInv, CallsTypeOK
  <2>1. ASSUME NEW t \in Callers, NEW call, calls' = [calls EXCEPT ![t] = call],
               CallOK(calls'[t], proxyLines, serverLines)
        PROVE  CallOK(calls'[u], proxyLines, serverLines)
    BY <2>0, <2>1
  <2>2. CASE UNCHANGED vars
    BY <2>0, <2>2 DEF vars
  <2>3. ASSUME NEW t \in Callers, NEW i \in Method, CallProxy(t, i)
        PROVE  CallOK(calls'[u], proxyLines, serverLines)
    <3>1. PICK call : calls' = [calls EXCEPT ![t] = call]
      BY <2>3 DEF CallProxy
    <3> QED
      BY <2>1, <2>3, <3>1, CallProxyAnswers
  <2>4. ASSUME NEW t \in Callers, Handle(t)
        PROVE  CallOK(calls'[u], proxyLines, serverLines)
    <3>1. PICK call : calls' = [calls EXCEPT ![t] = call]
      BY <2>4 DEF Handle
    <3> QED
      BY <2>1, <2>4, <3>1, HandleAnswers
  <2>5. ASSUME NEW t \in Callers, RpcFails(t) \/ DecodingFails(t)
        PROVE  CallOK(calls'[u], proxyLines, serverLines)
    <3>1. PICK call : calls' = [calls EXCEPT ![t] = call]
      BY <2>5 DEF RpcFails, DecodingFails
    <3> QED
      BY <2>1, <2>5, <3>1, FailureAnswers
  <2>6. ASSUME NEW t \in Callers, Receive(t)
        PROVE  CallOK(calls'[u], proxyLines, serverLines)
    BY <2>6, ReceiveAnswers
  <2>7. ASSUME NEW t \in Callers, ReturnKept(t)
        PROVE  CallOK(calls'[u], proxyLines, serverLines)
    <3>1. PICK call : calls' = [calls EXCEPT ![t] = call]
      BY <2>7 DEF ReturnKept
    <3> QED
      BY <2>1, <2>7, <3>1, ReturnAnswers
  <2> QED
    BY <2>2, <2>3, <2>4, <2>5, <2>6, <2>7 DEF Next, CallStep, RunStep
<1> QED
  BY <1>1, <1>2, <1>3 DEF AnswerInv, ConfigsKnown, CallsOK

LEMMA AnswerInvariant == Spec => []AnswerInv
BY AnswerInit, AnswerStep, PTL DEF Spec

\* Within the limits, the component reads what the caller gave.
LEMMA ReadsTheArguments ==
  ASSUME NEW i \in Method, WithinLimits(Interface[i]),
         NEW args, args = [j \in DOMAIN Interface[i].params |-> args[j]]
  PROVE  /\ Seen(Interface[i], ReadOf(i, args)) = Seen(Interface[i], args)
         /\ \A n : Answer(i, n, ReadOf(i, args)) = Answer(i, n, args)
         /\ \A done \in SUBSET ResponseFields(Interface[i]), j \in DOMAIN Interface[i].params :
              BoundOf(i, args, done)[j] \in {args[j], AfterComponent(i, args)[j]}
         /\ BoundOf(i, args, ResponseFields(Interface[i])) = AfterComponent(i, args)
<1> DEFINE m == Interface[i]
<1>1. ASSUME NEW j \in DOMAIN m.params, IOType(m.params[j]) \in {"in", "inout"}
      PROVE  ReadOf(i, args)[j] = args[j]
  BY <1>1, Limits DEF ReadOf
<1>2. \A j \in DOMAIN m.params : ComponentReads(m.params[j]) => ReadOf(i, args)[j] = args[j]
  BY <1>1, Limits
<1>3. Seen(m, ReadOf(i, args)) = Seen(m, args)
  BY <1>2 DEF Seen
<1>4. \A n : Answer(i, n, ReadOf(i, args)) = Answer(i, n, args)
  BY <1>3 DEF Answer
<1>5. ASSUME NEW j \in ResponseFields(m), Has(m.params[j].type, "ref")
      PROVE  /\ j \in DOMAIN m.params
             /\ Transmitted(m.params[j].type, WrittenOf(i, args)[j]) = AfterComponent(i, args)[j]
  <2>1. j \in DOMAIN m.params /\ IOType(m.params[j]) \in {"inout", "out"}
    BY <1>5 DEF ResponseFields, InoutParams, OutParams
  <2>2. Transmitted(m.params[j].type, WrittenOf(i, args)[j]) = WrittenOf(i, args)[j]
    BY <2>1, Limits
  <2>3. WrittenOf(i, args)[j] = IF ComponentWrites(m.params[j])
                                  THEN Answer(i, j, ReadOf(i, args)) ELSE ReadOf(i, args)[j]
    BY <2>1 DEF WrittenOf, AfterComponent, ReadOf
  <2>4. AfterComponent(i, args)[j] = IF ComponentWrites(m.params[j])
                                       THEN Answer(i, j, args) ELSE args[j]
    BY <2>1 DEF AfterComponent
  <2>5. ~ComponentWrites(m.params[j]) => IOType(m.params[j]) = "inout"
    BY <1>5, <2>1, Limits
  <2> QED
    BY <1>1, <1>4, <2>1, <2>2, <2>3, <2>4, <2>5
<1>6. ASSUME NEW done \in SUBSET ResponseFields(m), NEW j \in DOMAIN m.params
      PROVE  BoundOf(i, args, done)[j] = IF j \in done /\ Has(m.params[j].type, "ref")
                                           THEN AfterComponent(i, args)[j] ELSE args[j]
  BY <1>5 DEF BoundOf
<1>7. ASSUME NEW j \in DOMAIN m.params,
             ~(j \in ResponseFields(m) /\ Has(m.params[j].type, "ref"))
      PROVE  AfterComponent(i, args)[j] = args[j]
  <2>1. ~ComponentWrites(m.params[j])
    BY <1>7, Limits DEF ResponseFields, InoutParams, OutParams
  <2> QED
    BY <2>1 DEF AfterComponent
<1>8. BoundOf(i, args, ResponseFields(m)) = AfterComponent(i, args)
  BY <1>6, <1>7 DEF BoundOf, AfterComponent
<1> QED
  BY <1>3, <1>4, <1>6, <1>8

\* What the proxy returns is the answer of the component.
LEMMA ReturnsTheAnswer ==
  ASSUME KeptInv, NEW t \in Callers, calls[t].phase = "returned",
         NEW i \in Method, i = calls[t].method, WithinLimits(Interface[i]),
         ~IsVoid(Interface[i].ret), ~calls[t].overwritten
  PROVE  Result(t) = calls[t].answer
<1> DEFINE m == Interface[i]
<1>1. CASE IsKept(m)
  BY <1>1 DEF Result, KeptInv, KeptAnswersStay
<1>2. CASE ~IsKept(m)
  <2>1. /\ Kind(m.ret) # "std_string"
        /\ m.ret.kind \in {"builtin", "enum"} => m.ret.bits <= WireBits(m.ret)
        /\ ~(m.ret.kind \in {"builtin", "enum"} /\ Has(m.ret, "ref"))
    BY <1>2 DEF WithinLimits, IsKept
  <2>2. m.ret.bits \in Nat /\ WireBits(m.ret) \in Nat
    BY InterfaceAssumption DEF WireBits
  <2>3. Transmitted(m.ret, calls[t].answer) = calls[t].answer
    BY <2>1, <2>2 DEF Transmitted
  <2>4. Result(t) = ByValue(m, calls[t].answer)
    BY <1>2 DEF Result
  <2> QED
    BY <2>1, <2>3, <2>4 DEF ByValue
<1> QED
  BY <1>1, <1>2

\* README.md:230, GRPCProtoGenerator, ProxyGenerator and ServerGenerator: for
\* every interface, a call through a proxy that returns has changed what a call
\* of the component would have changed, and returns what that would have
\* returned, as far as the method is within the limits of the generators.
THEOREM ProxyIsTheComponent == Spec => []AnswersLikeTheComponent
<1>1. AnswerInv => AnswersLikeTheComponent
  <2> SUFFICES ASSUME AnswerInv, NEW t \in Callers, calls[t].phase = "returned",
                      WithinLimits(Interface[calls[t].method])
               PROVE  /\ calls[t].variables = AfterComponent(calls[t].method, calls[t].args)
                      /\ \/ Result(t) = Answer(calls[t].method, 0, calls[t].args)
                         \/ IsVoid(Interface[calls[t].method].ret)
                         \/ calls[t].overwritten
    BY DEF AnswersLikeTheComponent
  <2> DEFINE i == calls[t].method
             args == calls[t].args
  <2>1. i \in Method /\ CallOK(calls[t], proxyLines, serverLines) /\ KeptInv
    BY DEF AnswerInv, CallsOK, KeptInv, CallsTypeOK, WellFormed
  <2>2. /\ args = [j \in DOMAIN Interface[i].params |-> args[j]]
        /\ calls[t].answer = AnswerOf(i, args)
        /\ calls[t].variables = BoundOf(i, args, ResponseFields(Interface[i]))
    BY <2>1 DEF CallOK
  <2>3. calls[t].variables = AfterComponent(i, args)
    BY <2>1, <2>2, ReadsTheArguments
  <2>4. ASSUME ~IsVoid(Interface[i].ret), ~calls[t].overwritten
        PROVE  Result(t) = Answer(i, 0, args)
    <3>1. Result(t) = calls[t].answer
      BY <2>1, <2>4, ReturnsTheAnswer
    <3>2. IsReturned(Interface[i])
      BY <2>4 DEF IsReturned, WithinLimits
    <3>3. AnswerOf(i, args) = Answer(i, 0, args)
      BY <2>1, <2>2, <3>2, ReadsTheArguments DEF AnswerOf
    <3> QED
      BY <2>2, <3>1, <3>3
  <2> QED
    BY <2>3, <2>4
<1> QED
  BY <1>1, AnswerInvariant, PTL

\* ProxyGenerator.cpp:203 and ISerializable.h:88: the outputs are assigned one
\* after the other, and each deserialization may throw.  Every variable of the
\* caller is then as it was or as the component has made it.
THEOREM NothingIsTorn == Spec => []ThrowingTearsNothing
<1>1. AnswerInv => ThrowingTearsNothing
  <2> SUFFICES ASSUME AnswerInv, NEW t \in Callers, calls[t].phase = "threw",
                      WithinLimits(Interface[calls[t].method]),
                      NEW j \in DOMAIN calls[t].args
               PROVE  calls[t].variables[j]
                        \in {calls[t].args[j], AfterComponent(calls[t].method, calls[t].args)[j]}
    BY DEF ThrowingTearsNothing
  <2>1. calls[t].method \in Method /\ CallOK(calls[t], proxyLines, serverLines)
    BY DEF AnswerInv, CallsOK, KeptInv, CallsTypeOK, WellFormed
  <2> DEFINE i == calls[t].method
             args == calls[t].args
  <2>2. /\ args = [x \in DOMAIN Interface[i].params |-> args[x]]
        /\ \E done \in SUBSET ResponseFields(Interface[i]) :
             calls[t].variables = BoundOf(i, args, done)
    BY <2>1 DEF CallOK
  <2> QED
    BY <2>1, <2>2, ReadsTheArguments
<1> QED
  BY <1>1, AnswerInvariant, PTL

-----------------------------------------------------------------------------
(* The compression.  What the lines of a configuration come to is a matter *)
(* of induction over the lines.                                            *)

\* Induction along the numbers up to n, of a set.
LEMMA StepByStep ==
  ASSUME NEW n \in Nat, NEW T, 0 \in T, \A k \in 0 .. n - 1 : k \in T => k + 1 \in T
  PROVE  0 .. n \subseteq T
<1> DEFINE Less == OpToRel(<, Nat)
           Out == {k \in 0 .. n : k \notin T}
<1> SUFFICES ASSUME Out # {} PROVE FALSE
  OBVIOUS
<1>1. Less = {pair \in Nat \X Nat : pair[1] < pair[2]}
  BY DEF OpToRel
<1>2. IsWellFoundedOn(Less, Nat)
  BY NatLessThanWellFounded
<1>3. Out \subseteq Nat
  OBVIOUS
<1> HIDE DEF Less
<1>4. PICK x \in Out : \A y \in Out : ~(<<y, x>> \in Less)
  BY <1>2, <1>3, WFMin
<1>5. x # 0 /\ x - 1 \in 0 .. n - 1
  OBVIOUS
<1>6. <<x - 1, x>> \in Less
  BY <1>1, <1>5
<1>7. x - 1 \in T
  BY <1>4, <1>5, <1>6
<1> QED
  BY <1>5, <1>7

\* What has been read after each of the lines.
ReadsAll(infos, lines, default, n) ==
  infos = [k \in 0 .. n |-> IF k = 0 THEN NoInfos(default)
                                     ELSE ReadLine(infos[k - 1], lines[k], default)]

LEMMA LinesAreRead ==
  ASSUME NEW lines, Len(lines) \in Nat, NEW default
  PROVE  \E infos : /\ ReadsAll(infos, lines, default, Len(lines))
                    /\ ReadLines(lines, default) = infos[Len(lines)]
<1> DEFINE n == Len(lines)
           T == {k \in 0 .. n : \E infos : ReadsAll(infos, lines, default, k)}
           all == CHOOSE infos : ReadsAll(infos, lines, default, n)
<1>1. 0 \in T
  <2> DEFINE infos == [k \in 0 .. 0 |-> NoInfos(default)]
  <2>1. ReadsAll(infos, lines, default, 0)
    BY DEF ReadsAll
  <2> QED
    BY <2>1
<1>2. ASSUME NEW k \in 0 .. n - 1, k \in T PROVE k + 1 \in T
  <2>1. PICK before : ReadsAll(before, lines, default, k)
    BY <1>2
  <2> DEFINE infos == [j \in 0 .. k + 1 |->
                         IF j = k + 1 THEN ReadLine(before[k], lines[k + 1], default)
                                      ELSE before[j]]
  <2>2. ASSUME NEW j \in 0 .. k + 1
        PROVE  infos[j] = IF j = 0 THEN NoInfos(default)
                                   ELSE ReadLine(infos[j - 1], lines[j], default)
    <3>1. CASE j = k + 1
      BY <3>1
    <3>2. CASE j \in 0 .. k
      <4>1. before[j] = IF j = 0 THEN NoInfos(default)
                                 ELSE ReadLine(before[j - 1], lines[j], default)
        BY <2>1, <3>2 DEF ReadsAll
      <4>2. j # 0 => infos[j - 1] = before[j - 1]
        BY <3>2
      <4> QED
        BY <3>2, <4>1, <4>2
    <3> QED
      BY <3>1, <3>2
  <2>3. ReadsAll(infos, lines, default, k + 1)
    BY <2>2 DEF ReadsAll
  <2> QED
    BY <1>2, <2>3
<1>3. n \in T
  <2> HIDE DEF T
  <2>1. 0 .. n \subseteq T
    BY <1>1, <1>2, StepByStep
  <2> QED
    BY <2>1
<1>4. ReadsAll(all, lines, default, n)
  BY <1>3
<1>5. ReadLines(lines, default) = all[n]
  BY DEF ReadLines, ReadsAll, NoInfos
<1> QED
  BY <1>4, <1>5

\* What has been read of a configuration is a record of two.
Shaped(infos) ==
  infos = [service |-> infos.service, methods |-> infos.methods]

\* A line leaves what there is for a method, and adds to it only its own.
LEMMA OneLine ==
  ASSUME NEW infos, Shaped(infos), NEW line, NEW default, NEW name
  PROVE  /\ Shaped(ReadLine(infos, line, default))
         /\ name \in DOMAIN infos.methods =>
              /\ name \in DOMAIN ReadLine(infos, line, default).methods
              /\ ReadLine(infos, line, default).methods[name] = infos.methods[name]
         /\ name \notin DOMAIN infos.methods =>
              IF line.scope = "method" /\ line.method = name
                THEN /\ name \in DOMAIN ReadLine(infos, line, default).methods
                     /\ ReadLine(infos, line, default).methods[name].more
                          = IF line.more = Missing THEN default ELSE line.more
                ELSE name \notin DOMAIN ReadLine(infos, line, default).methods
         /\ ReadLine(infos, line, default).service.more
              \in {infos.service.more, line.more, default}
<1> DEFINE read == ReadLine(infos, line, default)
<1>1. CASE line.scope = "service"
  <2>1. read = [service |-> [type |-> line.type,
                             more |-> IF line.more = Missing THEN infos.service.more
                                                             ELSE line.more],
                methods |-> infos.methods]
    BY <1>1 DEF ReadLine, Shaped
  <2> HIDE DEF read
  <2> QED
    BY <1>1, <2>1 DEF Shaped, read
<1>2. CASE line.scope = "method" /\ line.method \notin DOMAIN infos.methods
  <2> DEFINE more == IF line.more = Missing THEN default ELSE line.more
             methods == [n \in DOMAIN infos.methods \union {line.method} |->
                           IF n \in DOMAIN infos.methods THEN infos.methods[n]
                           ELSE [type |-> line.type, more |-> more]]
  <2>1. read = [service |-> infos.service, methods |-> methods]
    BY <1>2 DEF ReadLine, Shaped
  <2> HIDE DEF read
  <2>2. read.methods = methods /\ read.service = infos.service /\ Shaped(read)
    BY <2>1 DEF Shaped
  <2> QED
    BY <1>2, <2>2 DEF read
<1>3. CASE ~(line.scope = "service")
           /\ ~(line.scope = "method" /\ line.method \notin DOMAIN infos.methods)
  BY <1>3 DEF ReadLine
<1> QED
  BY <1>1, <1>2, <1>3

\* The first line for a method counts.
LEMMA FirstLineCounts ==
  ASSUME NEW lines, Len(lines) \in Nat, NEW name, NEW k \in 1 .. Len(lines),
         FirstLineFor(lines, name, k), lines[k].more # Missing
  PROVE  /\ name \in DOMAIN ClientInfos(lines).methods
         /\ ClientInfos(lines).methods[name].more = lines[k].more
<1> DEFINE n == Len(lines)
<1>1. PICK infos : /\ ReadsAll(infos, lines, Unspecified, n)
                   /\ ReadLines(lines, Unspecified) = infos[n]
  BY LinesAreRead
<1> DEFINE Good(j) ==
      /\ Shaped(infos[j])
      /\ j < k => name \notin DOMAIN infos[j].methods
      /\ j >= k => /\ name \in DOMAIN infos[j].methods
                   /\ infos[j].methods[name].more = lines[k].more
           T == {j \in 0 .. n : Good(j)}
<1>2. 0 \in T
  <2>1. infos[0] = NoInfos(Unspecified)
    BY <1>1 DEF ReadsAll
  <2>2. Shaped(infos[0]) /\ name \notin DOMAIN infos[0].methods
    BY <2>1 DEF NoInfos, Shaped
  <2> QED
    BY <2>2
<1>3. ASSUME NEW j \in 0 .. n - 1, j \in T PROVE j + 1 \in T
  <2>1. infos[j + 1] = ReadLine(infos[j], lines[j + 1], Unspecified) /\ j + 1 \in 0 .. n
    BY <1>1, <1>3 DEF ReadsAll
  <2>2. Good(j)
    BY <1>3
  <2> HIDE DEF T
  <2>3. CASE j + 1 < k
    <3>1. ~(lines[j + 1].scope = "method" /\ lines[j + 1].method = name)
      BY <2>3 DEF FirstLineFor
    <3> QED
      BY <2>1, <2>2, <2>3, <3>1, OneLine DEF T
  <2>4. CASE j + 1 = k
    BY <2>1, <2>2, <2>4, OneLine DEF T, FirstLineFor
  <2>5. CASE j + 1 > k
    BY <2>1, <2>2, <2>5, OneLine DEF T
  <2> QED
    BY <2>3, <2>4, <2>5
<1>4. n \in T
  <2> HIDE DEF T
  <2>1. 0 .. n \subseteq T
    BY <1>2, <1>3, StepByStep
  <2> QED
    BY <2>1
<1> QED
  BY <1>1, <1>4 DEF ClientInfos

\* Nothing is forced that no line forces.
NothingForced(infos) ==
  /\ infos.service.more # Forced
  /\ \A name \in DOMAIN infos.methods : infos.methods[name].more # Forced

LEMMA UnforcedLines ==
  ASSUME NEW lines, Len(lines) \in Nat, \A k \in 1 .. Len(lines) : lines[k].more # Forced
  PROVE  NothingForced(ServerInfos(lines))
<1> DEFINE n == Len(lines)
<1>1. PICK infos : /\ ReadsAll(infos, lines, Unforced, n)
                   /\ ReadLines(lines, Unforced) = infos[n]
  BY LinesAreRead
<1> DEFINE T == {j \in 0 .. n : Shaped(infos[j]) /\ NothingForced(infos[j])}
<1>2. 0 \in T
  <2>1. infos[0] = NoInfos(Unforced)
    BY <1>1 DEF ReadsAll
  <2> QED
    BY <2>1 DEF NoInfos, Shaped, NothingForced, Unforced, Forced
<1>3. ASSUME NEW j \in 0 .. n - 1, j \in T PROVE j + 1 \in T
  <2>1. infos[j + 1] = ReadLine(infos[j], lines[j + 1], Unforced) /\ j + 1 \in 1 .. n
    BY <1>1, <1>3 DEF ReadsAll
  <2>2. Shaped(infos[j]) /\ NothingForced(infos[j]) /\ lines[j + 1].more # Forced
    BY <1>3, <2>1
  <2>3. Shaped(infos[j + 1]) /\ infos[j + 1].service.more # Forced
    <3> DEFINE before == infos[j]
               after == ReadLine(before, lines[j + 1], Unforced)
    <3>1. Shaped(before) /\ before.service.more # Forced
      BY <2>2 DEF NothingForced
    <3> HIDE DEF before
    <3>2. Shaped(after) /\ after.service.more \in {before.service.more, lines[j + 1].more, Unforced}
      BY <3>1, OneLine
    <3>3. after.service.more # Forced
      BY <2>2, <3>1, <3>2 DEF Unforced, Forced
    <3> QED
      BY <2>1, <3>2, <3>3 DEF before
  <2>4. ASSUME NEW name \in DOMAIN infos[j + 1].methods
        PROVE  infos[j + 1].methods[name].more # Forced
    <3>1. CASE name \in DOMAIN infos[j].methods
      BY <2>1, <2>2, <3>1, OneLine DEF NothingForced
    <3>2. CASE name \notin DOMAIN infos[j].methods
      BY <2>1, <2>2, <2>4, <3>2, OneLine DEF Unforced, Forced
    <3> QED
      BY <3>1, <3>2
  <2> QED
    BY <2>1, <2>3, <2>4 DEF NothingForced
<1>4. n \in T
  <2> HIDE DEF T
  <2>1. 0 .. n \subseteq T
    BY <1>2, <1>3, StepByStep
  <2> QED
    BY <2>1
<1> QED
  BY <1>1, <1>4 DEF ServerInfos

\* GrpcHelper.h:97 and 182: for all configurations of both sides, the answer
\* to a method is compressed with what the proxy's first line for the method
\* asks for, unless a line of the server forces something.
THEOREM ClientsChoice == Spec => []ClientChoosesCompression
<1>1. AnswerInv => ClientChoosesCompression
  <2> SUFFICES ASSUME AnswerInv, NEW t \in Callers, calls[t].phase = "handled",
                      NEW i \in Method, i = calls[t].method,
                      Compressed(Interface[i]),
                      \A k \in DOMAIN serverLines : serverLines[k].more # Forced,
                      NEW k \in DOMAIN proxyLines,
                      FirstLineFor(proxyLines, Interface[i].name, k),
                      proxyLines[k].more \notin {Missing, Unspecified}
               PROVE  calls[t].compression = proxyLines[k].more
    BY DEF ClientChoosesCompression, AnswerInv, KeptInv, CallsTypeOK, WellFormed
  <2> DEFINE name == Interface[i].name
             asked == AskedBy(i, proxyLines)
             told == ServerInfos(serverLines)
  <2>1. /\ Len(proxyLines) \in Nat /\ DOMAIN proxyLines = 1 .. Len(proxyLines)
        /\ Len(serverLines) \in Nat /\ DOMAIN serverLines = 1 .. Len(serverLines)
    BY ConfigsAssumption DEF AnswerInv, ConfigsKnown
  <2>2. CallOK(calls[t], proxyLines, serverLines)
    BY DEF AnswerInv, CallsOK
  <2>3. calls[t].compression = DeduceServer(asked, told, name)
    BY <2>2 DEF CallOK
  <2>4. /\ name \in DOMAIN ClientInfos(proxyLines).methods
        /\ ClientInfos(proxyLines).methods[name].more = proxyLines[k].more
    BY <2>1, FirstLineCounts
  <2>5. asked = proxyLines[k].more /\ asked # Unspecified
    BY <2>4 DEF AskedBy, DeduceClient, Prefer
  <2>6. NothingForced(told)
    BY <2>1, UnforcedLines
  <2>7. /\ name \in DOMAIN told.methods => ~Overrides(asked, told.methods[name])
        /\ ~Overrides(asked, told.service)
    BY <2>5, <2>6 DEF NothingForced, Overrides
  <2> HIDE DEF asked, told, name
  <2>8. DeduceServer(asked, told, name) = asked
    BY <2>7 DEF DeduceServer
  <2> QED
    BY <2>3, <2>5, <2>8
<1> QED
  BY <1>1, AnswerInvariant, PTL
==============================================================================
