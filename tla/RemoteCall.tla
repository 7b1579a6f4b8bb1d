------------------------------ MODULE RemoteCall ------------------------------
(***************************************************************************)
(* A component called over the network through the code that xpcf_grpc_gen *)
(* generates for its interface: a proxy component that implements the      *)
(* interface and a server component that calls the real one.  Callers in   *)
(* several threads share the proxy.                                        *)
(*                                                                         *)
(* The real component is external: it writes everything it may write, and  *)
(* what it writes names what it has read, so that a value that was lost    *)
(* or changed on the way shows in the answer.                              *)
(***************************************************************************)
EXTENDS Signature, Compression

CONSTANTS
  Callers,        \* threads that call the proxy
  Interface,      \* the methods: [name, params, ret, noCompression]
  ClientConfigs,  \* configurations of the proxy: sequences of lines
  ServerConfigs,  \* configurations of the server
  CallBound,      \* number of calls in a run
  Lost,           \* a value that was not transmitted whole
  Nothing         \* no value, no call

VARIABLES
  proxyLines,     \* the configuration the proxy was given
  serverLines,    \* the configuration the server was given
  kept,           \* the members of the proxy that hold answers, by method name
  calls,          \* what each caller is doing
  callsLeft

vars == <<proxyLines, serverLines, kept, calls, callsLeft>>

Method == DOMAIN Interface
MethodNames == {Interface[i].name : i \in Method}

\* Generated code that a compiler takes: no pointers but C strings as answers
\* (a C string that is a parameter is made a char by the server), nothing
\* bound to a temporary or assigned while const, types that have a message
\* type.
ParameterCompiles(p) ==
  /\ ~Has(p.type, "ptr") /\ ~Has(p.type, "rref") /\ ~Has(p.type, "array")
  /\ IOType(p) \in {"inout", "out"} => ~Has(p.type, "const")
  /\ p.type.kind \in {"builtin", "enum"} => WireBits(p.type) > 0

ReturnCompiles(type) ==
  /\ Kind(type) # "c_string" => ~Has(type, "ptr")
  /\ Has(type, "ref") => Has(type, "const")
  /\ Kind(type) \in {"builtin", "enum"} => IsVoid(type) \/ WireBits(type) > 0

ASSUME InterfaceAssumption ==
  /\ Len(Interface) \in Nat /\ Method = 1 .. Len(Interface)
  /\ \A i \in Method :
       LET m == Interface[i]
       IN  /\ Len(m.params) \in Nat /\ DOMAIN m.params = 1 .. Len(m.params)
           /\ \A j \in DOMAIN m.params :
                /\ m.params[j].type.bits \in Nat
                /\ m.params[j].attributes \in Seq({"in", "out", "inout"})
           /\ m.ret.bits \in Nat

ASSUME ConfigsAssumption ==
  \A lines \in ClientConfigs \union ServerConfigs :
    Len(lines) \in Nat /\ DOMAIN lines = 1 .. Len(lines)

ASSUME InterfaceCompiles ==
  \A i \in Method :
    /\ \A j \in DOMAIN Interface[i].params : ParameterCompiles(Interface[i].params[j])
    /\ ReturnCompiles(Interface[i].ret)

-----------------------------------------------------------------------------
(* Values, and what the component does with them.                          *)

\* An argument needs all the bits of its type.
Argument(t, j) == [of |-> t, position |-> j]

\* A value of a type as it comes out of the message field that carried it.
Transmitted(type, value) ==
  IF type.kind \in {"builtin", "enum"} /\ type.bits > WireBits(type) THEN Lost ELSE value

Declares(p, attribute) == attribute \in Range(p.attributes)

\* What the declaration says of a parameter to somebody who calls the
\* component itself.
ComponentReads(p) == ~Declares(p, "out") \/ Declares(p, "in")
ComponentWrites(p) ==
  /\ (Has(p.type, "ref") /\ ~Has(p.type, "const")) \/ p.type.shared
  /\ ~Declares(p, "in") \/ Declares(p, "out")

Seen(m, values) ==
  [j \in DOMAIN m.params |->
     IF ComponentReads(m.params[j]) THEN values[j] ELSE Nothing]

\* What the component answers in a parameter, or, at position 0, returns.
Answer(i, position, values) ==
  [method |-> i, position |-> position, seen |-> Seen(Interface[i], values)]

AfterComponent(i, values) ==
  [j \in DOMAIN values |->
     IF ComponentWrites(Interface[i].params[j]) THEN Answer(i, j, values) ELSE values[j]]

-----------------------------------------------------------------------------
(* The proxy.                                                              *)

Idle == [phase |-> "idle"]

Init ==
  /\ proxyLines \in ClientConfigs
  /\ serverLines \in ServerConfigs
  /\ kept = [n \in MethodNames |-> Nothing]
  /\ calls = [t \in Callers |-> Idle]
  /\ callsLeft = CallBound

\* Faulty: only the pure inputs are put into the request.
SentInputsOnly(m) == InParams(m)

\* The parameters the proxy puts into the request.
Sent(m) == InParams(m) \union InoutParams(m)

\* The method of the proxy up to the call of the stub.
CallProxy(t, i) ==
  LET m == Interface[i]
      args == [j \in DOMAIN m.params |-> Argument(t, j)]
      infos == DeduceClient(ClientInfos(proxyLines), m.name)
  IN  /\ calls[t].phase \in {"idle", "returned", "threw"}
      /\ callsLeft > 0
      /\ callsLeft' = callsLeft - 1
      /\ calls' = [calls EXCEPT ![t] =
           [phase |-> "sent", method |-> i, args |-> args, variables |-> args,
            request |-> [j \in RequestFields(m) |->
              CASE j = 0 -> infos.more
                [] j \in Sent(m) -> Transmitted(m.params[j].type, args[j])
                [] OTHER -> Nothing],
            overwritten |-> FALSE]]
      /\ UNCHANGED <<proxyLines, serverLines, kept>>

\* The call fails on the way: the status is not ok and the proxy throws.
RpcFails(t) ==
  /\ calls[t].phase \in {"sent", "handled"}
  /\ calls' = [calls EXCEPT ![t] = [@ EXCEPT !.phase = "threw"]]
  /\ UNCHANGED <<proxyLines, serverLines, kept, callsLeft>>

IsReturned(m) == ~IsVoid(m.ret) /\ Kind(m.ret) # "std_string"

\* What the method of the proxy returns by value: the code returns nothing
\* for a std::string and a reference to a temporary for a reference to a
\* builtin type or an enumeration.
ByValue(m, answer) ==
  CASE IsVoid(m.ret) -> Nothing
    [] Kind(m.ret) = "std_string" -> Lost
    [] m.ret.kind \in {"builtin", "enum"} /\ Has(m.ret, "ref") -> Lost
    [] OTHER -> Transmitted(m.ret, answer)

\* The caller's variable is changed only if the parameter is a reference.
BindOutput(call, done) ==
  LET m == Interface[call.method]
  IN  [j \in DOMAIN call.variables |->
         IF j \in done /\ Has(m.params[j].type, "ref")
           THEN Transmitted(m.params[j].type, call.response[j])
           ELSE call.variables[j]]

\* An output, or the return value (position 0), that cannot be deserialized
\* throws after the outputs in front of it.
DecodingFails(t) ==
  LET m == Interface[calls[t].method]
      TypeAt(j) == IF j = 0 THEN m.ret ELSE m.params[j].type
  IN  /\ calls[t].phase = "handled"
      /\ \E j \in ResponseFields(m) \union {0} :
           /\ TypeAt(j).kind \in {"user_defined", "template"}
           /\ calls' = [calls EXCEPT ![t] =
                [@ EXCEPT !.phase = "threw",
                          !.variables = BindOutput(calls[t], ReadBefore(m, j))]]
      /\ UNCHANGED <<proxyLines, serverLines, kept, callsLeft>>

SharesMember(t, u) ==
  /\ calls[u].phase \in {"storing", "returned"}
  /\ IsKept(Interface[calls[u].method])
  /\ Interface[calls[u].method].name = Interface[calls[t].method].name

\* The outputs are assigned; an answer that is kept is put into the member of
\* the proxy.  Two threads that do so at a time race for it.
Receive(t) ==
  LET m == Interface[calls[t].method]
      others == {u \in Callers \ {t} : SharesMember(t, u)}
      received == [calls[t] EXCEPT !.variables = BindOutput(calls[t], ResponseFields(m))]
      storing == [u \in Callers |->
                    CASE u = t -> [received EXCEPT !.phase = "storing"]
                      [] u \in others -> [calls[u] EXCEPT !.overwritten = TRUE]
                      [] OTHER -> calls[u]]
      racing == \E u \in others : calls[u].phase = "storing"
  IN  /\ calls[t].phase = "handled"
      /\ IF IsKept(m)
           THEN \E answer \in {calls[t].answer} \union (IF racing THEN {Lost} ELSE {}) :
                  /\ kept' = [kept EXCEPT ![m.name] = answer]
                  /\ calls' = [storing EXCEPT ![t].overwritten = racing]
           ELSE /\ calls' = [calls EXCEPT ![t] = [received EXCEPT !.phase = "returned"]]
                /\ kept' = kept
      /\ UNCHANGED <<proxyLines, serverLines, callsLeft>>

\* The proxy returns the reference to its member.
ReturnKept(t) ==
  /\ calls[t].phase = "storing"
  /\ calls' = [calls EXCEPT ![t].phase = "returned"]
  /\ UNCHANGED <<proxyLines, serverLines, kept, callsLeft>>

\* What the caller reads in the answer it holds.
Result(t) ==
  LET m == Interface[calls[t].method]
  IN  IF IsKept(m) THEN kept[m.name] ELSE ByValue(m, calls[t].answer)

-----------------------------------------------------------------------------
(* The server.                                                             *)

\* The variable the server declares for a parameter.
ServerVariable(m, j, request) ==
  IF IOType(m.params[j]) \in {"in", "inout"}
    THEN Transmitted(m.params[j].type, request[j])
    ELSE Lost

\* The answer of method i to a call.
Handled(call, i) ==
  LET m == Interface[i]
      read == [j \in DOMAIN m.params |-> ServerVariable(m, j, call.request)]
      written == AfterComponent(i, read)
  IN  [phase |-> "handled", method |-> call.method, args |-> call.args,
       variables |-> call.variables,
       response |-> [j \in ResponseFields(m) |->
                       Transmitted(m.params[j].type, written[j])],
       answer |-> IF IsReturned(m) THEN Answer(i, 0, read) ELSE Nothing,
       compression |->
         IF Compressed(m)
           THEN DeduceServer(call.request[0], ServerInfos(serverLines), m.name)
           ELSE Unspecified,
       overwritten |-> FALSE]

\* The service method with the name of the stub's.
Handle(t) ==
  \E i \in Method :
    /\ calls[t].phase = "sent"
    /\ RpcName(Interface, i) = RpcName(Interface, calls[t].method)
    /\ calls' = [calls EXCEPT ![t] = Handled(calls[t], i)]
    /\ UNCHANGED <<proxyLines, serverLines, kept, callsLeft>>

-----------------------------------------------------------------------------
CallStep == \E t \in Callers, i \in Method : CallProxy(t, i)

RunStep ==
  \E t \in Callers :
    \/ Handle(t)
    \/ RpcFails(t)
    \/ DecodingFails(t)
    \/ Receive(t)
    \/ ReturnKept(t)

Next == CallStep \/ RunStep

Spec == Init /\ [][Next]_vars

-----------------------------------------------------------------------------
(* Properties.                                                             *)

\* The limits of the generated code that nothing rejects.  A const in a
\* template argument makes the parameter an input; an object behind a shared
\* reference is copied, back only if the parameter is a reference that is not
\* const; a parameter by value of a type with a reference in its arguments has
\* no direction, and a third attribute may forget the direction that the first
\* two have made together; some builtin types are wider than their message
\* type; strings and references to builtin types are not returned.
WithinLimits(m) ==
  /\ \A j \in DOMAIN m.params :
       LET p == m.params[j]
       IN  /\ IsConst(p.type) => Has(p.type, "const") \/ ~Has(p.type, "ref")
           /\ ComponentWrites(p) => Has(p.type, "ref") /\ ~Has(p.type, "const")
           /\ IOType(p) # "none"
           /\ Len(p.attributes) <= 2
           /\ p.type.kind \in {"builtin", "enum"} => p.type.bits <= WireBits(p.type)
  /\ m.ret.kind \in {"builtin", "enum"} => IsVoid(m.ret) \/ m.ret.bits <= WireBits(m.ret)
  /\ ~(m.ret.kind \in {"builtin", "enum"} /\ Kind(m.ret) # "c_string" /\ Has(m.ret, "ref"))
  /\ Kind(m.ret) # "std_string"

\* README.md:230: a proxy is the component.  A call that returns has changed
\* the caller's variables as a call of the component itself would have, and
\* its result is what the component returned, which stays so until another
\* thread has the proxy store an answer in the same member.
AnswersLikeTheComponent ==
  \A t \in Callers :
    LET call == calls[t]
    IN  call.phase = "returned" /\ WithinLimits(Interface[call.method]) =>
          /\ call.variables = AfterComponent(call.method, call.args)
          /\ \/ Result(t) = Answer(call.method, 0, call.args)
             \/ IsVoid(Interface[call.method].ret)
             \/ call.overwritten

\* A call that throws leaves each of the caller's variables as it was or as
\* the component has made it.
ThrowingTearsNothing ==
  \A t \in Callers :
    LET call == calls[t]
        after == AfterComponent(call.method, call.args)
    IN  call.phase = "threw" /\ WithinLimits(Interface[call.method]) =>
          \A j \in DOMAIN call.args : call.variables[j] \in {call.args[j], after[j]}

\* Threads and overloads that share a member of the proxy: the reference a
\* caller holds leads to its own answer, unless the call knows of another
\* answer that was stored since.
KeptAnswersStay ==
  \A t \in Callers :
    /\ calls[t].phase \in {"storing", "returned"}
    /\ IsKept(Interface[calls[t].method])
    /\ ~calls[t].overwritten
    => kept[Interface[calls[t].method].name] = calls[t].answer

\* What the first line for a method has the proxy ask for is what the answer
\* is compressed with, whatever both sides say of the service and the server
\* of the method, unless the server forces something.
FirstLineFor(lines, name, k) ==
  /\ lines[k].scope = "method" /\ lines[k].method = name
  /\ \A l \in 1 .. k - 1 : lines[l].scope = "method" => lines[l].method # name

ClientChoosesCompression ==
  \A t \in Callers :
    calls[t].phase = "handled" =>
      LET m == Interface[calls[t].method]
      IN  /\ Compressed(m)
          /\ \A k \in DOMAIN serverLines : serverLines[k].more # Forced
          => \A k \in DOMAIN proxyLines :
               /\ FirstLineFor(proxyLines, m.name, k)
               /\ proxyLines[k].more \notin {Missing, Unspecified}
               => calls[t].compression = proxyLines[k].more
=============================================================================
