------------------------------ MODULE Signature ------------------------------
(***************************************************************************)
(* How xpcf_grpc_gen reads the declaration of a method: the layers of the  *)
(* C++ types, the direction of each parameter, what goes into the request  *)
(* and what into the response.                                             *)
(*                                                                         *)
(* A type is a record: its layers from the outside in ("ref", "rref",      *)
(* "ptr", "const", "array"), the kind of what they lead to, its name and   *)
(* its width if it is a builtin type or an enumeration, the layers of all  *)
(* the template arguments in the order in which they are parsed, and       *)
(* whether it is a shared reference to an object that may be modified.     *)
(***************************************************************************)
EXTENDS Integers, Sequences, FiniteSets, Functions

(* Types.                                                                  *)

Parsed(type) == type.layers \o type.inner

Has(type, layer) == layer \in Range(type.layers)

FoundRef(type) == {i \in DOMAIN Parsed(type) : Parsed(type)[i] = "ref"}

\* Each pointer forgets the const found outside of it.
FoundConst(type) ==
  {i \in DOMAIN Parsed(type) :
     /\ Parsed(type)[i] = "const"
     /\ \A j \in (i + 1)..Len(Parsed(type)) : Parsed(type)[j] # "ptr"}

\* The template arguments share the lists of const and ref that were found.
IsConst(type) == Cardinality(FoundConst(type)) >= Cardinality(FoundRef(type))

IsReference(type) == Has(type, "ref") \/ Has(type, "ptr")

IsVoid(type) == type.kind = "builtin" /\ type.name = "void" /\ type.layers = <<>>

Kind(type) ==
  IF type.kind = "builtin" /\ type.name = "char" /\ Has(type, "ptr") /\ IsConst(type)
    THEN "c_string"
    ELSE type.kind

\* Bits of the protobuf type that carries a builtin type or an enumeration.
WireBits(type) ==
  CASE type.kind = "enum" -> 32
    [] type.name \in {"bool", "char", "int8_t", "int16_t", "int32_t", "uint8_t",
                      "uint16_t", "uint32_t", "int_fast8_t", "int_fast16_t",
                      "int_fast32_t", "uint_fast8_t", "uint_fast16_t",
                      "uint_fast32_t", "float"} -> 32
    [] type.name \in {"long", "int64_t", "uint64_t", "int_fast64_t",
                      "uint_fast64_t", "double"} -> 64
    [] OTHER -> 0

-----------------------------------------------------------------------------
(* Parameters.  An attribute is one of "in", "out" and "inout".            *)

\* Faulty: the last attribute wins.
LastIOType(io, attribute) == attribute

SetIOType(io, attribute) ==
  IF {io, attribute} = {"in", "out"} THEN "inout" ELSE attribute

Deduced(type) ==
  CASE IsConst(type) -> "in"
    [] ~IsConst(type) /\ IsReference(type) -> "inout"
    [] OTHER -> "none"

\* The attributes are applied one after the other to what the type says.
IOType(p) ==
  LET io[k \in 0 .. Len(p.attributes)] ==
        IF k = 0 THEN Deduced(p.type) ELSE SetIOType(io[k - 1], p.attributes[k])
  IN  io[Len(p.attributes)]

-----------------------------------------------------------------------------
(* Methods: their parameters, return type, and name.                       *)

\* A parameter without a direction is sent as an input.
InParams(m) == {j \in DOMAIN m.params : IOType(m.params[j]) \in {"in", "none"}}
InoutParams(m) == {j \in DOMAIN m.params : IOType(m.params[j]) = "inout"}
OutParams(m) == {j \in DOMAIN m.params : IOType(m.params[j]) = "out"}

HasInputs(m) == InParams(m) \union InoutParams(m) # {}
HasOutputs(m) == InoutParams(m) \union OutParams(m) # {} \/ ~IsVoid(m.ret)

EmptyRequest(m) == ~HasInputs(m) /\ (m.noCompression \/ ~HasOutputs(m))

Compressed(m) == HasOutputs(m) /\ ~m.noCompression

\* Field 0 asks for the compression of the response.
RequestFields(m) ==
  IF EmptyRequest(m)
    THEN {}
    ELSE InParams(m) \union InoutParams(m) \union (IF Compressed(m) THEN {0} ELSE {})
ResponseFields(m) == InoutParams(m) \union OutParams(m)

\* The outputs that the proxy has read from the response when it comes to
\* output j, or, for no output, to the return value.
ReadBefore(m, j) ==
  CASE j \in InoutParams(m) -> {x \in InoutParams(m) : x < j}
    [] j \in OutParams(m)   -> InoutParams(m) \union {x \in OutParams(m) : x < j}
    [] OTHER                -> ResponseFields(m)

\* Overloads are numbered in the order of their declarations.
RpcName(methods, i) ==
  <<methods[i].name, Cardinality({k \in 1..i : methods[k].name = methods[i].name})>>

\* The answer stays in a member of the proxy, which the caller gets a
\* reference to.
IsKept(m) ==
  \/ Kind(m.ret) = "c_string"
  \/ /\ m.ret.kind \in {"user_defined", "template"}
     /\ IsConst(m.ret)
     /\ IsReference(m.ret)
=============================================================================
