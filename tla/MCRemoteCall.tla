----------------------------- MODULE MCRemoteCall -----------------------------
(***************************************************************************)
(* Two threads that share the proxy of an interface with methods of every  *)
(* kind of parameter and return type, those at the limits included.        *)
(***************************************************************************)
EXTENDS RemoteCall

Type(layers, kind, name, bits, inner, shared) ==
  [layers |-> layers, kind |-> kind, name |-> name, bits |-> bits,
   inner |-> inner, shared |-> shared]

Builtin(layers, name, bits) == Type(layers, "builtin", name, bits, <<>>, FALSE)
Enum(layers) == Type(layers, "enum", "E", 32, <<>>, FALSE)
String(layers) == Type(layers, "std_string", "std::string", 0, <<>>, FALSE)
User(layers) == Type(layers, "user_defined", "T", 0, <<>>, FALSE)
Template(layers, inner) == Type(layers, "template", "SRef", 0, inner, FALSE)
Shared(layers) == Type(layers, "template", "SRef", 0, <<>>, TRUE)

Void == Builtin(<<>>, "void", 0)
CString == Builtin(<<"ptr", "const">>, "char", 8)
ConstRef == <<"ref", "const">>
Ref == <<"ref">>

Param(type, attributes) == [type |-> type, attributes |-> attributes]

M(name, params, ret, noCompression) ==
  [name |-> name, params |-> params, ret |-> ret, noCompression |-> noCompression]

MCInterface ==
  <<M("compute", <<Param(User(ConstRef), <<>>), Param(User(Ref), <<>>),
                   Param(Builtin(Ref, "int32_t", 32), <<"out">>)>>,
      Builtin(<<>>, "int32_t", 32), FALSE),
    M("set", <<Param(Builtin(<<>>, "int8_t", 8), <<>>)>>, Void, FALSE),
    M("set", <<Param(String(ConstRef), <<>>), Param(Enum(Ref), <<"inout">>)>>,
      Builtin(<<>>, "bool", 1), TRUE),
    M("brand", <<>>, CString, FALSE),
    M("brand", <<Param(Template(<<>>, <<>>), <<>>)>>, CString, TRUE),
    M("score", <<Param(User(<<>>), <<>>)>>, User(ConstRef), FALSE),
    M("mix", <<Param(User(Ref), <<"in", "out">>), Param(Template(Ref, <<>>), <<"in">>),
               Param(Template(Ref, <<>>), <<"out">>)>>, Enum(<<>>), FALSE),
    M("learn", <<>>, Void, FALSE),
    M("share", <<Param(Shared(Ref), <<>>)>>, Template(<<>>, <<>>), FALSE),
    \* At the limits.
    M("text", <<>>, String(<<>>), FALSE),
    M("hidden", <<Param(Template(Ref, <<"const">>), <<>>)>>, Void, FALSE),
    M("pointee", <<Param(Shared(<<>>), <<>>)>>, Void, FALSE),
    M("tied", <<Param(Template(<<>>, <<"ref">>), <<>>)>>, Void, FALSE),
    M("fast", <<Param(Builtin(<<>>, "int_fast16_t", 64), <<>>)>>,
      Builtin(ConstRef, "int32_t", 32), FALSE)>>

Line(scope, method, type, more) ==
  [scope |-> scope, method |-> method, type |-> type, more |-> more]

MCClientConfigs ==
  {<<>>,
   <<Line("service", "", "gzip", "gzip"), Line("service", "", "deflate", Missing)>>,
   <<Line("method", "compute", "none", "deflate"), Line("service", "", "gzip", "gzip"),
     Line("method", "compute", "gzip", "none"), Line("method", "set", Unspecified, Missing)>>}

MCServerConfigs ==
  {<<>>,
   <<Line("service", "", "gzip", Forced), Line("service", "", "deflate", Missing)>>,
   <<Line("service", "", "gzip", Missing), Line("method", "compute", "none", Missing),
     Line("method", "brand", "deflate", Unforced)>>,
   <<Line("method", "compute", "gzip", Forced), Line("method", "score", Unspecified, Forced)>>}
=============================================================================
