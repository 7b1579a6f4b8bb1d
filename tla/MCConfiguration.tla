--------------------------- MODULE MCConfiguration ---------------------------
(***************************************************************************)
(* Two components of one class.  In the first set-up they have a number, a *)
(* vector, and a structure of a string and a read-only decimal number; in  *)
(* the second a Property, a vector of strings, one of structures with a    *)
(* wide string, and a second declaration of a name; in the third only      *)
(* strings: a vector of them, and one in a structure.  The application has *)
(* two properties of its own.                                              *)
(***************************************************************************)
EXTENDS ConfigurationOrder

P(class, name, type, access, items) ==
  [class |-> class, name |-> name, type |-> type, access |-> access,
   items |-> items]

Word == [number |-> <<>>, tail |-> {"other"}]
Twofold == [number |-> <<2>>, tail |-> {"other"}]
Spaces == [number |-> <<>>, tail |-> {"space"}]
Lines == [number |-> <<>>, tail |-> {"return", "other"}]

MCMaps == {"a", "b", "an", "bn"}
MCRefs == ({"a", "b"} \X (1 .. 5)) \cup ({"x"} \X (1 .. 2))

First(node) ==
  <<P("wrapper", "n", "UINTEGER", "INOUT", <<1>>),
    P("sequence", "v", "LONG", "IN", <<0, 1>>),
    P("wrapper", "t", "STRUCTURE", "INOUT", <<node>>),
    P("wrapper", "s", "CHARSTR", "INOUT", <<Word>>),
    P("wrapper", "f", "FLOAT", "OUT", <<3>>)>>

Second(node) ==
  <<P("property", "s", "CHARSTR", "INOUT", <<[type |-> "CHARSTR", value |-> Word]>>),
    P("sequence", "v", "CHARSTR", "INOUT", <<Word, EmptyText>>),
    P("sequence", "t", "STRUCTURE", "INOUT", <<node>>),
    P("wrapper", "w", "UNICODESTR", "INOUT", <<Word>>),
    P("wrapper", "v", "INTEGER", "INOUT", <<-1>>)>>

Third(node) ==
  [First(node) EXCEPT ![2] = P("sequence", "v", "CHARSTR", "INOUT", <<Word, Spaces>>)]

\* root and inner: the objects of the root map and of the node of a component;
\* an, bn: what the node of each component has besides.
SetUp(Class(_), ofApplication, root, inner, an, bn) ==
  [property |-> [r \in MCRefs |->
     CASE r[1] = "a" -> Class("an")[r[2]]
       [] r[1] = "b" -> Class("bn")[r[2]]
       [] r[1] = "x" -> ofApplication[r[2]]],
   declared |-> [m \in MCMaps |->
     CASE m \in {"a", "b"} -> [k \in DOMAIN root |-> <<m, root[k]>>]
       [] m = "an"         -> [k \in DOMAIN inner |-> <<"a", inner[k]>>] \o an
       [] m = "bn"         -> [k \in DOMAIN inner |-> <<"b", inner[k]>>] \o bn]]

MCSetUps ==
  {SetUp(Third,
         <<P("wrapper", "s", "CHARSTR", "OUT", <<Word>>),
           P("property", "w", "UNICODESTR", "INOUT", <<Unset>>)>>,
         <<2, 3>>, <<4>>, <<>>, <<>>),
   SetUp(First,
         <<P("wrapper", "n", "UINTEGER", "OUT", <<2>>),
           P("property", "s", "CHARSTR", "IN",
             <<[type |-> "CHARSTR", value |-> Word]>>)>>,
         <<1, 2, 3>>, <<4, 5>>, << <<"a", 1>> >>, << <<"x", 1>> >>),
   SetUp(Second,
         <<P("property", "s", "CHARSTR", "OUT",
             <<[type |-> "CHARSTR", value |-> Twofold]>>),
           P("property", "w", "UNICODESTR", "INOUT", <<Unset>>)>>,
         <<1, 2, 5, 3>>, <<4, 5>>, <<>>, <<>>)}

A(k) == <<"a", k>>
B(k) == <<"b", k>>
X(k) == <<"x", k>>

MCSettings ==
  {<<A(1), "UINTEGER", 0, 3>>, <<A(2), "LONG", 1, -2>>, <<A(2), "INTEGER", 0, 1>>,
   <<A(4), "CHARSTR", 1, Twofold>>, <<A(4), "CHARSTR", 0, EmptyText>>,
   <<A(4), "CHARSTR", 0, Spaces>>, <<A(2), "CHARSTR", 1, Lines>>,
   <<A(2), "CHARSTR", 1, Twofold>>,
   <<A(5), "FLOAT", 0, 5>>, <<A(3), "STRUCTURE", 0, "bn">>,
   <<A(3), "STRUCTURE", 0, Null>>, <<A(1), "CHARSTR", 0, EmptyText>>,
   <<A(1), "UNICODESTR", 0, Word>>, <<X(2), "CHARSTR", 1, Word>>}

MCResizings == {<<A(2), 0>>, <<A(2), 3>>, <<A(3), 0>>, <<A(3), 2>>}

MCArguments ==
  {<<"b", A(1)>>, <<"b", A(2)>>, <<"b", A(3)>>, <<"a", A(1)>>, <<"a", X(1)>>,
   <<"an", X(1)>>, <<"an", X(2)>>, <<"bn", X(2)>>, <<"bn", A(5)>>, <<"bn", A(4)>>}

Prop(name, type, value, values, children) ==
  [name |-> name, type |-> type, value |-> value, values |-> values,
   children |-> children]
Val(name, text) == Prop(name, "x", text, <<>>, <<>>)
Vals(name, texts) == Prop(name, "x", Null, texts, <<>>)
Struct(name, children) == Prop(name, "structure", Null, <<>>, children)
Elt(component, name, properties) ==
  [component |-> component, name |-> name, properties |-> properties]
Sect(section, elements) == [section |-> section, elements |-> elements]

\* A number that is narrowed, a later one for the same property, an instance
\* with a name, an alias; faults of several kinds; a section that is not read.
Given ==
  {<<Sect("configuration",
          <<Elt("U", Null, <<Val("n", TextOf(6)), Vals("v", <<TextOf(1), TextOf(-3)>>)>>),
            Elt("other", Null, <<Val("n", TextOf(1))>>),
            Elt("U", "i", <<Val("n", TextOf(0)), Vals("v", <<TextOf(9)>>)>>)>>),
     Sect("properties",
          <<Elt("alias", Null,
                <<Struct("t", <<Val("s", Twofold), Val("f", TextOf(2))>>),
                  Val("n", TextOf(3))>>)>>),
     Sect("properties", <<Elt("U", Null, <<Val("n", Word)>>)>>)>>,
   <<Sect("properties",
          <<Elt("U", "i", <<Vals("v", <<TextOf(2), TextOf(2), TextOf(2)>>)>>),
            Elt("U", Null, <<Val("n", Twofold), Val("n", TextOf(0))>>),
            Elt(Malformed, "j", <<>>)>>)>>,
   <<Sect("configuration", <<Elt("other", Null, <<>>), Elt(Malformed, Null, <<>>)>>)>>,
   <<Sect("configuration", <<Elt(Malformed, "i", <<>>),
                             Elt("U", Null, <<Val("s", Word), Val("z", Word)>>),
                             Elt("U", "i", <<Prop(Null, "x", Word, <<>>, <<>>)>>)>>)>>,
   <<Sect("configuration", <<Elt("U", Null, <<Val("n", TextOf(-1)), Val("t", Word)>>),
                             Elt("U", "i", <<Struct("t", <<Val("v", TextOf(3))>>),
                                             Struct("v", <<>>)>>)>>)>>}
MCPaths == {"given", "new"}
MCContents ==
  {[f \in MCPaths |-> IF f = "given" THEN given ELSE Null] : given \in Given}

\* A string that is dead reads as nothing, or as one that was there before.
MCStrayTexts == {EmptyText, Twofold}

MCUUIDOf == [c \in {"a", "b"} |-> "U"]
MCAliases == [x \in {"alias"} |-> "U"]
=============================================================================
