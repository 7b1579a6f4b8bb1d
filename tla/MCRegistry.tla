------------------------------ MODULE MCRegistry -----------------------------
(* Two factories, two modules and three components, two of the same name.  *)
EXTENDS PropertyManager

MCNameOf ==
  [u \in Components \union Interfaces |->
     CASE u \in {"A", "C"} -> "a" [] u = "B" -> "b" [] u = "I" -> "i" [] OTHER -> "j"]

MCIndex == [m \in Modules |-> IF m = "M" THEN <<"A", "B">> ELSE <<"C">>]

MCImplements == [c \in Components |-> IF c = "A" THEN {"I", "J"} ELSE {"J"}]

Elt(kind, id) == [kind |-> kind, id |-> id]

Configure(name, id) == [kind |-> "configure", name |-> name, id |-> id]

\* A file with a fault in the second interface of A, the corrected file with
\* one more component, and a file that gives C, whose name is A's, to both
\* modules and an alias to B.
Faulted ==
  [path |-> "faulted", autoAlias |-> TRUE,
   nodes |-> <<Elt("module", "M"), Elt("component", "A"), Elt("interface", "I"),
               Elt("interface", Invalid)>>]

Corrected ==
  [path |-> "corrected", autoAlias |-> FALSE,
   nodes |-> <<Elt("module", "M"), Elt("component", "A"), Elt("interface", "I"),
               Elt("interface", "J"), Elt("component", "B"), Elt("interface", "J"),
               Elt("configuration", "A"), Configure("b", Invalid)>>]

Aliased ==
  [path |-> "aliased", autoAlias |-> TRUE,
   nodes |-> <<Elt("module", "M"), Elt("component", "C"), Elt("interface", "J"),
               Elt("module", "N"), Elt("component", "C"),
               [kind |-> "alias", type |-> "component", name |-> "a", id |-> "B"],
               Configure("a", Invalid), Configure(None, "C")>>]

\* A file that only configures, whatever modules are known.
Configures ==
  [path |-> "configures", autoAlias |-> FALSE,
   nodes |-> <<Configure(None, "A"), Elt("configuration", "B")>>]

MCFiles == {Faulted, Corrected, Aliased, Configures}
=============================================================================
