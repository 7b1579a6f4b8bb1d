------------------------------ MODULE MCFactory ------------------------------
(* A factory and a second one, three user components and a core one.       *)
EXTENDS Factory

MCImplements ==
  [c \in Components |->
     CASE c = "A" -> {"I"}
       [] c \in {"B", "C"} -> {"J"}
       [] OTHER -> {"IAlias"}]

Inj(i, n, multi, optional) ==
  [itf |-> i, name |-> n, multi |-> multi, optional |-> optional]

\* A needs a J and uses all those of a multiple bind; B may use an I and, by
\* name, a J; C needs a core component.
MCInjectables ==
  [c \in Components |->
     CASE c = "A" -> <<Inj("J", None, FALSE, FALSE), Inj("J", None, TRUE, TRUE)>>
       [] c = "B" -> <<Inj("I", None, FALSE, TRUE), Inj("J", "n", FALSE, TRUE)>>
       [] c = "C" -> <<Inj("IAlias", None, FALSE, FALSE)>>
       [] OTHER -> <<>>]

MCCoreBindings == [i \in {"IAlias"} |-> "Alias"]

Call(kind, i, n, target, c, scope, range, xml, method) ==
  [kind |-> kind, itf |-> i, name |-> n, target |-> target,
   infos |-> [component |-> c, scope |-> scope, range |-> range],
   xml |-> xml, method |-> method]

MCBindCalls ==
  {Call("default", "I", None, None, "A", "Singleton",
        {"Default", "WithParents"}, FALSE, TRUE),
   Call("default", "J", None, None, "B", "Transient", {"Default", "All"}, FALSE, TRUE),
   Call("named", "J", "n", None, "C", "Singleton", {"Named"}, FALSE, TRUE),
   Call("specific", "J", None, "B", "C", "Transient", {"Explicit"}, FALSE, TRUE),
   Call("specific", "J", None, "A", "B", "Transient", {}, TRUE, FALSE),
   Call("specificNamed", "J", "n", "B", "C", "Transient", {"Explicit"}, FALSE, TRUE),
   Call("multi", "J", None, None, "C", "Singleton", {}, TRUE, FALSE)}
=============================================================================
