-------------------------- MODULE ConfigurationOrder --------------------------
(***************************************************************************)
(* Properties of Configuration: the refinement of OrderedAssignments, and  *)
(* what a file written by serialize() gives back.                          *)
(***************************************************************************)
EXTENDS Configuration

CONSTANT Fault

ASSUME FaultAssumption ==
  Fault \notin Refs \X Nat \X (Int \cup Texts \cup [type : PropertyTypes, value : Texts])

(***************************************************************************)
(* The assignments that the rest of a file makes, read off the file: the   *)
(* value of the type that is congruent to the number, the n-th <value> for *)
(* the n-th item.                                                          *)
(***************************************************************************)
Modulus(t) == 2^(IF t \in {"INTEGER", "UINTEGER"} THEN IntBits ELSE LongBits)

Meant(p, text) ==
  CASE p.type = "CHARSTR"            -> text
    [] p.type \in {"FLOAT", "DOUBLE"} -> 3 * text.number[1]
    [] OTHER -> CHOOSE v \in ItemsOf(p.type) : (text.number[1] - v) % Modulus(p.type) = 0

Readable(p, text) ==
  /\ text # EmptyText
  /\ p.type \in PropertyTypes \ {"NONE", "STRUCTURE", "UNICODESTR"}
  /\ p.type = "CHARSTR" \/ (text.number # <<>> /\ Parses(p.type, text.number[1]))

AssignedBy(r, p, text, i) ==
  LET index == IF p.class = "wrapper" /\ p.type = "CHARSTR" THEN 0 ELSE i
      value == IF p.class = "property" THEN [type |-> p.type, value |-> Meant(p, text)]
               ELSE Meant(p, text)
  IN  IF text = Null THEN <<Fault>>
      ELSE IF ~ Readable(p, text) \/ index >= Len(p.items)
              \/ (p.class = "property" /\ p.access = "OUT") THEN <<Fault>>
      ELSE << <<r, index, value>> >>
           \o (IF text.tail # {} /\ p.type # "CHARSTR" THEN <<Fault>> ELSE <<>>)

\* Those of an element that is read as a property of a map.
Assignments(props, lists) ==
  LET assigned[n \in [node : {"property"}, map : Maps, element : Elements[MaxNesting]]] ==
        LET e == n.element
            r == Find(props, lists[n.map], e.name)
            p == props[r]
            texts == IF e.value # Null THEN <<e.value>> ELSE e.values
            inside == PropertyNodes(p.items[1], e.children)
        IN  IF e.name = Null \/ ~ Lists(props, lists[n.map], e.name) \/ e.type = ""
            THEN <<Fault>>
            ELSE IF e.type # "structure"
            THEN FlattenSeq([k \in DOMAIN texts |-> AssignedBy(r, p, texts[k], k - 1)])
            ELSE IF p.type # "STRUCTURE" \/ p.items = <<>> THEN <<Fault>>
            ELSE IF p.items[1] = Null THEN <<Fault>>
            ELSE FlattenSeq([k \in DOMAIN inside |-> assigned[inside[k]]])
  IN  assigned

Concerns(n) ==
  n.element.name = walk.name /\ ClassOf(n) = UUIDOf[walk.component]

Pending(n) ==
  LET assigned == Assignments(property, entries)
      nodes == PropertyNodes(walk.component, n.element.properties)
  IN  CASE n.node = "value"    -> AssignedBy(n.ref, property[n.ref], n.text, n.index)
        [] n.node = "property" -> assigned[n]
        [] OTHER ->
             IF ClassOf(n) = Malformed
                /\ (n.node = "properties" \/ n.element.name = walk.name) THEN <<Fault>>
             ELSE IF ~ Concerns(n) THEN <<>>
             ELSE FlattenSeq([k \in DOMAIN nodes |-> assigned[nodes[k]]])

Ordered == INSTANCE OrderedAssignments WITH
  cells   <- [r \in Refs |-> property[r].items],
  pending <- FlattenSeq([k \in DOMAIN walk.todo |-> Pending(walk.todo[k])]),
  verdict <- CASE walk.state = "walking"    -> "applying"
               [] walk.state = "configured" -> "applied"
               [] OTHER                     -> walk.state

(***************************************************************************)
(* configure() makes the assignments of the file in order.  It succeeds,   *)
(* and onConfigured() is called, only when all those that concern the      *)
(* component are made; when it fails, at the first that cannot be made,    *)
(* those before it stay made, and so does a number with characters behind. *)
(***************************************************************************)
ImplementsOrderedAssignments == Ordered!ASpec

(***************************************************************************)
(* What serialize() wrote to a new file, configure() reads back: into a    *)
(* component of the class, called without a name, up to the decimals that  *)
(* are printed.  Later serializations to the same file are never read.     *)
(*                                                                         *)
(* Asked are the assignments that give back to a map what was saved of     *)
(* another, each to the item that the same names lead to; and Fault, when  *)
(* a value cannot be written so that it is read back (a text that is       *)
(* empty, or among several only white space, or that has a carriage        *)
(* return; a wide string, a Property, more than one map in a structure) or *)
(* has no place to go to.  Nor can two values go to one place, when two    *)
(* maps have come to share a property.  Each excluded case fails, or gives *)
(* back something else.                                                    *)
(***************************************************************************)
Printed(t, v) == IF t \in {"FLOAT", "DOUBLE"} THEN 3 * ((v + 1) \div 3) ELSE v

\* only: it is the only item, and written as an attribute.
StorableText(text, only) ==
  /\ "return" \notin text.tail
  /\ IF only THEN text # EmptyText ELSE ~ Blank(text)

Storable(x) ==
  /\ x.class # "property" /\ x.type # "UNICODESTR"
  /\ x.type = "CHARSTR" =>
       \A i \in DOMAIN x.items : StorableText(x.items[i], Len(x.items) = 1)
  /\ x.type = "STRUCTURE" => Len(x.items) = 1 /\ x.items[1] # Null

Takes(y, x) ==
  /\ y.class # "property" /\ y.type = x.type /\ Len(y.items) >= Len(x.items)
  /\ y.type = "STRUCTURE" => y.items[1] # Null

Asked(old, props, lists) ==
  LET asked[at \in (0 .. MaxNesting) \X Maps \X Maps] ==
        LET list == lists[at[3]]
            Of(q) ==
              LET x == old.property[q]
                  r == Find(props, list, x.name)
                  y == props[r]
              IN  IF ~ Storable(x) \/ ~ Lists(props, list, x.name) THEN {Fault}
                  ELSE IF ~ Takes(y, x) THEN {Fault}
                  ELSE IF x.type # "STRUCTURE"
                  THEN {<<r, i - 1, Printed(x.type, x.items[i])>> : i \in DOMAIN x.items}
                  ELSE IF at[1] = 0 THEN {}
                  ELSE asked[<<at[1] - 1, x.items[1], y.items[1]>>]
        IN  UNION {Of(q) : q \in ToSet(old.entries[at[2]])}
  IN  asked

AskedOf(old) ==
  Asked(old, property, entries)[<<MaxNesting, old.component, walk.component>>]

OnePlaceEach(asked) ==
  \A a, b \in asked : a[1] = b[1] /\ a[2] = b[2] => a[3] = b[3]

RoundTrip ==
  LET old == saved[walk.path]
  IN  (/\ walk.state \in {"configured", "failed"}
       /\ walk.name = Null
       /\ old # Null
       /\ UUIDOf[old.component] = UUIDOf[walk.component]
       /\ UUIDOf[old.component] \notin DOMAIN Aliases
       /\ Fault \notin AskedOf(old)
       /\ OnePlaceEach(AskedOf(old))) =>
        /\ walk.state = "configured"
        /\ \A a \in AskedOf(old) : property[a[1]].items[a[2] + 1] = a[3]
=============================================================================
