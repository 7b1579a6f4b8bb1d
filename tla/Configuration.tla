---------------------------- MODULE Configuration ----------------------------
(***************************************************************************)
(* PropertyManager::configure and serialize, called by the configurable    *)
(* components (ConfigurableBase) on their own properties.                  *)
(*                                                                         *)
(* A file is Null when it does not exist, or the sections under its root,  *)
(* in order: [section, elements], where an element is                      *)
(* [component, name, properties] and a property                            *)
(* [name, type, value, values, children], all of it as tinyxml2 gives it   *)
(* when the file is loaded; Null is a missing attribute or a <value> whose *)
(* text is missing or was left out, as white space is.                     *)
(*                                                                         *)
(* configure() walks the file as its nested loops do: walk.todo are the    *)
(* nodes that the loops in progress have still to visit, the innermost     *)
(* first.  A node that fails ends them all.                                *)
(*                                                                         *)
(* (Definitions marked "Faulty" are variants with a plausible mistake.  No *)
(* specification uses them: put in place of the definition that follows,   *)
(* each makes one of the properties fail.)                                 *)
(***************************************************************************)
EXTENDS PropertyMap

CONSTANTS Components,  \* the configurable components: the name of a component
                       \* is that of its root map
          UUIDOf,      \* Components -> the UUID of the class
          Instances,   \* the instance names that configure() is called with;
                       \* Null in it: without a name
          Malformed,   \* a text that is no UUID
          Aliases,     \* the component aliases: alias -> UUID
          Paths,       \* the paths of configuration files
          Contents,    \* Paths -> content: what the files may hold at first
          MaxNesting,  \* bound: the depth of structures in structures
          CallBound    \* bound: the number of calls

ASSUME ComponentsAssumption == Components \subseteq Maps
ASSUME BoundsAssumption == MaxNesting \in Nat /\ CallBound \in Nat

\* <property> elements with structures in structures to the depth d.
Elements[d \in 0 .. MaxNesting] ==
  [name : STRING \cup {Null}, type : STRING, value : Texts \cup {Null},
   values : Seq(Texts \cup {Null}),
   children : Seq(IF d = 0 THEN {} ELSE Elements[d - 1])]

ComponentElements ==
  [component : STRING \cup {Malformed}, name : STRING \cup {Null},
   properties : Seq(Elements[MaxNesting])]

Files == Seq([section : STRING, elements : Seq(ComponentElements)])

ASSUME ContentsAssumption == Contents \subseteq [Paths -> Files \cup {Null}]
ASSUME UUIDAssumption == UUIDOf \in [Components -> STRING] /\ Malformed \notin STRING
\* True, but the provers know no member of STRING.
ASSUME StringsAssumption ==
  PropertyTypes \cup {"", "structure", "configuration", "properties"} \subseteq STRING

ASSUME NullAssumption == Null \notin STRING \cup Texts \cup Files

VARIABLES file,      \* Paths -> content
          walk,      \* the last call of configure()
          saved,     \* history: what the first serialize() to a file found
          callsLeft

vars == <<mapVars, file, walk, saved, callsLeft>>

Idle == [state |-> "idle", component |-> Null, name |-> Null, path |-> Null,
         todo |-> <<>>]

Init ==
  /\ MapInit
  /\ file \in Contents
  /\ walk = Idle
  /\ saved = [f \in Paths |-> Null]
  /\ callsLeft = CallBound

Call == Alive /\ walk.state # "walking" /\ callsLeft > 0
        /\ callsLeft' = callsLeft - 1

UsesProperties ==
  /\ Call
  /\ MapNext
  /\ walk' = Idle
  /\ UNCHANGED <<file, saved>>

(***************************************************************************)
(* The text of a value, read as the type of its property: by stol, stoul,  *)
(* stoll or stoull, then narrowed by the parameter of the setter; stoul    *)
(* and stoull take a minus sign.                                           *)
(***************************************************************************)
Signed(n, width) ==
  LET low == n % 2^width
  IN  IF low >= 2^(width - 1) THEN low - 2^width ELSE low

IsSigned(t) == t \in {"INTEGER", "LONG"}
IsUnsigned(t) == t \in {"UINTEGER", "ULONG"}
WidthOf(t) == IF t \in {"INTEGER", "UINTEGER"} THEN IntBits ELSE LongBits

Parses(t, n) ==
  CASE IsSigned(t)   -> n \in -(2^(LongBits - 1)) .. 2^(LongBits - 1) - 1
    [] IsUnsigned(t) -> n \in -(2^LongBits - 1) .. 2^LongBits - 1
    [] OTHER         -> n \in Int

\* Faulty: an INTEGER keeps the value that stol read.
ReadUnnarrowed(t, n) ==
  CASE IsSigned(t)   -> n
    [] IsUnsigned(t) -> n % 2^WidthOf(t)
    [] OTHER         -> 3 * n

\* stoul gives a number modulo the width of long, of which the setter keeps
\* the low bits.
Read(t, n) ==
  CASE IsSigned(t)   -> Signed(n, WidthOf(t))
    [] IsUnsigned(t) -> n % 2^WidthOf(t)
    [] OTHER         -> 3 * n

\* The value is set before the characters left over are noticed.
ConfigureValue(p, text, i) ==
  LET numeric == p.type # "CHARSTR"
      set(v) == SetItem(p, p.type, i, v)
      outcome == IF numeric THEN set(Read(p.type, text.number[1])) ELSE set(text)
  IN  IF text = EmptyText THEN Thrown("ConfigurationException", p)
      ELSE IF p.type \in {"NONE", "STRUCTURE"} THEN Thrown("_ERROR_TYPE", p)
      ELSE IF p.type = "UNICODESTR" THEN Thrown("ConfigurationException", p)
      ELSE IF numeric /\ text.number = <<>> THEN Thrown("ConfigurationException", p)
      ELSE IF numeric /\ ~ Parses(p.type, text.number[1])
           THEN Thrown("out_of_range", p)
      ELSE IF outcome.result = "AccessDenied"
              \/ (outcome.result = "_SUCCESS" /\ numeric /\ text.tail # {})
           THEN Thrown("ConfigurationException", outcome.property)
      ELSE outcome

(***************************************************************************)
(* configure(): the file is loaded, and the elements of the first          *)
(* <configuration> and of the first <properties> are visited.  A file that *)
(* cannot be loaded configures nothing, with success.                      *)
(***************************************************************************)
ElementNodes(sections, kind) ==
  LET first == SelectInSeq(sections, LAMBDA s : s.section = kind)
      Node(e) == [node |-> kind, element |-> e]
  IN  IF first = 0 THEN <<>>
      ELSE [k \in DOMAIN sections[first].elements |-> Node(sections[first].elements[k])]

Nodes(content) ==
  IF content = Null THEN <<>>
  ELSE ElementNodes(content, "configuration") \o ElementNodes(content, "properties")

Configure(c, f, name) ==
  /\ Call
  /\ walk' = [state |-> "walking", component |-> c, name |-> name, path |-> f,
              todo |-> Nodes(file[f])]
  /\ UNCHANGED <<mapVars, file, saved>>

Visits(kinds) ==
  walk.state = "walking" /\ walk.todo # <<>> /\ Head(walk.todo).node \in kinds

\* The next nodes are those that the visit of this one opens.
Opens(nodes) ==
  /\ walk' = [walk EXCEPT !.todo = nodes \o Tail(@)]
  /\ UNCHANGED <<result, entries, file, saved, callsLeft>>

Fails(what) ==
  /\ walk' = [walk EXCEPT !.state = "failed", !.todo = <<>>]
  /\ result' = what
  /\ UNCHANGED <<entries, file, saved, callsLeft>>

\* The class that an element names: <configure> may give an alias.
ClassOf(n) ==
  IF n.node = "properties" /\ n.element.component \in DOMAIN Aliases
  THEN Aliases[n.element.component] ELSE n.element.component

PropertyNodes(m, elements) ==
  [k \in DOMAIN elements |->
     [node |-> "property", map |-> m, element |-> elements[k]]]

\* Faulty: the index is not advanced.
ValueNodesOfOneItem(r, texts) ==
  [k \in DOMAIN texts |->
     [node |-> "value", ref |-> r, text |-> texts[k], index |-> 0]]

ValueNodes(r, texts) ==
  [k \in DOMAIN texts |->
     [node |-> "value", ref |-> r, text |-> texts[k], index |-> k - 1]]

\* The error message about an uuid in <configuration> is made with the name of
\* the element: without one, from the null pointer.
NullString == {"logic_error", "crash"}
MalformedFaults(n) ==
  IF n.node = "configuration" /\ n.element.name = Null THEN NullString
                                                       ELSE {"ConfigurationException"}

\* An element concerns a call with a name when it has that name, and one
\* without when it has none.  Only <configuration> looks at the name first.
VisitElement ==
  /\ Visits({"configuration", "properties"})
  /\ LET n == Head(walk.todo)
         chosen == n.element.name = walk.name
         read == chosen \/ n.node = "properties"
         matches == chosen /\ ClassOf(n) = UUIDOf[walk.component]
     IN  IF read /\ ClassOf(n) = Malformed
         THEN \E what \in MalformedFaults(n) : Fails(what)
         ELSE Opens(IF matches
                    THEN PropertyNodes(walk.component, n.element.properties)
                    ELSE <<>>)
  /\ UNCHANGED property

OpensStructure(r, children) ==
  LET p == property[r]
  IN  IF p.type # "STRUCTURE" THEN Fails("ConfigurationException")
      ELSE IF p.items = <<>> THEN Fails("out_of_range")
      ELSE IF p.items[1] = Null THEN Fails("_ERROR_NULL_POINTER")
      ELSE Opens(PropertyNodes(p.items[1], children))

\* configureProperty(): the type counts only when it is "structure" or empty.
VisitProperty ==
  /\ Visits({"property"})
  /\ LET n == Head(walk.todo)
         e == n.element
         r == At(n.map, e.name)
     IN  IF e.name = Null THEN Fails("_ERROR_INVALID_ARGUMENT")
         ELSE IF ~ Named(n.map, e.name) \/ e.type = ""
              THEN Fails("ConfigurationException")
         ELSE IF e.type = "structure" THEN OpensStructure(r, e.children)
         ELSE Opens(ValueNodes(r, IF e.value # Null THEN <<e.value>> ELSE e.values))
  /\ UNCHANGED property

\* A <value> without text, or with white space that tinyxml2 left out: a
\* std::string made from the null pointer too, which libstdc++ answers with an
\* exception and others with the end of the program.
VisitNoText ==
  /\ Visits({"value"})
  /\ Head(walk.todo).text = Null
  /\ \E what \in NullString : Fails(what)
  /\ UNCHANGED property

VisitValue ==
  /\ Visits({"value"})
  /\ Head(walk.todo).text # Null
  /\ LET n == Head(walk.todo)
         outcome == ConfigureValue(property[n.ref], n.text, n.index)
     IN  /\ property' = [property EXCEPT ![n.ref] = outcome.property]
         /\ IF outcome.result = "_SUCCESS" THEN Opens(<<>>)
                                           ELSE Fails(outcome.result)

\* ConfigurableBase calls onConfigured() when configure() has succeeded.
Configured ==
  /\ walk.state = "walking"
  /\ walk.todo = <<>>
  /\ walk' = [walk EXCEPT !.state = "configured"]
  /\ result' = "_SUCCESS"
  /\ UNCHANGED <<property, entries, file, saved, callsLeft>>

(***************************************************************************)
(* serialize().  The text of the value of an item; and what serializing a  *)
(* property ends with: a value that cannot be read throws, a null string   *)
(* or a null map ends the program.                                         *)
(***************************************************************************)
\* Faulty: decimals are cut off, not rounded.
TextTruncated(p, i, stray) ==
  CASE p.type \in {"NONE", "UNICODESTR"}  -> EmptyText
    [] p.type = "CHARSTR"                 -> Item(p, i, stray).value
    [] p.type \in {"FLOAT", "DOUBLE"}     -> TextOf(Item(p, i, stray).value \div 3)
    [] OTHER                              -> TextOf(Item(p, i, stray).value)

Text(p, i, stray) ==
  CASE p.type \in {"NONE", "UNICODESTR"}  -> EmptyText
    [] p.type = "CHARSTR"                 -> Item(p, i, stray).value
    [] p.type \in {"FLOAT", "DOUBLE"}     -> TextOf((Item(p, i, stray).value + 1) \div 3)
    [] OTHER                              -> TextOf(Item(p, i, stray).value)

\* The values of the items of a property, numbered from 1, that are maps.
MapItems(p) == IF p.type = "STRUCTURE" THEN p.items ELSE <<>>

\* The same whatever is read of a dead string, which is no null pointer.
ItemFault(p, i) ==
  IF p.type \in {"NONE", "UNICODESTR", "STRUCTURE"} THEN "_SUCCESS"
  ELSE LET item == Item(p, i, EmptyText)
       IN  IF item.result = "_SUCCESS" /\ item.value = Null THEN "crash" ELSE item.result

FirstFault(faults) ==
  LET first == SelectInSeq(faults, LAMBDA x : x # "_SUCCESS")
  IN  IF first = 0 THEN "_SUCCESS" ELSE faults[first]

\* Of <<d, r>>: the property r, with structures in structures to the depth d.
SerializeFault[at \in (0 .. MaxNesting) \X Refs] ==
  LET p == property[at[2]]
      Below(m) ==
        IF m = Null THEN "crash"
        ELSE FirstFault([k \in DOMAIN entries[m] |->
                           SerializeFault[<<at[1] - 1, entries[m][k]>>]])
  IN  FirstFault([i \in DOMAIN p.items |->
        IF p.type # "STRUCTURE" THEN ItemFault(p, i - 1)
        ELSE IF at[1] = 0 THEN "_SUCCESS" ELSE Below(p.items[i])])

(***************************************************************************)
(* What loading gives back of a text that was written: a carriage return   *)
(* has become a line feed, and a <value> of white space nothing.           *)
(***************************************************************************)
Blank(text) == text.number = <<>> /\ "other" \notin text.tail

Loaded(text) ==
  IF text = Null \/ "return" \notin text.tail THEN text  \* never Null: SerializeFault
  ELSE [text EXCEPT !.tail = (@ \ {"return"}) \cup {"space"}]

LoadedValue(text) == IF Blank(text) THEN Null ELSE Loaded(text)

\* serializeParameter(): the only value is an attribute, several are <value>
\* elements.  The properties of all the maps of a structure become children of
\* its one element.
ElementOf(p, children, stray) ==
  LET texts == IF p.type = "STRUCTURE" THEN <<>>
               ELSE [i \in DOMAIN p.items |-> Text(p, i - 1, stray)]
  IN  [name     |-> p.name,
       type     |-> CASE p.type = "STRUCTURE" -> "structure"
                      [] p.type = "NONE"      -> ""
                      [] OTHER                -> p.type,
       value    |-> IF Len(texts) = 1 THEN Loaded(texts[1]) ELSE Null,
       values   |-> IF Len(texts) = 1 THEN <<>>
                    ELSE [i \in DOMAIN texts |-> LoadedValue(texts[i])],
       children |-> children]

PropertyElements(props, lists, stray) ==
  LET element[at \in (0 .. MaxNesting) \X Refs] ==
        LET p == props[at[2]]
            Below(m) ==
              IF m = Null THEN <<>>  \* never: SerializeFault
              ELSE [k \in DOMAIN lists[m] |-> element[<<at[1] - 1, lists[m][k]>>]]
            children ==
              IF at[1] = 0 THEN <<>>
              ELSE FlattenSeq([i \in DOMAIN MapItems(p) |-> Below(p.items[i])])
        IN  ElementOf(p, children, stray)
  IN  element

\* A new <properties> section goes to the end of the file; the mode that the
\* caller asks for is ignored.
Section(c, props, lists, stray) ==
  [section  |-> "properties",
   elements |->
     <<[component  |-> UUIDOf[c],
        name       |-> Null,
        properties |-> [k \in DOMAIN lists[c] |->
                          PropertyElements(props, lists, stray)[<<MaxNesting, lists[c][k]>>]]]>>]

\* The values cannot be read, or the file cannot be written.
SerializeFails(c) ==
  /\ Call
  /\ LET fault == FirstFault([k \in DOMAIN entries[c] |->
                               SerializeFault[<<MaxNesting, entries[c][k]>>]])
     IN  result' = IF fault # "_SUCCESS" THEN fault ELSE "_FAIL"
  /\ walk' = Idle
  /\ UNCHANGED <<property, entries, file, saved>>

Serialize(c, f) ==
  /\ Call
  /\ \A r \in ToSet(entries[c]) : SerializeFault[<<MaxNesting, r>>] = "_SUCCESS"
  /\ \E stray \in StrayTexts :
       file' = [file EXCEPT ![f] = Append(IF @ = Null THEN <<>> ELSE @,
                                          Section(c, property, entries, stray))]
  /\ saved' = [saved EXCEPT ![f] = IF file[f] # Null THEN @ ELSE
                [component |-> c, property |-> property, entries |-> entries]]
  /\ result' = "_SUCCESS"
  /\ walk' = Idle
  /\ UNCHANGED <<property, entries>>

Next ==
  \/ UsesProperties
  \/ \E c \in Components, f \in Paths, name \in Instances : Configure(c, f, name)
  \/ VisitElement \/ VisitProperty \/ VisitNoText \/ VisitValue \/ Configured
  \/ \E c \in Components : SerializeFails(c) \/ \E f \in Paths : Serialize(c, f)

Spec == Init /\ [][Next]_vars

(***************************************************************************)
(* Type invariant: a wrapper always has one item, a wrapped member only    *)
(* values of its own width, whatever is narrowed on the way, and no map    *)
(* has two properties of one name.                                         *)
(***************************************************************************)
TypeOK ==
  /\ \A r \in Refs : WellTyped(property[r])
  /\ \A m \in Maps : \A q, r \in ToSet(entries[m]) :
       property[q].name = property[r].name => q = r
  /\ walk.state \in {"idle", "walking", "configured", "failed"}
  /\ walk.state = "configured" => result = "_SUCCESS"
  /\ walk.state = "failed" => result # "_SUCCESS"
  /\ callsLeft \in 0 .. CallBound

(***************************************************************************)
(* A property that is OUT stays OUT: setProperty() copies the access of    *)
(* its argument with the values, so that an argument that is OUT locks the *)
(* property, but never unlocks one.  Of a property that is OUT,            *)
(* setProperty() changes nothing, under whatever name and in whatever map  *)
(* it is reached, and a Property keeps its values whoever calls.  The      *)
(* setters of the wrappers and configure() do change one, although         *)
(* IPropertyMap.h:49 leaves it to the component.                           *)
(***************************************************************************)
OutIsKeptFromSetProperty ==
  [][\A r \in Refs : property[r].access = "OUT" =>
       /\ property'[r].access = "OUT"
       /\ property'[r] # property[r] =>
            /\ property[r].class # "property"
            /\ \A s \in Arguments, stray \in StrayTexts :
                 ~ SetPropertyCopies(s[1], s[2], stray)]_vars
=============================================================================
