----------------------------- MODULE PropertyMap -----------------------------
(***************************************************************************)
(* The property maps of components and of the application, and what the    *)
(* application does with them.  A property is an object in the memory: a   *)
(* reference of it (SRef<IProperty>) may be in several maps, a property of *)
(* type STRUCTURE refers to a map, and the references of maps are copied   *)
(* with the values.                                                        *)
(*                                                                         *)
(* (Definitions marked "Faulty" are variants with a plausible mistake.  No *)
(* specification uses them: put in place of the definition that follows,   *)
(* each makes one of the properties fail.)                                 *)
(***************************************************************************)
EXTENDS Property

CONSTANTS Refs,        \* the property objects
          Maps,        \* the property maps
          SetUps,      \* [property, declared]: the objects and, for each map,
                       \* the objects that the constructors add to it, in order
          Settings,    \* <<r, type, i, value>>: what the application sets
          Resizings,   \* <<r, n>>: the sizes a component gives its vectors
          Arguments    \* <<m, r>>: what is added to a map, or set in it

\* What a wrapped member of the type can hold: integers of its width, texts, or
\* a map.
ItemsOf(t) ==
  CASE t = "INTEGER"     -> -(2^(IntBits - 1)) .. 2^(IntBits - 1) - 1
    [] t = "UINTEGER"    -> 0 .. 2^IntBits - 1
    [] t = "LONG"        -> -(2^(LongBits - 1)) .. 2^(LongBits - 1) - 1
    [] t = "ULONG"       -> 0 .. 2^LongBits - 1
    [] t \in {"FLOAT", "DOUBLE"} -> Int
    [] t \in StringTypes -> Texts
    [] t = "STRUCTURE"   -> Maps \cup {Null}

IsItem(p, x) ==
  IF p.class = "property"
  THEN \/ x = Unset
       \/ x.type \in PropertyTypes /\ (x.type \in StringTypes => x.value \in Texts)
  ELSE x \in ItemsOf(p.type)

\* What a setter for a type can be called with.
Settable(t, v) ==
  t \in PropertyTypes /\ (v \in ItemsOf(t) \/ (t \in StringTypes /\ v = Null))

\* A wrapper has one item, only a Property is without a type, and a Property
\* has one only from a setter of strings.
WellTyped(p) ==
  /\ p.name \in STRING
  /\ p.class \in Classes /\ p.type \in PropertyTypes /\ p.access \in Accesses
  /\ p.class = "wrapper" => Len(p.items) = 1
  /\ IF p.class = "property" THEN p.type \in {"NONE"} \cup StringTypes
                             ELSE p.type # "NONE"
  /\ \A i \in DOMAIN p.items : IsItem(p, p.items[i])

IsSequence(s) == Len(s) \in Nat /\ s = [i \in 1 .. Len(s) |-> s[i]]

ASSUME SetUpsAssumption ==
  \A u \in SetUps :
    /\ u.property = [r \in Refs |-> u.property[r]]
    /\ \A r \in Refs : WellTyped(u.property[r]) /\ IsSequence(u.property[r].items)
    /\ \A m \in Maps : u.declared[m] \in Seq(Refs)

ASSUME SettingsAssumption ==
  /\ \A s \in Settings :
       s[1] \in Refs /\ s[3] \in Nat /\ Settable(s[2], s[4])
  /\ Resizings \subseteq Refs \X Nat
  /\ Arguments \subseteq Maps \X Refs

VARIABLES property,  \* Refs -> property
          entries,   \* m_propertyMap: the properties of a map, in order
          result     \* what the last call returned or threw

mapVars == <<property, entries, result>>

\* Of the properties p, those of a list.
Lists(p, list, name) == \E r \in ToSet(list) : p[r].name = name
Find(p, list, name) == CHOOSE r \in ToSet(list) : p[r].name = name

Named(m, name) == Lists(property, entries[m], name)
At(m, name) == Find(property, entries[m], name)

\* A name that the map has is refused, with _FAIL.
WithEntry(p, list, r) == IF Lists(p, list, p[r].name) THEN list ELSE Append(list, r)

\* The constructors ignore the result of addProperty.
Declared(p, refs) ==
  LET added[k \in 0 .. Len(refs)] ==
        IF k = 0 THEN <<>> ELSE WithEntry(p, added[k - 1], refs[k])
  IN  added[Len(refs)]

MapInit ==
  \E s \in SetUps :
    /\ property = s.property
    /\ entries = [m \in Maps |-> Declared(s.property, s.declared[m])]
    /\ result = "_SUCCESS"

Alive == result # "crash"

(***************************************************************************)
(* A setter called on a property: the application got it from getProperty, *)
(* at or getProperties, and no map stands in the way.                      *)
(***************************************************************************)
SetValue(r, t, i, v) ==
  LET outcome == SetItem(property[r], t, i, v)
  IN  /\ Alive
      /\ property' = [property EXCEPT ![r] = outcome.property]
      /\ result' = outcome.result
      /\ UNCHANGED entries

\* The component resizes a vector of its own that it has declared.
ResizeMember(r, n) ==
  /\ Alive
  /\ property[r].class = "sequence"
  /\ property' = [property EXCEPT ![r] = Resized(@, n)]
  /\ UNCHANGED <<entries, result>>

AddProperty(m, r) ==
  /\ Alive
  /\ entries' = [entries EXCEPT ![m] = WithEntry(property, @, r)]
  /\ result' = IF Named(m, property[r].name) THEN "_FAIL" ELSE "_SUCCESS"
  /\ UNCHANGED property

(***************************************************************************)
(* setProperty(): refused without effect; or the argument is copied, its   *)
(* access as well, and the result of copyTo is forgotten.  The argument    *)
(* may be the very property it is to change.  All that one call reads of   *)
(* dead strings is one text: nothing is said of what such values become.   *)
(***************************************************************************)
Refusal(m, a) ==
  IF Named(m, property[a].name)
     /\ property[At(m, property[a].name)].access = "OUT"
  THEN "AccessDenied" ELSE "invalid_argument"

Accepts(m, a) ==
  /\ Named(m, property[a].name)
  /\ LET r == At(m, property[a].name)
     IN  /\ property[r].access # "OUT"
         /\ Len(property[r].items) = Len(property[a].items)
         /\ property[r].type = property[a].type

SetPropertyRefused(m, a) ==
  /\ Alive
  /\ ~ Accepts(m, a)
  /\ result' = Refusal(m, a)
  /\ UNCHANGED <<property, entries>>

SetPropertyCopies(m, a, stray) ==
  LET r == At(m, property[a].name)
      outcome == CopyTo(property[a], property[r], a = r, stray)
  IN  /\ Alive
      /\ Accepts(m, a)
      /\ property' = [property EXCEPT ![r] = outcome.property]
      /\ result' = IF outcome.result = "_FAIL" THEN "_SUCCESS" ELSE outcome.result
      /\ UNCHANGED entries

SetProperty(m, a) ==
  SetPropertyRefused(m, a) \/ \E stray \in StrayTexts : SetPropertyCopies(m, a, stray)

MapNext ==
  \/ \E s \in Settings : SetValue(s[1], s[2], s[3], s[4])
  \/ \E s \in Resizings : ResizeMember(s[1], s[2])
  \/ \E s \in Arguments : AddProperty(s[1], s[2]) \/ SetProperty(s[1], s[2])
=============================================================================
