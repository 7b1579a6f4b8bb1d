-------------------------- MODULE ConfigurationProofs --------------------------
(***************************************************************************)
(* Proofs about Configuration, for any components, files, application and  *)
(* number of calls: a property that is OUT stays so, the types hold, a     *)
(* configuration makes the assignments of its file in order, and what      *)
(* serialize() wrote is read back.                                         *)
(***************************************************************************)
EXTENDS ConfigurationOrder, WellFoundedInduction, SequenceTheorems, TLAPS

PropertiesAreThere == property = [r \in Refs |-> property[r]]

\* What may become of a property p that is OUT.
Keeps(p, q) == q.access = "OUT" /\ (q # p => p.class # "property")

LEMMA Same == \A p : p.access = "OUT" => Keeps(p, p)
BY DEF Keeps

\* A setter never changes the access, and of a Property that is OUT nothing.
LEMMA SetItemKeeps ==
  ASSUME NEW p, NEW t, NEW i, NEW v, p.access = "OUT"
  PROVE  Keeps(p, SetItem(p, t, i, v).property)
<1>1. \A n, w : WithItem(p, n, w).access = "OUT"
  BY DEF WithItem, With
<1>2. CASE p.class = "wrapper"
  <2>1. SetItem(p, t, i, v) = SetWrapped(p, t, i, v)
    BY <1>2 DEF SetItem
  <2>2. SetWrapped(p, t, i, v).property.access = "OUT"
    BY <1>1 DEF SetWrapped, Done, Thrown
  <2> QED
    BY <1>2, <2>1, <2>2 DEF Keeps
<1>3. CASE p.class = "sequence"
  <2>1. SetItem(p, t, i, v) = SetInSequence(p, t, i, v)
    BY <1>3 DEF SetItem
  <2>2. SetInSequence(p, t, i, v).property.access = "OUT"
    BY <1>1 DEF SetInSequence, Done, Thrown
  <2> QED
    BY <1>3, <2>1, <2>2 DEF Keeps
<1>4. CASE p.class \notin {"wrapper", "sequence"}
  <2>1. SetItem(p, t, i, v) = SetPlain(p, t, i, v)
    BY <1>4 DEF SetItem
  <2>2. SetPlain(p, t, i, v).property = p
    BY DEF SetPlain, Thrown
  <2> QED
    BY <2>1, <2>2, Same
<1> QED
  BY <1>2, <1>3, <1>4

\* configure() calls a setter, or leaves the property as it is.
LEMMA ConfigureValueKeeps ==
  ASSUME NEW p, NEW text, NEW i, p.access = "OUT"
  PROVE  Keeps(p, ConfigureValue(p, text, i).property)
<1> DEFINE numeric == p.type # "CHARSTR"
           set(v) == SetItem(p, p.type, i, v)
           outcome == IF numeric THEN set(Read(p.type, text.number[1])) ELSE set(text)
<1>1. Keeps(p, outcome.property)
  BY SetItemKeeps
<1>2. \/ ConfigureValue(p, text, i).property = p
      \/ ConfigureValue(p, text, i).property = outcome.property
  <2> HIDE DEF outcome
  <2>1. ConfigureValue(p, text, i) =
          IF text = EmptyText THEN Thrown("ConfigurationException", p)
          ELSE IF p.type \in {"NONE", "STRUCTURE"} THEN Thrown("_ERROR_TYPE", p)
          ELSE IF p.type = "UNICODESTR" THEN Thrown("ConfigurationException", p)
          ELSE IF numeric /\ text.number = <<>> THEN Thrown("ConfigurationException", p)
          ELSE IF numeric /\ ~ Parses(p.type, text.number[1])
               THEN Thrown("out_of_range", p)
          ELSE IF outcome.result = "AccessDenied"
                  \/ (outcome.result = "_SUCCESS" /\ numeric /\ text.tail # {})
               THEN Thrown("ConfigurationException", outcome.property)
          ELSE outcome
    BY DEF ConfigureValue, outcome
  <2> QED
    BY <2>1 DEF Thrown
<1> QED
  BY <1>1, <1>2, Same

\* setProperty() does not touch a property that is OUT.
LEMMA CopiesSpareReadOnly ==
  ASSUME PropertiesAreThere, NEW m, NEW a, NEW stray, SetPropertyCopies(m, a, stray),
         NEW r \in Refs, property[r].access = "OUT"
  PROVE  property'[r] = property[r]
<1> DEFINE target == At(m, property[a].name)
           new == CopyTo(property[a], property[target], a = target, stray).property
<1>1. property[target].access # "OUT"
  BY DEF SetPropertyCopies, Accepts
<1>2. property' = [property EXCEPT ![target] = new]
  BY DEF SetPropertyCopies
<1> HIDE DEF target, new
<1> QED
  BY <1>1, <1>2 DEF PropertiesAreThere

\* The new property of one object: the others are as they were.
LEMMA OneReplaced ==
  ASSUME PropertiesAreThere, NEW r, NEW new,
         property' = [property EXCEPT ![r] = new]
  PROVE  /\ PropertiesAreThere'
         /\ \A q \in Refs : property'[q] = IF q = r THEN new ELSE property[q]
BY DEF PropertiesAreThere

LEMMA InitThere == Init => PropertiesAreThere
<1> SUFFICES ASSUME Init PROVE PropertiesAreThere
  OBVIOUS
<1> PICK s \in SetUps : property = s.property
  BY DEF Init, MapInit
<1> QED
  BY SetUpsAssumption DEF PropertiesAreThere
\* One step: the invariant, and what the property promises of that step.
LEMMA StepKeeps ==
  ASSUME PropertiesAreThere, Next
  PROVE  /\ PropertiesAreThere'
         /\ \A r \in Refs : property[r].access = "OUT" => Keeps(property[r], property'[r])
<1> DEFINE Goal == /\ PropertiesAreThere'
                   /\ \A r \in Refs : property[r].access = "OUT"
                                        => Keeps(property[r], property'[r])
<1>1. ASSUME UNCHANGED property PROVE Goal
  BY <1>1, Same DEF PropertiesAreThere
<1>2. ASSUME NEW r, NEW new, property' = [property EXCEPT ![r] = new],
             property[r].access = "OUT" => Keeps(property[r], new)
      PROVE  Goal
  <2>1. /\ PropertiesAreThere'
        /\ \A q \in Refs : property'[q] = IF q = r THEN new ELSE property[q]
    BY <1>2, OneReplaced
  <2> QED
    BY <1>2, <2>1, Same
<1> SUFFICES Goal
  OBVIOUS
<1> HIDE DEF Goal
<1>3. CASE UsesProperties
  <2>1. ASSUME NEW r, NEW t, NEW i, NEW v, SetValue(r, t, i, v) PROVE Goal
    <3>1. property' = [property EXCEPT ![r] = SetItem(property[r], t, i, v).property]
      BY <2>1 DEF SetValue
    <3>2. property[r].access = "OUT"
            => Keeps(property[r], SetItem(property[r], t, i, v).property)
      BY SetItemKeeps
    <3> QED
      BY <1>2, <3>1, <3>2
  <2>2. ASSUME NEW r, NEW n, ResizeMember(r, n) PROVE Goal
    <3>1. property' = [property EXCEPT ![r] = Resized(property[r], n)]
      BY <2>2 DEF ResizeMember
    <3>2. property[r].class = "sequence"
      BY <2>2 DEF ResizeMember
    <3>3. property[r].access = "OUT" => Keeps(property[r], Resized(property[r], n))
      BY <3>2 DEF Keeps, Resized, With
    <3> QED
      BY <1>2, <3>1, <3>3
  <2>3. ASSUME NEW m, NEW r, AddProperty(m, r) PROVE Goal
    BY <1>1, <2>3 DEF AddProperty
  <2>4. ASSUME NEW m, NEW a, SetProperty(m, a) PROVE Goal
    <3>1. CASE SetPropertyRefused(m, a)
      BY <1>1, <3>1 DEF SetPropertyRefused
    <3>2. ASSUME NEW stray \in StrayTexts, SetPropertyCopies(m, a, stray) PROVE Goal
      <4> DEFINE r == At(m, property[a].name)
                 new == CopyTo(property[a], property[r], a = r, stray).property
      <4>1. property[r].access # "OUT" /\ property' = [property EXCEPT ![r] = new]
        BY <3>2 DEF SetPropertyCopies, Accepts
      <4> HIDE DEF r, new
      <4> QED
        BY <1>2, <4>1
    <3> QED
      BY <2>4, <3>1, <3>2 DEF SetProperty
  <2> QED
    BY <1>3, <2>1, <2>2, <2>3, <2>4 DEF UsesProperties, MapNext
<1>4. CASE \E c \in Components, f \in Paths, name \in Instances : Configure(c, f, name)
  BY <1>1, <1>4 DEF Configure, mapVars
<1>5. CASE VisitElement
  BY <1>1, <1>5 DEF VisitElement
<1>6. CASE VisitProperty
  BY <1>1, <1>6 DEF VisitProperty
<1>7. CASE VisitNoText
  BY <1>1, <1>7 DEF VisitNoText
<1>8. CASE VisitValue
  <2> DEFINE n == Head(walk.todo)
             new == ConfigureValue(property[n.ref], n.text, n.index).property
  <2>1. property' = [property EXCEPT ![n.ref] = new]
    BY <1>8 DEF VisitValue
  <2>2. property[n.ref].access = "OUT" => Keeps(property[n.ref], new)
    BY ConfigureValueKeeps
  <2> HIDE DEF n, new
  <2> QED
    BY <1>2, <2>1, <2>2
<1>9. CASE Configured
  BY <1>1, <1>9, Zenon DEF Configured
<1>10. CASE \E c \in Components : SerializeFails(c)
  BY <1>1, <1>10, Zenon DEF SerializeFails
<1>11. CASE \E c \in Components, f \in Paths : Serialize(c, f)
  BY <1>1, <1>11, Zenon DEF Serialize
<1> QED
  BY <1>3, <1>4, <1>5, <1>6, <1>7, <1>8, <1>9, <1>10, <1>11 DEF Next

\* A property that is OUT stays OUT, whatever is called with whatever
\* arguments and whatever the files hold; setProperty() changes nothing of
\* it, and of a Property nobody does.
THEOREM OutPropertiesAreKept == Spec => OutIsKeptFromSetProperty
<1>1. Init => PropertiesAreThere
  BY InitThere
<1>2. PropertiesAreThere /\ [Next]_vars => PropertiesAreThere'
  <2>1. CASE Next
    BY <2>1, StepKeeps
  <2>2. CASE UNCHANGED vars
    BY <2>2 DEF vars, mapVars, PropertiesAreThere
  <2> QED
    BY <2>1, <2>2
<1> DEFINE Promise(r) ==
      property[r].access = "OUT" =>
        /\ property'[r].access = "OUT"
        /\ property'[r] # property[r] =>
             /\ property[r].class # "property"
             /\ \A s \in Arguments, stray \in StrayTexts :
                  ~ SetPropertyCopies(s[1], s[2], stray)
<1>3. PropertiesAreThere /\ [Next]_vars => [\A r \in Refs : Promise(r)]_vars
  <2> SUFFICES ASSUME PropertiesAreThere, Next, NEW r \in Refs,
                      property[r].access = "OUT"
               PROVE  /\ property'[r].access = "OUT"
                      /\ property'[r] # property[r] =>
                           /\ property[r].class # "property"
                           /\ \A s \in Arguments, stray \in StrayTexts :
                                ~ SetPropertyCopies(s[1], s[2], stray)
    OBVIOUS
  <2>1. Keeps(property[r], property'[r])
    BY StepKeeps
  <2>2. \A s \in Arguments, stray \in StrayTexts :
          SetPropertyCopies(s[1], s[2], stray) => property'[r] = property[r]
    BY CopiesSpareReadOnly
  <2> QED
    BY <2>1, <2>2 DEF Keeps
<1> QED
  BY <1>1, <1>2, <1>3, PTL DEF Spec, OutIsKeptFromSetProperty

-----------------------------------------------------------------------------
(* The types.                                                              *)

\* What the operators on properties keep, and take for granted.
Sound(p) == WellTyped(p) /\ IsSequence(p.items)

Becomes(p, q) == q.class = p.class /\ q.name = p.name /\ Sound(q)

LEMMA ItemsOfStrings == \A t \in StringTypes : ItemsOf(t) = Texts
BY DEF ItemsOf, StringTypes

LEMMA EmptyTextIsText == EmptyText \in Texts
BY DEF EmptyText, Texts

LEMMA SequenceOf ==
  ASSUME NEW n \in Nat, NEW s, s = [i \in 1 .. n |-> s[i]]
  PROVE  IsSequence(s) /\ Len(s) = n /\ DOMAIN s = 1 .. n
<1> DEFINE X == {s[i] : i \in 1 .. n}
<1>1. s \in [1 .. n -> X]
  OBVIOUS
<1>2. s \in Seq(X)
  BY <1>1
<1>3. DOMAIN s = 1 .. Len(s) /\ Len(s) \in Nat /\ DOMAIN s = 1 .. n
  BY <1>1, <1>2
<1>4. Len(s) = n
  BY <1>3
<1> QED
  BY <1>3, <1>4 DEF IsSequence

\* The same property with other items.
LEMMA OtherItems ==
  ASSUME NEW p, NEW type, NEW access, NEW items,
         p.name \in STRING, p.class \in Classes, type \in PropertyTypes,
         access \in Accesses, IsSequence(items), p.class = "wrapper" => Len(items) = 1,
         IF p.class = "property" THEN type \in {"NONE"} \cup StringTypes ELSE type # "NONE",
         \A i \in DOMAIN items : IsItem(With(p, type, access, items), items[i])
  PROVE  Becomes(p, With(p, type, access, items))
<1> DEFINE q == With(p, type, access, items)
<1>1. q.class = p.class /\ q.name = p.name /\ q.type = type /\ q.access = access
      /\ q.items = items
  BY DEF With
<1> HIDE DEF q
<1>2. \A i \in DOMAIN items : IsItem(q, items[i])
  BY DEF q
<1>3. WellTyped(q)
  <2>1. q.class = "wrapper" => Len(q.items) = 1
    BY <1>1
  <2>2. IF q.class = "property" THEN q.type \in {"NONE"} \cup StringTypes
                                ELSE q.type # "NONE"
    BY <1>1
  <2> QED
    BY <1>1, <1>2, <2>1, <2>2 DEF WellTyped
<1> QED
  BY <1>1, <1>3 DEF Becomes, Sound, q

LEMMA ItemReplaced ==
  ASSUME NEW p, Sound(p), NEW i, NEW v, IsItem(p, v)
  PROVE  Becomes(p, WithItem(p, i, v))
<1> DEFINE items == ReplaceAt(p.items, i + 1, v)
           n == Len(p.items)
<1>1. n \in Nat /\ p.items = [k \in 1 .. n |-> p.items[k]]
  BY DEF Sound, IsSequence
<1>2. items = [k \in 1 .. n |-> IF k = i + 1 THEN v ELSE p.items[k]]
  BY <1>1 DEF ReplaceAt
<1> HIDE DEF n, items
<1>3. items = [k \in 1 .. n |-> items[k]]
  BY <1>2
<1>4. IsSequence(items) /\ Len(items) = n /\ DOMAIN items = 1 .. n
  BY <1>1, <1>3, SequenceOf
<1>5. \A k \in DOMAIN items : items[k] = v \/ (k \in DOMAIN p.items /\ items[k] = p.items[k])
  BY <1>1, <1>2, <1>4
<1>6. \A k \in DOMAIN items : IsItem(p, items[k])
  BY <1>5 DEF Sound, WellTyped
<1>7. p.class = "wrapper" => Len(items) = 1
  BY <1>4 DEF Sound, WellTyped, n
<1>8. WithItem(p, i, v) = With(p, p.type, p.access, items)
  BY DEF WithItem, items
<1>9. \A k \in DOMAIN items : IsItem(With(p, p.type, p.access, items), items[k])
  BY <1>6 DEF IsItem, With
<1> QED
  BY <1>4, <1>7, <1>8, <1>9, OtherItems DEF Sound, WellTyped

LEMMA SoundStays == \A p : Sound(p) => Becomes(p, p)
BY DEF Becomes

\* A setter called with a value of its type.
LEMMA SetItemTypes ==
  ASSUME NEW p, Sound(p), NEW t, NEW v, Settable(t, v), NEW i
  PROVE  Becomes(p, SetItem(p, t, i, v).property)
<1>1. \A x : Becomes(p, Done(p).property) /\ Becomes(p, Thrown(x, p).property)
  BY SoundStays DEF Done, Thrown
<1> DEFINE set == t = p.type /\ (t \in StringTypes => v # Null)
<1>2. \A n : p.class # "property" /\ set => Becomes(p, WithItem(p, n, v))
  <2>1. p.class # "property" /\ set => IsItem(p, v)
    BY DEF IsItem, Settable
  <2> QED
    BY <2>1, ItemReplaced
<1>3. CASE p.class = "wrapper"
  <2>1. SetItem(p, t, i, v) = SetWrapped(p, t, i, v)
    BY <1>3 DEF SetItem
  <2>2. \/ \E x : SetWrapped(p, t, i, v).property \in {Thrown(x, p).property, Done(p).property}
        \/ set /\ SetWrapped(p, t, i, v).property = WithItem(p, 0, v)
    BY DEF SetWrapped, Done, Thrown
  <2> QED
    BY <1>1, <1>2, <1>3, <2>1, <2>2
<1>4. CASE p.class = "sequence"
  <2>1. SetItem(p, t, i, v) = SetInSequence(p, t, i, v)
    BY <1>4 DEF SetItem
  <2>2. \/ \E x : SetInSequence(p, t, i, v).property \in {Thrown(x, p).property, Done(p).property}
        \/ set /\ SetInSequence(p, t, i, v).property = WithItem(p, i, v)
    BY DEF SetInSequence, Done, Thrown
  <2> QED
    BY <1>1, <1>2, <1>4, <2>1, <2>2
<1>5. CASE p.class = "property"
  <2> DEFINE typed == IF t \in StringTypes THEN CheckType(p, t) ELSE p
             item == [type |-> t, value |-> v]
  <2>1. SetItem(p, t, i, v) = SetPlain(p, t, i, v)
    BY <1>5 DEF SetItem
  <2>2. \/ SetPlain(p, t, i, v).property \in {p, typed}
        \/ v # Null /\ SetPlain(p, t, i, v).property = WithItem(typed, i, item)
    BY DEF SetPlain, Done, Thrown
  <2>3. Becomes(p, typed)
    <3>1. CASE typed = p
      BY <3>1, SoundStays
    <3>2. CASE typed # p
      <4>1. typed = With(p, t, p.access, Cleared(p).items) /\ t \in StringTypes
        BY <3>2 DEF CheckType
      <4>2. Cleared(p).items \in {p.items, <<>>} /\ (p.type # "NONE" => Cleared(p).items = <<>>)
        BY DEF Cleared, With
      <4>3. IsSequence(Cleared(p).items)
        <5>1. IsSequence(<<>>)
          BY DEF IsSequence
        <5> QED
          BY <4>2, <5>1 DEF Sound
      <4>4. \A k \in DOMAIN Cleared(p).items : IsItem(typed, Cleared(p).items[k])
        BY <1>5, <4>1, <4>2 DEF Sound, WellTyped, IsItem, With
      <4> QED
        BY <1>5, <4>1, <4>3, <4>4, OtherItems DEF Sound, WellTyped, StringTypes, PropertyTypes
    <3> QED
      BY <3>1, <3>2
  <2>4. v # Null => IsItem(typed, item)
    BY <1>5, <2>3, ItemsOfStrings DEF IsItem, Becomes, Settable
  <2> HIDE DEF typed, item
  <2>5. v # Null => Becomes(typed, WithItem(typed, i, item))
    BY <2>3, <2>4, ItemReplaced DEF Becomes
  <2> QED
    BY <2>1, <2>2, <2>3, <2>5, SoundStays DEF Becomes
<1> QED
  BY <1>3, <1>4, <1>5 DEF Sound, WellTyped, Classes

\* A number read from a file is narrowed to a value of the width.
LEMMA ReadFits ==
  ASSUME NEW t \in PropertyTypes \ (StringTypes \cup {"NONE", "STRUCTURE"}),
         NEW n, Parses(t, n)
  PROVE  Read(t, n) \in ItemsOf(t)
<1>1. \A bits \in {IntBits, LongBits} : 2^bits \in Nat \ {0}
  BY PowersOfTwo
<1>2. n \in Int
  <2>1. CASE IsSigned(t)
    BY <1>1, <2>1, PowersOfTwo DEF Parses
  <2>2. CASE IsUnsigned(t)
    BY <1>1, <2>2 DEF Parses, IsSigned, IsUnsigned
  <2>3. CASE ~ IsSigned(t) /\ ~ IsUnsigned(t)
    BY <2>3 DEF Parses
  <2> QED
    BY <2>1, <2>2, <2>3
<1>3. ASSUME NEW bits \in {IntBits, LongBits}
      PROVE  /\ n % 2^bits \in 0 .. 2^bits - 1
             /\ Signed(n, bits) \in -(2^(bits - 1)) .. 2^(bits - 1) - 1
  <2> DEFINE all == 2^bits
             half == 2^(bits - 1)
  <2>1. half \in Nat \ {0} /\ all = 2 * half
    BY PowersOfTwo
  <2>2. Signed(n, bits) = IF n % all >= half THEN (n % all) - all ELSE n % all
    BY DEF Signed
  <2> HIDE DEF all, half
  <2>3. all \in Nat \ {0}
    BY <2>1
  <2>4. n % all \in 0 .. all - 1
    BY <1>2, <2>3
  <2>5. Signed(n, bits) \in -half .. half - 1
    BY <2>1, <2>2, <2>4
  <2> QED
    BY <2>4, <2>5 DEF all, half
<1>4. CASE t = "INTEGER"
  <2>1. Read(t, n) = Signed(n, IntBits)
    BY <1>4 DEF Read, IsSigned, IsUnsigned, WidthOf
  <2>2. ItemsOf(t) = -(2^(IntBits - 1)) .. 2^(IntBits - 1) - 1
    BY <1>4 DEF ItemsOf
  <2> QED
    BY <1>3, <2>1, <2>2
<1>5. CASE t = "LONG"
  <2>1. Read(t, n) = Signed(n, LongBits)
    BY <1>5 DEF Read, IsSigned, IsUnsigned, WidthOf
  <2>2. ItemsOf(t) = -(2^(LongBits - 1)) .. 2^(LongBits - 1) - 1
    BY <1>5 DEF ItemsOf
  <2> QED
    BY <1>3, <2>1, <2>2
<1>6. CASE t = "UINTEGER"
  <2>1. Read(t, n) = n % 2^IntBits
    BY <1>6 DEF Read, IsSigned, IsUnsigned, WidthOf
  <2>2. ItemsOf(t) = 0 .. 2^IntBits - 1
    BY <1>6 DEF ItemsOf
  <2> QED
    BY <1>3, <2>1, <2>2
<1>7. CASE t = "ULONG"
  <2>1. Read(t, n) = n % 2^LongBits
    BY <1>7 DEF Read, IsSigned, IsUnsigned, WidthOf
  <2>2. ItemsOf(t) = 0 .. 2^LongBits - 1
    BY <1>7 DEF ItemsOf
  <2> QED
    BY <1>3, <2>1, <2>2
<1>8. CASE t \in {"FLOAT", "DOUBLE"}
  BY <1>2, <1>8 DEF Read, IsSigned, IsUnsigned, ItemsOf
<1> QED
  BY <1>4, <1>5, <1>6, <1>7, <1>8 DEF PropertyTypes, StringTypes

\* configure() sets what it has read, or changes nothing.
LEMMA ConfigureValueTypes ==
  ASSUME NEW p, Sound(p), NEW text \in Texts, NEW i
  PROVE  Becomes(p, ConfigureValue(p, text, i).property)
<1> DEFINE numeric == p.type # "CHARSTR"
           set(v) == SetItem(p, p.type, i, v)
           outcome == IF numeric THEN set(Read(p.type, text.number[1])) ELSE set(text)
           settable == /\ p.type \notin {"NONE", "STRUCTURE", "UNICODESTR"}
                       /\ numeric => Parses(p.type, text.number[1])
<1>1. \/ ConfigureValue(p, text, i).property = p
      \/ settable /\ ConfigureValue(p, text, i).property = outcome.property
  <2> HIDE DEF outcome
  <2>1. ConfigureValue(p, text, i) =
          IF text = EmptyText THEN Thrown("ConfigurationException", p)
          ELSE IF p.type \in {"NONE", "STRUCTURE"} THEN Thrown("_ERROR_TYPE", p)
          ELSE IF p.type = "UNICODESTR" THEN Thrown("ConfigurationException", p)
          ELSE IF numeric /\ text.number = <<>> THEN Thrown("ConfigurationException", p)
          ELSE IF numeric /\ ~ Parses(p.type, text.number[1])
               THEN Thrown("out_of_range", p)
          ELSE IF outcome.result = "AccessDenied"
                  \/ (outcome.result = "_SUCCESS" /\ numeric /\ text.tail # {})
               THEN Thrown("ConfigurationException", outcome.property)
          ELSE outcome
    BY DEF ConfigureValue, outcome
  <2> QED
    BY <2>1 DEF Thrown
<1>2. p.type \in PropertyTypes
  BY DEF Sound, WellTyped
<1>3. ASSUME settable PROVE Becomes(p, outcome.property)
  <2>1. CASE numeric
    <3>1. Read(p.type, text.number[1]) \in ItemsOf(p.type)
      BY <1>2, <1>3, <2>1, ReadFits DEF StringTypes
    <3>2. Settable(p.type, Read(p.type, text.number[1]))
      BY <1>2, <3>1 DEF Settable
    <3> QED
      BY <2>1, <3>2, SetItemTypes
  <2>2. CASE ~ numeric
    <3>1. Settable(p.type, text)
      BY <1>2, <2>2, ItemsOfStrings DEF Settable, StringTypes
    <3> QED
      BY <2>2, <3>1, SetItemTypes
  <2> QED
    BY <2>1, <2>2
<1> HIDE DEF outcome, settable
<1> QED
  BY <1>1, <1>3, SoundStays

\* A vector that is resized, a Property that loses its values.
LEMMA ResizedTypes ==
  ASSUME NEW p, Sound(p), p.class # "wrapper", NEW n \in Nat
  PROVE  Becomes(p, Resized(p, n))
<1> DEFINE items == [i \in 1 .. n |-> IF i <= Len(p.items) THEN p.items[i] ELSE DefaultItem(p)]
<1>1. IsItem(p, DefaultItem(p))
  <2>1. CASE p.class = "property"
    BY <2>1 DEF DefaultItem, IsItem
  <2>2. CASE p.class # "property" /\ p.type \in StringTypes
    <3>1. DefaultItem(p) = EmptyText
      BY <2>2 DEF DefaultItem, StringTypes
    <3> QED
      BY <2>2, <3>1, ItemsOfStrings, EmptyTextIsText DEF IsItem
  <2>3. CASE p.class # "property" /\ p.type = "STRUCTURE"
    <3>1. DefaultItem(p) = Null
      BY <2>3 DEF DefaultItem, StringTypes
    <3>2. ItemsOf(p.type) = Maps \cup {Null}
      BY <2>3 DEF ItemsOf
    <3> QED
      BY <2>3, <3>1, <3>2 DEF IsItem
  <2>4. CASE p.class # "property" /\ p.type \notin StringTypes \cup {"STRUCTURE"}
    <3>1. DefaultItem(p) = 0
      BY <2>4 DEF DefaultItem
    <3>2. 0 \in ItemsOf(p.type)
      <4>1. p.type \in PropertyTypes \ (StringTypes \cup {"STRUCTURE", "NONE"})
        BY <2>4 DEF Sound, WellTyped
      <4>2. \A bits \in {IntBits, LongBits} :
              0 \in -(2^(bits - 1)) .. 2^(bits - 1) - 1 /\ 0 \in 0 .. 2^bits - 1
        BY PowersOfTwo
      <4>3. CASE p.type = "INTEGER"
        BY <4>2, <4>3 DEF ItemsOf, StringTypes
      <4>4. CASE p.type = "UINTEGER"
        BY <4>2, <4>4 DEF ItemsOf, StringTypes
      <4>5. CASE p.type = "LONG"
        BY <4>2, <4>5 DEF ItemsOf, StringTypes
      <4>6. CASE p.type = "ULONG"
        BY <4>2, <4>6 DEF ItemsOf, StringTypes
      <4>7. CASE p.type \in {"FLOAT", "DOUBLE"}
        BY <4>7 DEF ItemsOf, StringTypes
      <4> QED
        BY <4>1, <4>3, <4>4, <4>5, <4>6, <4>7 DEF PropertyTypes, StringTypes
    <3> QED
      BY <2>4, <3>1, <3>2 DEF IsItem
  <2> QED
    BY <2>1, <2>2, <2>3, <2>4
<1>2. Len(p.items) \in Nat /\ DOMAIN p.items = 1 .. Len(p.items)
  BY DEF Sound, IsSequence
<1>3. items = [i \in 1 .. n |-> items[i]]
  OBVIOUS
<1>4. IsSequence(items) /\ DOMAIN items = 1 .. n
  <2> HIDE DEF items
  <2> QED
    BY <1>3, SequenceOf
<1>5. \A i \in DOMAIN items : items[i] = DefaultItem(p)
                              \/ (i \in DOMAIN p.items /\ items[i] = p.items[i])
  BY <1>2, <1>4
<1>6. Resized(p, n) = With(p, p.type, p.access, items)
  BY DEF Resized
<1> HIDE DEF items
<1>7. \A i \in DOMAIN items : IsItem(p, items[i])
  BY <1>1, <1>5 DEF Sound, WellTyped
<1>8. \A i \in DOMAIN items : IsItem(With(p, p.type, p.access, items), items[i])
  BY <1>7 DEF IsItem, With
<1> QED
  BY <1>4, <1>6, <1>8, OtherItems DEF Sound, WellTyped

LEMMA SetPropertiesTypes ==
  ASSUME NEW p, Sound(p), NEW n \in Nat, NEW access \in Accesses
  PROVE  /\ Becomes(p, SetProperties(p, n, access))
         /\ p.class # "property" => SetProperties(p, n, access).type = p.type
<1> DEFINE q == CASE p.class = "wrapper"  -> p
                  [] p.class = "sequence" -> Resized(p, n)
                  [] OTHER                -> Resized(Cleared(p), n)
<1>1. Becomes(p, q) /\ (p.class # "property" => q.type = p.type)
  <2>1. CASE p.class = "wrapper"
    BY <2>1, SoundStays
  <2>2. CASE p.class = "sequence"
    <3>1. q = Resized(p, n)
      BY <2>2
    <3> QED
      BY <2>2, <3>1, ResizedTypes DEF Resized, With
  <2>3. CASE p.class = "property"
    <3>1. q = Resized(Cleared(p), n)
      BY <2>3
    <3>2. Becomes(p, Cleared(p))
      <4>1. IsSequence(<<>>)
        BY DEF IsSequence
      <4>2. Cleared(p) = p \/ Cleared(p) = With(p, "NONE", p.access, <<>>)
        BY DEF Cleared
      <4> QED
        BY <2>3, <4>1, <4>2, SoundStays, OtherItems
           DEF Sound, WellTyped, PropertyTypes
    <3>3. Becomes(Cleared(p), Resized(Cleared(p), n))
      BY <2>3, <3>2, ResizedTypes DEF Becomes
    <3> QED
      BY <2>3, <3>1, <3>2, <3>3 DEF Becomes
  <2> QED
    BY <2>1, <2>2, <2>3 DEF Sound, WellTyped, Classes
<1>2. SetProperties(p, n, access) = p
      \/ SetProperties(p, n, access) = With(q, q.type, access, q.items)
  BY DEF SetProperties
<1> HIDE DEF q
<1>3. Becomes(q, With(q, q.type, access, q.items))
  <2>1. Sound(q)
    BY <1>1 DEF Becomes
  <2>2. \A i \in DOMAIN q.items : IsItem(With(q, q.type, access, q.items), q.items[i])
    BY <2>1 DEF Sound, WellTyped, IsItem, With
  <2> QED
    BY <2>1, <2>2, OtherItems DEF Sound, WellTyped
<1> QED
  BY <1>1, <1>2, <1>3, SoundStays DEF Becomes, With

-----------------------------------------------------------------------------
(* Recursion over sequences.                                               *)

LEMMA StepByStep ==
  ASSUME NEW n \in Nat, NEW T, 0 \in T, \A k \in 0 .. n - 1 : k \in T => k + 1 \in T
  PROVE  0 .. n \subseteq T
<1> DEFINE Less == OpToRel(<, Nat)
           Out == {k \in 0 .. n : k \notin T}
<1> SUFFICES ASSUME Out # {} PROVE FALSE
  OBVIOUS
<1>1. Less = {pair \in Nat \X Nat : pair[1] < pair[2]}
  BY DEF OpToRel
<1>2. IsWellFoundedOn(Less, Nat)
  BY NatLessThanWellFounded
<1>3. Out \subseteq Nat
  OBVIOUS
<1> HIDE DEF Less
<1>4. PICK x \in Out : \A y \in Out : ~(<<y, x>> \in Less)
  BY <1>2, <1>3, WFMin
<1>5. x # 0 /\ x - 1 \in 0 .. n - 1
  OBVIOUS
<1>6. <<x - 1, x>> \in Less
  BY <1>1, <1>5
<1>7. x - 1 \in T
  BY <1>4, <1>5, <1>6
<1> QED
  BY <1>5, <1>7

\* The outcomes after each of the items that are copied.
Copies(copied, s, d, n, stray) ==
  copied = [i \in 0 .. n |->
              IF i = 0 THEN Done(d) ELSE CopyItem(s, copied[i - 1], i, stray)]

LEMMA ItemsAreCopied ==
  ASSUME NEW s, NEW d, NEW stray, Len(s.items) \in Nat
  PROVE  \E copied : /\ Copies(copied, s, d, Len(s.items), stray)
                     /\ CopyItems(s, d, stray) = copied[Len(s.items)]
<1> DEFINE n == Len(s.items)
           T == {k \in 0 .. n : \E copied : Copies(copied, s, d, k, stray)}
           all == CHOOSE copied : Copies(copied, s, d, n, stray)
<1>1. 0 \in T
  <2> DEFINE copied == [i \in 0 .. 0 |-> Done(d)]
  <2>1. Copies(copied, s, d, 0, stray)
    BY DEF Copies
  <2> QED
    BY <2>1
<1>2. ASSUME NEW k \in 0 .. n - 1, k \in T PROVE k + 1 \in T
  <2>1. PICK before : Copies(before, s, d, k, stray)
    BY <1>2
  <2> DEFINE copied == [i \in 0 .. k + 1 |->
                          IF i = k + 1 THEN CopyItem(s, before[k], k + 1, stray)
                                       ELSE before[i]]
  <2>2. ASSUME NEW i \in 0 .. k + 1
        PROVE  copied[i] = IF i = 0 THEN Done(d) ELSE CopyItem(s, copied[i - 1], i, stray)
    <3>1. CASE i = k + 1
      BY <3>1
    <3>2. CASE i \in 0 .. k
      <4>1. before[i] = IF i = 0 THEN Done(d) ELSE CopyItem(s, before[i - 1], i, stray)
        BY <2>1, <3>2 DEF Copies
      <4>2. i # 0 => copied[i - 1] = before[i - 1]
        BY <3>2
      <4> QED
        BY <3>2, <4>1, <4>2
    <3> QED
      BY <3>1, <3>2
  <2>3. Copies(copied, s, d, k + 1, stray)
    BY <2>2 DEF Copies
  <2> QED
    BY <1>2, <2>3
<1>3. n \in T
  <2> HIDE DEF T
  <2>1. 0 .. n \subseteq T
    BY <1>1, <1>2, StepByStep
  <2> QED
    BY <2>1
<1>4. Copies(all, s, d, n, stray)
  BY <1>3
<1>5. CopyItems(s, d, stray) = all[n]
  BY DEF CopyItems, Copies
<1> QED
  BY <1>4, <1>5

\* What is copied of a property has its type: a value of the width, or a text.
LEMMA CopyItemTypes ==
  ASSUME NEW s, Sound(s), s.type \in CopiedTypes, NEW d, NEW outcome,
         Becomes(d, outcome.property), NEW i \in 1 .. Len(s.items),
         NEW stray \in StrayTexts
  PROVE  Becomes(d, CopyItem(s, outcome, i, stray).property)
<1> DEFINE item == Item(s, i - 1, stray)
<1>1. \/ CopyItem(s, outcome, i, stray).property = outcome.property
      \/ /\ item.result = "_SUCCESS"
         /\ CopyItem(s, outcome, i, stray)
              = SetItem(outcome.property, s.type, i - 1, item.value)
  BY DEF CopyItem, Thrown
<1>2. item.result = "_SUCCESS" => Settable(s.type, item.value)
  <2>1. CASE s.class = "property"
    <3>1. i \in DOMAIN s.items /\ i - 1 + 1 = i
      BY DEF Sound, IsSequence
    <3>2. IsItem(s, s.items[i]) /\ s.type \in StringTypes /\ s.type \in PropertyTypes
      BY <2>1, <3>1 DEF Sound, WellTyped, CopiedTypes
    <3>3. ItemsOf(s.type) = Texts
      BY <3>2, ItemsOfStrings
    <3>4. item = PlainItem(s, i - 1, stray)
      BY <2>1 DEF Item
    <3>5. PlainItem(s, i - 1, stray) =
            IF s.access = "IN" THEN [result |-> "_SUCCESS", value |-> Null]
            ELSE IF s.items[i] # Unset /\ s.items[i].type = s.type
                 THEN [result |-> "_SUCCESS", value |-> stray]
            ELSE [result |-> "bad_any_cast", value |-> Null]
      BY <3>1 DEF PlainItem
    <3>6. item.result = "_SUCCESS" => item.value = Null \/ item.value = stray
      <4> HIDE DEF item
      <4> QED
        BY <3>4, <3>5
    <3> HIDE DEF item
    <3> QED
      BY <3>2, <3>3, <3>6, StrayTextsAssumption DEF Settable
  <2>2. CASE s.class # "property"
    <3>1. i \in DOMAIN s.items /\ i - 1 + 1 = i
      BY DEF Sound, IsSequence
    <3>2. item.value = s.items[i]
      BY <2>2, <3>1 DEF Item, WrappedItem
    <3> QED
      BY <2>2, <3>1, <3>2 DEF Settable, Sound, WellTyped, IsItem
  <2> QED
    BY <2>1, <2>2
<1> HIDE DEF item
<1>3. item.result = "_SUCCESS" =>
        Becomes(outcome.property, SetItem(outcome.property, s.type, i - 1, item.value).property)
  BY <1>2, SetItemTypes DEF Becomes
<1> QED
  BY <1>1, <1>3 DEF Becomes

LEMMA CopyToTypes ==
  ASSUME NEW s, Sound(s), NEW d, Sound(d), NEW aliased, aliased => s = d,
         NEW stray \in StrayTexts
  PROVE  Becomes(d, CopyTo(s, d, aliased, stray).property)
<1> DEFINE n == Len(s.items)
           dest == SetProperties(d, n, s.access)
           src == IF aliased THEN dest ELSE s
<1>1. n \in Nat /\ s.access \in Accesses
  BY DEF Sound, WellTyped, IsSequence
<1>2. Becomes(d, dest)
  BY <1>1, SetPropertiesTypes
<1>3. Sound(src)
  BY <1>2 DEF Becomes
<1>4. CopyTo(s, d, aliased, stray).property = dest
      \/ /\ src.type \in CopiedTypes
         /\ CopyTo(s, d, aliased, stray) = CopyItems(src, dest, stray)
  BY DEF CopyTo, Thrown
<1> HIDE DEF n, dest, src
<1>5. ASSUME src.type \in CopiedTypes
      PROVE  Becomes(d, CopyItems(src, dest, stray).property)
  <2> DEFINE last == Len(src.items)
  <2>1. last \in Nat
    BY <1>3 DEF Sound, IsSequence
  <2>2. PICK copied : /\ Copies(copied, src, dest, last, stray)
                      /\ CopyItems(src, dest, stray) = copied[last]
    BY <2>1, ItemsAreCopied
  <2> DEFINE T == {i \in 0 .. last : Becomes(d, copied[i].property)}
  <2>3. 0 \in T
    BY <1>2, <2>1, <2>2 DEF Copies, Done
  <2>4. ASSUME NEW k \in 0 .. last - 1, k \in T PROVE k + 1 \in T
    <3>1. copied[k + 1] = CopyItem(src, copied[k], k + 1, stray) /\ k + 1 \in 1 .. last
      BY <2>1, <2>2 DEF Copies
    <3>2. Becomes(d, CopyItem(src, copied[k], k + 1, stray).property)
      BY <1>3, <1>5, <2>4, <3>1, CopyItemTypes
    <3> QED
      BY <3>1, <3>2
  <2>5. last \in T
    <3> HIDE DEF T, last
    <3>1. 0 .. last \subseteq T
      BY <2>1, <2>3, <2>4, StepByStep
    <3> QED
      BY <2>1, <3>1
  <2> QED
    BY <2>2, <2>5
<1> QED
  BY <1>2, <1>4, <1>5

-----------------------------------------------------------------------------
(* Sequences of sequences.                                                 *)

Joined(s, t) == s \o t

LEMMA JoinedFacts ==
  ASSUME NEW S
  PROVE  /\ <<>> \in Seq(S)
         /\ \A s, t \in Seq(S) : Joined(s, t) \in Seq(S)
         /\ \A s \in Seq(S) : Joined(s, <<>>) = s /\ Joined(<<>>, s) = s
         /\ \A s, t, u \in Seq(S) : Joined(Joined(s, t), u) = Joined(s, Joined(t, u))
<1>1. \A s, t \in Seq(S) : Joined(s, t) \in Seq(S)
  BY ConcatProperties DEF Joined
<1>2. \A s \in Seq(S) : Joined(s, <<>>) = s /\ Joined(<<>>, s) = s
  BY ConcatEmptySeq, Zenon DEF Joined
<1>3. \A s, t, u \in Seq(S) : Joined(Joined(s, t), u) = Joined(s, Joined(t, u))
  <2> SUFFICES ASSUME NEW s \in Seq(S), NEW t \in Seq(S), NEW u \in Seq(S)
               PROVE  (s \o t) \o u = s \o (t \o u)
    BY DEF Joined
  <2> QED
    BY ConcatAssociative
<1> QED
  BY <1>1, <1>2, <1>3, EmptySeq

\* The first of the sequences one after the other, for each number of them.
Flattens(f, ss, n) ==
  f = [i \in 1 .. n |-> IF i = 1 THEN ss[i] ELSE Joined(f[i - 1], ss[i])]

LEMMA FlatteningExists ==
  ASSUME NEW ss, NEW n \in Nat PROVE \E f : Flattens(f, ss, n + 1)
<1> DEFINE T == {k \in 0 .. n : \E f : Flattens(f, ss, k + 1)}
<1>1. 0 \in T
  <2> DEFINE f == [i \in 1 .. 1 |-> ss[i]]
  <2>1. Flattens(f, ss, 0 + 1)
    BY DEF Flattens
  <2> QED
    BY <2>1
<1>2. ASSUME NEW k \in 0 .. n - 1, k \in T PROVE k + 1 \in T
  <2>1. PICK before : Flattens(before, ss, k + 1)
    BY <1>2
  <2> DEFINE f == [i \in 1 .. k + 2 |->
                     IF i = k + 2 THEN Joined(before[k + 1], ss[k + 2]) ELSE before[i]]
  <2>2. ASSUME NEW i \in 1 .. k + 2
        PROVE  f[i] = IF i = 1 THEN ss[i] ELSE Joined(f[i - 1], ss[i])
    <3>1. CASE i = k + 2
      <4>1. f[i - 1] = before[k + 1] /\ i # 1
        BY <3>1
      <4> QED
        BY <3>1, <4>1
    <3>2. CASE i \in 1 .. k + 1
      <4>1. before[i] = IF i = 1 THEN ss[i] ELSE Joined(before[i - 1], ss[i])
        BY <2>1, <3>2 DEF Flattens
      <4>2. i # 1 => f[i - 1] = before[i - 1]
        BY <3>2
      <4> QED
        BY <3>2, <4>1, <4>2
    <3> QED
      BY <3>1, <3>2
  <2>3. Flattens(f, ss, k + 1 + 1)
    BY <2>2 DEF Flattens
  <2> QED
    BY <1>2, <2>3
<1> QED
  <2> HIDE DEF T
  <2>1. 0 .. n \subseteq T
    BY <1>1, <1>2, StepByStep
  <2> QED
    BY <2>1 DEF T

\* Partly(f, ss): what the first sequences are, one after the other.
Partly(f, ss) ==
  /\ f[0] = <<>>
  /\ \A i \in 1 .. Len(ss) : f[i] = Joined(f[i - 1], ss[i])

LEMMA FlattenSteps ==
  ASSUME NEW S, NEW ss \in Seq(Seq(S))
  PROVE  \E f : /\ Partly(f, ss) /\ FlattenSeq(ss) = f[Len(ss)]
                /\ \A i \in 0 .. Len(ss) : f[i] \in Seq(S)
<1> DEFINE n == Len(ss)
<1>1. n \in Nat /\ \A i \in 1 .. n : ss[i] \in Seq(S)
  OBVIOUS
<1>2. CASE n = 0
  <2> DEFINE f == [i \in {0} |-> <<>>]
  <2>1. FlattenSeq(ss) = <<>> /\ f[0] = <<>> /\ <<>> \in Seq(S)
    BY <1>2 DEF FlattenSeq
  <2>2. Partly(f, ss)
    BY <1>2, <2>1 DEF Partly
  <2> QED
    BY <1>2, <2>1, <2>2
<1>3. CASE n # 0
  <2> DEFINE all == CHOOSE g : Flattens(g, ss, n)
             f == [i \in 0 .. n |-> IF i = 0 THEN <<>> ELSE all[i]]
  <2>1. Flattens(all, ss, n)
    <3>1. n - 1 \in Nat /\ n - 1 + 1 = n
      BY <1>1, <1>3
    <3> HIDE DEF n
    <3> QED
      BY <3>1, FlatteningExists
  <2>2. FlattenSeq(ss) = all[n]
    BY <1>3 DEF FlattenSeq, Flattens, Joined
  <2> HIDE DEF all
  <2>3. all[1] = Joined(<<>>, ss[1]) /\ \A i \in 2 .. n : all[i] = Joined(all[i - 1], ss[i])
    <3>1. all[1] = ss[1] /\ \A i \in 2 .. n : all[i] = Joined(all[i - 1], ss[i])
      <4>1. 1 \in 1 .. n /\ \A i \in 2 .. n : i \in 1 .. n /\ i # 1
        BY <1>1, <1>3
      <4> HIDE DEF n
      <4>2. \A i \in 1 .. n : all[i] = IF i = 1 THEN ss[i] ELSE Joined(all[i - 1], ss[i])
        BY <2>1 DEF Flattens
      <4> QED
        BY <4>1, <4>2
    <3>2. ss[1] \in Seq(S)
      BY <1>1, <1>3
    <3>3. ss[1] = Joined(<<>>, ss[1])
      BY <3>2, JoinedFacts
    <3> QED
      BY <3>1, <3>3
  <2>4. Partly(f, ss)
    <3>1. ASSUME NEW i \in 1 .. n PROVE f[i] = Joined(f[i - 1], ss[i])
      <4>1. CASE i = 1
        BY <2>3, <4>1
      <4>2. CASE i \in 2 .. n
        BY <2>3, <4>2
      <4> QED
        BY <4>1, <4>2
    <3>2. f[0] = <<>>
      BY <1>1
    <3> QED
      BY <3>1, <3>2 DEF Partly
  <2>5. \A i \in 0 .. n : f[i] \in Seq(S)
    <3> DEFINE T == {i \in 0 .. n : f[i] \in Seq(S)}
    <3> HIDE DEF f, n
    <3>1. 0 \in T
      <4>1. f[0] = <<>> /\ <<>> \in Seq(S) /\ 0 \in 0 .. n
        BY <1>1, <2>4 DEF Partly
      <4> QED
        BY <4>1
    <3>2. ASSUME NEW k \in 0 .. n - 1, k \in T PROVE k + 1 \in T
      <4>1. f[k + 1] = Joined(f[k], ss[k + 1]) /\ k + 1 \in 1 .. n /\ k + 1 \in 0 .. n
        BY <1>1, <2>4 DEF Partly, n
      <4>2. ss[k + 1] \in Seq(S) /\ f[k] \in Seq(S)
        BY <1>1, <3>2, <4>1
      <4>3. Joined(f[k], ss[k + 1]) \in Seq(S)
        <5> DEFINE s == f[k]
                   t == ss[k + 1]
        <5>1. s \in Seq(S) /\ t \in Seq(S)
          BY <4>2
        <5> HIDE DEF s, t
        <5>2. Joined(s, t) \in Seq(S)
          BY <5>1, JoinedFacts
        <5> QED
          BY <5>2 DEF s, t
      <4> QED
        BY <4>1, <4>3
    <3> HIDE DEF T
    <3>3. 0 .. n \subseteq T
      BY <1>1, <3>1, <3>2, StepByStep
    <3> QED
      BY <3>3 DEF T
  <2>6. FlattenSeq(ss) = f[n]
    BY <1>1, <1>3, <2>2
  <2> HIDE DEF f
  <2> QED
    BY <2>4, <2>5, <2>6
<1> QED
  BY <1>2, <1>3

LEMMA FlattenType ==
  ASSUME NEW S, NEW ss \in Seq(Seq(S)) PROVE FlattenSeq(ss) \in Seq(S)
BY FlattenSteps

LEMMA FlattenNone == FlattenSeq(<<>>) = <<>>
BY DEF FlattenSeq

LEMMA FlattenOne ==
  ASSUME NEW S, NEW s \in Seq(S) PROVE FlattenSeq(<<s>>) = s
<1>1. <<s>> \in Seq(Seq(S)) /\ Len(<<s>>) = 1 /\ <<s>>[1] = s
  OBVIOUS
<1>2. PICK f : Partly(f, <<s>>) /\ FlattenSeq(<<s>>) = f[1]
  BY <1>1, FlattenSteps
<1>3. f[1] = Joined(<<>>, s)
  BY <1>1, <1>2 DEF Partly
<1> QED
  BY <1>2, <1>3, JoinedFacts

LEMMA FlattenConcat ==
  ASSUME NEW S, NEW ss \in Seq(Seq(S)), NEW tt \in Seq(Seq(S))
  PROVE  FlattenSeq(ss \o tt) = FlattenSeq(ss) \o FlattenSeq(tt)
<1> DEFINE m == Len(ss)
           n == Len(tt)
           all == ss \o tt
<1>1. /\ m \in Nat /\ n \in Nat /\ all \in Seq(Seq(S)) /\ Len(all) = m + n
      /\ \A i \in 1 .. m : all[i] = ss[i]
      /\ \A i \in 1 .. n : all[m + i] = tt[i]
  <2>1. m \in Nat /\ n \in Nat /\ all \in Seq(Seq(S)) /\ Len(all) = m + n
    BY ConcatProperties
  <2>2. \A i \in 1 .. m + n : all[i] = IF i <= m THEN ss[i] ELSE tt[i - m]
    BY ConcatProperties
  <2> HIDE DEF all, m, n
  <2>3. \A i \in 1 .. m : all[i] = ss[i]
    BY <2>1, <2>2
  <2>4. ASSUME NEW i \in 1 .. n PROVE all[m + i] = tt[i]
    <3>1. m + i \in 1 .. m + n /\ ~ (m + i <= m) /\ (m + i) - m = i
      BY <2>1
    <3> QED
      BY <2>2, <3>1
  <2> QED
    BY <2>1, <2>3, <2>4
<1>2. PICK f : /\ Partly(f, all) /\ FlattenSeq(all) = f[m + n]
  BY <1>1, FlattenSteps
<1>3. PICK g : /\ Partly(g, ss) /\ FlattenSeq(ss) = g[m]
               /\ \A i \in 0 .. m : g[i] \in Seq(S)
  BY FlattenSteps
<1>4. PICK h : /\ Partly(h, tt) /\ FlattenSeq(tt) = h[n]
               /\ \A i \in 0 .. n : h[i] \in Seq(S)
  BY FlattenSteps
<1>5. \A i \in 1 .. n : tt[i] \in Seq(S)
  OBVIOUS
<1>6. /\ f[0] = <<>> /\ g[0] = <<>> /\ h[0] = <<>>
      /\ \A i \in 1 .. m + n : f[i] = Joined(f[i - 1], all[i])
      /\ \A i \in 1 .. m : g[i] = Joined(g[i - 1], ss[i])
      /\ \A i \in 1 .. n : h[i] = Joined(h[i - 1], tt[i])
  BY <1>1, <1>2, <1>3, <1>4 DEF Partly
<1> HIDE DEF m, n, all
<1>7. f[m] = g[m]
  <2> DEFINE T == {k \in 0 .. m : f[k] = g[k]}
  <2>1. 0 \in T
    BY <1>1, <1>6
  <2>2. ASSUME NEW k \in 0 .. m - 1, k \in T PROVE k + 1 \in T
    <3>1. k + 1 \in 1 .. m /\ k + 1 \in 1 .. m + n /\ (k + 1) - 1 = k
      BY <1>1
    <3> QED
      BY <1>1, <1>6, <2>2, <3>1
  <2> HIDE DEF T
  <2>3. 0 .. m \subseteq T
    BY <1>1, <2>1, <2>2, StepByStep
  <2> QED
    BY <1>1, <2>3 DEF T
<1>8. f[m + n] = Joined(g[m], h[n])
  <2> DEFINE T == {k \in 0 .. n : f[m + k] = Joined(g[m], h[k])}
  <2>1. 0 \in T
    <3>1. g[m] \in Seq(S)
      BY <1>1, <1>3 DEF m
    <3>2. Joined(g[m], <<>>) = g[m]
      BY <3>1, JoinedFacts
    <3> QED
      BY <1>1, <1>6, <1>7, <3>2
  <2>2. ASSUME NEW k \in 0 .. n - 1, k \in T PROVE k + 1 \in T
    <3>1. /\ k + 1 \in 1 .. n /\ k \in 0 .. n /\ m + (k + 1) \in 1 .. m + n
          /\ (k + 1) - 1 = k /\ (m + (k + 1)) - 1 = m + k /\ m \in 0 .. m
      BY <1>1
    <3>2. f[m + (k + 1)] = Joined(Joined(g[m], h[k]), tt[k + 1])
      BY <1>1, <1>6, <2>2, <3>1
    <3>3. g[m] \in Seq(S) /\ h[k] \in Seq(S) /\ tt[k + 1] \in Seq(S)
      BY <1>3, <1>4, <1>5, <3>1
    <3>4. f[m + (k + 1)] = Joined(g[m], Joined(h[k], tt[k + 1]))
      <4> DEFINE a == g[m]
                 b == h[k]
                 c == tt[k + 1]
      <4>1. f[m + (k + 1)] = Joined(Joined(a, b), c) /\ a \in Seq(S) /\ b \in Seq(S) /\ c \in Seq(S)
        BY <3>2, <3>3
      <4> HIDE DEF a, b, c
      <4>2. f[m + (k + 1)] = Joined(a, Joined(b, c))
        BY <4>1, JoinedFacts
      <4> QED
        BY <4>2 DEF a, b, c
    <3>5. h[k + 1] = Joined(h[k], tt[k + 1])
      BY <1>6, <3>1
    <3> QED
      BY <3>1, <3>4, <3>5
  <2> HIDE DEF T
  <2>3. 0 .. n \subseteq T
    BY <1>1, <2>1, <2>2, StepByStep
  <2> QED
    BY <1>1, <2>3 DEF T
<1> QED
  BY <1>2, <1>3, <1>4, <1>8 DEF all, m, n, Joined

LEMMA ConcatMembers ==
  ASSUME NEW S, NEW s \in Seq(S), NEW t \in Seq(S)
  PROVE  ToSet(s \o t) = ToSet(s) \cup ToSet(t)
<1>1. /\ s \o t \in Seq(S) /\ Len(s \o t) = Len(s) + Len(t)
      /\ \A i \in 1 .. Len(s) + Len(t) :
           (s \o t)[i] = IF i <= Len(s) THEN s[i] ELSE t[i - Len(s)]
  BY ConcatProperties
<1>2. DOMAIN s = 1 .. Len(s) /\ DOMAIN t = 1 .. Len(t) /\ DOMAIN (s \o t) = 1 .. Len(s \o t)
      /\ Len(s) \in Nat /\ Len(t) \in Nat
  BY <1>1
<1>3. ASSUME NEW x \in ToSet(s \o t) PROVE x \in ToSet(s) \cup ToSet(t)
  <2>1. PICK i \in 1 .. Len(s) + Len(t) : x = (s \o t)[i]
    BY <1>1, <1>2, <1>3 DEF ToSet
  <2>2. CASE i <= Len(s)
    BY <1>1, <1>2, <2>1, <2>2 DEF ToSet
  <2>3. CASE ~ (i <= Len(s))
    <3>1. i - Len(s) \in 1 .. Len(t) /\ x = t[i - Len(s)]
      BY <1>1, <1>2, <2>1, <2>3
    <3> QED
      BY <1>2, <3>1 DEF ToSet
  <2> QED
    BY <2>2, <2>3
<1>4. ASSUME NEW x \in ToSet(s) PROVE x \in ToSet(s \o t)
  <2>1. PICK i \in 1 .. Len(s) : x = s[i]
    BY <1>2, <1>4 DEF ToSet
  <2>2. i \in 1 .. Len(s) + Len(t) /\ (s \o t)[i] = s[i]
    BY <1>1, <1>2, <2>1
  <2> QED
    BY <1>1, <1>2, <2>1, <2>2 DEF ToSet
<1>5. ASSUME NEW x \in ToSet(t) PROVE x \in ToSet(s \o t)
  <2>1. PICK i \in 1 .. Len(t) : x = t[i]
    BY <1>2, <1>5 DEF ToSet
  <2>2. Len(s) + i \in 1 .. Len(s) + Len(t) /\ (Len(s) + i) - Len(s) = i /\ ~ (Len(s) + i <= Len(s))
    BY <1>2
  <2>3. (s \o t)[Len(s) + i] = t[i]
    BY <1>1, <2>2
  <2> QED
    BY <1>1, <1>2, <2>1, <2>2, <2>3 DEF ToSet
<1> QED
  BY <1>3, <1>4, <1>5

LEMMA FlattenMembers ==
  ASSUME NEW S, NEW ss \in Seq(Seq(S))
  PROVE  ToSet(FlattenSeq(ss)) = UNION {ToSet(ss[i]) : i \in DOMAIN ss}
<1> DEFINE n == Len(ss)
<1>1. PICK f : /\ Partly(f, ss) /\ FlattenSeq(ss) = f[n]
               /\ \A i \in 0 .. n : f[i] \in Seq(S)
  BY FlattenSteps
<1>2. n \in Nat /\ DOMAIN ss = 1 .. n /\ \A i \in 1 .. n : ss[i] \in Seq(S)
  OBVIOUS
<1>3. f[0] = <<>> /\ \A i \in 1 .. n : f[i] = Joined(f[i - 1], ss[i])
  BY <1>1 DEF Partly
<1> HIDE DEF n
<1> DEFINE T == {k \in 0 .. n : ToSet(f[k]) = UNION {ToSet(ss[i]) : i \in 1 .. k}}
<1>4. 0 \in T
  <2>1. ToSet(<<>>) = {}
    BY DEF ToSet
  <2> QED
    BY <1>2, <1>3, <2>1
<1>5. ASSUME NEW k \in 0 .. n - 1, k \in T PROVE k + 1 \in T
  <2>1. k + 1 \in 1 .. n /\ k \in 0 .. n /\ (k + 1) - 1 = k
    BY <1>2
  <2>2. ToSet(f[k + 1]) = ToSet(f[k]) \cup ToSet(ss[k + 1])
    <3>1. f[k + 1] = Joined(f[k], ss[k + 1]) /\ f[k] \in Seq(S) /\ ss[k + 1] \in Seq(S)
      BY <1>1, <1>2, <1>3, <2>1
    <3> QED
      BY <3>1, ConcatMembers DEF Joined
  <2>3. 1 .. k + 1 = (1 .. k) \cup {k + 1}
    BY <2>1
  <2>4. UNION {ToSet(ss[i]) : i \in 1 .. k + 1}
          = (UNION {ToSet(ss[i]) : i \in 1 .. k}) \cup ToSet(ss[k + 1])
    BY <2>3
  <2> QED
    BY <1>5, <2>1, <2>2, <2>4
<1>6. 0 .. n \subseteq T
  <2> HIDE DEF T
  <2> QED
    BY <1>2, <1>4, <1>5, StepByStep
<1>7. n \in T
  BY <1>2, <1>6
<1> QED
  BY <1>1, <1>2, <1>7

-----------------------------------------------------------------------------
(* The maps.                                                               *)

OneOfAName(p, list) == \A q, r \in ToSet(list) : p[q].name = p[r].name => q = r

LEMMA EntryAdded ==
  ASSUME NEW p, NEW list \in Seq(Refs), NEW r \in Refs, OneOfAName(p, list)
  PROVE  WithEntry(p, list, r) \in Seq(Refs) /\ OneOfAName(p, WithEntry(p, list, r))
<1>1. CASE WithEntry(p, list, r) = list
  BY <1>1
<1>2. CASE WithEntry(p, list, r) # list
  <2>1. WithEntry(p, list, r) = Append(list, r)
        /\ \A q \in ToSet(list) : p[q].name # p[r].name
    BY <1>2 DEF WithEntry, Lists
  <2>2. Append(list, r) \in Seq(Refs) /\ ToSet(Append(list, r)) = ToSet(list) \cup {r}
    <3>1. /\ Len(Append(list, r)) = Len(list) + 1
          /\ \A i \in 1 .. Len(list) : Append(list, r)[i] = list[i]
          /\ Append(list, r)[Len(list) + 1] = r
      OBVIOUS
    <3> QED
      BY <3>1 DEF ToSet
  <2> QED
    BY <2>1, <2>2 DEF OneOfAName
<1> QED
  BY <1>1, <1>2

\* The entries after each of the declarations of a constructor.
Adds(added, p, refs, n) ==
  added = [k \in 0 .. n |-> IF k = 0 THEN <<>> ELSE WithEntry(p, added[k - 1], refs[k])]

LEMMA EntriesAreAdded ==
  ASSUME NEW p, NEW refs, Len(refs) \in Nat
  PROVE  \E added : /\ Adds(added, p, refs, Len(refs))
                    /\ Declared(p, refs) = added[Len(refs)]
<1> DEFINE n == Len(refs)
           T == {k \in 0 .. n : \E added : Adds(added, p, refs, k)}
           all == CHOOSE added : Adds(added, p, refs, n)
<1>1. 0 \in T
  <2> DEFINE added == [k \in 0 .. 0 |-> <<>>]
  <2>1. Adds(added, p, refs, 0)
    BY DEF Adds
  <2> QED
    BY <2>1
<1>2. ASSUME NEW k \in 0 .. n - 1, k \in T PROVE k + 1 \in T
  <2>1. PICK before : Adds(before, p, refs, k)
    BY <1>2
  <2> DEFINE added == [j \in 0 .. k + 1 |->
                         IF j = k + 1 THEN WithEntry(p, before[k], refs[k + 1]) ELSE before[j]]
  <2>2. ASSUME NEW j \in 0 .. k + 1
        PROVE  added[j] = IF j = 0 THEN <<>> ELSE WithEntry(p, added[j - 1], refs[j])
    <3>1. CASE j = k + 1
      BY <3>1
    <3>2. CASE j \in 0 .. k
      <4>1. before[j] = IF j = 0 THEN <<>> ELSE WithEntry(p, before[j - 1], refs[j])
        BY <2>1, <3>2 DEF Adds
      <4>2. j # 0 => added[j - 1] = before[j - 1]
        BY <3>2
      <4> QED
        BY <3>2, <4>1, <4>2
    <3> QED
      BY <3>1, <3>2
  <2>3. Adds(added, p, refs, k + 1)
    BY <2>2 DEF Adds
  <2> QED
    BY <1>2, <2>3
<1>3. n \in T
  <2> HIDE DEF T
  <2>1. 0 .. n \subseteq T
    BY <1>1, <1>2, StepByStep
  <2> QED
    BY <2>1
<1>4. Adds(all, p, refs, n)
  BY <1>3
<1>5. Declared(p, refs) = all[n]
  BY DEF Declared, Adds
<1> QED
  BY <1>4, <1>5

LEMMA DeclaredOnce ==
  ASSUME NEW p, NEW refs \in Seq(Refs)
  PROVE  Declared(p, refs) \in Seq(Refs) /\ OneOfAName(p, Declared(p, refs))
<1> DEFINE n == Len(refs)
<1>1. n \in Nat
  OBVIOUS
<1>2. PICK added : Adds(added, p, refs, n) /\ Declared(p, refs) = added[n]
  BY <1>1, EntriesAreAdded
<1> DEFINE T == {k \in 0 .. n : added[k] \in Seq(Refs) /\ OneOfAName(p, added[k])}
<1>3. 0 \in T
  <2>1. added[0] = <<>>
    BY <1>1, <1>2 DEF Adds
  <2>2. <<>> \in Seq(Refs) /\ OneOfAName(p, <<>>)
    BY DEF ToSet, OneOfAName
  <2>3. added[0] \in Seq(Refs) /\ OneOfAName(p, added[0])
    BY <2>1, <2>2
  <2> QED
    BY <1>1, <2>3
<1>4. ASSUME NEW k \in 0 .. n - 1, k \in T PROVE k + 1 \in T
  <2>1. added[k + 1] = WithEntry(p, added[k], refs[k + 1]) /\ k + 1 \in 1 .. n
    BY <1>1, <1>2 DEF Adds
  <2>2. refs[k + 1] \in Refs
    BY <2>1
  <2> QED
    BY <1>4, <2>1, <2>2, EntryAdded
<1>5. n \in T
  <2> HIDE DEF T, n
  <2>1. 0 .. n \subseteq T
    BY <1>1, <1>3, <1>4, StepByStep
  <2> QED
    BY <1>1, <2>1
<1> QED
  BY <1>2, <1>5

-----------------------------------------------------------------------------
(* The elements of files.                                                  *)

\* The elements whose structures hold those of a set.
ElementsOver(inner) ==
  [name : STRING \cup {Null}, type : STRING, value : Texts \cup {Null},
   values : Seq(Texts \cup {Null}), children : Seq(inner)]

Layers(f, n) ==
  f = [d \in 0 .. n |-> ElementsOver(IF d = 0 THEN {} ELSE f[d - 1])]

LEMMA LayersExist == ASSUME NEW n \in Nat PROVE \E f : Layers(f, n)
<1> DEFINE T == {k \in 0 .. n : \E f : Layers(f, k)}
<1>1. 0 \in T
  <2> DEFINE f == [d \in 0 .. 0 |-> ElementsOver({})]
  <2>1. Layers(f, 0)
    BY DEF Layers
  <2> QED
    BY <2>1
<1>2. ASSUME NEW k \in 0 .. n - 1, k \in T PROVE k + 1 \in T
  <2>1. PICK before : Layers(before, k)
    BY <1>2
  <2> DEFINE f == [d \in 0 .. k + 1 |->
                     IF d = k + 1 THEN ElementsOver(before[k]) ELSE before[d]]
  <2>2. ASSUME NEW d \in 0 .. k + 1
        PROVE  f[d] = ElementsOver(IF d = 0 THEN {} ELSE f[d - 1])
    <3>1. CASE d = k + 1
      <4>1. f[d - 1] = before[k] /\ d # 0
        BY <3>1
      <4> QED
        BY <3>1, <4>1
    <3>2. CASE d \in 0 .. k
      <4>1. before[d] = ElementsOver(IF d = 0 THEN {} ELSE before[d - 1])
        BY <2>1, <3>2 DEF Layers
      <4>2. d # 0 => f[d - 1] = before[d - 1]
        BY <3>2
      <4> QED
        BY <3>2, <4>1, <4>2
    <3> QED
      BY <3>1, <3>2
  <2>3. Layers(f, k + 1)
    BY <2>2 DEF Layers
  <2> QED
    BY <1>2, <2>3
<1> QED
  <2> HIDE DEF T
  <2>1. 0 .. n \subseteq T
    BY <1>1, <1>2, StepByStep
  <2> QED
    BY <2>1 DEF T

LEMMA ElementLayers ==
  \A d \in 0 .. MaxNesting :
    Elements[d] = ElementsOver(IF d = 0 THEN {} ELSE Elements[d - 1])
<1>1. Elements = CHOOSE f : Layers(f, MaxNesting)
  BY DEF Elements, Layers, ElementsOver
<1>2. Layers(Elements, MaxNesting)
  BY <1>1, BoundsAssumption, LayersExist
<1> QED
  BY <1>2 DEF Layers

\* What a set of elements holds, the next holds too.
LEMMA ElementsStep ==
  \A k \in 0 .. MaxNesting :
    (IF k = 0 THEN {} ELSE Elements[k - 1]) \subseteq Elements[k]
<1> DEFINE n == MaxNesting
           T == {k \in 0 .. n : (IF k = 0 THEN {} ELSE Elements[k - 1]) \subseteq Elements[k]}
<1>1. n \in Nat
  BY BoundsAssumption
<1>2. \A A, B : A \subseteq B => ElementsOver(A) \subseteq ElementsOver(B)
  <2> SUFFICES ASSUME NEW A, NEW B, A \subseteq B
               PROVE  ElementsOver(A) \subseteq ElementsOver(B)
    OBVIOUS
  <2>1. \A s : s \in Seq(A) => s \in Seq(B)
    BY SeqMonotonic
  <2> QED
    BY <2>1 DEF ElementsOver
<1>3. \A k \in 0 .. n :
        Elements[k] = ElementsOver(IF k = 0 THEN {} ELSE Elements[k - 1])
  BY ElementLayers
<1> HIDE DEF n
<1>4. 0 \in T
  BY <1>1
<1>5. ASSUME NEW k \in 0 .. n - 1, k \in T PROVE k + 1 \in T
  <2>1. k \in 0 .. n /\ k + 1 \in 0 .. n /\ (k + 1) - 1 = k /\ k + 1 # 0
    BY <1>1
  <2>2. Elements[k] = ElementsOver(IF k = 0 THEN {} ELSE Elements[k - 1])
    BY <1>3, <2>1
  <2>3. Elements[k + 1] = ElementsOver(Elements[k])
    BY <1>3, <2>1
  <2>4. Elements[k] \subseteq Elements[k + 1]
    BY <1>2, <1>5, <2>2, <2>3
  <2> QED
    BY <2>1, <2>4
<1>6. 0 .. n \subseteq T
  <2> HIDE DEF T
  <2> QED
    BY <1>1, <1>4, <1>5, StepByStep
<1> QED
  BY <1>6 DEF n

LEMMA ElementsGrow ==
  \A d \in 0 .. MaxNesting : Elements[d] \subseteq Elements[MaxNesting]
<1> DEFINE n == MaxNesting
           U == {k \in 0 .. n : Elements[n - k] \subseteq Elements[n]}
<1>1. n \in Nat
  BY BoundsAssumption
<1>2. \A k \in 0 .. n : (IF k = 0 THEN {} ELSE Elements[k - 1]) \subseteq Elements[k]
  BY ElementsStep
<1> HIDE DEF n
<1>3. 0 \in U
  BY <1>1
<1>4. ASSUME NEW k \in 0 .. n - 1, k \in U PROVE k + 1 \in U
  <2>1. n - k \in 0 .. n /\ (n - k) - 1 = n - (k + 1) /\ n - k # 0 /\ k + 1 \in 0 .. n
    BY <1>1
  <2>2. Elements[n - (k + 1)] \subseteq Elements[n - k]
    BY <1>2, <2>1
  <2> QED
    BY <1>4, <2>1, <2>2
<1>5. 0 .. n \subseteq U
  <2> HIDE DEF U
  <2> QED
    BY <1>1, <1>3, <1>4, StepByStep
<1> QED
  <2> SUFFICES ASSUME NEW d \in 0 .. n PROVE Elements[d] \subseteq Elements[n]
    BY DEF n
  <2>1. n - d \in 0 .. n /\ n - (n - d) = d
    BY <1>1
  <2> QED
    BY <1>5, <2>1

AllElements == Elements[MaxNesting]

\* An element of a file, and those in it.
LEMMA ElementParts ==
  ASSUME NEW e \in AllElements
  PROVE  /\ e.name \in STRING \cup {Null} /\ e.value \in Texts \cup {Null}
         /\ e.values \in Seq(Texts \cup {Null}) /\ e.children \in Seq(AllElements)
<1> DEFINE inner == IF MaxNesting = 0 THEN {} ELSE Elements[MaxNesting - 1]
<1>1. MaxNesting \in Nat
  BY BoundsAssumption
<1>2. e \in ElementsOver(inner)
  BY <1>1, ElementLayers DEF AllElements
<1>3. inner \subseteq AllElements
  <2>1. CASE MaxNesting = 0
    BY <2>1
  <2>2. CASE MaxNesting # 0
    <3>1. MaxNesting - 1 \in 0 .. MaxNesting
      BY <1>1, <2>2
    <3> QED
      BY <2>2, <3>1, ElementsGrow DEF AllElements
  <2> QED
    BY <2>1, <2>2
<1> HIDE DEF inner
<1>4. e.children \in Seq(inner)
  BY <1>2 DEF ElementsOver
<1>5. e.children \in Seq(AllElements)
  BY <1>3, <1>4, SeqMonotonic
<1> QED
  BY <1>2, <1>5 DEF ElementsOver

-----------------------------------------------------------------------------
(* What serialize() makes of a property.                                   *)

NumberTypes == {"INTEGER", "UINTEGER", "LONG", "ULONG", "FLOAT", "DOUBLE"}

LEMMA NumbersAreIntegers == \A t \in NumberTypes : ItemsOf(t) \subseteq Int
<1>1. \A bits \in {IntBits, LongBits} : 2^(bits - 1) \in Int /\ 2^bits \in Int
  BY PowersOfTwo
<1> SUFFICES ASSUME NEW t \in NumberTypes PROVE ItemsOf(t) \subseteq Int
  OBVIOUS
<1>2. CASE t = "INTEGER"
  BY <1>1, <1>2 DEF ItemsOf, StringTypes
<1>3. CASE t = "UINTEGER"
  BY <1>1, <1>3 DEF ItemsOf, StringTypes
<1>4. CASE t = "LONG"
  BY <1>1, <1>4 DEF ItemsOf, StringTypes
<1>5. CASE t = "ULONG"
  BY <1>1, <1>5 DEF ItemsOf, StringTypes
<1>6. CASE t \in {"FLOAT", "DOUBLE"}
  BY <1>6 DEF ItemsOf, StringTypes
<1> QED
  BY <1>2, <1>3, <1>4, <1>5, <1>6 DEF NumberTypes

LEMMA TextOfIsText == \A n \in Int : TextOf(n) \in Texts
BY DEF TextOf, Texts

\* An item, numbered from 0 by the getters.
LEMMA ItemIs ==
  ASSUME NEW p, Sound(p), NEW i \in DOMAIN p.items, NEW stray \in StrayTexts
  PROVE  /\ p.class # "property" => Item(p, i - 1, stray).value = p.items[i]
         /\ p.class # "property" => p.items[i] \in ItemsOf(p.type)
         /\ p.class = "property" /\ p.type \in StringTypes
              => Item(p, i - 1, stray).value \in Texts \cup {Null}
<1>1. i - 1 + 1 = i /\ IsItem(p, p.items[i])
  BY DEF Sound, IsSequence, WellTyped
<1>2. CASE p.class # "property"
  BY <1>1, <1>2 DEF Item, WrappedItem, IsItem
<1>3. CASE p.class = "property"
  <2> DEFINE x == p.items[i]
             item == Item(p, i - 1, stray)
  <2>1. item = IF p.access = "IN" THEN [result |-> "_SUCCESS", value |-> Null]
               ELSE IF x # Unset /\ x.type = p.type
                    THEN [result |-> "_SUCCESS", value |-> stray]
               ELSE [result |-> "bad_any_cast", value |-> Null]
    BY <1>1, <1>3 DEF Item, PlainItem
  <2> HIDE DEF item, x
  <2>2. item.value \in Texts \cup {Null}
    BY <2>1, StrayTextsAssumption
  <2> QED
    BY <1>3, <2>2 DEF item
<1> QED
  BY <1>2, <1>3

LEMMA TextTyped ==
  ASSUME NEW p, Sound(p), p.type # "STRUCTURE", NEW i \in DOMAIN p.items,
         NEW stray \in StrayTexts
  PROVE  Text(p, i - 1, stray) \in Texts \cup {Null}
<1> DEFINE v == Item(p, i - 1, stray).value
<1>1. p.type \in PropertyTypes
  BY DEF Sound, WellTyped
<1>2. p.type \in NumberTypes => p.class # "property"
  BY DEF Sound, WellTyped, StringTypes, NumberTypes
<1>3. p.type \in NumberTypes => v \in Int
  BY <1>2, ItemIs, NumbersAreIntegers
<1>4. p.type = "CHARSTR" => v \in Texts \cup {Null}
  <2> SUFFICES ASSUME p.type = "CHARSTR" PROVE v \in Texts \cup {Null}
    OBVIOUS
  <2>1. p.type \in StringTypes
    BY DEF StringTypes
  <2>2. ItemsOf(p.type) = Texts
    BY <2>1, ItemsOfStrings
  <2> QED
    BY <2>1, <2>2, ItemIs
<1> HIDE DEF v
<1>5. CASE p.type \in {"NONE", "UNICODESTR"}
  BY <1>5, EmptyTextIsText DEF Text
<1>6. CASE p.type = "CHARSTR"
  BY <1>4, <1>6 DEF Text, v
<1>7. CASE p.type \in {"FLOAT", "DOUBLE"}
  <2>1. v \in Int
    BY <1>3, <1>7 DEF NumberTypes
  <2>2. (v + 1) \div 3 \in Int
    BY <2>1
  <2>3. Text(p, i - 1, stray) = TextOf((v + 1) \div 3)
    BY <1>7 DEF Text, v
  <2> QED
    BY <2>2, <2>3, TextOfIsText
<1>8. CASE p.type \in {"INTEGER", "UINTEGER", "LONG", "ULONG"}
  <2>1. v \in Int
    BY <1>3, <1>8 DEF NumberTypes
  <2>2. Text(p, i - 1, stray) = TextOf(v)
    BY <1>8 DEF Text, v
  <2> QED
    BY <2>1, <2>2, TextOfIsText
<1> QED
  BY <1>1, <1>5, <1>6, <1>7, <1>8 DEF PropertyTypes

\* What is read back is a text, or nothing.
LEMMA LoadedTyped ==
  ASSUME NEW text \in Texts \cup {Null}
  PROVE  Loaded(text) \in Texts \cup {Null} /\ LoadedValue(text) \in Texts \cup {Null}
<1>1. Loaded(text) \in Texts \cup {Null}
  <2>1. CASE text = Null
    BY <2>1 DEF Loaded
  <2>2. CASE text \in Texts
    <3>1. (text.tail \ {"return"}) \cup {"space"} \in SUBSET {"return", "space", "other"}
      BY <2>2 DEF Texts
    <3> QED
      BY <2>2, <3>1 DEF Loaded, Texts
  <2> QED
    BY <2>1, <2>2
<1> QED
  BY <1>1 DEF LoadedValue

LEMMA ElementTyped ==
  ASSUME NEW p, Sound(p), NEW inner, NEW children \in Seq(inner), NEW stray \in StrayTexts
  PROVE  ElementOf(p, children, stray) \in ElementsOver(inner)
<1> DEFINE texts == IF p.type = "STRUCTURE" THEN <<>>
                    ELSE [i \in DOMAIN p.items |-> Text(p, i - 1, stray)]
           n == Len(p.items)
           values == [i \in DOMAIN texts |-> LoadedValue(texts[i])]
           e == ElementOf(p, children, stray)
<1>1. n \in Nat /\ DOMAIN p.items = 1 .. n /\ p.name \in STRING /\ p.type \in PropertyTypes
  BY DEF Sound, IsSequence, WellTyped
<1>2. texts \in Seq(Texts \cup {Null})
  <2>1. CASE p.type = "STRUCTURE"
    BY <2>1
  <2>2. CASE p.type # "STRUCTURE"
    <3>1. \A i \in 1 .. n : Text(p, i - 1, stray) \in Texts \cup {Null}
      BY <1>1, <2>2, TextTyped
    <3>2. [i \in 1 .. n |-> Text(p, i - 1, stray)] \in Seq(Texts \cup {Null})
      <4> HIDE DEF n
      <4> QED
        BY <1>1, <3>1
    <3> QED
      BY <1>1, <2>2, <3>2
  <2> QED
    BY <2>1, <2>2
<1> HIDE DEF texts, n
<1>3. values \in Seq(Texts \cup {Null})
  <2>1. Len(texts) \in Nat /\ DOMAIN texts = 1 .. Len(texts)
    BY <1>2
  <2>2. \A i \in 1 .. Len(texts) : LoadedValue(texts[i]) \in Texts \cup {Null}
    BY <1>2, LoadedTyped
  <2> QED
    BY <2>1, <2>2
<1>4. e = [name |-> p.name,
           type |-> CASE p.type = "STRUCTURE" -> "structure"
                      [] p.type = "NONE"      -> ""
                      [] OTHER                -> p.type,
           value |-> IF Len(texts) = 1 THEN Loaded(texts[1]) ELSE Null,
           values |-> IF Len(texts) = 1 THEN <<>> ELSE values,
           children |-> children]
  BY DEF ElementOf, texts
<1> HIDE DEF values, e
<1>5. (IF Len(texts) = 1 THEN Loaded(texts[1]) ELSE Null) \in Texts \cup {Null}
  <2>1. \A i \in 1 .. Len(texts) : texts[i] \in Texts \cup {Null}
    BY <1>2
  <2> QED
    BY <2>1, LoadedTyped
<1>6. (IF Len(texts) = 1 THEN <<>> ELSE values) \in Seq(Texts \cup {Null})
  BY <1>3
<1>7. (CASE p.type = "STRUCTURE" -> "structure"
         [] p.type = "NONE"      -> ""
         [] OTHER                -> p.type) \in STRING
  <2>1. CASE p.type = "STRUCTURE"
    BY <2>1, StringsAssumption
  <2>2. CASE p.type = "NONE"
    BY <2>2, StringsAssumption
  <2>3. CASE p.type \notin {"STRUCTURE", "NONE"}
    <3>1. p.type \in STRING
      BY <1>1, StringsAssumption
    <3> QED
      BY <2>3, <3>1
  <2> QED
    BY <2>1, <2>2, <2>3
<1>8. e \in ElementsOver(inner)
  BY <1>1, <1>4, <1>5, <1>6, <1>7 DEF ElementsOver
<1> QED
  BY <1>8 DEF e

\* Properties of their types, in maps.
Coherent(props, lists) ==
  (\A r \in Refs : Sound(props[r])) /\ lists \in [Maps -> Seq(Refs)]

LEMMA StructureItems ==
  ASSUME NEW p, Sound(p), p.type = "STRUCTURE"
  PROVE  \A i \in DOMAIN p.items : p.items[i] \in Maps \cup {Null}
<1>1. p.class # "property"
  BY DEF Sound, WellTyped, StringTypes
<1>2. ItemsOf(p.type) = Maps \cup {Null}
  BY DEF ItemsOf, StringTypes
<1> QED
  BY <1>1, <1>2 DEF Sound, WellTyped, IsItem

\* The element of a property, with those of the maps in it taken from f.
InMap(f, lists, at, m) ==
  IF m = Null THEN <<>> ELSE [k \in DOMAIN lists[m] |-> f[<<at[1] - 1, lists[m][k]>>]]

ElementAt(f, props, lists, at, stray) ==
  LET p == props[at[2]]
  IN  ElementOf(p, IF at[1] = 0 THEN <<>>
                   ELSE FlattenSeq([i \in DOMAIN MapItems(p) |->
                                      InMap(f, lists, at, p.items[i])]), stray)

Elaborates(f, props, lists, n, stray) ==
  f = [at \in (0 .. n) \X Refs |-> ElementAt(f, props, lists, at, stray)]

LEMMA MapItemsAre ==
  ASSUME NEW p, Sound(p)
  PROVE  /\ IsSequence(MapItems(p))
         /\ \A i \in DOMAIN MapItems(p) : p.items[i] \in Maps \cup {Null}
<1>1. IsSequence(<<>>) /\ DOMAIN <<>> = {}
  BY DEF IsSequence
<1>2. CASE p.type = "STRUCTURE"
  BY <1>2, StructureItems DEF MapItems, Sound
<1>3. CASE p.type # "STRUCTURE"
  BY <1>1, <1>3 DEF MapItems
<1> QED
  BY <1>2, <1>3

LEMMA SameElement ==
  ASSUME NEW props, NEW lists, Coherent(props, lists), NEW at \in Nat \X Refs,
         NEW stray, NEW f, NEW g, at[1] # 0 => \A q \in Refs : f[<<at[1] - 1, q>>] = g[<<at[1] - 1, q>>]
  PROVE  ElementAt(f, props, lists, at, stray) = ElementAt(g, props, lists, at, stray)
<1> DEFINE p == props[at[2]]
           Below(h) == [i \in DOMAIN MapItems(p) |-> InMap(h, lists, at, p.items[i])]
<1>1. CASE at[1] = 0
  BY <1>1 DEF ElementAt
<1>2. CASE at[1] # 0
  <2>1. ASSUME NEW i \in DOMAIN MapItems(p)
        PROVE  InMap(f, lists, at, p.items[i]) = InMap(g, lists, at, p.items[i])
    <3> DEFINE m == p.items[i]
    <3>1. m \in Maps \cup {Null}
      BY MapItemsAre DEF Coherent
    <3> HIDE DEF m
    <3>2. m \in Maps => \A k \in DOMAIN lists[m] : lists[m][k] \in Refs
      BY DEF Coherent
    <3>3. InMap(f, lists, at, m) = InMap(g, lists, at, m)
      BY <1>2, <3>1, <3>2 DEF InMap
    <3> QED
      BY <3>3 DEF m
  <2>2. Below(f) = Below(g)
    <3> HIDE DEF p
    <3> QED
      BY <2>1
  <2>3. \A h : ElementAt(h, props, lists, at, stray) = ElementOf(p, FlattenSeq(Below(h)), stray)
    BY <1>2 DEF ElementAt
  <2> HIDE DEF Below
  <2> QED
    BY <2>2, <2>3
<1> QED
  BY <1>1, <1>2

LEMMA ElaborationExists ==
  ASSUME NEW props, NEW lists, Coherent(props, lists), NEW stray, NEW n \in Nat
  PROVE  \E f : Elaborates(f, props, lists, n, stray)
<1> DEFINE T == {k \in 0 .. n : \E f : Elaborates(f, props, lists, k, stray)}
<1>1. 0 \in T
  <2> DEFINE f == [at \in (0 .. 0) \X Refs |->
                     ElementAt([x \in {} |-> {}], props, lists, at, stray)]
  <2>1. ASSUME NEW at \in (0 .. 0) \X Refs PROVE f[at] = ElementAt(f, props, lists, at, stray)
    <3>1. at[1] = 0 /\ at \in Nat \X Refs
      OBVIOUS
    <3>2. f[at] = ElementAt([x \in {} |-> {}], props, lists, at, stray)
      OBVIOUS
    <3> HIDE DEF f
    <3> QED
      BY <3>1, <3>2, SameElement
  <2>2. Elaborates(f, props, lists, 0, stray)
    <3>1. f = [at \in (0 .. 0) \X Refs |-> f[at]]
      OBVIOUS
    <3> HIDE DEF f
    <3> QED
      BY <2>1, <3>1 DEF Elaborates
  <2> QED
    BY <2>2
<1>2. ASSUME NEW k \in 0 .. n - 1, k \in T PROVE k + 1 \in T
  <2>1. PICK before : Elaborates(before, props, lists, k, stray)
    BY <1>2
  <2>2. \A at \in (0 .. k) \X Refs : before[at] = ElementAt(before, props, lists, at, stray)
    BY <2>1 DEF Elaborates
  <2> DEFINE f == [at \in (0 .. k + 1) \X Refs |-> ElementAt(before, props, lists, at, stray)]
  <2>3. \A at \in (0 .. k + 1) \X Refs : f[at] = ElementAt(before, props, lists, at, stray)
    OBVIOUS
  <2>4. f = [at \in (0 .. k + 1) \X Refs |-> f[at]]
    OBVIOUS
  <2> HIDE DEF f
  <2>5. \A at \in (0 .. k) \X Refs : f[at] = before[at]
    <3>1. \A at \in (0 .. k) \X Refs : at \in (0 .. k + 1) \X Refs
      OBVIOUS
    <3> QED
      BY <2>2, <2>3, <3>1
  <2>6. ASSUME NEW at \in (0 .. k + 1) \X Refs PROVE f[at] = ElementAt(f, props, lists, at, stray)
    <3>1. at \in Nat \X Refs
      OBVIOUS
    <3>2. ASSUME at[1] # 0, NEW q \in Refs PROVE before[<<at[1] - 1, q>>] = f[<<at[1] - 1, q>>]
      <4>1. <<at[1] - 1, q>> \in (0 .. k) \X Refs
        BY <3>2
      <4> QED
        BY <2>5, <4>1
    <3>3. ElementAt(before, props, lists, at, stray) = ElementAt(f, props, lists, at, stray)
      BY <3>1, <3>2, SameElement
    <3> QED
      BY <2>3, <3>3
  <2>7. Elaborates(f, props, lists, k + 1, stray)
    BY <2>4, <2>6 DEF Elaborates
  <2> QED
    BY <1>2, <2>7
<1> QED
  <2> HIDE DEF T
  <2>1. 0 .. n \subseteq T
    BY <1>1, <1>2, StepByStep
  <2> QED
    BY <2>1 DEF T

LEMMA PropertyElementIs ==
  ASSUME NEW props, NEW lists, Coherent(props, lists), NEW stray,
         NEW at \in (0 .. MaxNesting) \X Refs
  PROVE  PropertyElements(props, lists, stray)[at]
           = ElementAt(PropertyElements(props, lists, stray), props, lists, at, stray)
<1> DEFINE E == PropertyElements(props, lists, stray)
<1>1. E = CHOOSE f : Elaborates(f, props, lists, MaxNesting, stray)
  BY DEF PropertyElements, Elaborates, ElementAt, InMap
<1> HIDE DEF E
<1>2. Elaborates(E, props, lists, MaxNesting, stray)
  BY <1>1, BoundsAssumption, ElaborationExists
<1>3. E[at] = ElementAt(E, props, lists, at, stray)
  BY <1>2 DEF Elaborates
<1> QED
  BY <1>3 DEF E

LEMMA PropertyElementTyped ==
  ASSUME NEW props, NEW lists, Coherent(props, lists), NEW stray \in StrayTexts
  PROVE  \A d \in 0 .. MaxNesting : \A r \in Refs :
           PropertyElements(props, lists, stray)[<<d, r>>] \in Elements[d]
<1> DEFINE E == PropertyElements(props, lists, stray)
           n == MaxNesting
           T == {d \in 0 .. n : \A r \in Refs : E[<<d, r>>] \in Elements[d]}
<1>1. n \in Nat
  BY BoundsAssumption
<1>2. \A d \in 0 .. n : \A r \in Refs : E[<<d, r>>] = ElementAt(E, props, lists, <<d, r>>, stray)
  BY PropertyElementIs
<1> HIDE DEF E
<1>3. 0 \in T
  <2>1. ASSUME NEW r \in Refs PROVE E[<<0, r>>] \in Elements[0]
    <3>1. ElementAt(E, props, lists, <<0, r>>, stray) = ElementOf(props[r], <<>>, stray)
      BY DEF ElementAt
    <3>2. ElementOf(props[r], <<>>, stray) \in ElementsOver({})
      <4>1. Sound(props[r]) /\ <<>> \in Seq({})
        BY DEF Coherent
      <4> QED
        BY <4>1, ElementTyped
    <3>3. Elements[0] = ElementsOver({})
      BY <1>1, ElementLayers
    <3> QED
      BY <1>1, <1>2, <3>1, <3>2, <3>3
  <2> QED
    BY <1>1, <2>1
<1>4. ASSUME NEW k \in 0 .. n - 1, k \in T PROVE k + 1 \in T
  <2>1. k + 1 \in 0 .. n /\ (k + 1) - 1 = k /\ k + 1 # 0
    BY <1>1
  <2>2. ASSUME NEW r \in Refs PROVE E[<<k + 1, r>>] \in Elements[k + 1]
    <3> DEFINE p == props[r]
               at == <<k + 1, r>>
               Below == [i \in DOMAIN MapItems(p) |-> InMap(E, lists, at, p.items[i])]
    <3>1. ElementAt(E, props, lists, at, stray) = ElementOf(p, FlattenSeq(Below), stray)
      BY <2>1 DEF ElementAt
    <3>2. Sound(p)
      BY DEF Coherent
    <3>3. ASSUME NEW i \in DOMAIN MapItems(p)
          PROVE  InMap(E, lists, at, p.items[i]) \in Seq(Elements[k])
      <4> DEFINE m == p.items[i]
      <4>1. m \in Maps \cup {Null}
        BY <3>2, MapItemsAre
      <4> SUFFICES InMap(E, lists, at, m) \in Seq(Elements[k])
        OBVIOUS
      <4> HIDE DEF m
      <4>2. CASE m = Null
        BY <4>2 DEF InMap
      <4>3. CASE m # Null
        <5>1. lists[m] \in Seq(Refs)
          BY <4>1, <4>3 DEF Coherent
        <5> DEFINE l == lists[m]
        <5>2. DOMAIN l = 1 .. Len(l) /\ Len(l) \in Nat /\ \A j \in 1 .. Len(l) : l[j] \in Refs
          BY <5>1
        <5>3. InMap(E, lists, at, m) = [j \in 1 .. Len(l) |-> E[<<k, l[j]>>]]
          BY <2>1, <4>3, <5>2 DEF InMap
        <5> HIDE DEF l
        <5> DEFINE w(j) == E[<<k, l[j]>>]
                   size == Len(l)
        <5>4. \A j \in 1 .. size : w(j) \in Elements[k]
          BY <1>4, <5>2
        <5>5. InMap(E, lists, at, m) = [j \in 1 .. size |-> w(j)] /\ size \in Nat
          BY <5>2, <5>3
        <5> HIDE DEF w, size, at
        <5> QED
          BY <5>4, <5>5
      <4> QED
        BY <4>2, <4>3
    <3>4. Below \in Seq(Seq(Elements[k]))
      <4> DEFINE items == MapItems(p)
      <4>1. IsSequence(items)
        BY <3>2, MapItemsAre
      <4>2. Len(items) \in Nat /\ DOMAIN items = 1 .. Len(items)
        BY <4>1 DEF IsSequence
      <4> HIDE DEF p, at
      <4> QED
        BY <3>3, <4>2
    <3> HIDE DEF Below, p, at
    <3>5. FlattenSeq(Below) \in Seq(Elements[k])
      BY <3>4, FlattenType
    <3>6. Elements[k + 1] = ElementsOver(Elements[k])
      BY <2>1, ElementLayers
    <3>7. ElementOf(p, FlattenSeq(Below), stray) \in Elements[k + 1]
      BY <3>2, <3>5, <3>6, ElementTyped
    <3>8. E[at] = ElementAt(E, props, lists, at, stray)
      BY <1>2, <2>1 DEF at
    <3> QED
      BY <3>1, <3>7, <3>8 DEF at
  <2> QED
    BY <2>1, <2>2
<1>5. 0 .. n \subseteq T
  <2> HIDE DEF T
  <2> QED
    BY <1>1, <1>3, <1>4, StepByStep
<1> QED
  BY <1>5 DEF E

-----------------------------------------------------------------------------
(* Numbers: what a setter keeps of the number that was read is the value   *)
(* of the type that is congruent to it.                                    *)

LEMMA Quotient ==
  ASSUME NEW n \in Int, NEW M \in Nat \ {0}
  PROVE  \E q \in Int : n = M * q + (n % M) /\ (n % M) \in 0 .. M - 1
<1>1. n = M * (n \div M) + (n % M) /\ (n \div M) \in Int /\ (n % M) \in 0 .. M - 1
  OBVIOUS
<1> QED
  BY <1>1

LEMMA MultipleIsCongruent ==
  ASSUME NEW M \in Nat \ {0}, NEW q \in Int PROVE (M * q) % M = 0
<1>1. M * q \in Int
  OBVIOUS
<1>2. PICK k \in Int : M * q = M * k + ((M * q) % M) /\ ((M * q) % M) \in 0 .. M - 1
  BY <1>1, Quotient
<1> DEFINE r == (M * q) % M
<1>3. M * (q - k) = r /\ r \in 0 .. M - 1
  BY <1>2
<1> HIDE DEF r
<1>4. CASE q - k <= -1
  <2>1. M * (q - k) <= -M
    BY <1>4
  <2> QED
    BY <1>3, <2>1
<1>5. CASE q - k >= 1
  <2>1. M * (q - k) >= M
    BY <1>5
  <2> QED
    BY <1>3, <2>1
<1>6. CASE q - k = 0
  <2>1. M * (q - k) = 0
    BY <1>6
  <2> QED
    BY <1>3, <2>1 DEF r
<1> QED
  BY <1>4, <1>5, <1>6

LEMMA OneCongruent ==
  ASSUME NEW M \in Nat \ {0}, NEW low \in Int, NEW n \in Int,
         NEW v \in low .. low + M - 1, NEW w \in low .. low + M - 1,
         (n - v) % M = 0, (n - w) % M = 0
  PROVE  v = w
<1>1. PICK j \in Int : n - v = M * j
  <2> DEFINE x == n - v
  <2>1. x \in Int /\ x % M = 0
    OBVIOUS
  <2> HIDE DEF x
  <2>2. \E q \in Int : x = M * q + (x % M)
    BY <2>1, Quotient
  <2>3. \E q \in Int : x = M * q
    BY <2>1, <2>2
  <2> QED
    BY <2>3 DEF x
<1>2. PICK k \in Int : n - w = M * k
  <2> DEFINE x == n - w
  <2>1. x \in Int /\ x % M = 0
    OBVIOUS
  <2> HIDE DEF x
  <2>2. \E q \in Int : x = M * q + (x % M)
    BY <2>1, Quotient
  <2>3. \E q \in Int : x = M * q
    BY <2>1, <2>2
  <2> QED
    BY <2>3 DEF x
<1>3. M * (j - k) = w - v
  BY <1>1, <1>2
<1>4. CASE j - k <= -1
  <2>1. M * (j - k) <= -M
    BY <1>4
  <2> QED
    BY <1>3, <2>1
<1>5. CASE j - k >= 1
  <2>1. M * (j - k) >= M
    BY <1>5
  <2> QED
    BY <1>3, <2>1
<1>6. CASE j - k = 0
  <2>1. M * (j - k) = 0
    BY <1>6
  <2> QED
    BY <1>3, <2>1
<1> QED
  BY <1>4, <1>5, <1>6

IntegerTypes == {"INTEGER", "UINTEGER", "LONG", "ULONG"}

\* The values of an integer type are as many as its modulus.
LEMMA IntegerItems ==
  ASSUME NEW t \in IntegerTypes
  PROVE  /\ Modulus(t) \in Nat \ {0}
         /\ \E low \in Int : ItemsOf(t) = low .. low + Modulus(t) - 1
<1>1. \A bits \in {IntBits, LongBits} :
        /\ 2^bits \in Nat \ {0} /\ -(2^(bits - 1)) \in Int
        /\ -(2^(bits - 1)) + 2^bits - 1 = 2^(bits - 1) - 1
        /\ 0 + 2^bits - 1 = 2^bits - 1
  BY PowersOfTwo
<1>2. CASE t = "INTEGER"
  <2>1. Modulus(t) = 2^IntBits /\ ItemsOf(t) = -(2^(IntBits - 1)) .. 2^(IntBits - 1) - 1
    BY <1>2 DEF Modulus, ItemsOf, StringTypes
  <2> QED
    BY <1>1, <2>1
<1>3. CASE t = "UINTEGER"
  <2>1. Modulus(t) = 2^IntBits /\ ItemsOf(t) = 0 .. 2^IntBits - 1
    BY <1>3 DEF Modulus, ItemsOf, StringTypes
  <2> QED
    BY <1>1, <2>1
<1>4. CASE t = "LONG"
  <2>1. Modulus(t) = 2^LongBits /\ ItemsOf(t) = -(2^(LongBits - 1)) .. 2^(LongBits - 1) - 1
    BY <1>4 DEF Modulus, ItemsOf, StringTypes
  <2> QED
    BY <1>1, <2>1
<1>5. CASE t = "ULONG"
  <2>1. Modulus(t) = 2^LongBits /\ ItemsOf(t) = 0 .. 2^LongBits - 1
    BY <1>5 DEF Modulus, ItemsOf, StringTypes
  <2> QED
    BY <1>1, <2>1
<1> QED
  BY <1>2, <1>3, <1>4, <1>5 DEF IntegerTypes

LEMMA ReadIsCongruent ==
  ASSUME NEW t \in IntegerTypes, NEW n \in Int
  PROVE  (n - Read(t, n)) % Modulus(t) = 0
<1> DEFINE M == Modulus(t)
           r == n % Modulus(t)
<1>1. M \in Nat \ {0}
  BY IntegerItems
<1>2. Read(t, n) = r \/ Read(t, n) = r - M
  <2>1. CASE t = "INTEGER"
    BY <2>1 DEF Read, IsSigned, IsUnsigned, WidthOf, Modulus, Signed
  <2>2. CASE t = "LONG"
    BY <2>2 DEF Read, IsSigned, IsUnsigned, WidthOf, Modulus, Signed
  <2>3. CASE t = "UINTEGER"
    BY <2>3 DEF Read, IsSigned, IsUnsigned, WidthOf, Modulus
  <2>4. CASE t = "ULONG"
    BY <2>4 DEF Read, IsSigned, IsUnsigned, WidthOf, Modulus
  <2> QED
    BY <2>1, <2>2, <2>3, <2>4 DEF IntegerTypes
<1> HIDE DEF M
<1>3. PICK q \in Int : n = M * q + r /\ r \in 0 .. M - 1
  <2>1. \E q \in Int : n = M * q + (n % M) /\ (n % M) \in 0 .. M - 1
    BY <1>1, Quotient
  <2> QED
    BY <2>1 DEF M
<1> HIDE DEF r
<1>4. n - r = M * q /\ n - (r - M) = M * (q + 1)
  BY <1>1, <1>3
<1>5. (n - r) % M = 0 /\ (n - (r - M)) % M = 0
  <2>1. q + 1 \in Int
    BY <1>3
  <2> QED
    BY <1>1, <1>3, <1>4, <2>1, MultipleIsCongruent
<1> QED
  BY <1>2, <1>5 DEF M

\* There is just one such value.
LEMMA CongruentItem ==
  ASSUME NEW t \in IntegerTypes, NEW n \in Int, NEW v \in ItemsOf(t),
         (n - v) % Modulus(t) = 0
  PROVE  (CHOOSE w \in ItemsOf(t) : (n - w) % Modulus(t) = 0) = v
<1> DEFINE M == Modulus(t)
           w == CHOOSE x \in ItemsOf(t) : (n - x) % M = 0
<1>1. w \in ItemsOf(t) /\ (n - w) % M = 0
  OBVIOUS
<1>2. M \in Nat \ {0}
  BY IntegerItems
<1>3. PICK low \in Int : ItemsOf(t) = low .. low + M - 1
  BY IntegerItems
<1> HIDE DEF M, w
<1>4. v \in low .. low + M - 1 /\ w \in low .. low + M - 1 /\ (n - v) % M = 0
  BY <1>1, <1>3 DEF M
<1>5. v = w
  BY <1>1, <1>2, <1>4, OneCongruent
<1> QED
  BY <1>5 DEF w, M

LEMMA MeantIsRead ==
  ASSUME NEW p, NEW text, p.type \in NumberTypes, Parses(p.type, text.number[1])
  PROVE  /\ Meant(p, text) = Read(p.type, text.number[1])
         /\ Meant(p, text) \in ItemsOf(p.type)
<1> DEFINE t == p.type
           n == text.number[1]
<1>1. Read(t, n) \in ItemsOf(t) /\ n \in Int
  <2>1. t \in PropertyTypes \ (StringTypes \cup {"NONE", "STRUCTURE"})
    BY DEF NumberTypes, PropertyTypes, StringTypes
  <2>2. Read(t, n) \in ItemsOf(t)
    BY <2>1, ReadFits
  <2>3. 2^LongBits \in Int /\ 2^(LongBits - 1) \in Int
    BY PowersOfTwo
  <2>4. n \in Int
    BY <2>3 DEF Parses, IsSigned, IsUnsigned
  <2> QED
    BY <2>2, <2>4
<1>2. CASE t \in {"FLOAT", "DOUBLE"}
  BY <1>1, <1>2 DEF Meant, Read, IsSigned, IsUnsigned
<1>3. CASE t \in IntegerTypes
  <2>1. Meant(p, text) = CHOOSE w \in ItemsOf(t) : (n - w) % Modulus(t) = 0
    BY <1>3 DEF Meant, IntegerTypes
  <2>2. (n - Read(t, n)) % Modulus(t) = 0
    BY <1>1, <1>3, ReadIsCongruent
  <2> HIDE DEF n, t
  <2>3. Meant(p, text) = Read(t, n)
    BY <1>1, <1>3, <2>1, <2>2, CongruentItem
  <2> QED
    BY <1>1, <2>3 DEF n, t
<1> QED
  BY <1>2, <1>3 DEF NumberTypes, IntegerTypes

\* A value of a type is read back as it is.
LEMMA ReadBack ==
  ASSUME NEW t \in IntegerTypes, NEW v \in ItemsOf(t)
  PROVE  /\ Parses(t, v)
         /\ (CHOOSE w \in ItemsOf(t) : (v - w) % Modulus(t) = 0) = v
<1>1. v \in Int
  BY NumbersAreIntegers DEF IntegerTypes, NumberTypes
<1>2. (v - v) % Modulus(t) = 0
  <2>1. Modulus(t) \in Nat \ {0}
    BY IntegerItems
  <2> DEFINE M == Modulus(t)
  <2>2. v - v = M * 0
    BY <1>1, <2>1
  <2> HIDE DEF M
  <2>3. (M * 0) % M = 0
    BY <2>1, MultipleIsCongruent DEF M
  <2> QED
    BY <2>2, <2>3 DEF M
<1>3. Parses(t, v)
  <2>1. /\ 2^(IntBits - 1) \in Nat \ {0} /\ 2^IntBits = 2 * 2^(IntBits - 1)
        /\ 2^(LongBits - 1) \in Nat \ {0} /\ 2^LongBits = 2 * 2^(LongBits - 1)
        /\ 2^IntBits <= 2^LongBits
    BY PowersOfTwo
  <2>2. CASE t = "INTEGER"
    BY <2>1, <2>2 DEF Parses, ItemsOf, IsSigned, IsUnsigned, StringTypes
  <2>3. CASE t = "UINTEGER"
    BY <2>1, <2>3 DEF Parses, ItemsOf, IsSigned, IsUnsigned, StringTypes
  <2>4. CASE t = "LONG"
    BY <2>1, <2>4 DEF Parses, ItemsOf, IsSigned, IsUnsigned, StringTypes
  <2>5. CASE t = "ULONG"
    BY <2>1, <2>5 DEF Parses, ItemsOf, IsSigned, IsUnsigned, StringTypes
  <2> QED
    BY <2>2, <2>3, <2>4, <2>5 DEF IntegerTypes
<1> QED
  BY <1>1, <1>2, <1>3, CongruentItem

-----------------------------------------------------------------------------
(* The assignments that a file makes.                                      *)

Deeds == {Fault} \cup (Refs \X Nat \X (Int \cup Texts \cup [type : PropertyTypes, value : Texts]))

LEMMA MeantTyped ==
  ASSUME NEW p, Sound(p), NEW text \in Texts, Readable(p, text)
  PROVE  /\ p.type \in NumberTypes \cup {"CHARSTR"}
         /\ p.type = "CHARSTR" => Meant(p, text) = text
         /\ p.class = "property" => p.type = "CHARSTR"
         /\ p.type # "CHARSTR" => Meant(p, text) \in Int
<1>1. p.type \in NumberTypes \cup {"CHARSTR"}
  BY DEF Readable, NumberTypes, PropertyTypes
<1>2. p.type = "CHARSTR" => Meant(p, text) = text
  BY DEF Meant
<1>3. p.class = "property" => p.type = "CHARSTR"
  BY <1>1 DEF Sound, WellTyped, StringTypes, NumberTypes
<1>4. ASSUME p.type # "CHARSTR" PROVE Meant(p, text) \in Int
  <2>1. p.type \in NumberTypes /\ Parses(p.type, text.number[1])
    BY <1>1, <1>4 DEF Readable
  <2>2. Meant(p, text) \in ItemsOf(p.type)
    BY <2>1, MeantIsRead
  <2> QED
    BY <2>1, <2>2, NumbersAreIntegers
<1> QED
  BY <1>1, <1>2, <1>3, <1>4

\* The index of the item, and the value that is assigned to it.
IndexOf(p, i) == IF p.class = "wrapper" /\ p.type = "CHARSTR" THEN 0 ELSE i

ValueOf(p, text) ==
  IF p.class = "property" THEN [type |-> p.type, value |-> Meant(p, text)]
  ELSE Meant(p, text)

Unassignable(p, text, i) ==
  ~ Readable(p, text) \/ IndexOf(p, i) >= Len(p.items)
  \/ (p.class = "property" /\ p.access = "OUT")

LEMMA AssignedByCases ==
  ASSUME NEW r, NEW p, NEW text, NEW i
  PROVE  AssignedBy(r, p, text, i) =
           IF text = Null THEN <<Fault>>
           ELSE IF Unassignable(p, text, i) THEN <<Fault>>
           ELSE IF text.tail # {} /\ p.type # "CHARSTR"
                THEN << <<r, IndexOf(p, i), ValueOf(p, text)>>, Fault>>
           ELSE << <<r, IndexOf(p, i), ValueOf(p, text)>> >>
<1> DEFINE index == IndexOf(p, i)
           value == ValueOf(p, text)
<1>1. AssignedBy(r, p, text, i) =
        IF text = Null THEN <<Fault>>
        ELSE IF Unassignable(p, text, i) THEN <<Fault>>
        ELSE << <<r, index, value>> >>
             \o (IF text.tail # {} /\ p.type # "CHARSTR" THEN <<Fault>> ELSE <<>>)
  BY DEF AssignedBy, Unassignable, IndexOf, ValueOf
<1>2. ASSUME NEW x, NEW y
      PROVE  <<x>> \o <<y>> = <<x, y>> /\ <<x>> \o <<>> = <<x>>
  <2> DEFINE S == {x, y}
             s == <<x>>
             t == <<y>>
             both == s \o t
  <2>1. /\ s \in Seq(S) /\ Len(s) = 1 /\ s[1] = x
        /\ t \in Seq(S) /\ Len(t) = 1 /\ t[1] = y
    OBVIOUS
  <2> HIDE DEF s, t
  <2>2. s \o <<>> = s
    BY <2>1, ConcatEmptySeq
  <2>3. both \in Seq(S) /\ Len(both) = 2 /\ both[1] = s[1] /\ both[2] = t[1]
    <3>1. /\ both \in Seq(S) /\ Len(both) = Len(s) + Len(t)
          /\ \A k \in 1 .. Len(s) + Len(t) :
               both[k] = IF k <= Len(s) THEN s[k] ELSE t[k - Len(s)]
      <4> HIDE DEF S
      <4> QED
        BY <2>1, ConcatProperties
    <3> HIDE DEF both, S
    <3> QED
      BY <2>1, <3>1
  <2> HIDE DEF both
  <2>4. both = <<x, y>>
    BY <2>1, <2>3
  <2> QED
    BY <2>2, <2>4 DEF s, t, both
<1> HIDE DEF index, value
<1>3. AssignedBy(r, p, text, i) =
           IF text = Null THEN <<Fault>>
           ELSE IF Unassignable(p, text, i) THEN <<Fault>>
           ELSE IF text.tail # {} /\ p.type # "CHARSTR"
                THEN << <<r, index, value>>, Fault>>
           ELSE << <<r, index, value>> >>
  BY <1>1, <1>2
<1> QED
  BY <1>3 DEF index, value

LEMMA DeedTyped ==
  ASSUME NEW r \in Refs, NEW p, Sound(p), NEW text \in Texts, NEW i \in Nat,
         ~ Unassignable(p, text, i)
  PROVE  /\ <<r, IndexOf(p, i), ValueOf(p, text)>> \in Deeds
         /\ <<r, IndexOf(p, i), ValueOf(p, text)>> # Fault
         /\ IndexOf(p, i) \in Nat /\ IndexOf(p, i) + 1 \in DOMAIN p.items
<1>1. IndexOf(p, i) \in Nat
  BY DEF IndexOf
<1>2. Readable(p, text) /\ ~ (IndexOf(p, i) >= Len(p.items))
  BY DEF Unassignable
<1>3. IndexOf(p, i) + 1 \in DOMAIN p.items
  BY <1>1, <1>2 DEF Sound, IsSequence
<1>4. ValueOf(p, text) \in Int \cup Texts \cup [type : PropertyTypes, value : Texts]
  <2>1. p.type \in PropertyTypes
    BY DEF Sound, WellTyped
  <2>2. CASE p.class = "property"
    <3>1. Meant(p, text) = text
      BY <1>2, <2>2, MeantTyped
    <3> QED
      BY <2>1, <2>2, <3>1 DEF ValueOf
  <2>3. CASE p.class # "property"
    <3>1. Meant(p, text) \in Int \cup Texts
      BY <1>2, MeantTyped
    <3> QED
      BY <2>3, <3>1 DEF ValueOf
  <2> QED
    BY <2>2, <2>3
<1> DEFINE a == <<r, IndexOf(p, i), ValueOf(p, text)>>
<1>5. a \in Refs \X Nat \X (Int \cup Texts \cup [type : PropertyTypes, value : Texts])
  BY <1>1, <1>4
<1> HIDE DEF a
<1>6. a \in Deeds /\ a # Fault
  BY <1>5, FaultAssumption DEF Deeds
<1> QED
  BY <1>1, <1>3, <1>6 DEF a

LEMMA AssignedByTyped ==
  ASSUME NEW r \in Refs, NEW p, Sound(p), NEW text \in Texts \cup {Null}, NEW i \in Nat
  PROVE  AssignedBy(r, p, text, i) \in Seq(Deeds)
<1> DEFINE a == <<r, IndexOf(p, i), ValueOf(p, text)>>
<1>1. text # Null /\ ~ Unassignable(p, text, i) => a \in Deeds
  BY DeedTyped
<1>2. Fault \in Deeds
  BY DEF Deeds
<1>3. AssignedBy(r, p, text, i) =
           IF text = Null THEN <<Fault>>
           ELSE IF Unassignable(p, text, i) THEN <<Fault>>
           ELSE IF text.tail # {} /\ p.type # "CHARSTR" THEN <<a, Fault>> ELSE <<a>>
  BY AssignedByCases
<1> HIDE DEF a
<1> QED
  BY <1>1, <1>2, <1>3

PropertyNodesOf(elements) == [node : {"property"}, map : Maps, element : elements]

\* The assignments of a node, with those of the nodes inside taken from f.
AssignedAt(f, props, lists, n) ==
  LET e == n.element
      r == Find(props, lists[n.map], e.name)
      p == props[r]
      texts == IF e.value # Null THEN <<e.value>> ELSE e.values
      inside == PropertyNodes(p.items[1], e.children)
  IN  IF e.name = Null \/ ~ Lists(props, lists[n.map], e.name) \/ e.type = ""
      THEN <<Fault>>
      ELSE IF e.type # "structure"
      THEN FlattenSeq([k \in DOMAIN texts |-> AssignedBy(r, p, texts[k], k - 1)])
      ELSE IF p.type # "STRUCTURE" \/ p.items = <<>> THEN <<Fault>>
      ELSE IF p.items[1] = Null THEN <<Fault>>
      ELSE FlattenSeq([k \in DOMAIN inside |-> f[inside[k]]])

Allots(f, props, lists, elements) ==
  f = [n \in PropertyNodesOf(elements) |-> AssignedAt(f, props, lists, n)]

LEMMA FoundThere ==
  ASSUME NEW props, NEW lists, Coherent(props, lists), NEW m \in Maps, NEW name,
         Lists(props, lists[m], name)
  PROVE  /\ Find(props, lists[m], name) \in Refs
         /\ Find(props, lists[m], name) \in ToSet(lists[m])
         /\ props[Find(props, lists[m], name)].name = name
         /\ Sound(props[Find(props, lists[m], name)])
<1>1. ToSet(lists[m]) \subseteq Refs
  BY DEF Coherent, ToSet
<1> DEFINE r == Find(props, lists[m], name)
<1>2. r \in ToSet(lists[m]) /\ props[r].name = name
  BY DEF Lists, Find
<1> HIDE DEF r
<1>3. r \in Refs /\ Sound(props[r])
  BY <1>1, <1>2 DEF Coherent
<1> QED
  BY <1>2, <1>3 DEF r

\* The nodes inside the structure of a node.
LEMMA InsideTyped ==
  ASSUME NEW m \in Maps, NEW elements, NEW children \in Seq(elements)
  PROVE  PropertyNodes(m, children) \in Seq(PropertyNodesOf(elements))
<1> DEFINE w(k) == [node |-> "property", map |-> m, element |-> children[k]]
           size == Len(children)
<1>1. size \in Nat /\ \A k \in 1 .. size : w(k) \in PropertyNodesOf(elements)
  BY DEF PropertyNodesOf
<1>2. PropertyNodes(m, children) = [k \in 1 .. size |-> w(k)]
  BY DEF PropertyNodes
<1> HIDE DEF w, size
<1> QED
  BY <1>1, <1>2

LEMMA InnerMap ==
  ASSUME NEW p, Sound(p), p.type = "STRUCTURE", p.items # <<>>, p.items[1] # Null
  PROVE  p.items[1] \in Maps
<1>1. IsSequence(p.items) /\ p.items # <<>>
  BY DEF Sound
<1>2. 1 \in DOMAIN p.items
  BY <1>1 DEF IsSequence
<1> QED
  BY <1>2, StructureItems

LEMMA SameAssigned ==
  ASSUME NEW props, NEW lists, Coherent(props, lists), NEW inner, NEW elements,
         NEW n \in PropertyNodesOf(elements), n.element.children \in Seq(inner),
         NEW f, NEW g, \A x \in PropertyNodesOf(inner) : f[x] = g[x]
  PROVE  AssignedAt(f, props, lists, n) = AssignedAt(g, props, lists, n)
<1> DEFINE e == n.element
           r == Find(props, lists[n.map], e.name)
           p == props[r]
           texts == IF e.value # Null THEN <<e.value>> ELSE e.values
           inside == PropertyNodes(p.items[1], e.children)
           Inner(h) == [k \in DOMAIN inside |-> h[inside[k]]]
           opens == /\ Lists(props, lists[n.map], e.name)
                    /\ p.type = "STRUCTURE" /\ p.items # <<>> /\ p.items[1] # Null
           others == FlattenSeq([k \in DOMAIN texts |-> AssignedBy(r, p, texts[k], k - 1)])
<1>1. \A h : AssignedAt(h, props, lists, n) =
        IF e.name = Null \/ ~ Lists(props, lists[n.map], e.name) \/ e.type = ""
        THEN <<Fault>>
        ELSE IF e.type # "structure" THEN others
        ELSE IF p.type # "STRUCTURE" \/ p.items = <<>> THEN <<Fault>>
        ELSE IF p.items[1] = Null THEN <<Fault>>
        ELSE FlattenSeq(Inner(h))
  BY DEF AssignedAt
<1>2. opens => Inner(f) = Inner(g)
  <2> SUFFICES ASSUME opens PROVE Inner(f) = Inner(g)
    OBVIOUS
  <2>1. n.map \in Maps
    BY DEF PropertyNodesOf
  <2>2. Sound(p)
    BY <2>1, FoundThere
  <2>3. p.items[1] \in Maps
    BY <2>2, InnerMap
  <2>4. inside \in Seq(PropertyNodesOf(inner))
    BY <2>3, InsideTyped
  <2> HIDE DEF inside
  <2>5. \A k \in DOMAIN inside : f[inside[k]] = g[inside[k]]
    BY <2>4
  <2> QED
    BY <2>5
<1> HIDE DEF Inner, p, r, e, others
<1> QED
  BY <1>1, <1>2

LEMMA AllotmentExists ==
  ASSUME NEW props, NEW lists, Coherent(props, lists)
  PROVE  \E f : Allots(f, props, lists, AllElements)
<1> DEFINE n == MaxNesting
           T == {k \in 0 .. n : \E f : Allots(f, props, lists, Elements[k])}
<1>1. n \in Nat
  BY BoundsAssumption
<1>2. ASSUME NEW k \in 0 .. n, NEW f,
             f = [x \in PropertyNodesOf(Elements[k]) |-> f[x]],
             NEW inner, Elements[k] = ElementsOver(inner), NEW g,
             \A x \in PropertyNodesOf(inner) : g[x] = f[x],
             \A x \in PropertyNodesOf(Elements[k]) : f[x] = AssignedAt(g, props, lists, x)
      PROVE  Allots(f, props, lists, Elements[k])
  <2>1. ASSUME NEW x \in PropertyNodesOf(Elements[k])
        PROVE  f[x] = AssignedAt(f, props, lists, x)
    <3>1. x.element.children \in Seq(inner)
      BY <1>2 DEF PropertyNodesOf, ElementsOver
    <3> DEFINE elements == Elements[k]
    <3>2. /\ x \in PropertyNodesOf(elements)
          /\ \A y \in PropertyNodesOf(inner) : g[y] = f[y]
      BY <1>2
    <3> HIDE DEF T, elements
    <3>3. AssignedAt(g, props, lists, x) = AssignedAt(f, props, lists, x)
      BY <3>1, <3>2, SameAssigned
    <3> QED
      BY <1>2, <3>3
  <2> QED
    BY <1>2, <2>1 DEF Allots
<1>3. 0 \in T
  <2> DEFINE g == [x \in {} |-> {}]
             f == [x \in PropertyNodesOf(Elements[0]) |-> AssignedAt(g, props, lists, x)]
  <2>1. Elements[0] = ElementsOver({})
    BY <1>1, ElementLayers
  <2>2. f = [x \in PropertyNodesOf(Elements[0]) |-> f[x]]
        /\ \A x \in PropertyNodesOf(Elements[0]) : f[x] = AssignedAt(g, props, lists, x)
    OBVIOUS
  <2>3. \A x \in PropertyNodesOf({}) : g[x] = f[x]
    BY DEF PropertyNodesOf
  <2> HIDE DEF f, g
  <2>4. Allots(f, props, lists, Elements[0])
    BY <1>1, <1>2, <2>1, <2>2, <2>3
  <2> QED
    BY <1>1, <2>4
<1>4. ASSUME NEW k \in 0 .. n - 1, k \in T PROVE k + 1 \in T
  <2> DEFINE inner == Elements[k]
             outer == Elements[k + 1]
  <2>1. k \in 0 .. n /\ k + 1 \in 0 .. n /\ k + 1 # 0 /\ (k + 1) - 1 = k
    BY <1>1
  <2>2. outer = ElementsOver(inner)
    BY <2>1, ElementLayers
  <2>3. PICK g : Allots(g, props, lists, inner)
    BY <1>4
  <2> DEFINE f == [x \in PropertyNodesOf(outer) |-> AssignedAt(g, props, lists, x)]
  <2>4. f = [x \in PropertyNodesOf(outer) |-> f[x]]
        /\ \A x \in PropertyNodesOf(outer) : f[x] = AssignedAt(g, props, lists, x)
    OBVIOUS
  <2>5. inner \subseteq outer
    BY <2>1, ElementsStep
  <2> HIDE DEF f, inner, outer
  <2>6. \A x \in PropertyNodesOf(inner) : g[x] = AssignedAt(g, props, lists, x)
    BY <2>3 DEF Allots
  <2>7. \A x \in PropertyNodesOf(inner) : g[x] = f[x]
    BY <2>4, <2>5, <2>6 DEF PropertyNodesOf
  <2>8. Allots(f, props, lists, outer)
    BY <1>2, <2>1, <2>2, <2>4, <2>7 DEF outer
  <2> QED
    BY <2>1, <2>8 DEF outer
<1>5. 0 .. n \subseteq T
  <2> HIDE DEF T
  <2> QED
    BY <1>1, <1>3, <1>4, StepByStep
<1> QED
  BY <1>1, <1>5 DEF AllElements

LEMMA AssignmentsAre ==
  ASSUME NEW props, NEW lists, Coherent(props, lists),
         NEW n \in PropertyNodesOf(AllElements)
  PROVE  Assignments(props, lists)[n]
           = AssignedAt(Assignments(props, lists), props, lists, n)
<1> DEFINE A == Assignments(props, lists)
<1>1. A = CHOOSE f : Allots(f, props, lists, AllElements)
  BY DEF Assignments, Allots, AssignedAt, PropertyNodesOf, AllElements
<1> HIDE DEF A
<1>2. Allots(A, props, lists, AllElements)
  BY <1>1, AllotmentExists
<1>3. A[n] = AssignedAt(A, props, lists, n)
  BY <1>2 DEF Allots
<1> QED
  BY <1>3 DEF A

\* The texts of an element.
LEMMA TextsOf ==
  ASSUME NEW e \in AllElements
  PROVE  (IF e.value # Null THEN <<e.value>> ELSE e.values) \in Seq(Texts \cup {Null})
<1> DEFINE S == Texts \cup {Null}
           v == e.value
<1>1. v \in S /\ e.values \in Seq(S)
  BY ElementParts
<1> HIDE DEF S, v
<1>2. <<v>> \in Seq(S)
  BY <1>1
<1> QED
  BY <1>1, <1>2 DEF S, v

LEMMA ValuesTyped ==
  ASSUME NEW r \in Refs, NEW p, Sound(p), NEW texts \in Seq(Texts \cup {Null})
  PROVE  [k \in DOMAIN texts |-> AssignedBy(r, p, texts[k], k - 1)] \in Seq(Seq(Deeds))
<1> DEFINE w(k) == AssignedBy(r, p, texts[k], k - 1)
           size == Len(texts)
<1>1. size \in Nat /\ DOMAIN texts = 1 .. size
      /\ \A k \in 1 .. size : texts[k] \in Texts \cup {Null} /\ k - 1 \in Nat
  OBVIOUS
<1>2. \A k \in 1 .. size : w(k) \in Seq(Deeds)
  BY <1>1, AssignedByTyped
<1> HIDE DEF w, size
<1>3. [k \in 1 .. size |-> w(k)] \in Seq(Seq(Deeds))
  BY <1>1, <1>2
<1> QED
  BY <1>1, <1>3 DEF w, size

LEMMA AssignedAtTyped ==
  ASSUME NEW props, NEW lists, Coherent(props, lists), NEW inner, NEW f,
         NEW n \in PropertyNodesOf(AllElements), n.element.children \in Seq(inner),
         \A x \in PropertyNodesOf(inner) : f[x] \in Seq(Deeds)
  PROVE  AssignedAt(f, props, lists, n) \in Seq(Deeds)
<1> DEFINE e == n.element
           r == Find(props, lists[n.map], e.name)
           p == props[r]
           texts == IF e.value # Null THEN <<e.value>> ELSE e.values
           inside == PropertyNodes(p.items[1], e.children)
           found == Lists(props, lists[n.map], e.name)
           opens == p.type = "STRUCTURE" /\ p.items # <<>> /\ p.items[1] # Null
           others == FlattenSeq([k \in DOMAIN texts |-> AssignedBy(r, p, texts[k], k - 1)])
           these == FlattenSeq([k \in DOMAIN inside |-> f[inside[k]]])
<1>1. AssignedAt(f, props, lists, n) =
        IF e.name = Null \/ ~ found \/ e.type = "" THEN <<Fault>>
        ELSE IF e.type # "structure" THEN others
        ELSE IF p.type # "STRUCTURE" \/ p.items = <<>> THEN <<Fault>>
        ELSE IF p.items[1] = Null THEN <<Fault>>
        ELSE these
  BY DEF AssignedAt
<1>2. n.map \in Maps /\ e \in AllElements
  BY DEF PropertyNodesOf
<1>3. found => r \in Refs /\ Sound(p)
  BY <1>2, FoundThere
<1>4. ASSUME found PROVE others \in Seq(Deeds)
  <2>1. [k \in DOMAIN texts |-> AssignedBy(r, p, texts[k], k - 1)] \in Seq(Seq(Deeds))
    <3>1. texts \in Seq(Texts \cup {Null})
      BY <1>2, TextsOf
    <3> HIDE DEF texts, r
    <3> QED
      BY <1>3, <1>4, <3>1, ValuesTyped
  <2> QED
    BY <2>1, FlattenType
<1>5. ASSUME found, opens PROVE these \in Seq(Deeds)
  <2>1. p.items[1] \in Maps
    BY <1>3, <1>5, InnerMap
  <2>2. inside \in Seq(PropertyNodesOf(inner))
    BY <2>1, InsideTyped
  <2> DEFINE size == Len(inside)
             w(k) == f[inside[k]]
  <2> HIDE DEF inside
  <2>3. size \in Nat /\ DOMAIN inside = 1 .. size /\ \A k \in 1 .. size : w(k) \in Seq(Deeds)
    BY <2>2
  <2>4. [k \in DOMAIN inside |-> f[inside[k]]] = [k \in 1 .. size |-> w(k)]
    BY <2>3
  <2>5. [k \in 1 .. size |-> w(k)] \in Seq(Seq(Deeds))
    <3> HIDE DEF size, w
    <3> QED
      BY <2>3
  <2> QED
    BY <2>4, <2>5, FlattenType
<1>6. <<Fault>> \in Seq(Deeds)
  BY DEF Deeds
<1> HIDE DEF e, r, p, texts, inside, found, others, these
<1>7. CASE ~ found
  BY <1>1, <1>6, <1>7
<1>8. CASE found /\ ~ opens
  BY <1>1, <1>4, <1>6, <1>8
<1>9. CASE found /\ opens
  BY <1>1, <1>4, <1>5, <1>6, <1>9
<1> QED
  BY <1>7, <1>8, <1>9

LEMMA AssignmentsTyped ==
  ASSUME NEW props, NEW lists, Coherent(props, lists)
  PROVE  \A n \in PropertyNodesOf(AllElements) : Assignments(props, lists)[n] \in Seq(Deeds)
<1> DEFINE A == Assignments(props, lists)
           n == MaxNesting
           T == {k \in 0 .. n : \A x \in PropertyNodesOf(Elements[k]) : A[x] \in Seq(Deeds)}
<1>1. n \in Nat
  BY BoundsAssumption
<1>2. \A x \in PropertyNodesOf(AllElements) : A[x] = AssignedAt(A, props, lists, x)
  BY AssignmentsAre
<1> HIDE DEF A
<1>3. ASSUME NEW k \in 0 .. n, NEW inner, Elements[k] = ElementsOver(inner),
             \A x \in PropertyNodesOf(inner) : A[x] \in Seq(Deeds)
      PROVE  k \in T
  <2>1. ASSUME NEW x \in PropertyNodesOf(Elements[k]) PROVE A[x] \in Seq(Deeds)
    <3>1. x.element.children \in Seq(inner)
      BY <1>3 DEF PropertyNodesOf, ElementsOver
    <3>2. Elements[k] \subseteq AllElements
      BY ElementsGrow DEF AllElements
    <3>3. x \in PropertyNodesOf(AllElements)
      BY <3>2 DEF PropertyNodesOf
    <3>4. AssignedAt(A, props, lists, x) \in Seq(Deeds)
      BY <1>3, <3>1, <3>3, AssignedAtTyped
    <3> QED
      BY <1>2, <3>3, <3>4
  <2> QED
    BY <2>1
<1>4. 0 \in T
  <2>1. Elements[0] = ElementsOver({})
    BY <1>1, ElementLayers
  <2>2. \A x \in PropertyNodesOf({}) : A[x] \in Seq(Deeds)
    BY DEF PropertyNodesOf
  <2> HIDE DEF T
  <2> QED
    BY <1>1, <1>3, <2>1, <2>2
<1>5. ASSUME NEW k \in 0 .. n - 1, k \in T PROVE k + 1 \in T
  <2>1. k + 1 \in 0 .. n /\ k + 1 # 0 /\ (k + 1) - 1 = k
    BY <1>1
  <2>2. Elements[k + 1] = ElementsOver(Elements[k])
    BY <2>1, ElementLayers
  <2>3. \A x \in PropertyNodesOf(Elements[k]) : A[x] \in Seq(Deeds)
    BY <1>5
  <2> HIDE DEF T
  <2> QED
    BY <1>3, <2>1, <2>2, <2>3
<1>6. 0 .. n \subseteq T
  <2> HIDE DEF T
  <2> QED
    BY <1>1, <1>4, <1>5, StepByStep
<1>7. n \in T
  BY <1>1, <1>6
<1> QED
  BY <1>7 DEF A, AllElements

-----------------------------------------------------------------------------
(* A configuration changes the values of properties; which assignments a   *)
(* file makes does not depend on them.                                     *)

SameShape(p, q) ==
  /\ q.class = p.class /\ q.name = p.name /\ q.type = p.type /\ q.access = p.access
  /\ Len(q.items) = Len(p.items)
  /\ p.type = "STRUCTURE" => q.items = p.items

SameShapes(props, later, lists) ==
  /\ Coherent(props, lists) /\ Coherent(later, lists)
  /\ \A r \in Refs : SameShape(props[r], later[r])

LEMMA SameFound ==
  ASSUME NEW props, NEW later, NEW lists, SameShapes(props, later, lists),
         NEW m \in Maps, NEW name
  PROVE  /\ Lists(later, lists[m], name) <=> Lists(props, lists[m], name)
         /\ Find(later, lists[m], name) = Find(props, lists[m], name)
<1> DEFINE S == ToSet(lists[m])
<1>1. S \subseteq Refs
  BY DEF SameShapes, Coherent, ToSet
<1>2. \A r \in S : props[r].name = name <=> later[r].name = name
  BY <1>1 DEF SameShapes, SameShape
<1> HIDE DEF S
<1>3. (CHOOSE r \in S : props[r].name = name) = (CHOOSE r \in S : later[r].name = name)
  BY <1>2, SMT
<1>4. (\E r \in S : props[r].name = name) <=> (\E r \in S : later[r].name = name)
  BY <1>2
<1> QED
  BY <1>3, <1>4 DEF Lists, Find, S

LEMMA SameAssignment ==
  ASSUME NEW p, NEW q, SameShape(p, q), NEW r, NEW text, NEW i
  PROVE  AssignedBy(r, q, text, i) = AssignedBy(r, p, text, i)
<1>1. Meant(q, text) = Meant(p, text)
  BY DEF Meant, SameShape
<1>2. IndexOf(q, i) = IndexOf(p, i) /\ ValueOf(q, text) = ValueOf(p, text)
  BY <1>1 DEF IndexOf, ValueOf, SameShape
<1>3. Unassignable(q, text, i) <=> Unassignable(p, text, i)
  BY <1>2 DEF Unassignable, Readable, SameShape
<1>4. p.type = q.type
  BY DEF SameShape
<1> QED
  BY <1>2, <1>3, <1>4, AssignedByCases

LEMMA SameAssignedAt ==
  ASSUME NEW props, NEW later, NEW lists, SameShapes(props, later, lists),
         NEW n \in PropertyNodesOf(AllElements), NEW f
  PROVE  AssignedAt(f, later, lists, n) = AssignedAt(f, props, lists, n)
<1> DEFINE e == n.element
           r == Find(props, lists[n.map], e.name)
           p == props[r]
           q == later[r]
           texts == IF e.value # Null THEN <<e.value>> ELSE e.values
           found == Lists(props, lists[n.map], e.name)
           others(x) == FlattenSeq([k \in DOMAIN texts |-> AssignedBy(r, x, texts[k], k - 1)])
           inside(x) == PropertyNodes(x.items[1], e.children)
           these(x) == FlattenSeq([k \in DOMAIN inside(x) |-> f[inside(x)[k]]])
           all(x) ==
             IF e.name = Null \/ ~ found \/ e.type = "" THEN <<Fault>>
             ELSE IF e.type # "structure" THEN others(x)
             ELSE IF x.type # "STRUCTURE" \/ x.items = <<>> THEN <<Fault>>
             ELSE IF x.items[1] = Null THEN <<Fault>>
             ELSE these(x)
<1>1. n.map \in Maps
  BY DEF PropertyNodesOf
<1>2. /\ Lists(later, lists[n.map], e.name) <=> found
      /\ Find(later, lists[n.map], e.name) = r
  BY <1>1, SameFound
<1>3. AssignedAt(f, props, lists, n) = all(p)
  BY DEF AssignedAt
<1>4. AssignedAt(f, later, lists, n) = all(q)
  <2> DEFINE s == Find(later, lists[n.map], e.name)
             there == Lists(later, lists[n.map], e.name)
             z == later[s]
  <2>1. AssignedAt(f, later, lists, n) =
           IF e.name = Null \/ ~ there \/ e.type = "" THEN <<Fault>>
           ELSE IF e.type # "structure"
           THEN FlattenSeq([k \in DOMAIN texts |-> AssignedBy(s, z, texts[k], k - 1)])
           ELSE IF z.type # "STRUCTURE" \/ z.items = <<>> THEN <<Fault>>
           ELSE IF z.items[1] = Null THEN <<Fault>>
           ELSE these(z)
    BY DEF AssignedAt
  <2>2. s = r /\ z = q /\ (there <=> found)
    BY <1>2
  <2> HIDE DEF s, there, z, these, found, r, q, texts, e
  <2> QED
    BY <2>1, <2>2
<1>5. ASSUME found PROVE all(p) = all(q)
  <2>1. r \in Refs /\ Sound(p)
    BY <1>1, <1>5, FoundThere DEF SameShapes
  <2>2. SameShape(p, q)
    BY <2>1 DEF SameShapes
  <2> HIDE DEF r, p, q, e, found, texts
  <2>3. \A k : AssignedBy(r, q, texts[k], k - 1) = AssignedBy(r, p, texts[k], k - 1)
    BY <2>2, SameAssignment
  <2>4. others(p) = others(q)
    BY <2>3
  <2> HIDE DEF others
  <2>5. p.type = q.type /\ (p.type = "STRUCTURE" => p.items = q.items)
    BY <2>2 DEF SameShape
  <2>6. p.type = "STRUCTURE" => these(p) = these(q)
    BY <2>5
  <2> HIDE DEF these
  <2> QED
    BY <2>4, <2>5, <2>6
<1>6. ~ found => all(p) = all(q)
  OBVIOUS
<1> HIDE DEF all, found, p, q
<1> QED
  BY <1>3, <1>4, <1>5, <1>6

LEMMA SameAssignments ==
  ASSUME NEW props, NEW later, NEW lists, SameShapes(props, later, lists)
  PROVE  Assignments(later, lists) = Assignments(props, lists)
<1> DEFINE P(f) == Allots(f, props, lists, AllElements)
           Q(f) == Allots(f, later, lists, AllElements)
<1>1. Assignments(props, lists) = CHOOSE f : P(f)
  BY DEF Assignments, Allots, AssignedAt, PropertyNodesOf, AllElements
<1>2. Assignments(later, lists) = CHOOSE f : Q(f)
  BY DEF Assignments, Allots, AssignedAt, PropertyNodesOf, AllElements
<1>3. ASSUME NEW f PROVE P(f) <=> Q(f)
  <2>1. [n \in PropertyNodesOf(AllElements) |-> AssignedAt(f, props, lists, n)]
          = [n \in PropertyNodesOf(AllElements) |-> AssignedAt(f, later, lists, n)]
    BY SameAssignedAt
  <2> QED
    BY <2>1 DEF Allots
<1> HIDE DEF P, Q
<1>4. (CHOOSE f : P(f)) = (CHOOSE f : Q(f))
  BY <1>3
<1> QED
  BY <1>1, <1>2, <1>4

\* What is asked of a property q of a map, when a map of that is read into it;
\* what is asked of the maps inside is taken from f.
AskedOfOne(f, old, props, lists, at, q) ==
  LET list == lists[at[3]]
      x == old.property[q]
      r == Find(props, list, x.name)
      y == props[r]
  IN  IF ~ Storable(x) \/ ~ Lists(props, list, x.name) THEN {Fault}
      ELSE IF ~ Takes(y, x) THEN {Fault}
      ELSE IF x.type # "STRUCTURE"
      THEN {<<r, i - 1, Printed(x.type, x.items[i])>> : i \in DOMAIN x.items}
      ELSE IF at[1] = 0 THEN {}
      ELSE f[<<at[1] - 1, x.items[1], y.items[1]>>]

AskedAt(f, old, props, lists, at) ==
  UNION {AskedOfOne(f, old, props, lists, at, q) : q \in ToSet(old.entries[at[2]])}

Requests(f, old, props, lists, n) ==
  f = [at \in (0 .. n) \X Maps \X Maps |-> AskedAt(f, old, props, lists, at)]

LEMMA SameAskedAt ==
  ASSUME NEW old, NEW props, NEW later, NEW lists, SameShapes(props, later, lists),
         NEW n \in Nat, NEW at \in (0 .. n) \X Maps \X Maps, NEW f
  PROVE  AskedAt(f, old, later, lists, at) = AskedAt(f, old, props, lists, at)
<1>1. ASSUME NEW q
      PROVE  AskedOfOne(f, old, later, lists, at, q) = AskedOfOne(f, old, props, lists, at, q)
  <2> DEFINE m == at[3]
             x == old.property[q]
             found == Lists(props, lists[m], x.name)
             r == Find(props, lists[m], x.name)
             these == {<<r, i - 1, Printed(x.type, x.items[i])>> : i \in DOMAIN x.items}
             all(y) ==
               IF ~ Storable(x) \/ ~ found THEN {Fault}
               ELSE IF ~ Takes(y, x) THEN {Fault}
               ELSE IF x.type # "STRUCTURE" THEN these
               ELSE IF at[1] = 0 THEN {}
               ELSE f[<<at[1] - 1, x.items[1], y.items[1]>>]
  <2>1. m \in Maps
    OBVIOUS
  <2>2. /\ Lists(later, lists[m], x.name) <=> found
        /\ Find(later, lists[m], x.name) = r
    <3> HIDE DEF m
    <3> QED
      BY <2>1, SameFound
  <2>3. AskedOfOne(f, old, props, lists, at, q) = all(props[r])
    BY DEF AskedOfOne
  <2>4. AskedOfOne(f, old, later, lists, at, q) = all(later[r])
    <3> DEFINE s == Find(later, lists[m], x.name)
               there == Lists(later, lists[m], x.name)
    <3>1. AskedOfOne(f, old, later, lists, at, q) =
               IF ~ Storable(x) \/ ~ there THEN {Fault}
               ELSE IF ~ Takes(later[s], x) THEN {Fault}
               ELSE IF x.type # "STRUCTURE"
               THEN {<<s, i - 1, Printed(x.type, x.items[i])>> : i \in DOMAIN x.items}
               ELSE IF at[1] = 0 THEN {}
               ELSE f[<<at[1] - 1, x.items[1], later[s].items[1]>>]
      BY DEF AskedOfOne
    <3>2. s = r /\ (there <=> found)
      BY <2>2
    <3> HIDE DEF s, there, found, r, x
    <3> QED
      BY <3>1, <3>2
  <2>5. ASSUME found PROVE all(props[r]) = all(later[r])
    <3>1. r \in Refs
      BY <2>1, <2>5, FoundThere DEF SameShapes
    <3> DEFINE y == props[r]
               z == later[r]
    <3>2. SameShape(y, z)
      BY <3>1 DEF SameShapes
    <3> HIDE DEF y, z, r, x, found
    <3>3. (Takes(y, x) <=> Takes(z, x)) /\ (Takes(y, x) => y.type = x.type)
      BY <3>2 DEF Takes, SameShape
    <3>4. y.type = "STRUCTURE" => z.items = y.items
      BY <3>2 DEF SameShape
    <3> HIDE DEF these
    <3>5. all(y) = all(z)
      BY <3>3, <3>4
    <3> QED
      BY <3>5 DEF y, z
  <2>6. ~ found => all(props[r]) = all(later[r])
    OBVIOUS
  <2> QED
    BY <2>3, <2>4, <2>5, <2>6
<1> QED
  BY <1>1 DEF AskedAt

LEMMA SameAsked ==
  ASSUME NEW old, NEW props, NEW later, NEW lists, SameShapes(props, later, lists)
  PROVE  Asked(old, later, lists) = Asked(old, props, lists)
<1> DEFINE P(f) == Requests(f, old, props, lists, MaxNesting)
           Q(f) == Requests(f, old, later, lists, MaxNesting)
<1>1. Asked(old, props, lists) = CHOOSE f : P(f)
  BY DEF Asked, Requests, AskedAt, AskedOfOne
<1>2. Asked(old, later, lists) = CHOOSE f : Q(f)
  BY DEF Asked, Requests, AskedAt, AskedOfOne
<1>3. ASSUME NEW f PROVE P(f) <=> Q(f)
  <2>1. MaxNesting \in Nat
    BY BoundsAssumption
  <2>2. [at \in (0 .. MaxNesting) \X Maps \X Maps |-> AskedAt(f, old, props, lists, at)]
          = [at \in (0 .. MaxNesting) \X Maps \X Maps |-> AskedAt(f, old, later, lists, at)]
    BY <2>1, SameAskedAt
  <2> QED
    BY <2>2 DEF Requests
<1> HIDE DEF P, Q
<1>4. (CHOOSE f : P(f)) = (CHOOSE f : Q(f))
  BY <1>3
<1> QED
  BY <1>1, <1>2, <1>4

-----------------------------------------------------------------------------
(* The nodes that a configuration visits.                                  *)

LEMMA LeastOf ==
  ASSUME NEW n \in Nat, NEW I \in SUBSET (1 .. n), I # {}
  PROVE  Min(I) \in I /\ \A i \in I : Min(I) <= i
<1> DEFINE Less == OpToRel(<, Nat)
<1>1. Less = {pair \in Nat \X Nat : pair[1] < pair[2]}
  BY DEF OpToRel
<1>2. IsWellFoundedOn(Less, Nat)
  BY NatLessThanWellFounded
<1>3. I \subseteq Nat
  OBVIOUS
<1> HIDE DEF Less
<1>4. PICK x \in I : \A y \in I : ~(<<y, x>> \in Less)
  BY <1>2, <1>3, WFMin
<1>5. ASSUME NEW y \in I PROVE x <= y
  <2>1. x \in Nat /\ y \in Nat /\ <<y, x>> \notin Less
    BY <1>3, <1>4
  <2>2. ~ (y < x)
    BY <1>1, <2>1
  <2> QED
    BY <2>1, <2>2
<1> QED
  BY <1>5 DEF Min

\* The first section of a kind.
FirstOf(sections, kind) == SelectInSeq(sections, LAMBDA s : s.section = kind)

LEMMA FirstSection ==
  ASSUME NEW sections \in Files, NEW kind
  PROVE  /\ FirstOf(sections, kind) \in 0 .. Len(sections)
         /\ FirstOf(sections, kind) # 0 => sections[FirstOf(sections, kind)].section = kind
         /\ \A i \in 1 .. Len(sections) : sections[i].section = kind =>
              FirstOf(sections, kind) # 0 /\ FirstOf(sections, kind) <= i
<1> DEFINE n == Len(sections)
           I == {i \in 1 .. n : sections[i].section = kind}
<1>1. FirstOf(sections, kind) = IF I # {} THEN Min(I) ELSE 0
  BY DEF FirstOf, SelectInSeq
<1>2. n \in Nat
  BY DEF Files
<1> DEFINE first == FirstOf(sections, kind)
<1>3. I # {} => Min(I) \in I /\ \A i \in I : Min(I) <= i
  <2>1. I \in SUBSET (1 .. n)
    OBVIOUS
  <2> HIDE DEF I, n
  <2> QED
    BY <1>2, <2>1, LeastOf
<1>4. CASE I = {}
  BY <1>1, <1>2, <1>4
<1>5. CASE I # {}
  <2>1. first \in I /\ \A i \in I : first <= i
    BY <1>1, <1>3, <1>5
  <2> HIDE DEF first
  <2>2. /\ first \in 1 .. n /\ sections[first].section = kind
        /\ \A i \in 1 .. n : sections[i].section = kind => first <= i
    BY <2>1
  <2> HIDE DEF n
  <2>3. /\ first \in 0 .. n /\ first # 0
    BY <1>2, <2>2
  <2> QED
    BY <2>2, <2>3 DEF first, n
<1> QED
  BY <1>4, <1>5

ElementNodesOf == [node : {"configuration", "properties"}, element : ComponentElements]
ValueNodesOf == [node : {"value"}, ref : Refs, text : Texts \cup {Null}, index : Nat]
WalkNodes == ElementNodesOf \cup PropertyNodesOf(AllElements) \cup ValueNodesOf

LEMMA ElementNodesAre ==
  ASSUME NEW sections \in Files, NEW kind
  PROVE  ElementNodes(sections, kind) =
           IF FirstOf(sections, kind) = 0 THEN <<>>
           ELSE [k \in DOMAIN sections[FirstOf(sections, kind)].elements |->
                   [node |-> kind, element |-> sections[FirstOf(sections, kind)].elements[k]]]
BY DEF ElementNodes, FirstOf

LEMMA NodesTyped ==
  ASSUME NEW content \in Files \cup {Null} PROVE Nodes(content) \in Seq(WalkNodes)
<1>1. ASSUME content \in Files, NEW kind \in {"configuration", "properties"}
      PROVE  ElementNodes(content, kind) \in Seq(WalkNodes)
  <2> DEFINE first == FirstOf(content, kind)
             l == content[first].elements
             size == Len(l)
             w(k) == [node |-> kind, element |-> l[k]]
  <2>1. first \in 0 .. Len(content)
    BY <1>1, FirstSection
  <2>2. ElementNodes(content, kind) =
          IF first = 0 THEN <<>> ELSE [k \in DOMAIN l |-> w(k)]
    BY <1>1, ElementNodesAre
  <2> HIDE DEF first
  <2>3. ASSUME first # 0 PROVE [k \in DOMAIN l |-> w(k)] \in Seq(WalkNodes)
    <3>1. l \in Seq(ComponentElements)
      <4> DEFINE S == [section : STRING, elements : Seq(ComponentElements)]
      <4>1. content \in Seq(S)
        BY <1>1 DEF Files
      <4> HIDE DEF S
      <4>2. content[first] \in S
        BY <2>1, <2>3, <4>1
      <4> QED
        BY <4>2 DEF S
    <3> HIDE DEF l
    <3>2. size \in Nat /\ DOMAIN l = 1 .. size /\ \A k \in 1 .. size : w(k) \in WalkNodes
      BY <3>1 DEF WalkNodes, ElementNodesOf
    <3> HIDE DEF size, w
    <3> QED
      BY <3>2
  <2> QED
    BY <2>2, <2>3
<1>2. CASE content = Null
  BY <1>2 DEF Nodes
<1>3. CASE content # Null
  <2> DEFINE a == ElementNodes(content, "configuration")
             b == ElementNodes(content, "properties")
  <2>1. a \in Seq(WalkNodes) /\ b \in Seq(WalkNodes)
    BY <1>1, <1>3
  <2>2. Nodes(content) = a \o b
    BY <1>3 DEF Nodes
  <2> HIDE DEF a, b
  <2> QED
    BY <2>1, <2>2
<1> QED
  BY <1>2, <1>3

\* The nodes that the visit of one opens.
LEMMA ValueNodesTyped ==
  ASSUME NEW r \in Refs, NEW texts \in Seq(Texts \cup {Null})
  PROVE  ValueNodes(r, texts) \in Seq(ValueNodesOf)
<1> DEFINE w(k) == [node |-> "value", ref |-> r, text |-> texts[k], index |-> k - 1]
           size == Len(texts)
<1>1. size \in Nat /\ DOMAIN texts = 1 .. size
      /\ \A k \in 1 .. size : texts[k] \in Texts \cup {Null} /\ k - 1 \in Nat
  OBVIOUS
<1>2. \A k \in 1 .. size : w(k) \in ValueNodesOf
  BY <1>1 DEF ValueNodesOf
<1>3. ValueNodes(r, texts) = [k \in 1 .. size |-> w(k)]
  BY <1>1 DEF ValueNodes
<1> HIDE DEF w, size
<1> QED
  BY <1>1, <1>2, <1>3

LEMMA NodesAreWalked ==
  /\ Seq(PropertyNodesOf(AllElements)) \subseteq Seq(WalkNodes)
  /\ Seq(ValueNodesOf) \subseteq Seq(WalkNodes)
<1>1. PropertyNodesOf(AllElements) \subseteq WalkNodes /\ ValueNodesOf \subseteq WalkNodes
  BY DEF WalkNodes
<1>2. \A A, B : A \subseteq B => Seq(A) \subseteq Seq(B)
  <2> SUFFICES ASSUME NEW A, NEW B, A \subseteq B, NEW s \in Seq(A) PROVE s \in Seq(B)
    OBVIOUS
  <2> QED
    BY SeqMonotonic
<1> QED
  BY <1>1, <1>2

\* A node is of one of the kinds.
LEMMA NodeKinds ==
  ASSUME NEW n \in WalkNodes
  PROVE  /\ n.node \in {"configuration", "properties"} => n \in ElementNodesOf
         /\ n.node = "property" => n \in PropertyNodesOf(AllElements)
         /\ n.node = "value" => n \in ValueNodesOf
         /\ n.node \in {"configuration", "properties", "property", "value"}
BY DEF WalkNodes, ElementNodesOf, PropertyNodesOf, ValueNodesOf

LEMMA SectionTyped ==
  ASSUME NEW props, NEW lists, Coherent(props, lists), NEW c \in Components,
         NEW stray \in StrayTexts
  PROVE  Section(c, props, lists, stray)
           \in [section : STRING, elements : Seq(ComponentElements)]
<1> DEFINE l == lists[c]
           size == Len(l)
           w(k) == PropertyElements(props, lists, stray)[<<MaxNesting, l[k]>>]
           e == [component |-> UUIDOf[c], name |-> Null,
                 properties |-> [k \in DOMAIN l |-> w(k)]]
<1>1. c \in Maps
  BY ComponentsAssumption
<1>2. l \in Seq(Refs)
  BY <1>1 DEF Coherent
<1> HIDE DEF l
<1>3. size \in Nat /\ DOMAIN l = 1 .. size /\ \A k \in 1 .. size : l[k] \in Refs
  BY <1>2
<1>4. \A k \in 1 .. size : w(k) \in AllElements
  BY <1>3, PropertyElementTyped, BoundsAssumption DEF AllElements
<1> HIDE DEF size, w
<1>5. [k \in DOMAIN l |-> w(k)] \in Seq(AllElements)
  BY <1>3, <1>4
<1>6. UUIDOf[c] \in STRING
  BY UUIDAssumption
<1>7. e \in ComponentElements
  BY <1>5, <1>6 DEF ComponentElements, AllElements
<1>8. Section(c, props, lists, stray) = [section |-> "properties", elements |-> <<e>>]
  BY DEF Section, w, l
<1> HIDE DEF e
<1>9. <<e>> \in Seq(ComponentElements)
  <2> HIDE DEF ComponentElements
  <2> QED
    BY <1>7
<1>10. "properties" \in STRING
  BY StringsAssumption, Zenon
<1> QED
  BY <1>8, <1>9, <1>10

-----------------------------------------------------------------------------
(* The assignments that the nodes of a walk make.                          *)

PendingOf(n, props, lists, c, name) ==
  LET assigned == Assignments(props, lists)
      nodes == PropertyNodes(c, n.element.properties)
  IN  CASE n.node = "value"    -> AssignedBy(n.ref, props[n.ref], n.text, n.index)
        [] n.node = "property" -> assigned[n]
        [] OTHER ->
             IF ClassOf(n) = Malformed
                /\ (n.node = "properties" \/ n.element.name = name) THEN <<Fault>>
             ELSE IF ~ (n.element.name = name /\ ClassOf(n) = UUIDOf[c]) THEN <<>>
             ELSE FlattenSeq([k \in DOMAIN nodes |-> assigned[nodes[k]]])

RestOf(todo, props, lists, c, name) ==
  FlattenSeq([k \in DOMAIN todo |-> PendingOf(todo[k], props, lists, c, name)])

LEMMA NodesAssign ==
  ASSUME NEW props, NEW lists, Coherent(props, lists),
         NEW nodes \in Seq(PropertyNodesOf(AllElements))
  PROVE  [k \in DOMAIN nodes |-> Assignments(props, lists)[nodes[k]]] \in Seq(Seq(Deeds))
<1> DEFINE w(k) == Assignments(props, lists)[nodes[k]]
           size == Len(nodes)
<1>1. size \in Nat /\ DOMAIN nodes = 1 .. size
      /\ \A k \in 1 .. size : nodes[k] \in PropertyNodesOf(AllElements)
  OBVIOUS
<1>2. \A k \in 1 .. size : w(k) \in Seq(Deeds)
  BY <1>1, AssignmentsTyped
<1> HIDE DEF w, size
<1>3. [k \in 1 .. size |-> w(k)] \in Seq(Seq(Deeds))
  BY <1>1, <1>2
<1> QED
  BY <1>1, <1>3 DEF w, size

LEMMA PendingTyped ==
  ASSUME NEW props, NEW lists, Coherent(props, lists), NEW c \in Maps, NEW name,
         NEW n \in WalkNodes
  PROVE  PendingOf(n, props, lists, c, name) \in Seq(Deeds)
<1>1. CASE n.node = "value"
  <2>1. n \in ValueNodesOf
    BY <1>1, NodeKinds
  <2>2. n.ref \in Refs /\ n.text \in Texts \cup {Null} /\ n.index \in Nat
    BY <2>1 DEF ValueNodesOf
  <2>3. AssignedBy(n.ref, props[n.ref], n.text, n.index) \in Seq(Deeds)
    BY <2>2, AssignedByTyped DEF Coherent
  <2> QED
    BY <1>1, <2>3 DEF PendingOf
<1>2. CASE n.node = "property"
  <2>1. n \in PropertyNodesOf(AllElements)
    BY <1>2, NodeKinds
  <2> QED
    BY <1>2, <2>1, AssignmentsTyped DEF PendingOf
<1>3. CASE n.node \in {"configuration", "properties"}
  <2>1. n.element.properties \in Seq(AllElements)
    BY <1>3, NodeKinds DEF ElementNodesOf, ComponentElements, AllElements
  <2> DEFINE nodes == PropertyNodes(c, n.element.properties)
             these == FlattenSeq([k \in DOMAIN nodes |-> Assignments(props, lists)[nodes[k]]])
  <2>2. nodes \in Seq(PropertyNodesOf(AllElements))
    BY <2>1, InsideTyped
  <2>3. these \in Seq(Deeds)
    BY <2>2, NodesAssign, FlattenType
  <2>4. <<>> \in Seq(Deeds) /\ <<Fault>> \in Seq(Deeds)
    BY DEF Deeds
  <2>5. PendingOf(n, props, lists, c, name) \in {these, <<>>, <<Fault>>}
    BY <1>3 DEF PendingOf
  <2> QED
    BY <2>3, <2>4, <2>5
<1> QED
  BY <1>1, <1>2, <1>3, NodeKinds

LEMMA AllPendingTyped ==
  ASSUME NEW props, NEW lists, Coherent(props, lists), NEW c \in Maps, NEW name,
         NEW todo \in Seq(WalkNodes)
  PROVE  /\ [k \in DOMAIN todo |-> PendingOf(todo[k], props, lists, c, name)]
              \in Seq(Seq(Deeds))
         /\ RestOf(todo, props, lists, c, name) \in Seq(Deeds)
<1> DEFINE w(k) == PendingOf(todo[k], props, lists, c, name)
           size == Len(todo)
<1>1. size \in Nat /\ DOMAIN todo = 1 .. size /\ \A k \in 1 .. size : todo[k] \in WalkNodes
  OBVIOUS
<1>2. \A k \in 1 .. size : w(k) \in Seq(Deeds)
  BY <1>1, PendingTyped
<1> HIDE DEF w, size
<1>3. [k \in 1 .. size |-> w(k)] \in Seq(Seq(Deeds))
  BY <1>1, <1>2
<1>4. [k \in DOMAIN todo |-> w(k)] \in Seq(Seq(Deeds))
  BY <1>1, <1>3
<1> QED
  BY <1>4, FlattenType DEF w, RestOf

LEMMA RestOfNone ==
  \A props, lists, c, name : RestOf(<<>>, props, lists, c, name) = <<>>
<1> TAKE props, lists, c, name
<1>1. [k \in DOMAIN <<>> |-> PendingOf(<<>>[k], props, lists, c, name)] = <<>>
  OBVIOUS
<1> QED
  BY <1>1, FlattenNone DEF RestOf

LEMMA RestOfOne ==
  ASSUME NEW props, NEW lists, Coherent(props, lists), NEW c \in Maps, NEW name,
         NEW n \in WalkNodes
  PROVE  RestOf(<<n>>, props, lists, c, name) = PendingOf(n, props, lists, c, name)
<1> DEFINE x == PendingOf(n, props, lists, c, name)
<1>1. x \in Seq(Deeds)
  BY PendingTyped
<1>2. [k \in DOMAIN <<n>> |-> PendingOf(<<n>>[k], props, lists, c, name)] = <<x>>
  OBVIOUS
<1> HIDE DEF x
<1>3. FlattenSeq(<<x>>) = x
  BY <1>1, FlattenOne
<1> QED
  BY <1>2, <1>3 DEF RestOf, x

LEMMA RestOfBoth ==
  ASSUME NEW props, NEW lists, Coherent(props, lists), NEW c \in Maps, NEW name,
         NEW a \in Seq(WalkNodes), NEW b \in Seq(WalkNodes)
  PROVE  RestOf(Joined(a, b), props, lists, c, name)
           = Joined(RestOf(a, props, lists, c, name), RestOf(b, props, lists, c, name))
<1> SUFFICES RestOf(a \o b, props, lists, c, name)
               = RestOf(a, props, lists, c, name) \o RestOf(b, props, lists, c, name)
  BY DEF Joined
<1> DEFINE w(n) == PendingOf(n, props, lists, c, name)
           All(s) == [k \in DOMAIN s |-> w(s[k])]
<1>1. All(a) \in Seq(Seq(Deeds)) /\ All(b) \in Seq(Seq(Deeds))
  BY AllPendingTyped
<1>2. \A s : RestOf(s, props, lists, c, name) = FlattenSeq(All(s))
  BY DEF RestOf
<1>3. All(a \o b) = All(a) \o All(b)
  <2> DEFINE m == Len(a)
             n == Len(b)
             both == a \o b
  <2>1. /\ m \in Nat /\ n \in Nat /\ DOMAIN a = 1 .. m /\ DOMAIN b = 1 .. n
        /\ DOMAIN both = 1 .. m + n
        /\ \A i \in 1 .. m + n : both[i] = IF i <= m THEN a[i] ELSE b[i - m]
    BY ConcatProperties
  <2> HIDE DEF both, w
  <2> DEFINE x == All(a)
             y == All(b)
  <2>2. x \in Seq(Seq(Deeds)) /\ y \in Seq(Seq(Deeds)) /\ Len(x) = m /\ Len(y) = n
    <3>1. DOMAIN x = 1 .. m /\ DOMAIN y = 1 .. n
      BY <2>1
    <3> HIDE DEF x, y, m, n
    <3> QED
      BY <1>1, <2>1, <3>1 DEF x, y
  <2>3. /\ x \o y \in Seq(Seq(Deeds)) /\ Len(x \o y) = m + n
        /\ \A i \in 1 .. m + n : (x \o y)[i] = IF i <= m THEN x[i] ELSE y[i - m]
    <3> HIDE DEF x, y, m, n
    <3> QED
      BY <2>2, ConcatProperties
  <2>4. x \o y = [i \in 1 .. m + n |-> (x \o y)[i]]
    <3> DEFINE z == x \o y
    <3>1. z \in Seq(Seq(Deeds)) /\ Len(z) = m + n
      BY <2>3
    <3> HIDE DEF z, m, n
    <3>2. z = [i \in 1 .. m + n |-> z[i]]
      BY <3>1
    <3> QED
      BY <3>2 DEF z
  <2>5. ASSUME NEW i \in 1 .. m + n PROVE (x \o y)[i] = w(both[i])
    <3>1. CASE i <= m
      BY <2>1, <2>3, <3>1
    <3>2. CASE ~ (i <= m)
      <4>1. i - m \in 1 .. n
        BY <2>1, <3>2
      <4> QED
        BY <2>1, <2>3, <3>2, <4>1
    <3> QED
      BY <3>1, <3>2
  <2>6. All(both) = [i \in 1 .. m + n |-> w(both[i])]
    BY <2>1
  <2> HIDE DEF x, y, m, n
  <2>7. x \o y = [i \in 1 .. m + n |-> w(both[i])]
    BY <2>4, <2>5
  <2> QED
    BY <2>6, <2>7 DEF x, y, both
<1>4. FlattenSeq(All(a) \o All(b)) = FlattenSeq(All(a)) \o FlattenSeq(All(b))
  <2> DEFINE x == All(a)
             y == All(b)
  <2>1. x \in Seq(Seq(Deeds)) /\ y \in Seq(Seq(Deeds))
    BY <1>1
  <2> HIDE DEF x, y
  <2>2. FlattenSeq(x \o y) = FlattenSeq(x) \o FlattenSeq(y)
    BY <2>1, FlattenConcat
  <2> QED
    BY <2>2 DEF x, y
<1>5. /\ RestOf(a \o b, props, lists, c, name) = FlattenSeq(All(a \o b))
      /\ RestOf(a, props, lists, c, name) = FlattenSeq(All(a))
      /\ RestOf(b, props, lists, c, name) = FlattenSeq(All(b))
  BY <1>2
<1> QED
  <2> HIDE DEF All
  <2>1. FlattenSeq(All(a \o b)) = FlattenSeq(All(a) \o All(b))
    BY <1>3
  <2> QED
    BY <1>4, <1>5, <2>1

\* configure() assigns what is meant, or nothing; and fails after an assignment
\* only when characters are left over.
Blocked(p, i) ==
  IndexOf(p, i) >= Len(p.items) \/ (p.class = "property" /\ p.access = "OUT")

LEMMA SetOwnType ==
  ASSUME NEW p, Sound(p), p.type \in NumberTypes \cup {"CHARSTR"}, NEW i \in Nat,
         NEW v, p.type = "CHARSTR" => v # Null
  PROVE  /\ Blocked(p, i) =>
              /\ SetItem(p, p.type, i, v).property = p
              /\ SetItem(p, p.type, i, v).result \in {"out_of_range", "AccessDenied"}
         /\ ~ Blocked(p, i) =>
              /\ SetItem(p, p.type, i, v).result = "_SUCCESS"
              /\ SetItem(p, p.type, i, v).property =
                   WithItem(p, IndexOf(p, i),
                            IF p.class = "property" THEN [type |-> p.type, value |-> v] ELSE v)
<1> DEFINE o == SetItem(p, p.type, i, v)
<1>1. Len(p.items) \in Nat
  BY DEF Sound, IsSequence
<1>2. p.type \in StringTypes <=> p.type = "CHARSTR"
  BY DEF NumberTypes, StringTypes
<1>3. CASE p.class = "wrapper"
  <2>1. o = IF p.type = "CHARSTR" THEN Done(WithItem(p, 0, v))
            ELSE IF i > 0 THEN Thrown("out_of_range", p) ELSE Done(WithItem(p, 0, v))
    BY <1>2, <1>3 DEF SetItem, SetWrapped
  <2>2. Len(p.items) = 1
    BY <1>3 DEF Sound, WellTyped
  <2> HIDE DEF o
  <2> QED
    BY <1>3, <2>1, <2>2 DEF Blocked, IndexOf, Done, Thrown, o
<1>4. CASE p.class = "sequence"
  <2>1. o = IF i >= Len(p.items) THEN Thrown("out_of_range", p) ELSE Done(WithItem(p, i, v))
    BY <1>2, <1>4 DEF SetItem, SetInSequence
  <2> HIDE DEF o
  <2> QED
    BY <1>4, <2>1 DEF Blocked, IndexOf, Done, Thrown, o
<1>5. CASE p.class = "property"
  <2>1. p.type = "CHARSTR"
    BY <1>2, <1>5 DEF Sound, WellTyped, NumberTypes
  <2>2. CheckType(p, p.type) = p
    BY DEF CheckType
  <2>3. o = IF p.access = "OUT" THEN Thrown("AccessDenied", p)
            ELSE IF i >= Len(p.items) THEN Thrown("out_of_range", p)
            ELSE Done(WithItem(p, i, [type |-> p.type, value |-> v]))
    BY <1>2, <1>5, <2>1, <2>2 DEF SetItem, SetPlain
  <2> HIDE DEF o
  <2> QED
    BY <1>5, <2>3 DEF Blocked, IndexOf, Done, Thrown, o
<1> QED
  BY <1>3, <1>4, <1>5 DEF Sound, WellTyped, Classes

LEMMA ConfiguredValue ==
  ASSUME NEW p, Sound(p), NEW text \in Texts, NEW i \in Nat
  PROVE  /\ Unassignable(p, text, i) =>
              /\ ConfigureValue(p, text, i).property = p
              /\ ConfigureValue(p, text, i).result # "_SUCCESS"
         /\ ~ Unassignable(p, text, i) =>
              /\ ConfigureValue(p, text, i).property
                   = WithItem(p, IndexOf(p, i), ValueOf(p, text))
              /\ ConfigureValue(p, text, i).result = "_SUCCESS"
                   <=> ~ (text.tail # {} /\ p.type # "CHARSTR")
<1> DEFINE numeric == p.type # "CHARSTR"
           v == IF numeric THEN Read(p.type, text.number[1]) ELSE text
           outcome == SetItem(p, p.type, i, v)
           o == ConfigureValue(p, text, i)
<1>1. o = IF text = EmptyText THEN Thrown("ConfigurationException", p)
          ELSE IF p.type \in {"NONE", "STRUCTURE"} THEN Thrown("_ERROR_TYPE", p)
          ELSE IF p.type = "UNICODESTR" THEN Thrown("ConfigurationException", p)
          ELSE IF numeric /\ text.number = <<>> THEN Thrown("ConfigurationException", p)
          ELSE IF numeric /\ ~ Parses(p.type, text.number[1])
               THEN Thrown("out_of_range", p)
          ELSE IF outcome.result = "AccessDenied"
                  \/ (outcome.result = "_SUCCESS" /\ numeric /\ text.tail # {})
               THEN Thrown("ConfigurationException", outcome.property)
          ELSE outcome
  BY DEF ConfigureValue
<1>2. Unassignable(p, text, i) <=> ~ Readable(p, text) \/ Blocked(p, i)
  BY DEF Unassignable, Blocked
<1>3. CASE ~ Readable(p, text)
  <2>1. p.type \in PropertyTypes
    BY DEF Sound, WellTyped
  <2>2. o.property = p /\ o.result # "_SUCCESS"
    <3> HIDE DEF o, outcome
    <3> QED
      BY <1>1, <1>3, <2>1 DEF Readable, Thrown
  <2> QED
    BY <1>2, <1>3, <2>2
<1>4. CASE Readable(p, text)
  <2>1. p.type \in NumberTypes \cup {"CHARSTR"}
    BY <1>4, MeantTyped
  <2>2. v = Meant(p, text)
    <3>1. CASE numeric
      <4>1. p.type \in NumberTypes /\ Parses(p.type, text.number[1])
        BY <1>4, <2>1, <3>1 DEF Readable
      <4> QED
        BY <3>1, <4>1, MeantIsRead
    <3>2. CASE ~ numeric
      BY <3>2 DEF Meant
    <3> QED
      BY <3>1, <3>2
  <2>3. p.type = "CHARSTR" => v # Null
    BY NullAssumption
  <2>4. o = IF outcome.result = "AccessDenied"
                  \/ (outcome.result = "_SUCCESS" /\ numeric /\ text.tail # {})
            THEN Thrown("ConfigurationException", outcome.property)
            ELSE outcome
    <3> HIDE DEF o, outcome
    <3> QED
      BY <1>1, <1>4, <2>1 DEF Readable, NumberTypes
  <2> HIDE DEF v
  <2>5. /\ Blocked(p, i) => outcome.property = p
                            /\ outcome.result \in {"out_of_range", "AccessDenied"}
        /\ ~ Blocked(p, i) => /\ outcome.result = "_SUCCESS"
                              /\ outcome.property = WithItem(p, IndexOf(p, i), ValueOf(p, text))
    BY <2>1, <2>2, <2>3, SetOwnType DEF ValueOf
  <2> HIDE DEF o, outcome
  <2>6. Blocked(p, i) => o.property = p /\ o.result # "_SUCCESS"
    BY <2>4, <2>5 DEF Thrown
  <2>7. ~ Blocked(p, i) => /\ o.property = WithItem(p, IndexOf(p, i), ValueOf(p, text))
                           /\ o.result = "_SUCCESS" <=> ~ (text.tail # {} /\ numeric)
    BY <2>4, <2>5 DEF Thrown
  <2> QED
    BY <1>2, <1>4, <2>6, <2>7 DEF o
<1> QED
  BY <1>3, <1>4

\* The property with an item replaced.
LEMMA WrittenItem ==
  ASSUME NEW p, Sound(p), NEW i \in Nat, i + 1 \in DOMAIN p.items, NEW v
  PROVE  /\ WithItem(p, i, v).items = [p.items EXCEPT ![i + 1] = v]
         /\ p.type # "STRUCTURE" => SameShape(p, WithItem(p, i, v))
<1> DEFINE n == Len(p.items)
           q == WithItem(p, i, v)
           items == ReplaceAt(p.items, i + 1, v)
<1>1. n \in Nat /\ DOMAIN p.items = 1 .. n /\ p.items = [k \in 1 .. n |-> p.items[k]]
  BY DEF Sound, IsSequence
<1>2. items = [k \in 1 .. n |-> IF k = i + 1 THEN v ELSE p.items[k]]
  BY DEF ReplaceAt
<1>3. q.class = p.class /\ q.name = p.name /\ q.type = p.type /\ q.access = p.access
      /\ q.items = items
  BY DEF WithItem, With
<1> HIDE DEF n, q, items
<1>4. items = [p.items EXCEPT ![i + 1] = v]
  BY <1>1, <1>2
<1>5. items = [k \in 1 .. n |-> items[k]]
  BY <1>2
<1>6. Len(items) = n
  BY <1>1, <1>5, SequenceOf
<1> QED
  BY <1>3, <1>4, <1>6 DEF SameShape, n, q

LEMMA SamePending ==
  ASSUME NEW props, NEW later, NEW lists, SameShapes(props, later, lists),
         NEW c, NEW name, NEW n \in WalkNodes
  PROVE  PendingOf(n, later, lists, c, name) = PendingOf(n, props, lists, c, name)
<1>1. Assignments(later, lists) = Assignments(props, lists)
  BY SameAssignments
<1>2. CASE n.node = "value"
  <2>1. n.ref \in Refs
    BY <1>2, NodeKinds DEF ValueNodesOf
  <2>2. AssignedBy(n.ref, later[n.ref], n.text, n.index)
          = AssignedBy(n.ref, props[n.ref], n.text, n.index)
    BY <2>1, SameAssignment DEF SameShapes
  <2> QED
    BY <1>2, <2>2 DEF PendingOf
<1>3. CASE n.node # "value"
  BY <1>1, <1>3 DEF PendingOf
<1> QED
  BY <1>2, <1>3

LEMMA SameRest ==
  ASSUME NEW props, NEW later, NEW lists, SameShapes(props, later, lists),
         NEW c, NEW name, NEW todo \in Seq(WalkNodes)
  PROVE  RestOf(todo, later, lists, c, name) = RestOf(todo, props, lists, c, name)
<1>1. \A k \in DOMAIN todo : PendingOf(todo[k], later, lists, c, name)
                               = PendingOf(todo[k], props, lists, c, name)
  <2>1. \A k \in DOMAIN todo : todo[k] \in WalkNodes
    OBVIOUS
  <2> QED
    BY <2>1, SamePending
<1>2. [k \in DOMAIN todo |-> PendingOf(todo[k], later, lists, c, name)]
        = [k \in DOMAIN todo |-> PendingOf(todo[k], props, lists, c, name)]
  BY <1>1
<1> QED
  BY <1>2 DEF RestOf

\* The assignments of a property node are those of the nodes that it opens.
LEMMA RestOfNodes ==
  ASSUME NEW props, NEW lists, NEW c, NEW name,
         NEW nodes \in Seq(PropertyNodesOf(AllElements))
  PROVE  RestOf(nodes, props, lists, c, name)
           = FlattenSeq([k \in DOMAIN nodes |-> Assignments(props, lists)[nodes[k]]])
<1>1. \A k \in DOMAIN nodes : nodes[k].node = "property"
  <2>1. \A k \in DOMAIN nodes : nodes[k] \in PropertyNodesOf(AllElements)
    OBVIOUS
  <2> QED
    BY <2>1 DEF PropertyNodesOf
<1>2. \A k \in DOMAIN nodes : PendingOf(nodes[k], props, lists, c, name)
                                = Assignments(props, lists)[nodes[k]]
  BY <1>1 DEF PendingOf
<1>3. [k \in DOMAIN nodes |-> PendingOf(nodes[k], props, lists, c, name)]
        = [k \in DOMAIN nodes |-> Assignments(props, lists)[nodes[k]]]
  BY <1>2
<1> QED
  BY <1>3 DEF RestOf

LEMMA RestOfValues ==
  ASSUME NEW props, NEW lists, NEW c, NEW name, NEW r,
         NEW texts \in Seq(Texts \cup {Null})
  PROVE  RestOf(ValueNodes(r, texts), props, lists, c, name)
           = FlattenSeq([k \in DOMAIN texts |-> AssignedBy(r, props[r], texts[k], k - 1)])
<1> DEFINE nodes == ValueNodes(r, texts)
<1>1. /\ DOMAIN nodes = DOMAIN texts
      /\ \A k \in DOMAIN texts : nodes[k] = [node |-> "value", ref |-> r, text |-> texts[k],
                                             index |-> k - 1]
  BY DEF ValueNodes
<1> HIDE DEF nodes
<1>2. \A k \in DOMAIN texts : PendingOf(nodes[k], props, lists, c, name)
                                = AssignedBy(r, props[r], texts[k], k - 1)
  BY <1>1 DEF PendingOf
<1>3. [k \in DOMAIN nodes |-> PendingOf(nodes[k], props, lists, c, name)]
        = [k \in DOMAIN texts |-> AssignedBy(r, props[r], texts[k], k - 1)]
  BY <1>1, <1>2
<1> QED
  BY <1>3 DEF RestOf, nodes

LEMMA ElementOpened ==
  ASSUME NEW props, NEW lists, Coherent(props, lists), NEW c \in Maps, NEW name,
         NEW n \in ElementNodesOf
  PROVE  LET malformed == ClassOf(n) = Malformed
                          /\ (n.node = "properties" \/ n.element.name = name)
             matches == n.element.name = name /\ ClassOf(n) = UUIDOf[c]
         IN  PendingOf(n, props, lists, c, name) =
               IF malformed THEN <<Fault>>
               ELSE IF ~ matches THEN <<>>
               ELSE RestOf(PropertyNodes(c, n.element.properties), props, lists, c, name)
<1> DEFINE nodes == PropertyNodes(c, n.element.properties)
           these == FlattenSeq([k \in DOMAIN nodes |-> Assignments(props, lists)[nodes[k]]])
           malformed == ClassOf(n) = Malformed
                        /\ (n.node = "properties" \/ n.element.name = name)
           matches == n.element.name = name /\ ClassOf(n) = UUIDOf[c]
<1>1. n.node # "value" /\ n.node # "property"
  BY DEF ElementNodesOf
<1>2. PendingOf(n, props, lists, c, name) =
        IF malformed THEN <<Fault>> ELSE IF ~ matches THEN <<>> ELSE these
  BY <1>1 DEF PendingOf
<1>3. n.element.properties \in Seq(AllElements)
  BY DEF ElementNodesOf, ComponentElements, AllElements
<1>4. nodes \in Seq(PropertyNodesOf(AllElements))
  BY <1>3, InsideTyped
<1>5. RestOf(nodes, props, lists, c, name) = these
  BY <1>4, RestOfNodes
<1> HIDE DEF these, nodes, malformed, matches
<1>6. PendingOf(n, props, lists, c, name) =
        IF malformed THEN <<Fault>> ELSE IF ~ matches THEN <<>>
        ELSE RestOf(nodes, props, lists, c, name)
  BY <1>2, <1>5
<1> QED
  BY <1>6 DEF nodes, malformed, matches

OpenedBy(n, props, lists, c, name) ==
  LET e == n.element
      r == Find(props, lists[n.map], e.name)
      p == props[r]
      texts == IF e.value # Null THEN <<e.value>> ELSE e.values
      inside == PropertyNodes(p.items[1], e.children)
  IN  IF e.name = Null \/ ~ Lists(props, lists[n.map], e.name) \/ e.type = ""
      THEN <<Fault>>
      ELSE IF e.type # "structure"
      THEN RestOf(ValueNodes(r, texts), props, lists, c, name)
      ELSE IF p.type # "STRUCTURE" \/ p.items = <<>> THEN <<Fault>>
      ELSE IF p.items[1] = Null THEN <<Fault>>
      ELSE RestOf(inside, props, lists, c, name)

LEMMA PropertyOpened ==
  ASSUME NEW props, NEW lists, Coherent(props, lists), NEW c \in Maps, NEW name,
         NEW n \in PropertyNodesOf(AllElements)
  PROVE  PendingOf(n, props, lists, c, name) = OpenedBy(n, props, lists, c, name)
<1> DEFINE e == n.element
           found == Lists(props, lists[n.map], e.name)
           r == Find(props, lists[n.map], e.name)
           p == props[r]
           texts == IF e.value # Null THEN <<e.value>> ELSE e.values
           inside == PropertyNodes(p.items[1], e.children)
           values == ValueNodes(r, texts)
           A == Assignments(props, lists)
           these == FlattenSeq([k \in DOMAIN texts |-> AssignedBy(r, p, texts[k], k - 1)])
           those == FlattenSeq([k \in DOMAIN inside |-> A[inside[k]]])
           opens == p.type = "STRUCTURE" /\ p.items # <<>> /\ p.items[1] # Null
<1>1. n.node = "property" /\ n.map \in Maps /\ e \in AllElements
  BY DEF PropertyNodesOf
<1>2. PendingOf(n, props, lists, c, name) = AssignedAt(A, props, lists, n)
  BY <1>1, AssignmentsAre DEF PendingOf
<1>3. AssignedAt(A, props, lists, n) =
        IF e.name = Null \/ ~ found \/ e.type = "" THEN <<Fault>>
        ELSE IF e.type # "structure" THEN these
        ELSE IF p.type # "STRUCTURE" \/ p.items = <<>> THEN <<Fault>>
        ELSE IF p.items[1] = Null THEN <<Fault>>
        ELSE those
  BY DEF AssignedAt
<1>4. RestOf(values, props, lists, c, name) = these
  <2>1. texts \in Seq(Texts \cup {Null})
    BY <1>1, TextsOf
  <2> HIDE DEF texts, r
  <2> QED
    BY <2>1, RestOfValues
<1>5. ASSUME found, opens PROVE RestOf(inside, props, lists, c, name) = those
  <2>1. Sound(p)
    BY <1>1, <1>5, FoundThere
  <2>2. p.items[1] \in Maps
    BY <1>5, <2>1, InnerMap
  <2>3. e.children \in Seq(AllElements)
    BY <1>1, ElementParts
  <2>4. inside \in Seq(PropertyNodesOf(AllElements))
    BY <2>2, <2>3, InsideTyped
  <2> QED
    BY <2>4, RestOfNodes
<1> HIDE DEF e, found, r, p, texts, inside, values, A, these, those
<1>6. PendingOf(n, props, lists, c, name) =
               IF e.name = Null \/ ~ found \/ e.type = "" THEN <<Fault>>
               ELSE IF e.type # "structure" THEN RestOf(values, props, lists, c, name)
               ELSE IF p.type # "STRUCTURE" \/ p.items = <<>> THEN <<Fault>>
               ELSE IF p.items[1] = Null THEN <<Fault>>
               ELSE RestOf(inside, props, lists, c, name)
  <2>1. CASE ~ found
    BY <1>2, <1>3, <2>1
  <2>2. CASE found /\ ~ opens
    BY <1>2, <1>3, <1>4, <2>2
  <2>3. CASE found /\ opens
    BY <1>2, <1>3, <1>4, <1>5, <2>3
  <2> QED
    BY <2>1, <2>2, <2>3
<1> QED
  BY <1>6 DEF e, found, r, p, texts, inside, values, OpenedBy

-----------------------------------------------------------------------------
(* The types are kept.                                                     *)

PropertiesOK == PropertiesAreThere /\ \A r \in Refs : Sound(property[r])

EntriesOK ==
  entries \in [Maps -> Seq(Refs)] /\ \A m \in Maps : OneOfAName(property, entries[m])

WalkOK ==
  /\ walk = [state |-> walk.state, component |-> walk.component, name |-> walk.name,
             path |-> walk.path, todo |-> walk.todo]
  /\ walk.state \in {"idle", "walking", "configured", "failed"}
  /\ walk.state = "configured" => result = "_SUCCESS"
  /\ walk.state = "failed" => result # "_SUCCESS"
  /\ callsLeft \in 0 .. CallBound

\* What a configuration has still to visit, and for whom.
TodoOK ==
  /\ walk.todo \in Seq(WalkNodes)
  /\ walk.state # "walking" => walk.todo = <<>>
  /\ walk.state # "idle" => walk.component \in Components /\ walk.path \in Paths

FilesOK == file \in [Paths -> Files \cup {Null}]

TypesInv == PropertiesOK /\ EntriesOK /\ WalkOK /\ TodoOK /\ FilesOK

LEMMA InitTypes == Init => TypesInv
<1> SUFFICES ASSUME Init PROVE TypesInv
  OBVIOUS
<1> PICK s \in SetUps : /\ property = s.property
                        /\ entries = [m \in Maps |-> Declared(s.property, s.declared[m])]
  BY DEF Init, MapInit
<1>1. PropertiesOK
  BY SetUpsAssumption DEF PropertiesOK, PropertiesAreThere, Sound
<1>2. EntriesOK
  BY SetUpsAssumption, DeclaredOnce DEF EntriesOK
<1>3. WalkOK
  BY BoundsAssumption DEF WalkOK, Init, Idle
<1>4. TodoOK
  BY DEF TodoOK, Init, Idle
<1>5. FilesOK
  BY ContentsAssumption DEF FilesOK, Init
<1> QED
  BY <1>1, <1>2, <1>3, <1>4, <1>5 DEF TypesInv

\* The node that is visited.
LEMMA FirstNode ==
  ASSUME TypesInv, NEW kinds, Visits(kinds)
  PROVE  /\ Head(walk.todo) \in WalkNodes /\ Head(walk.todo).node \in kinds
         /\ Tail(walk.todo) \in Seq(WalkNodes) /\ walk.state = "walking"
         /\ walk.todo = <<Head(walk.todo)>> \o Tail(walk.todo)
         /\ kinds = {"configuration", "properties"} => Head(walk.todo) \in ElementNodesOf
         /\ kinds = {"property"} => Head(walk.todo) \in PropertyNodesOf(AllElements)
         /\ kinds = {"value"} => Head(walk.todo) \in ValueNodesOf
<1> DEFINE n == Head(walk.todo)
           todo == walk.todo
<1>1. /\ todo \in Seq(WalkNodes) /\ todo # <<>> /\ n.node \in kinds
      /\ walk.state = "walking"
  BY DEF TypesInv, TodoOK, Visits
<1>2. n \in WalkNodes /\ Tail(todo) \in Seq(WalkNodes) /\ todo = <<n>> \o Tail(todo)
  <2> HIDE DEF todo
  <2>1. Head(todo) \in WalkNodes /\ Tail(todo) \in Seq(WalkNodes)
    BY <1>1, HeadTailProperties
  <2>2. todo = <<Head(todo)>> \o Tail(todo)
    BY <1>1, HeadTailProperties
  <2> QED
    BY <2>1, <2>2 DEF todo
<1> HIDE DEF n
<1>3. /\ kinds = {"configuration", "properties"} => n \in ElementNodesOf
      /\ kinds = {"property"} => n \in PropertyNodesOf(AllElements)
      /\ kinds = {"value"} => n \in ValueNodesOf
  BY <1>1, <1>2, NodeKinds
<1> QED
  BY <1>1, <1>2, <1>3 DEF n

\* A step that gives one property other values of its type.
LEMMA OneBecomes ==
  ASSUME TypesInv, NEW r, NEW new, property' = [property EXCEPT ![r] = new],
         r \in Refs => Becomes(property[r], new), UNCHANGED entries
  PROVE  PropertiesOK' /\ EntriesOK'
<1>1. /\ PropertiesAreThere'
      /\ \A q \in Refs : property'[q] = IF q = r THEN new ELSE property[q]
  BY OneReplaced DEF TypesInv, PropertiesOK
<1>2. \A q \in Refs : Becomes(property[q], property'[q])
  BY <1>1, SoundStays DEF TypesInv, PropertiesOK
<1>3. PropertiesOK'
  BY <1>1, <1>2 DEF PropertiesOK, Becomes
<1>4. \A m \in Maps : ToSet(entries[m]) \subseteq Refs
  BY DEF TypesInv, EntriesOK, ToSet
<1>5. \A m \in Maps : OneOfAName(property', entries[m])
  BY <1>2, <1>4 DEF TypesInv, EntriesOK, OneOfAName, Becomes
<1>6. EntriesOK'
  BY <1>5 DEF TypesInv, EntriesOK
<1> QED
  BY <1>3, <1>6

LEMMA ApplicationTypes ==
  ASSUME TypesInv, MapNext PROVE PropertiesOK' /\ EntriesOK'
<1>1. ASSUME NEW s \in Settings, SetValue(s[1], s[2], s[3], s[4])
      PROVE  PropertiesOK' /\ EntriesOK'
  <2>1. Settable(s[2], s[4]) /\ s[1] \in Refs
    BY SettingsAssumption
  <2>2. Becomes(property[s[1]], SetItem(property[s[1]], s[2], s[3], s[4]).property)
    BY <2>1, SetItemTypes DEF TypesInv, PropertiesOK
  <2> QED
    BY <1>1, <2>2, OneBecomes DEF SetValue
<1>2. ASSUME NEW s \in Resizings, ResizeMember(s[1], s[2])
      PROVE  PropertiesOK' /\ EntriesOK'
  <2>1. s[1] \in Refs /\ s[2] \in Nat
    BY SettingsAssumption
  <2>2. Becomes(property[s[1]], Resized(property[s[1]], s[2]))
    BY <1>2, <2>1, ResizedTypes DEF TypesInv, PropertiesOK, ResizeMember
  <2> QED
    BY <1>2, <2>2, OneBecomes DEF ResizeMember
<1>3. ASSUME NEW s \in Arguments, AddProperty(s[1], s[2])
      PROVE  PropertiesOK' /\ EntriesOK'
  <2> DEFINE m == s[1]
             r == s[2]
  <2>1. m \in Maps /\ r \in Refs
    BY SettingsAssumption
  <2>2. /\ entries' = [entries EXCEPT ![m] = WithEntry(property, entries[m], r)]
        /\ UNCHANGED property
    BY <1>3 DEF AddProperty
  <2> HIDE DEF m, r
  <2>3. PropertiesOK'
    BY <2>2 DEF TypesInv, PropertiesOK, PropertiesAreThere
  <2>4. /\ WithEntry(property, entries[m], r) \in Seq(Refs)
        /\ OneOfAName(property, WithEntry(property, entries[m], r))
    BY <2>1, EntryAdded DEF TypesInv, EntriesOK
  <2>5. EntriesOK'
    BY <2>2, <2>4 DEF TypesInv, EntriesOK
  <2> QED
    BY <2>3, <2>5
<1>4. ASSUME NEW s \in Arguments, SetProperty(s[1], s[2])
      PROVE  PropertiesOK' /\ EntriesOK'
  <2> DEFINE m == s[1]
             a == s[2]
             r == At(m, property[a].name)
             new(stray) == CopyTo(property[a], property[r], a = r, stray).property
  <2>1. m \in Maps /\ a \in Refs
    BY SettingsAssumption
  <2>2. CASE SetPropertyRefused(m, a)
    BY <2>2 DEF SetPropertyRefused, TypesInv, PropertiesOK, PropertiesAreThere, EntriesOK
  <2>3. ASSUME NEW stray \in StrayTexts, SetPropertyCopies(m, a, stray)
        PROVE  PropertiesOK' /\ EntriesOK'
    <3>1. property' = [property EXCEPT ![r] = new(stray)] /\ UNCHANGED entries
      BY <2>3 DEF SetPropertyCopies
    <3>2. r \in Refs => Becomes(property[r], new(stray))
      BY <2>1, CopyToTypes DEF TypesInv, PropertiesOK
    <3> HIDE DEF r, new
    <3> QED
      BY <3>1, <3>2, OneBecomes
  <2> QED
    BY <1>4, <2>2, <2>3 DEF SetProperty
<1> QED
  BY <1>1, <1>2, <1>3, <1>4 DEF MapNext

\* The steps of a configuration and of serialize() on where the call is.
LEMMA WalkSteps == TypesInv /\ Next => WalkOK'
<1> SUFFICES ASSUME WalkOK, Next PROVE WalkOK'
  BY DEF TypesInv
<1>1. ASSUME Call, NEW c, NEW name, NEW f, NEW todo, NEW state \in {"idle", "walking"},
             walk' = [state |-> state, component |-> c, name |-> name, path |-> f,
                      todo |-> todo]
      PROVE  WalkOK'
  <2>1. callsLeft' \in 0 .. CallBound
    BY <1>1, BoundsAssumption DEF WalkOK, Call
  <2>2. walk'.state = state
    BY <1>1
  <2> QED
    BY <1>1, <2>1, <2>2 DEF WalkOK
<1>2. ASSUME Call, walk' = Idle PROVE WalkOK'
  BY <1>1, <1>2 DEF Idle
<1>3. ASSUME walk.state = "walking", NEW nodes, Opens(nodes) PROVE WalkOK'
  <2>1. walk' = [state |-> walk.state, component |-> walk.component, name |-> walk.name,
                 path |-> walk.path, todo |-> nodes \o Tail(walk.todo)]
    BY <1>3 DEF Opens, WalkOK
  <2> QED
    BY <1>3, <2>1 DEF WalkOK, Opens
<1>4. ASSUME NEW what, what # "_SUCCESS", Fails(what) PROVE WalkOK'
  <2>1. walk' = [state |-> "failed", component |-> walk.component, name |-> walk.name,
                 path |-> walk.path, todo |-> <<>>]
    BY <1>4 DEF Fails, WalkOK
  <2> QED
    BY <1>4, <2>1 DEF WalkOK, Fails
<1>5. CASE UsesProperties
  BY <1>2, <1>5 DEF UsesProperties
<1>6. ASSUME NEW c, NEW f, NEW name, Configure(c, f, name) PROVE WalkOK'
  BY <1>1, <1>6 DEF Configure
<1>7. CASE VisitElement
  <2>1. walk.state = "walking"
    BY <1>7 DEF VisitElement, Visits
  <2>2. \/ \E what \in MalformedFaults(Head(walk.todo)) : Fails(what)
        \/ \E nodes : Opens(nodes)
    BY <1>7 DEF VisitElement
  <2>3. \A what \in MalformedFaults(Head(walk.todo)) : what # "_SUCCESS"
    BY DEF MalformedFaults, NullString
  <2> QED
    BY <1>3, <1>4, <2>1, <2>2, <2>3
<1>8. CASE VisitProperty
  <2>1. walk.state = "walking"
    BY <1>8 DEF VisitProperty, Visits
  <2>2. \/ \E what : what # "_SUCCESS" /\ Fails(what)
        \/ \E nodes : Opens(nodes)
    BY <1>8 DEF VisitProperty, OpensStructure
  <2> QED
    BY <1>3, <1>4, <2>1, <2>2
<1>9. CASE VisitNoText
  <2>1. \A what \in NullString : what # "_SUCCESS"
    BY DEF NullString
  <2> QED
    BY <1>4, <1>9, <2>1 DEF VisitNoText
<1>10. CASE VisitValue
  <2>1. walk.state = "walking"
    BY <1>10 DEF VisitValue, Visits
  <2>2. \/ \E what : what # "_SUCCESS" /\ Fails(what)
        \/ \E nodes : Opens(nodes)
    BY <1>10 DEF VisitValue
  <2> QED
    BY <1>3, <1>4, <2>1, <2>2
<1>11. CASE Configured
  <2>1. walk' = [state |-> "configured", component |-> walk.component,
                 name |-> walk.name, path |-> walk.path, todo |-> walk.todo]
    BY <1>11 DEF Configured, WalkOK
  <2> QED
    BY <1>11, <2>1 DEF Configured, WalkOK
<1>12. ASSUME NEW c, SerializeFails(c) PROVE WalkOK'
  BY <1>2, <1>12 DEF SerializeFails
<1>13. ASSUME NEW c, NEW f, Serialize(c, f) PROVE WalkOK'
  BY <1>2, <1>13 DEF Serialize
<1> QED
  BY <1>5, <1>6, <1>7, <1>8, <1>9, <1>10, <1>11, <1>12, <1>13 DEF Next

\* What a step does to the properties and to the maps.
LEMMA PropertySteps == TypesInv /\ Next => PropertiesOK' /\ EntriesOK'
<1> SUFFICES ASSUME TypesInv, Next PROVE PropertiesOK' /\ EntriesOK'
  OBVIOUS
<1>1. ASSUME UNCHANGED <<property, entries>> PROVE PropertiesOK' /\ EntriesOK'
  BY <1>1 DEF TypesInv, PropertiesOK, PropertiesAreThere, EntriesOK
<1>2. CASE UsesProperties
  BY <1>2, ApplicationTypes DEF UsesProperties
<1>3. CASE \E c \in Components, f \in Paths, name \in Instances : Configure(c, f, name)
  BY <1>1, <1>3 DEF Configure, mapVars
<1>4. \A what, nodes : Fails(what) \/ Opens(nodes) => UNCHANGED entries
  BY DEF Fails, Opens
<1>5. CASE VisitElement
  BY <1>1, <1>4, <1>5 DEF VisitElement
<1>6. CASE VisitProperty
  BY <1>1, <1>4, <1>6 DEF VisitProperty, OpensStructure
<1>7. CASE VisitNoText
  BY <1>1, <1>4, <1>7 DEF VisitNoText
<1>8. CASE VisitValue
  <2> DEFINE n == Head(walk.todo)
             new == ConfigureValue(property[n.ref], n.text, n.index).property
  <2>1. property' = [property EXCEPT ![n.ref] = new] /\ UNCHANGED entries
    BY <1>4, <1>8 DEF VisitValue
  <2>2. n \in ValueNodesOf /\ n.text # Null
    BY <1>8, FirstNode DEF VisitValue
  <2>3. n.ref \in Refs /\ n.text \in Texts
    BY <2>2 DEF ValueNodesOf
  <2>4. Becomes(property[n.ref], new)
    BY <2>3, ConfigureValueTypes DEF TypesInv, PropertiesOK
  <2> HIDE DEF n, new
  <2> QED
    BY <2>1, <2>4, OneBecomes
<1>9. CASE Configured
  BY <1>1, <1>9, Zenon DEF Configured
<1>10. CASE \E c \in Components : SerializeFails(c)
  BY <1>1, <1>10, Zenon DEF SerializeFails
<1>11. CASE \E c \in Components, f \in Paths : Serialize(c, f)
  BY <1>1, <1>11, Zenon DEF Serialize
<1> QED
  BY <1>2, <1>3, <1>5, <1>6, <1>7, <1>8, <1>9, <1>10, <1>11 DEF Next

\* What a visit opens are nodes; what a call starts with are those of the file.
LEMMA TodoSteps == TypesInv /\ Next => TodoOK'
<1> SUFFICES ASSUME TypesInv, Next PROVE TodoOK'
  OBVIOUS
<1>1. ASSUME walk' = Idle PROVE TodoOK'
  BY <1>1 DEF Idle, TodoOK
<1>2. ASSUME walk.state = "walking", NEW nodes \in Seq(WalkNodes),
             Tail(walk.todo) \in Seq(WalkNodes), Opens(nodes)
      PROVE  TodoOK'
  <2>1. walk' = [state |-> walk.state, component |-> walk.component, name |-> walk.name,
                 path |-> walk.path, todo |-> nodes \o Tail(walk.todo)]
    BY <1>2 DEF Opens, TypesInv, WalkOK
  <2> DEFINE t == Tail(walk.todo)
  <2>2. t \in Seq(WalkNodes)
    BY <1>2
  <2> HIDE DEF t
  <2>3. nodes \o t \in Seq(WalkNodes)
    BY <1>2, <2>2, ConcatProperties
  <2> QED
    BY <1>2, <2>1, <2>3 DEF TodoOK, TypesInv, t
<1>3. ASSUME walk.state = "walking", NEW what, Fails(what) PROVE TodoOK'
  <2>1. walk' = [state |-> "failed", component |-> walk.component, name |-> walk.name,
                 path |-> walk.path, todo |-> <<>>]
    BY <1>3 DEF Fails, TypesInv, WalkOK
  <2> QED
    BY <1>3, <2>1 DEF TodoOK, TypesInv
<1>4. CASE UsesProperties
  BY <1>1, <1>4 DEF UsesProperties
<1>5. ASSUME NEW c \in Components, NEW f \in Paths, NEW name, Configure(c, f, name)
      PROVE  TodoOK'
  <2> DEFINE todo == Nodes(file[f])
  <2>1. todo \in Seq(WalkNodes)
    BY NodesTyped DEF TypesInv, FilesOK
  <2>2. walk' = [state |-> "walking", component |-> c, name |-> name, path |-> f,
                 todo |-> todo]
    BY <1>5 DEF Configure
  <2> HIDE DEF todo
  <2> QED
    BY <2>1, <2>2 DEF TodoOK
<1>6. CASE VisitElement
  <2> DEFINE n == Head(walk.todo)
             nodes == PropertyNodes(walk.component, n.element.properties)
  <2>1. n \in ElementNodesOf /\ walk.state = "walking" /\ Tail(walk.todo) \in Seq(WalkNodes)
    BY <1>6, FirstNode DEF VisitElement
  <2>2. (\E what : Fails(what)) \/ Opens(nodes) \/ Opens(<<>>)
    BY <1>6 DEF VisitElement
  <2>3. walk.component \in Maps
    BY <2>1, ComponentsAssumption DEF TypesInv, TodoOK
  <2>4. n.element.properties \in Seq(AllElements)
    BY <2>1 DEF ElementNodesOf, ComponentElements, AllElements
  <2>5. nodes \in Seq(WalkNodes)
    BY <2>3, <2>4, InsideTyped, NodesAreWalked
  <2> HIDE DEF n, nodes
  <2>6. <<>> \in Seq(WalkNodes)
    OBVIOUS
  <2> QED
    BY <1>2, <1>3, <2>1, <2>2, <2>5, <2>6
<1>7. CASE VisitProperty
  <2> DEFINE n == Head(walk.todo)
             e == n.element
             r == At(n.map, e.name)
             p == property[r]
             texts == IF e.value # Null THEN <<e.value>> ELSE e.values
             inside == PropertyNodes(p.items[1], e.children)
             values == ValueNodes(r, texts)
  <2>1. /\ n \in PropertyNodesOf(AllElements) /\ walk.state = "walking"
        /\ Tail(walk.todo) \in Seq(WalkNodes)
    BY <1>7, FirstNode DEF VisitProperty
  <2>2. n.map \in Maps /\ e \in AllElements
    BY <2>1 DEF PropertyNodesOf
  <2>3. \/ \E what : Fails(what)
        \/ /\ Named(n.map, e.name)
           /\ \/ Opens(values)
              \/ /\ p.type = "STRUCTURE" /\ p.items # <<>> /\ p.items[1] # Null
                 /\ Opens(inside)
    BY <1>7 DEF VisitProperty, OpensStructure
  <2>4. ASSUME Named(n.map, e.name) PROVE r \in Refs /\ Sound(p)
    <3>1. Coherent(property, entries)
      BY DEF Coherent, TypesInv, PropertiesOK, EntriesOK
    <3> QED
      BY <2>2, <2>4, <3>1, FoundThere DEF Named, At
  <2>5. ASSUME Named(n.map, e.name) PROVE values \in Seq(WalkNodes)
    <3>1. texts \in Seq(Texts \cup {Null})
      BY <2>2, TextsOf
    <3> HIDE DEF texts, r
    <3> QED
      BY <2>4, <2>5, <3>1, ValueNodesTyped, NodesAreWalked
  <2>6. ASSUME Named(n.map, e.name),
               p.type = "STRUCTURE" /\ p.items # <<>> /\ p.items[1] # Null
        PROVE  inside \in Seq(WalkNodes)
    <3>1. p.items[1] \in Maps
      BY <2>4, <2>6, InnerMap
    <3>2. e.children \in Seq(AllElements)
      BY <2>2, ElementParts
    <3> QED
      BY <3>1, <3>2, InsideTyped, NodesAreWalked
  <2> HIDE DEF n, e, r, p, texts, inside, values
  <2> QED
    BY <1>2, <1>3, <2>1, <2>3, <2>5, <2>6
<1>8. CASE VisitNoText
  <2>1. walk.state = "walking"
    BY <1>8 DEF VisitNoText, Visits
  <2> QED
    BY <1>3, <1>8, <2>1 DEF VisitNoText
<1>9. CASE VisitValue
  <2>1. walk.state = "walking" /\ Tail(walk.todo) \in Seq(WalkNodes)
    BY <1>9, FirstNode DEF VisitValue
  <2>2. (\E what : Fails(what)) \/ Opens(<<>>)
    BY <1>9 DEF VisitValue
  <2>3. <<>> \in Seq(WalkNodes)
    OBVIOUS
  <2> QED
    BY <1>2, <1>3, <2>1, <2>2, <2>3
<1>10. CASE Configured
  <2>1. walk' = [state |-> "configured", component |-> walk.component,
                 name |-> walk.name, path |-> walk.path, todo |-> walk.todo]
    BY <1>10 DEF Configured, TypesInv, WalkOK
  <2> QED
    BY <1>10, <2>1 DEF Configured, TypesInv, TodoOK
<1>11. ASSUME NEW c, SerializeFails(c) PROVE TodoOK'
  BY <1>1, <1>11 DEF SerializeFails
<1>12. ASSUME NEW c, NEW f, Serialize(c, f) PROVE TodoOK'
  BY <1>1, <1>12 DEF Serialize
<1> QED
  BY <1>4, <1>5, <1>6, <1>7, <1>8, <1>9, <1>10, <1>11, <1>12 DEF Next

\* Only serialize() changes a file, by a section at its end.
LEMMA FileSteps ==
  ASSUME TypesInv, Next
  PROVE  \/ UNCHANGED <<file, saved>>
         \/ \E c \in Components, f \in Paths : Serialize(c, f)
<1>1. \A what, nodes : Fails(what) \/ Opens(nodes) => UNCHANGED <<file, saved>>
  BY DEF Fails, Opens
<1>2. CASE UsesProperties
  BY <1>2 DEF UsesProperties
<1>3. CASE \E c \in Components, f \in Paths, name \in Instances : Configure(c, f, name)
  BY <1>3 DEF Configure
<1>4. CASE VisitElement
  BY <1>1, <1>4 DEF VisitElement
<1>5. CASE VisitProperty
  BY <1>1, <1>5 DEF VisitProperty, OpensStructure
<1>6. CASE VisitNoText
  BY <1>1, <1>6 DEF VisitNoText
<1>7. CASE VisitValue
  BY <1>1, <1>7 DEF VisitValue
<1>8. CASE Configured
  BY <1>8, Zenon DEF Configured
<1>9. CASE \E c \in Components : SerializeFails(c)
  BY <1>9, Zenon DEF SerializeFails
<1> QED
  BY <1>2, <1>3, <1>4, <1>5, <1>6, <1>7, <1>8, <1>9 DEF Next

LEMMA FilesStay == TypesInv /\ Next => FilesOK'
<1> SUFFICES ASSUME TypesInv, Next PROVE FilesOK'
  OBVIOUS
<1>1. CASE UNCHANGED file
  BY <1>1 DEF TypesInv, FilesOK
<1>2. ASSUME NEW c \in Components, NEW f \in Paths, Serialize(c, f) PROVE FilesOK'
  <2> PICK stray \in StrayTexts :
        file' = [file EXCEPT ![f] = Append(IF @ = Null THEN <<>> ELSE @,
                                           Section(c, property, entries, stray))]
    BY <1>2 DEF Serialize
  <2> DEFINE S == [section : STRING, elements : Seq(ComponentElements)]
             x == Section(c, property, entries, stray)
             old == file[f]
             new == Append(IF old = Null THEN <<>> ELSE old, x)
  <2>1. x \in S
    <3>1. Coherent(property, entries)
      BY DEF Coherent, TypesInv, PropertiesOK, EntriesOK
    <3> QED
      BY <3>1, SectionTyped
  <2>2. old \in Seq(S) \cup {Null}
    BY DEF TypesInv, FilesOK, Files
  <2>3. file' = [file EXCEPT ![f] = new]
    OBVIOUS
  <2> HIDE DEF S, x, old
  <2>4. new \in Seq(S)
    BY <2>1, <2>2
  <2> HIDE DEF new
  <2> QED
    BY <2>3, <2>4 DEF TypesInv, FilesOK, Files, S
<1> QED
  BY <1>1, <1>2, FileSteps

LEMMA TypesStay == TypesInv /\ [Next]_vars => TypesInv'
<1> SUFFICES ASSUME TypesInv, [Next]_vars PROVE TypesInv'
  OBVIOUS
<1>1. CASE Next
  BY <1>1, WalkSteps, PropertySteps, TodoSteps, FilesStay DEF TypesInv
<1>2. CASE UNCHANGED vars
  BY <1>2 DEF vars, mapVars, TypesInv, PropertiesOK, PropertiesAreThere, EntriesOK,
              WalkOK, TodoOK, FilesOK
<1> QED
  BY <1>1, <1>2

\* Whatever the application sets, resizes, adds and copies and whatever the
\* files hold: a wrapper has one item, a member a value of its own width,
\* however it was read and narrowed, no map has two properties of one name, and
\* configure() has succeeded exactly if it says so.
THEOREM TypeCorrect == Spec => []TypeOK
<1>1. TypesInv /\ [Next]_vars => TypesInv'
  BY TypesStay
<1>2. TypesInv => TypeOK
  BY DEF TypesInv, PropertiesOK, EntriesOK, WalkOK, Sound, OneOfAName, TypeOK
<1> QED
  BY <1>1, <1>2, InitTypes, PTL DEF Spec

-----------------------------------------------------------------------------
(* The steps of a configuration are those of its assignments.              *)

RestNow == RestOf(walk.todo, property, entries, walk.component, walk.name)

SameCall ==
  /\ UNCHANGED <<entries, file, saved>>
  /\ walk'.component = walk.component /\ walk'.name = walk.name /\ walk'.path = walk.path

Written(props, a) ==
  [props EXCEPT ![a[1]] = WithItem(props[a[1]], a[2], a[3])]

Assignable(a) ==
  /\ a \in Deeds /\ a # Fault /\ a[1] \in Refs /\ a[2] \in Nat
  /\ a[2] + 1 \in DOMAIN property[a[1]].items /\ property[a[1]].type # "STRUCTURE"

Rests == walk'.state = "walking" /\ UNCHANGED property /\ RestNow' = RestNow

Makes(a) ==
  /\ walk'.state = "walking" /\ Assignable(a) /\ property' = Written(property, a)
  /\ RestNow = <<a>> \o RestNow'

Stumbles ==
  /\ walk'.state = "failed" /\ RestNow' = <<>>
  /\ \/ /\ UNCHANGED property
        /\ \E t \in Seq(Deeds) : RestNow = <<Fault>> \o t
     \/ \E a : /\ Assignable(a) /\ property' = Written(property, a)
               /\ \E t \in Seq(Deeds) : RestNow = <<a, Fault>> \o t

Ends ==
  /\ walk'.state = "configured" /\ UNCHANGED property /\ RestNow = <<>> /\ RestNow' = <<>>

\* What is pending is what the node that is visited makes, then the rest.
LEMMA HeadAndRest ==
  ASSUME TypesInv, NEW kinds, Visits(kinds)
  PROVE  LET Of(n) == PendingOf(n, property, entries, walk.component, walk.name)
             rest == RestOf(Tail(walk.todo), property, entries, walk.component, walk.name)
         IN  /\ RestNow = Of(Head(walk.todo)) \o rest
             /\ Of(Head(walk.todo)) \in Seq(Deeds) /\ rest \in Seq(Deeds)
             /\ walk.component \in Maps /\ Coherent(property, entries)
<1> DEFINE n == Head(walk.todo)
           t == Tail(walk.todo)
           c == walk.component
           R(s) == RestOf(s, property, entries, c, walk.name)
<1>1. n \in WalkNodes /\ t \in Seq(WalkNodes) /\ walk.state = "walking"
      /\ walk.todo = <<n>> \o t
  BY FirstNode
<1>2. c \in Maps
  BY <1>1, ComponentsAssumption DEF TypesInv, TodoOK
<1>3. Coherent(property, entries)
  BY DEF Coherent, TypesInv, PropertiesOK, EntriesOK
<1>4. RestNow = R(<<n>> \o t)
  BY <1>1 DEF RestNow
<1> HIDE DEF n, t, c
<1>5. <<n>> \in Seq(WalkNodes)
  BY <1>1
<1> DEFINE one == <<n>>
<1>6. R(Joined(one, t)) = Joined(R(one), R(t))
  <2>1. one \in Seq(WalkNodes)
    BY <1>5
  <2> HIDE DEF one
  <2> QED
    BY <1>1, <1>2, <1>3, <2>1, RestOfBoth
<1>7. R(one) = PendingOf(n, property, entries, c, walk.name)
  BY <1>1, <1>2, <1>3, RestOfOne
<1>8. R(t) \in Seq(Deeds) /\ PendingOf(n, property, entries, c, walk.name) \in Seq(Deeds)
  BY <1>1, <1>2, <1>3, AllPendingTyped, PendingTyped
<1> HIDE DEF R, one
<1>9. RestNow = PendingOf(n, property, entries, c, walk.name) \o R(t)
  BY <1>4, <1>6, <1>7 DEF one, Joined
<1> QED
  BY <1>2, <1>3, <1>8, <1>9 DEF n, t, c, R

LEMMA ShapesStay ==
  ASSUME TypesInv, UNCHANGED <<property, entries>>
  PROVE  SameShapes(property, property', entries)
BY DEF SameShapes, SameShape, Coherent, TypesInv, PropertiesOK, EntriesOK

\* A node that opens others makes the assignments of those.
LEMMA OpenedRests ==
  ASSUME TypesInv, NEW kinds, Visits(kinds), NEW nodes \in Seq(WalkNodes), Opens(nodes),
         UNCHANGED property,
         RestOf(nodes, property, entries, walk.component, walk.name)
           = PendingOf(Head(walk.todo), property, entries, walk.component, walk.name)
  PROVE  SameCall /\ Rests
<1> DEFINE t == Tail(walk.todo)
<1>1. /\ walk' = [walk EXCEPT !.todo = nodes \o t] /\ UNCHANGED <<entries, file, saved>>
  BY DEF Opens
<1>2. /\ walk'.component = walk.component /\ walk'.name = walk.name
      /\ walk'.path = walk.path /\ walk'.state = walk.state /\ walk'.todo = nodes \o t
  BY <1>1 DEF TypesInv, WalkOK
<1>3. t \in Seq(WalkNodes) /\ walk.state = "walking"
  BY FirstNode
<1>4. walk.component \in Maps /\ Coherent(property, entries)
  BY HeadAndRest
<1> HIDE DEF t
<1>5. RestNow' = RestOf(Joined(nodes, t), property, entries, walk.component, walk.name)
  BY <1>1, <1>2 DEF RestNow, Joined
<1>6. RestNow' = Joined(RestOf(nodes, property, entries, walk.component, walk.name),
                        RestOf(t, property, entries, walk.component, walk.name))
  BY <1>3, <1>4, <1>5, RestOfBoth
<1>7. RestNow' = RestNow
  BY <1>6, HeadAndRest DEF t, Joined
<1> QED
  BY <1>1, <1>2, <1>3, <1>7 DEF SameCall, Rests

\* One that cannot be read is a fault.
LEMMA FaultStumbles ==
  ASSUME TypesInv, NEW kinds, Visits(kinds), NEW what, Fails(what), UNCHANGED property,
         PendingOf(Head(walk.todo), property, entries, walk.component, walk.name) = <<Fault>>
  PROVE  SameCall /\ Stumbles
<1>1. walk' = [walk EXCEPT !.state = "failed", !.todo = <<>>]
      /\ UNCHANGED <<entries, file, saved>>
  BY DEF Fails
<1>2. /\ walk'.component = walk.component /\ walk'.name = walk.name
      /\ walk'.path = walk.path /\ walk'.state = "failed" /\ walk'.todo = <<>>
  BY <1>1 DEF TypesInv, WalkOK
<1>3. RestNow' = <<>>
  BY <1>2, RestOfNone DEF RestNow
<1>4. \E t \in Seq(Deeds) : RestNow = <<Fault>> \o t
  BY HeadAndRest
<1> QED
  BY <1>1, <1>2, <1>3, <1>4 DEF SameCall, Stumbles

\* A value that is written.
LEMMA WriteKeepsShapes ==
  ASSUME TypesInv, PropertiesOK', UNCHANGED entries, NEW a, Assignable(a),
         property' = Written(property, a)
  PROVE  SameShapes(property, property', entries)
<1> DEFINE p == property[a[1]]
           new == WithItem(p, a[2], a[3])
<1>1. Sound(p) /\ a[1] \in Refs /\ a[2] \in Nat /\ a[2] + 1 \in DOMAIN p.items
      /\ p.type # "STRUCTURE"
  BY DEF TypesInv, PropertiesOK, Assignable
<1>2. SameShape(p, new)
  BY <1>1, WrittenItem
<1>3. \A q \in Refs : property'[q] = IF q = a[1] THEN new ELSE property[q]
  BY OneReplaced DEF Written, TypesInv, PropertiesOK
<1>4. \A q \in Refs : SameShape(property[q], property[q])
  BY DEF SameShape
<1> HIDE DEF p, new
<1>5. \A q \in Refs : SameShape(property[q], property'[q])
  BY <1>2, <1>3, <1>4 DEF p
<1> QED
  BY <1>5 DEF SameShapes, Coherent, TypesInv, PropertiesOK, EntriesOK

LEMMA ValueSteps ==
  ASSUME TypesInv, PropertiesOK', VisitValue
  PROVE  SameCall /\ SameShapes(property, property', entries)
         /\ (Stumbles \/ \E a : Makes(a))
<1> DEFINE n == Head(walk.todo)
           r == n.ref
           text == n.text
           i == n.index
           p == property[r]
           o == ConfigureValue(p, text, i)
           a == <<r, IndexOf(p, i), ValueOf(p, text)>>
           t == Tail(walk.todo)
           pending == PendingOf(n, property, entries, walk.component, walk.name)
           rest == RestOf(t, property, entries, walk.component, walk.name)
<1>1. Visits({"value"}) /\ text # Null
  BY DEF VisitValue
<1>2. n \in ValueNodesOf /\ t \in Seq(WalkNodes) /\ walk.state = "walking"
  BY <1>1, FirstNode
<1>3. n.node = "value" /\ r \in Refs /\ text \in Texts /\ i \in Nat
  BY <1>1, <1>2 DEF ValueNodesOf
<1>4. Sound(p)
  BY <1>3 DEF TypesInv, PropertiesOK
<1>5. pending = AssignedBy(r, p, text, i)
  BY <1>3 DEF PendingOf
<1>6. /\ RestNow = pending \o rest /\ rest \in Seq(Deeds)
      /\ Coherent(property, entries) /\ walk.component \in Maps
  BY <1>1, HeadAndRest
<1>7. /\ property' = [property EXCEPT ![r] = o.property]
      /\ IF o.result = "_SUCCESS" THEN Opens(<<>>) ELSE Fails(o.result)
  BY DEF VisitValue
<1> HIDE DEF n, r, text, i, p, o, t, pending, rest
<1>8. CASE Unassignable(p, text, i)
  <2>1. o.property = p /\ o.result # "_SUCCESS"
    BY <1>3, <1>4, <1>8, ConfiguredValue DEF o
  <2>2. UNCHANGED property
    BY <1>7, <2>1 DEF TypesInv, PropertiesOK, PropertiesAreThere, p
  <2>3. pending = <<Fault>>
    BY <1>1, <1>5, <1>8, AssignedByCases
  <2>4. SameCall /\ Stumbles
    BY <1>1, <1>7, <2>1, <2>2, <2>3, FaultStumbles DEF pending, n
  <2>5. UNCHANGED entries
    BY <2>4 DEF SameCall
  <2> QED
    BY <2>2, <2>4, <2>5, ShapesStay
<1>9. CASE ~ Unassignable(p, text, i)
  <2>1. /\ o.property = WithItem(p, IndexOf(p, i), ValueOf(p, text))
        /\ o.result = "_SUCCESS" <=> ~ (text.tail # {} /\ p.type # "CHARSTR")
    BY <1>3, <1>4, <1>9, ConfiguredValue DEF o
  <2>2. a \in Deeds /\ a # Fault /\ a[2] \in Nat /\ a[2] + 1 \in DOMAIN p.items
    BY <1>3, <1>4, <1>9, DeedTyped
  <2>3. p.type # "STRUCTURE"
    BY <1>9 DEF Unassignable, Readable
  <2>4. a[1] = r /\ a[2] = IndexOf(p, i) /\ a[3] = ValueOf(p, text)
    OBVIOUS
  <2>5. pending = IF text.tail # {} /\ p.type # "CHARSTR" THEN <<a, Fault>> ELSE <<a>>
    BY <1>1, <1>5, <1>9, AssignedByCases
  <2> HIDE DEF a
  <2>6. Assignable(a)
    BY <1>3, <2>2, <2>3, <2>4 DEF Assignable, p
  <2>7. property' = Written(property, a)
    BY <1>7, <2>1, <2>4 DEF Written, p
  <2>8. UNCHANGED <<entries, file, saved>>
    BY <1>7 DEF Opens, Fails
  <2>9. SameShapes(property, property', entries)
    BY <2>6, <2>7, <2>8, WriteKeepsShapes
  <2>10. CASE o.result = "_SUCCESS"
    <3>1. walk' = [walk EXCEPT !.todo = <<>> \o t]
      BY <1>7, <2>10 DEF Opens, t
    <3>2. <<>> \o t = t
      BY <1>2, JoinedFacts DEF Joined
    <3>3. /\ walk'.component = walk.component /\ walk'.name = walk.name
          /\ walk'.path = walk.path /\ walk'.state = walk.state /\ walk'.todo = t
      BY <3>1, <3>2 DEF TypesInv, WalkOK
    <3>4. RestNow' = RestOf(t, property', entries, walk.component, walk.name)
      BY <2>8, <3>3 DEF RestNow
    <3>5. RestNow' = rest
      BY <1>2, <2>9, <3>4, SameRest DEF rest
    <3>6. RestNow = <<a>> \o RestNow'
      BY <1>6, <2>1, <2>5, <2>10, <3>5
    <3>7. Makes(a)
      BY <1>2, <2>6, <2>7, <3>3, <3>6 DEF Makes
    <3> QED
      BY <2>8, <2>9, <3>3, <3>7 DEF SameCall
  <2>11. CASE o.result # "_SUCCESS"
    <3>1. walk' = [walk EXCEPT !.state = "failed", !.todo = <<>>]
      BY <1>7, <2>11 DEF Fails
    <3>2. /\ walk'.component = walk.component /\ walk'.name = walk.name
          /\ walk'.path = walk.path /\ walk'.state = "failed" /\ walk'.todo = <<>>
      BY <3>1 DEF TypesInv, WalkOK
    <3>3. RestNow' = <<>>
      BY <3>2, RestOfNone DEF RestNow
    <3>4. RestNow = <<a, Fault>> \o rest
      BY <1>6, <2>1, <2>5, <2>11
    <3>5. Stumbles
      BY <1>6, <2>6, <2>7, <3>2, <3>3, <3>4 DEF Stumbles
    <3> QED
      BY <2>8, <2>9, <3>2, <3>5 DEF SameCall
  <2> QED
    BY <2>10, <2>11
<1> QED
  BY <1>8, <1>9

LEMMA ElementSteps ==
  ASSUME TypesInv, VisitElement PROVE SameCall /\ (Rests \/ Stumbles)
<1> DEFINE n == Head(walk.todo)
           nodes == PropertyNodes(walk.component, n.element.properties)
           malformed == ClassOf(n) = Malformed
                        /\ (n.node = "properties" \/ n.element.name = walk.name)
           matches == n.element.name = walk.name /\ ClassOf(n) = UUIDOf[walk.component]
           R(s) == RestOf(s, property, entries, walk.component, walk.name)
           pending == PendingOf(n, property, entries, walk.component, walk.name)
           kinds == {"configuration", "properties"}
<1>1. Visits(kinds) /\ UNCHANGED property
  BY DEF VisitElement
<1>2. n \in ElementNodesOf
  BY <1>1, FirstNode
<1>3. walk.component \in Maps /\ Coherent(property, entries)
  BY <1>1, HeadAndRest
<1>4. pending = IF malformed THEN <<Fault>> ELSE IF ~ matches THEN <<>> ELSE R(nodes)
  BY <1>2, <1>3, ElementOpened
<1>5. IF malformed THEN \E what : Fails(what)
      ELSE IF ~ matches THEN Opens(<<>>) ELSE Opens(nodes)
  BY DEF VisitElement
<1>6. nodes \in Seq(WalkNodes) /\ <<>> \in Seq(WalkNodes)
  <2>1. n.element.properties \in Seq(AllElements)
    BY <1>2 DEF ElementNodesOf, ComponentElements, AllElements
  <2> QED
    BY <1>3, <2>1, InsideTyped, NodesAreWalked
<1>7. R(<<>>) = <<>>
  BY RestOfNone
<1> HIDE DEF malformed, matches, nodes, kinds
<1>8. CASE malformed
  BY <1>1, <1>4, <1>5, <1>8, FaultStumbles
<1>9. CASE ~ malformed /\ ~ matches
  BY <1>1, <1>4, <1>5, <1>6, <1>7, <1>9, OpenedRests
<1>10. CASE ~ malformed /\ matches
  BY <1>1, <1>4, <1>5, <1>6, <1>10, OpenedRests
<1> QED
  BY <1>8, <1>9, <1>10

LEMMA PropertyNodeSteps ==
  ASSUME TypesInv, VisitProperty PROVE SameCall /\ (Rests \/ Stumbles)
<1> DEFINE n == Head(walk.todo)
           e == n.element
           found == Lists(property, entries[n.map], e.name)
           r == Find(property, entries[n.map], e.name)
           p == property[r]
           texts == IF e.value # Null THEN <<e.value>> ELSE e.values
           inside == PropertyNodes(p.items[1], e.children)
           values == ValueNodes(r, texts)
           R(s) == RestOf(s, property, entries, walk.component, walk.name)
           pending == PendingOf(n, property, entries, walk.component, walk.name)
           nowhere == e.name = Null \/ ~ found \/ e.type = ""
           closed == p.type # "STRUCTURE" \/ p.items = <<>> \/ p.items[1] = Null
           kinds == {"property"}
<1>1. Visits(kinds) /\ UNCHANGED property
  BY DEF VisitProperty
<1>2. n \in PropertyNodesOf(AllElements)
  BY <1>1, FirstNode
<1>3. n.map \in Maps /\ e \in AllElements
  BY <1>2 DEF PropertyNodesOf
<1>4. walk.component \in Maps /\ Coherent(property, entries)
  BY <1>1, HeadAndRest
<1>5. pending = IF nowhere THEN <<Fault>>
                ELSE IF e.type # "structure" THEN R(values)
                ELSE IF p.type # "STRUCTURE" \/ p.items = <<>> THEN <<Fault>>
                ELSE IF p.items[1] = Null THEN <<Fault>>
                ELSE R(inside)
  <2>1. pending = OpenedBy(n, property, entries, walk.component, walk.name)
    BY <1>2, <1>4, PropertyOpened
  <2> QED
    BY <2>1 DEF OpenedBy
<1>6. IF nowhere THEN \E what : Fails(what)
      ELSE IF e.type # "structure" THEN Opens(values)
      ELSE IF closed THEN \E what : Fails(what)
      ELSE Opens(inside)
  BY DEF VisitProperty, OpensStructure, Named, At
<1>7. ~ nowhere => r \in Refs /\ Sound(p)
  BY <1>3, <1>4, FoundThere
<1>8. ~ nowhere => values \in Seq(WalkNodes)
  <2>1. texts \in Seq(Texts \cup {Null})
    BY <1>3, TextsOf
  <2> HIDE DEF texts, r, nowhere
  <2> QED
    BY <1>7, <2>1, ValueNodesTyped, NodesAreWalked
<1>9. ~ nowhere /\ ~ closed => inside \in Seq(WalkNodes)
  <2> SUFFICES ASSUME ~ nowhere, ~ closed PROVE inside \in Seq(WalkNodes)
    OBVIOUS
  <2>1. p.items[1] \in Maps
    BY <1>7, InnerMap
  <2>2. e.children \in Seq(AllElements)
    BY <1>3, ElementParts
  <2> QED
    BY <2>1, <2>2, InsideTyped, NodesAreWalked
<1>10. pending = IF nowhere THEN <<Fault>>
                 ELSE IF e.type # "structure" THEN R(values)
                 ELSE IF closed THEN <<Fault>> ELSE R(inside)
  <2> HIDE DEF nowhere, e, p, inside, values, R, pending
  <2> QED
    BY <1>5
<1> HIDE DEF e, found, r, p, texts, inside, values, nowhere, closed, kinds
<1>11. CASE nowhere
  BY <1>1, <1>6, <1>10, <1>11, FaultStumbles
<1>12. CASE ~ nowhere /\ e.type # "structure"
  BY <1>1, <1>6, <1>8, <1>10, <1>12, OpenedRests
<1>13. CASE ~ nowhere /\ e.type = "structure" /\ closed
  BY <1>1, <1>6, <1>10, <1>13, FaultStumbles
<1>14. CASE ~ nowhere /\ e.type = "structure" /\ ~ closed
  BY <1>1, <1>6, <1>9, <1>10, <1>14, OpenedRests
<1> QED
  BY <1>11, <1>12, <1>13, <1>14

LEMMA NoTextSteps ==
  ASSUME TypesInv, VisitNoText PROVE SameCall /\ Stumbles
<1> DEFINE n == Head(walk.todo)
<1>1. Visits({"value"}) /\ UNCHANGED property /\ n.text = Null
  BY DEF VisitNoText
<1>2. n.node = "value"
  BY <1>1, FirstNode DEF ValueNodesOf
<1>3. PendingOf(n, property, entries, walk.component, walk.name) = <<Fault>>
  BY <1>1, <1>2, AssignedByCases DEF PendingOf
<1> QED
  BY <1>1, <1>3, FaultStumbles DEF VisitNoText

LEMMA ConfiguredEnds ==
  ASSUME TypesInv, Configured PROVE SameCall /\ Ends
<1>1. /\ walk' = [walk EXCEPT !.state = "configured"] /\ walk.todo = <<>>
      /\ UNCHANGED <<property, entries, file, saved>>
  BY DEF Configured
<1>2. /\ walk'.component = walk.component /\ walk'.name = walk.name
      /\ walk'.path = walk.path /\ walk'.state = "configured" /\ walk'.todo = <<>>
  BY <1>1 DEF TypesInv, WalkOK
<1> QED
  BY <1>1, <1>2, RestOfNone DEF SameCall, Ends, RestNow

\* A step of a configuration in progress.
LEMMA VisitSteps ==
  ASSUME TypesInv, Next, walk.state = "walking"
  PROVE  /\ SameCall /\ SameShapes(property, property', entries)
         /\ Rests \/ Stumbles \/ Ends \/ \E a : Makes(a)
<1>1. VisitElement \/ VisitProperty \/ VisitNoText \/ VisitValue \/ Configured
  BY DEF Next, UsesProperties, Configure, SerializeFails, Serialize, Call
<1>2. PropertiesOK'
  BY PropertySteps
<1>3. \/ SameCall /\ UNCHANGED property /\ (Rests \/ Stumbles \/ Ends)
      \/ SameCall /\ SameShapes(property, property', entries) /\ (Stumbles \/ \E a : Makes(a))
  <2>1. CASE VisitElement
    BY <2>1, ElementSteps DEF VisitElement
  <2>2. CASE VisitProperty
    BY <2>2, PropertyNodeSteps DEF VisitProperty
  <2>3. CASE VisitNoText
    BY <2>3, NoTextSteps DEF VisitNoText
  <2>4. CASE VisitValue
    BY <1>2, <2>4, ValueSteps
  <2>5. CASE Configured
    BY <2>5, ConfiguredEnds DEF Ends
  <2> QED
    BY <1>1, <2>1, <2>2, <2>3, <2>4, <2>5
<1> QED
  BY <1>3, ShapesStay DEF SameCall

\* The variables of OrderedAssignments.
Cells == [r \in Refs |-> property[r].items]

Verdict == CASE walk.state = "walking"    -> "applying"
             [] walk.state = "configured" -> "applied"
             [] OTHER                     -> walk.state

LEMMA PendingIsRest ==
  FlattenSeq([k \in DOMAIN walk.todo |-> Pending(walk.todo[k])]) = RestNow
BY DEF RestNow, RestOf, Pending, PendingOf, Concerns

LEMMA PendingIsRestNext ==
  FlattenSeq([k \in DOMAIN walk.todo |-> Pending(walk.todo[k])])' = RestNow'
BY DEF RestNow, RestOf, Pending, PendingOf, Concerns

LEMMA WrittenCells ==
  ASSUME TypesInv, NEW a, Assignable(a), property' = Written(property, a)
  PROVE  Cells' = [Cells EXCEPT ![a[1]] = [@ EXCEPT ![a[2] + 1] = a[3]]]
<1> DEFINE p == property[a[1]]
           new == WithItem(p, a[2], a[3])
<1>1. a[1] \in Refs /\ a[2] \in Nat /\ a[2] + 1 \in DOMAIN p.items /\ Sound(p)
  BY DEF Assignable, TypesInv, PropertiesOK
<1>2. new.items = [p.items EXCEPT ![a[2] + 1] = a[3]]
  BY <1>1, WrittenItem
<1>3. \A q \in Refs : property'[q] = IF q = a[1] THEN new ELSE property[q]
  BY OneReplaced DEF Written, TypesInv, PropertiesOK
<1>4. Cells' = [q \in Refs |-> IF q = a[1] THEN new.items ELSE Cells[q]]
  <2> HIDE DEF new
  <2> QED
    BY <1>3 DEF Cells
<1>5. Cells[a[1]] = p.items
  BY <1>1 DEF Cells
<1>6. Cells = [q \in Refs |-> Cells[q]]
  BY DEF Cells
<1>7. Cells' = [Cells EXCEPT ![a[1]] = new.items]
  <2> HIDE DEF new
  <2> QED
    BY <1>1, <1>4, <1>6
<1> HIDE DEF new, p
<1> QED
  BY <1>2, <1>5, <1>7

\* The first of a sequence, and the second.
LEMMA Leading ==
  ASSUME NEW S, NEW a \in S, NEW t \in Seq(S)
  PROVE  /\ <<a>> \o t # <<>> /\ (<<a>> \o t)[1] = a /\ Tail(<<a>> \o t) = t
         /\ \A b \in S : /\ Len(<<a, b>> \o t) > 1 /\ (<<a, b>> \o t)[1] = a
                         /\ (<<a, b>> \o t)[2] = b
<1> DEFINE one == <<a>>
           s == one \o t
<1>1. one \in Seq(S) /\ Len(one) = 1 /\ one[1] = a
  OBVIOUS
<1>2. /\ s \in Seq(S) /\ Len(s) = Len(one) + Len(t) /\ Len(t) \in Nat
      /\ \A i \in 1 .. Len(one) + Len(t) :
           s[i] = IF i <= Len(one) THEN one[i] ELSE t[i - Len(one)]
  <2> HIDE DEF one
  <2>1. Len(t) \in Nat
    OBVIOUS
  <2> QED
    BY <1>1, <2>1, ConcatProperties
<1> HIDE DEF one, s
<1>3. s # <<>> /\ s[1] = a
  BY <1>1, <1>2
<1>4. Tail(s) = t
  <2> DEFINE u == Tail(s)
  <2>1. /\ u \in Seq(S) /\ Len(u) = Len(t)
        /\ \A i \in 1 .. Len(t) : u[i] = s[i + 1]
    BY <1>1, <1>2, <1>3, HeadTailProperties
  <2>2. \A i \in 1 .. Len(t) : s[i + 1] = t[i]
    BY <1>1, <1>2
  <2> HIDE DEF u
  <2>3. u = t
    BY <2>1, <2>2
  <2> QED
    BY <2>3 DEF u
<1>5. ASSUME NEW b \in S
      PROVE  Len(<<a, b>> \o t) > 1 /\ (<<a, b>> \o t)[1] = a /\ (<<a, b>> \o t)[2] = b
  <2> DEFINE two == <<a, b>>
             w == two \o t
  <2>1. two \in Seq(S) /\ Len(two) = 2 /\ two[1] = a /\ two[2] = b
    OBVIOUS
  <2>2. /\ Len(w) = Len(two) + Len(t) /\ Len(t) \in Nat
        /\ \A i \in 1 .. Len(two) + Len(t) :
             w[i] = IF i <= Len(two) THEN two[i] ELSE t[i - Len(two)]
    <3> HIDE DEF two
    <3>1. Len(t) \in Nat
      OBVIOUS
    <3> QED
      BY <2>1, <3>1, ConcatProperties
  <2> HIDE DEF two, w
  <2>3. Len(w) > 1 /\ w[1] = a /\ w[2] = b
    BY <2>1, <2>2
  <2> QED
    BY <2>3 DEF w, two
<1> QED
  BY <1>3, <1>4, <1>5 DEF s, one

LEMMA RestNowTyped ==
  ASSUME TypesInv PROVE RestNow \in Seq(Deeds)
<1>1. Coherent(property, entries)
  BY DEF Coherent, TypesInv, PropertiesOK, EntriesOK
<1>2. CASE walk.todo = <<>>
  <2>1. RestNow = <<>>
    BY <1>2, RestOfNone DEF RestNow
  <2>2. <<>> \in Seq(Deeds)
    OBVIOUS
  <2> QED
    BY <2>1, <2>2
<1>3. CASE walk.todo # <<>>
  <2>1. walk.component \in Maps /\ walk.todo \in Seq(WalkNodes)
    BY <1>3, ComponentsAssumption DEF TypesInv, TodoOK, WalkOK
  <2> QED
    BY <1>1, <2>1, AllPendingTyped DEF RestNow
<1> QED
  BY <1>2, <1>3

LEMMA RestNowTypedNext ==
  ASSUME TypesInv' PROVE RestNow' \in Seq(Deeds)
<1>1. Coherent(property', entries')
  BY DEF Coherent, TypesInv, PropertiesOK, EntriesOK
<1>2. CASE walk'.todo = <<>>
  <2>1. RestNow' = <<>>
    BY <1>2, RestOfNone DEF RestNow
  <2>2. <<>> \in Seq(Deeds)
    OBVIOUS
  <2> QED
    BY <2>1, <2>2
<1>3. CASE walk'.todo # <<>>
  <2>1. walk'.component \in Maps /\ walk'.todo \in Seq(WalkNodes)
    BY <1>3, ComponentsAssumption DEF TypesInv, TodoOK, WalkOK
  <2> QED
    BY <1>1, <2>1, AllPendingTyped DEF RestNow
<1> QED
  BY <1>2, <1>3

\* Outside of a configuration nothing is pending.
LEMMA ElsewhereSteps ==
  ASSUME TypesInv, TypesInv', Next, walk.state # "walking"
  PROVE  /\ RestNow = <<>>
         /\ \/ walk'.state = "idle" /\ RestNow' = <<>>
            \/ walk'.state = "walking" /\ UNCHANGED property
<1>1. RestNow = <<>>
  BY RestOfNone DEF TypesInv, TodoOK, RestNow
<1>2. ASSUME walk' = Idle PROVE walk'.state = "idle" /\ RestNow' = <<>>
  BY <1>2, RestOfNone DEF RestNow, Idle
<1>3. UsesProperties => walk' = Idle
  BY DEF UsesProperties
<1>4. ASSUME NEW c, NEW f, NEW name, Configure(c, f, name)
      PROVE  walk'.state = "walking" /\ UNCHANGED property
  BY <1>4 DEF Configure, mapVars
<1>5. ASSUME NEW c, SerializeFails(c) PROVE walk' = Idle
  BY <1>5 DEF SerializeFails
<1>6. ASSUME NEW c, NEW f, Serialize(c, f) PROVE walk' = Idle
  BY <1>6 DEF Serialize
<1>7. ~ (VisitElement \/ VisitProperty \/ VisitNoText \/ VisitValue \/ Configured)
  BY DEF VisitElement, VisitProperty, VisitNoText, VisitValue, Configured, Visits
<1> QED
  BY <1>1, <1>2, <1>3, <1>4, <1>5, <1>6, <1>7 DEF Next

\* Every step, seen as one of OrderedAssignments.
OrderedVars == <<Cells, RestNow, Verdict>>

LEMMA WalkIsOrdered ==
  ASSUME TypesInv, TypesInv', Next, walk.state = "walking"
  PROVE  [Ordered!ANext]_OrderedVars
<1>1. Verdict = "applying"
  BY DEF Verdict
<1>2. RestNow \in Seq(Deeds) /\ RestNow' \in Seq(Deeds)
  BY RestNowTyped, RestNowTypedNext
<1>3. CASE Rests
  BY <1>3, <1>1 DEF Rests, OrderedVars, Cells, Verdict
<1>4. CASE Ends
  <2>1. Verdict' = "applied" /\ Cells' = Cells /\ RestNow = <<>> /\ RestNow' = RestNow
    BY <1>4 DEF Ends, Verdict, Cells
  <2>2. Ordered!Succeed
    BY <1>1, <2>1, PendingIsRest, PendingIsRestNext DEF Ordered!Succeed, Cells, Verdict
  <2> QED
    BY <2>2 DEF Ordered!ANext
<1>5. ASSUME NEW a, Makes(a) PROVE Ordered!Assign
  <2>1. /\ Verdict' = Verdict /\ Assignable(a) /\ property' = Written(property, a)
        /\ RestNow = <<a>> \o RestNow' /\ a \in Deeds /\ a # Fault
    BY <1>1, <1>5 DEF Makes, Verdict, Assignable
  <2>2. Cells' = [Cells EXCEPT ![a[1]] = [@ EXCEPT ![a[2] + 1] = a[3]]]
    BY <2>1, WrittenCells
  <2>3. RestNow # <<>> /\ RestNow[1] = a /\ Tail(RestNow) = RestNow'
    BY <1>2, <2>1, Leading
  <2> QED
    BY <1>1, <2>1, <2>2, <2>3, PendingIsRest, PendingIsRestNext
    DEF Ordered!Assign, Ordered!Write, Cells, Verdict
<1>6. CASE Stumbles
  <2>1. Verdict' = "failed" /\ RestNow' = <<>>
    BY <1>6 DEF Stumbles, Verdict
  <2>2. Fault \in Deeds
    BY DEF Deeds
  <2>3. CASE UNCHANGED property /\ \E t \in Seq(Deeds) : RestNow = <<Fault>> \o t
    <3>1. RestNow # <<>> /\ RestNow[1] = Fault /\ Cells' = Cells
      BY <2>2, <2>3, Leading DEF Cells
    <3> QED
      BY <1>1, <2>1, <3>1, PendingIsRest, PendingIsRestNext
      DEF Ordered!Fail, Ordered!ANext, Cells, Verdict
  <2>4. ASSUME NEW a, Assignable(a), property' = Written(property, a),
               NEW t \in Seq(Deeds), RestNow = <<a, Fault>> \o t
        PROVE  Ordered!Fail
    <3>1. Cells' = [Cells EXCEPT ![a[1]] = [@ EXCEPT ![a[2] + 1] = a[3]]]
      BY <2>4, WrittenCells
    <3>2. a \in Deeds
      BY <2>4 DEF Assignable
    <3>3. Len(RestNow) > 1 /\ RestNow[1] = a /\ RestNow[2] = Fault
      BY <2>2, <2>4, <3>2, Leading
    <3> QED
      BY <1>1, <2>1, <3>1, <3>3, PendingIsRest, PendingIsRestNext
      DEF Ordered!Fail, Ordered!Write, Cells, Verdict
  <2> QED
    BY <1>6, <2>3, <2>4 DEF Stumbles, Ordered!ANext
<1> QED
  BY <1>3, <1>4, <1>5, <1>6, VisitSteps DEF Ordered!ANext

LEMMA ElsewhereIsOrdered ==
  ASSUME TypesInv, TypesInv', Next, walk.state # "walking"
  PROVE  [Ordered!ANext]_OrderedVars
<1>1. Verdict # "applying"
  BY DEF Verdict, TypesInv, WalkOK
<1>2. CASE walk'.state = "idle" /\ RestNow' = <<>>
  <2>1. Verdict' = "idle" /\ RestNow' = RestNow
    BY <1>2, ElsewhereSteps DEF Verdict
  <2> QED
    BY <1>1, <2>1, PendingIsRest, PendingIsRestNext
    DEF Ordered!ANext, Ordered!Elsewhere, Cells, Verdict
<1>3. CASE walk'.state = "walking" /\ UNCHANGED property
  <2>1. Verdict' = "applying" /\ Cells' = Cells
    BY <1>3 DEF Verdict, Cells
  <2> QED
    BY <1>1, <2>1 DEF Ordered!ANext, Ordered!Begin, Cells, Verdict
<1> QED
  BY <1>2, <1>3, ElsewhereSteps

LEMMA StutterIsOrdered ==
  ASSUME UNCHANGED vars PROVE [Ordered!ANext]_OrderedVars
<1>1. UNCHANGED <<property, entries, walk>>
  BY DEF vars, mapVars
<1> QED
  BY <1>1 DEF OrderedVars, Cells, RestNow, Verdict

(***************************************************************************)
(* configure() makes the assignments of the file one by one, in the order  *)
(* of the file, whatever the nesting of its structures, and the loops that *)
(* walk it: it succeeds when all those that concern the component are      *)
(* made, and stops for good at the first that cannot be.                   *)
(***************************************************************************)
THEOREM ConfigurationIsOrdered == Spec => ImplementsOrderedAssignments
<1> DEFINE cells == [r \in Refs |-> property[r].items]
           pending == FlattenSeq([k \in DOMAIN walk.todo |-> Pending(walk.todo[k])])
           verdict == CASE walk.state = "walking"    -> "applying"
                        [] walk.state = "configured" -> "applied"
                        [] OTHER                     -> walk.state
<1>1. Init => Ordered!AInit
  <2> SUFFICES ASSUME Init PROVE Ordered!AInit
    OBVIOUS
  <2>1. walk = Idle
    BY DEF Init
  <2>2. RestNow = <<>> /\ Verdict = "idle"
    BY <2>1, RestOfNone DEF Idle, RestNow, Verdict
  <2> QED
    BY <2>2, PendingIsRest DEF Ordered!AInit, Verdict
<1>2. TypesInv /\ TypesInv' /\ [Next]_vars => [Ordered!ANext]_<<cells, pending, verdict>>
  <2> SUFFICES ASSUME TypesInv, TypesInv', [Next]_vars
               PROVE  [Ordered!ANext]_<<cells, pending, verdict>>
    OBVIOUS
  <2>1. [Ordered!ANext]_OrderedVars
    BY WalkIsOrdered, ElsewhereIsOrdered, StutterIsOrdered
  <2>2. cells = Cells /\ pending = RestNow /\ verdict = Verdict
    BY PendingIsRest DEF Cells, Verdict
  <2>3. cells' = Cells' /\ pending' = RestNow' /\ verdict' = Verdict'
    BY PendingIsRestNext DEF Cells, Verdict
  <2> HIDE DEF cells, pending, verdict
  <2> QED
    BY <2>1, <2>2, <2>3 DEF OrderedVars
<1>3. TypesInv /\ [Next]_vars => TypesInv'
  BY TypesStay
<1> QED
  BY <1>1, <1>2, <1>3, InitTypes, PTL DEF Spec, ImplementsOrderedAssignments, Ordered!ASpec

-----------------------------------------------------------------------------
(* What is asked of a component, when another is read into it.             *)

\* Asked of one property: what is asked of the maps inside, if any.
Refused(old, props, lists, m, q) ==
  LET x == old.property[q]
  IN  \/ ~ Storable(x) \/ ~ Lists(props, lists[m], x.name)
      \/ ~ Takes(props[Find(props, lists[m], x.name)], x)

\* What is not refused has a place to go to.
LEMMA Taken ==
  ASSUME NEW old, Coherent(old.property, old.entries), NEW props, NEW lists,
         Coherent(props, lists), NEW m \in Maps, NEW q \in Refs,
         ~ Refused(old, props, lists, m, q)
  PROVE  LET x == old.property[q]
             r == Find(props, lists[m], x.name)
         IN  /\ Sound(x) /\ Storable(x) /\ Lists(props, lists[m], x.name)
             /\ r \in Refs /\ Sound(props[r]) /\ Takes(props[r], x)
             /\ x.type = "STRUCTURE" =>
                  /\ Len(x.items) = 1 /\ x.items[1] \in Maps
                  /\ props[r].type = "STRUCTURE" /\ props[r].items # <<>>
                  /\ props[r].items[1] \in Maps
<1> DEFINE x == old.property[q]
           r == Find(props, lists[m], x.name)
           y == props[r]
<1>1. Sound(x) /\ Storable(x) /\ Lists(props, lists[m], x.name) /\ Takes(y, x)
  BY DEF Refused, Coherent
<1>2. r \in Refs /\ Sound(y)
  BY <1>1, FoundThere
<1>3. ASSUME x.type = "STRUCTURE"
      PROVE  /\ Len(x.items) = 1 /\ x.items[1] \in Maps
             /\ y.type = "STRUCTURE" /\ y.items # <<>> /\ y.items[1] \in Maps
  <2> HIDE DEF x, y
  <2>1. Len(x.items) = 1 /\ x.items[1] # Null /\ IsSequence(x.items)
    BY <1>1, <1>3 DEF Storable, Sound
  <2>2. y.type = "STRUCTURE" /\ Len(y.items) >= 1 /\ y.items[1] # Null
    BY <1>1, <1>3, <2>1 DEF Takes
  <2>3. x.items # <<>> /\ y.items # <<>>
    BY <2>1, <2>2
  <2> QED
    BY <1>1, <1>2, <1>3, <2>1, <2>2, <2>3, InnerMap
<1> QED
  BY <1>1, <1>2, <1>3

LEMMA SameRequest ==
  ASSUME NEW old, Coherent(old.property, old.entries), NEW props, NEW lists,
         Coherent(props, lists), NEW at \in Nat \X Maps \X Maps, NEW f, NEW g,
         at[1] # 0 => \A from, to \in Maps :
                        f[<<at[1] - 1, from, to>>] = g[<<at[1] - 1, from, to>>]
  PROVE  AskedAt(f, old, props, lists, at) = AskedAt(g, old, props, lists, at)
<1>1. ASSUME NEW q \in ToSet(old.entries[at[2]])
      PROVE  AskedOfOne(f, old, props, lists, at, q) = AskedOfOne(g, old, props, lists, at, q)
  <2>1. q \in Refs /\ at[2] \in Maps /\ at[3] \in Maps
    <3>1. at[2] \in Maps /\ at[3] \in Maps
      OBVIOUS
    <3>2. old.entries[at[2]] \in Seq(Refs)
      BY <3>1 DEF Coherent
    <3> HIDE DEF Coherent
    <3> QED
      BY <1>1, <3>1, <3>2 DEF ToSet
  <2>2. CASE Refused(old, props, lists, at[3], q)
    <3>1. \A h : AskedOfOne(h, old, props, lists, at, q) = {Fault}
      BY <2>2, Zenon DEF AskedOfOne, Refused
    <3> QED
      BY <3>1
  <2>3. CASE ~ Refused(old, props, lists, at[3], q)
    <3> DEFINE x == old.property[q]
               r == Find(props, lists[at[3]], x.name)
               y == props[r]
    <3>1. \A h : AskedOfOne(h, old, props, lists, at, q) =
                   IF x.type # "STRUCTURE"
                   THEN {<<r, i - 1, Printed(x.type, x.items[i])>> : i \in DOMAIN x.items}
                   ELSE IF at[1] = 0 THEN {}
                   ELSE h[<<at[1] - 1, x.items[1], y.items[1]>>]
      BY <2>3, Zenon DEF AskedOfOne, Refused
    <3>2. x.type = "STRUCTURE" => x.items[1] \in Maps /\ y.items[1] \in Maps
      <4>1. \A m \in Maps : ~ Refused(old, props, lists, m, q) /\ x.type = "STRUCTURE"
              => x.items[1] \in Maps /\ props[Find(props, lists[m], x.name)].items[1] \in Maps
        BY <2>1, Taken
      <4> QED
        BY <2>1, <2>3, <4>1
    <3> HIDE DEF x, y, r
    <3> QED
      BY <3>1, <3>2
  <2> QED
    BY <2>2, <2>3
<1> QED
  BY <1>1 DEF AskedAt

LEMMA RequestsExist ==
  ASSUME NEW old, Coherent(old.property, old.entries), NEW props, NEW lists,
         Coherent(props, lists), NEW n \in Nat
  PROVE  \E f : Requests(f, old, props, lists, n)
<1> DEFINE T == {k \in 0 .. n : \E f : Requests(f, old, props, lists, k)}
           Places(k) == (0 .. k) \X Maps \X Maps
<1>1. 0 \in T
  <2> DEFINE f == [at \in Places(0) |-> AskedAt([x \in {} |-> {}], old, props, lists, at)]
  <2>1. ASSUME NEW at \in Places(0) PROVE f[at] = AskedAt(f, old, props, lists, at)
    <3>1. at[1] = 0 /\ at \in Nat \X Maps \X Maps
      OBVIOUS
    <3>2. f[at] = AskedAt([x \in {} |-> {}], old, props, lists, at)
      OBVIOUS
    <3> HIDE DEF f
    <3> QED
      BY <3>1, <3>2, SameRequest
  <2>2. Requests(f, old, props, lists, 0)
    <3>1. f = [at \in Places(0) |-> f[at]]
      OBVIOUS
    <3> HIDE DEF f
    <3> QED
      BY <2>1, <3>1 DEF Requests
  <2> QED
    BY <2>2
<1>2. ASSUME NEW k \in 0 .. n - 1, k \in T PROVE k + 1 \in T
  <2>1. PICK before : Requests(before, old, props, lists, k)
    BY <1>2
  <2>2. \A at \in Places(k) : before[at] = AskedAt(before, old, props, lists, at)
    BY <2>1 DEF Requests
  <2> DEFINE f == [at \in Places(k + 1) |-> AskedAt(before, old, props, lists, at)]
  <2>3. \A at \in Places(k + 1) : f[at] = AskedAt(before, old, props, lists, at)
    OBVIOUS
  <2>4. f = [at \in Places(k + 1) |-> f[at]]
    OBVIOUS
  <2> HIDE DEF f
  <2>5. \A at \in Places(k) : f[at] = before[at]
    <3>1. \A at \in Places(k) : at \in Places(k + 1)
      OBVIOUS
    <3> QED
      BY <2>2, <2>3, <3>1
  <2>6. ASSUME NEW at \in Places(k + 1) PROVE f[at] = AskedAt(f, old, props, lists, at)
    <3>1. at \in Nat \X Maps \X Maps
      OBVIOUS
    <3>2. ASSUME at[1] # 0, NEW from \in Maps, NEW to \in Maps
          PROVE  before[<<at[1] - 1, from, to>>] = f[<<at[1] - 1, from, to>>]
      <4>1. <<at[1] - 1, from, to>> \in Places(k)
        BY <3>2
      <4> QED
        BY <2>5, <4>1
    <3>3. AskedAt(before, old, props, lists, at) = AskedAt(f, old, props, lists, at)
      BY <3>1, <3>2, SameRequest
    <3> QED
      BY <2>3, <3>3
  <2>7. Requests(f, old, props, lists, k + 1)
    BY <2>4, <2>6 DEF Requests
  <2> QED
    BY <1>2, <2>7
<1> QED
  <2> HIDE DEF T
  <2>1. 0 .. n \subseteq T
    BY <1>1, <1>2, StepByStep
  <2> QED
    BY <2>1 DEF T

LEMMA AskedIs ==
  ASSUME NEW old, Coherent(old.property, old.entries), NEW props, NEW lists,
         Coherent(props, lists), NEW at \in (0 .. MaxNesting) \X Maps \X Maps
  PROVE  Asked(old, props, lists)[at] = AskedAt(Asked(old, props, lists), old, props, lists, at)
<1> DEFINE A == Asked(old, props, lists)
<1>1. A = CHOOSE f : Requests(f, old, props, lists, MaxNesting)
  BY DEF Asked, Requests, AskedAt, AskedOfOne
<1> HIDE DEF A
<1>2. Requests(A, old, props, lists, MaxNesting)
  BY <1>1, BoundsAssumption, RequestsExist
<1>3. A[at] = AskedAt(A, old, props, lists, at)
  BY <1>2 DEF Requests
<1> QED
  BY <1>3 DEF A

-----------------------------------------------------------------------------
(* What serialize() wrote, configure() reads back.                         *)

\* The texts of the values of a property, as serialize() writes them.
Texted(x, stray) == [i \in DOMAIN x.items |-> Text(x, i - 1, stray)]

Plain(x) == Sound(x) /\ Storable(x) /\ x.type # "STRUCTURE"

LEMMA TextGiven ==
  ASSUME NEW x, Plain(x), NEW i \in DOMAIN x.items, NEW stray \in StrayTexts
  PROVE  LET text == Text(x, i - 1, stray)
         IN  /\ text \in Texts /\ text # EmptyText /\ text # Null
             /\ Loaded(text) = text
             /\ Len(x.items) # 1 => LoadedValue(text) = text
             /\ x.type \in NumberTypes \cup {"CHARSTR"}
             /\ x.type = "CHARSTR" => text = x.items[i]
             /\ x.type \in IntegerTypes => text = TextOf(x.items[i])
             /\ x.type \in {"FLOAT", "DOUBLE"} => text = TextOf((x.items[i] + 1) \div 3)
             /\ x.type # "CHARSTR" => x.items[i] \in Int
<1> DEFINE text == Text(x, i - 1, stray)
           v == x.items[i]
<1>1. /\ Item(x, i - 1, stray).value = v /\ v \in ItemsOf(x.type)
      /\ x.class # "property" /\ x.type # "UNICODESTR" /\ x.type # "STRUCTURE"
      /\ x.type # "NONE" /\ x.type \in PropertyTypes
      /\ x.type = "CHARSTR" => StorableText(v, Len(x.items) = 1)
  BY ItemIs DEF Plain, Storable, Sound, WellTyped
<1>2. x.type \in NumberTypes \cup {"CHARSTR"}
  BY <1>1 DEF PropertyTypes, NumberTypes
<1>3. x.type # "CHARSTR" => v \in Int
  BY <1>1, <1>2, NumbersAreIntegers
<1>4. Null \notin Texts
  BY NullAssumption
<1>5. ASSUME NEW n \in Int
      PROVE  /\ TextOf(n) # EmptyText /\ ~ Blank(TextOf(n)) /\ Loaded(TextOf(n)) = TextOf(n)
             /\ LoadedValue(TextOf(n)) = TextOf(n)
  <2>1. TextOf(n).number = <<n>> /\ <<n>> # <<>> /\ TextOf(n).tail = {}
    BY DEF TextOf
  <2>2. EmptyText.number = <<>>
    BY DEF EmptyText
  <2> QED
    BY <2>1, <2>2 DEF Blank, Loaded, LoadedValue
<1>6. CASE x.type = "CHARSTR"
  <2>1. text = v
    BY <1>1, <1>6 DEF Text
  <2>2. v \in Texts
    BY <1>1, <1>6, ItemsOfStrings DEF StringTypes
  <2>3. /\ v # EmptyText /\ Loaded(v) = v
        /\ Len(x.items) # 1 => LoadedValue(v) = v
    <3>1. EmptyText.number = <<>> /\ EmptyText.tail = {}
      BY DEF EmptyText
    <3> QED
      BY <1>1, <1>6, <3>1 DEF StorableText, Loaded, LoadedValue, Blank
  <2> QED
    BY <1>1, <1>2, <1>4, <1>6, <2>1, <2>2, <2>3 DEF IntegerTypes
<1>7. CASE x.type \in IntegerTypes
  <2>1. text = TextOf(v)
    BY <1>1, <1>7 DEF Text, IntegerTypes
  <2>2. v \in Int
    BY <1>3, <1>7 DEF IntegerTypes
  <2> QED
    BY <1>2, <1>3, <1>4, <1>7, <1>5, <2>1, <2>2, TextOfIsText DEF IntegerTypes
<1>8. CASE x.type \in {"FLOAT", "DOUBLE"}
  <2>1. text = TextOf((v + 1) \div 3)
    BY <1>1, <1>8 DEF Text
  <2>2. (v + 1) \div 3 \in Int
    BY <1>3, <1>8
  <2> QED
    BY <1>2, <1>3, <1>4, <1>8, <1>5, <2>1, <2>2, TextOfIsText DEF IntegerTypes
<1> QED
  BY <1>2, <1>6, <1>7, <1>8 DEF NumberTypes, IntegerTypes

\* The text of a number is read as the number that was printed.
LEMMA NumberMeant ==
  ASSUME NEW x, Plain(x), x.type # "CHARSTR", NEW y, y.type = x.type,
         NEW i \in DOMAIN x.items, NEW stray \in StrayTexts
  PROVE  LET text == Text(x, i - 1, stray)
         IN  /\ text.number # <<>> /\ Parses(y.type, text.number[1]) /\ text.tail = {}
             /\ Meant(y, text) = Printed(x.type, x.items[i])
<1> DEFINE v == x.items[i]
           text == Text(x, i - 1, stray)
<1>1. \A n : TextOf(n).number = <<n>> /\ TextOf(n).tail = {}
  BY DEF TextOf
<1>2. x.type \in NumberTypes /\ v \in Int
  BY TextGiven
<1>3. CASE x.type \in IntegerTypes
  <2>1. text = TextOf(v) /\ text.number # <<>> /\ text.number[1] = v /\ text.tail = {}
    <3>1. text = TextOf(v)
      BY <1>3, TextGiven
    <3> HIDE DEF text, v
    <3> QED
      BY <1>1, <3>1
  <2>2. v \in ItemsOf(x.type)
    BY ItemIs DEF Plain, Storable
  <2>3. Parses(x.type, v)
    BY <1>3, <2>2, ReadBack
  <2>4. (CHOOSE w \in ItemsOf(x.type) : (v - w) % Modulus(x.type) = 0) = v
    BY <1>3, <2>2, ReadBack
  <2> HIDE DEF text
  <2>5. Meant(y, text) = v
    BY <1>3, <2>1, <2>4 DEF Meant, IntegerTypes
  <2>6. Printed(x.type, v) = v
    BY <1>3 DEF Printed, IntegerTypes
  <2> QED
    BY <2>1, <2>3, <2>5, <2>6 DEF text
<1>4. CASE x.type \in {"FLOAT", "DOUBLE"}
  <2>1. text = TextOf((v + 1) \div 3)
    BY <1>4, TextGiven
  <2>2. text.number # <<>> /\ text.number[1] = (v + 1) \div 3 /\ text.tail = {}
    BY <1>1, <2>1
  <2> HIDE DEF text, v
  <2>3. (v + 1) \div 3 \in Int
    BY <1>2
  <2>4. Parses(x.type, (v + 1) \div 3)
    BY <1>4, <2>3 DEF Parses, IsSigned, IsUnsigned
  <2>5. Meant(y, text) = 3 * ((v + 1) \div 3)
    BY <1>4, <2>2 DEF Meant
  <2>6. Printed(x.type, v) = 3 * ((v + 1) \div 3)
    BY <1>4 DEF Printed
  <2> QED
    BY <2>2, <2>4, <2>5, <2>6 DEF text, v
<1> QED
  BY <1>2, <1>3, <1>4 DEF NumberTypes, IntegerTypes

\* A text that was written assigns the value to the item it was read from.
LEMMA AssignsBack ==
  ASSUME NEW x, Plain(x), NEW y, Sound(y), Takes(y, x), NEW r, NEW i \in DOMAIN x.items,
         NEW stray \in StrayTexts
  PROVE  AssignedBy(r, y, Text(x, i - 1, stray), i - 1)
           = << <<r, i - 1, Printed(x.type, x.items[i])>> >>
<1> DEFINE text == Text(x, i - 1, stray)
           value == Printed(x.type, x.items[i])
<1>1. /\ y.class # "property" /\ y.type = x.type /\ Len(y.items) >= Len(x.items)
      /\ y.class = "wrapper" => Len(y.items) = 1
      /\ Len(x.items) \in Nat /\ DOMAIN x.items = 1 .. Len(x.items)
      /\ Len(y.items) \in Nat
  BY DEF Takes, Plain, Sound, WellTyped, IsSequence
<1>2. text # Null /\ text # EmptyText /\ x.type \in NumberTypes \cup {"CHARSTR"}
  BY TextGiven
<1>3. x.type # "CHARSTR" =>
        /\ text.number # <<>> /\ Parses(y.type, text.number[1]) /\ text.tail = {}
        /\ Meant(y, text) = value
  BY <1>1, NumberMeant
<1>4. x.type = "CHARSTR" => Meant(y, text) = value
  <2>1. x.type = "CHARSTR" => text = x.items[i]
    BY TextGiven
  <2> HIDE DEF text
  <2> QED
    BY <1>1, <2>1 DEF Meant, Printed
<1> HIDE DEF text, value
<1>5. IndexOf(y, i - 1) = i - 1 /\ i - 1 < Len(y.items)
  <2> DEFINE n == Len(x.items)
             m == Len(y.items)
  <2>1. n \in Nat /\ m \in Nat /\ m >= n /\ i \in 1 .. n
        /\ (y.class = "wrapper" => m = 1)
    BY <1>1
  <2> HIDE DEF n, m
  <2>2. i \in Int /\ i - 1 < m /\ (y.class = "wrapper" => i - 1 = 0)
    BY <2>1
  <2> QED
    BY <2>2 DEF IndexOf, m
<1>6. Readable(y, text)
  BY <1>1, <1>2, <1>3 DEF Readable, NumberTypes, PropertyTypes
<1>7. ~ Unassignable(y, text, i - 1)
  BY <1>1, <1>5, <1>6 DEF Unassignable
<1>8. ValueOf(y, text) = value
  BY <1>1, <1>3, <1>4 DEF ValueOf
<1>9. ~ (text.tail # {} /\ y.type # "CHARSTR")
  BY <1>1, <1>3
<1>10. AssignedBy(r, y, text, i - 1) = << <<r, IndexOf(y, i - 1), ValueOf(y, text)>> >>
  BY <1>2, <1>7, <1>9, AssignedByCases
<1> QED
  BY <1>5, <1>8, <1>10 DEF text, value

\* The texts of the element that serialize() makes.
LEMMA TextsWritten ==
  ASSUME NEW x, Plain(x), NEW children, NEW stray \in StrayTexts
  PROVE  LET e == ElementOf(x, children, stray)
             texts == IF e.value # Null THEN <<e.value>> ELSE e.values
         IN  /\ e.name = x.name /\ e.type = x.type /\ e.type # "" /\ e.type # "structure"
             /\ texts = Texted(x, stray)
<1> DEFINE e == ElementOf(x, children, stray)
           texts == IF e.value # Null THEN <<e.value>> ELSE e.values
           written == Texted(x, stray)
<1>1. Len(x.items) \in Nat /\ DOMAIN x.items = 1 .. Len(x.items)
  BY DEF Plain, Sound, IsSequence
<1>2. \A i \in DOMAIN x.items :
        /\ written[i] # Null /\ Loaded(written[i]) = written[i]
        /\ Len(x.items) # 1 => LoadedValue(written[i]) = written[i]
  BY TextGiven DEF Texted
<1>3. Len(written) = Len(x.items) /\ DOMAIN written = 1 .. Len(x.items)
      /\ written = [i \in 1 .. Len(x.items) |-> written[i]]
  BY <1>1 DEF Texted
<1>4. x.type \in PropertyTypes /\ x.type # "STRUCTURE" /\ x.type # "NONE"
  BY DEF Plain, Sound, WellTyped, Storable
<1>5. /\ e.name = x.name /\ e.type = x.type
      /\ e.value = IF Len(written) = 1 THEN Loaded(written[1]) ELSE Null
      /\ e.values = IF Len(written) = 1 THEN <<>>
                    ELSE [i \in DOMAIN written |-> LoadedValue(written[i])]
  <2> DEFINE t == IF x.type = "STRUCTURE" THEN <<>>
                  ELSE [i \in DOMAIN x.items |-> Text(x, i - 1, stray)]
  <2>1. t = written
    BY <1>4 DEF Texted
  <2>2. e = [name     |-> x.name,
             type     |-> CASE x.type = "STRUCTURE" -> "structure"
                            [] x.type = "NONE"      -> ""
                            [] OTHER                -> x.type,
             value    |-> IF Len(t) = 1 THEN Loaded(t[1]) ELSE Null,
             values   |-> IF Len(t) = 1 THEN <<>>
                          ELSE [i \in DOMAIN t |-> LoadedValue(t[i])],
             children |-> children]
    BY Zenon DEF ElementOf
  <2> HIDE DEF e, t, written
  <2> QED
    BY <1>4, <2>1, <2>2
<1>6. e.type # "" /\ e.type # "structure"
  BY <1>4, <1>5 DEF PropertyTypes
<1> HIDE DEF e, written
<1>7. CASE Len(written) = 1
  <2>1. texts = <<written[1]>>
    <3>1. 1 \in DOMAIN x.items
      <4>1. Len(x.items) = 1
        BY <1>3, <1>7
      <4> QED
        BY <1>1, <4>1
    <3>2. written[1] # Null /\ Loaded(written[1]) = written[1]
      BY <1>2, <3>1
    <3>3. e.value = written[1]
      BY <1>5, <1>7, <3>2
    <3> QED
      BY <3>2, <3>3
  <2>2. DOMAIN written = 1 .. 1
    BY <1>3, <1>7
  <2>3. written = <<written[1]>>
    BY <1>1, <1>3, <1>7, <2>2
  <2> QED
    BY <1>5, <1>6, <2>1, <2>3 DEF e, written
<1>8. CASE Len(written) # 1
  <2>1. texts = [i \in DOMAIN written |-> LoadedValue(written[i])]
    BY <1>5, <1>8
  <2>2. \A i \in 1 .. Len(x.items) : LoadedValue(written[i]) = written[i]
    BY <1>1, <1>2, <1>3, <1>8
  <2>3. texts = written
    BY <1>1, <1>3, <2>1, <2>2
  <2> QED
    BY <1>5, <1>6, <2>3 DEF e, written
<1> QED
  BY <1>7, <1>8

\* The members of a sequence of sequences of one.
LEMMA OnesFlattened ==
  ASSUME NEW S, NEW n \in Nat, NEW ss \in Seq(Seq(S)), Len(ss) = n,
         NEW one, \A k \in 1 .. n : one[k] \in S /\ ss[k] = <<one[k]>>
  PROVE  ToSet(FlattenSeq(ss)) = {one[k] : k \in 1 .. n}
<1>1. ToSet(FlattenSeq(ss)) = UNION {ToSet(ss[i]) : i \in DOMAIN ss}
  BY FlattenMembers
<1>2. DOMAIN ss = 1 .. n
  OBVIOUS
<1>3. \A k \in 1 .. n : ToSet(ss[k]) = {one[k]}
  BY DEF ToSet
<1> QED
  BY <1>1, <1>2, <1>3

LEMMA ValuesBack ==
  ASSUME NEW x, Plain(x), NEW y, Sound(y), Takes(y, x), NEW r \in Refs,
         NEW stray \in StrayTexts
  PROVE  LET texts == Texted(x, stray)
         IN  ToSet(FlattenSeq([k \in DOMAIN texts |-> AssignedBy(r, y, texts[k], k - 1)]))
               = {<<r, i - 1, Printed(x.type, x.items[i])>> : i \in DOMAIN x.items}
<1> DEFINE n == Len(x.items)
           texts == Texted(x, stray)
           w(k) == AssignedBy(r, y, texts[k], k - 1)
           ss == [k \in DOMAIN texts |-> w(k)]
           d(k) == <<r, k - 1, Printed(x.type, x.items[k])>>
           one == [k \in 1 .. n |-> d(k)]
<1>1. n \in Nat /\ DOMAIN x.items = 1 .. n
  BY DEF Plain, Sound, IsSequence
<1>2. DOMAIN texts = 1 .. n /\ \A k \in 1 .. n : texts[k] = Text(x, k - 1, stray)
  BY <1>1 DEF Texted
<1>3. \A k \in 1 .. n : w(k) = <<d(k)>>
  <2> TAKE k \in 1 .. n
  <2>1. AssignedBy(r, y, Text(x, k - 1, stray), k - 1) = <<d(k)>>
    BY <1>1, AssignsBack
  <2> QED
    BY <1>2, <2>1
<1>4. texts \in Seq(Texts \cup {Null})
  <2>1. \A k \in 1 .. n : texts[k] \in Texts \cup {Null}
    BY <1>1, <1>2, TextGiven
  <2>2. texts = [k \in 1 .. n |-> texts[k]]
    BY <1>2 DEF Texted
  <2> HIDE DEF texts, n
  <2> QED
    BY <1>1, <2>1, <2>2
<1>5. ss \in Seq(Seq(Deeds))
  BY <1>4, ValuesTyped
<1>6. \A k \in 1 .. n : d(k) \in Deeds
  <2> TAKE k \in 1 .. n
  <2>1. w(k) \in Seq(Deeds)
    <3>1. texts[k] \in Texts \cup {Null} /\ k - 1 \in Nat
      <4>1. Text(x, k - 1, stray) \in Texts
        BY <1>1, TextGiven
      <4> HIDE DEF n, texts
      <4> QED
        BY <1>1, <1>2, <4>1
    <3> HIDE DEF texts
    <3> QED
      BY <3>1, AssignedByTyped
  <2>2. w(k) = <<d(k)>>
    BY <1>3
  <2> HIDE DEF w, d, n
  <2>3. <<d(k)>> \in Seq(Deeds)
    BY <2>1, <2>2
  <2>4. <<d(k)>>[1] \in Deeds
    BY <2>3
  <2> QED
    BY <2>4
<1>7. Len(ss) = n
  BY <1>1, <1>2
<1>8. \A k \in 1 .. n : one[k] \in Deeds /\ ss[k] = <<one[k]>>
  <2> HIDE DEF w, d, texts, n
  <2>1. \A k \in 1 .. n : one[k] = d(k) /\ ss[k] = w(k)
    BY <1>2
  <2> HIDE DEF one, ss
  <2> QED
    BY <1>3, <1>6, <2>1
<1>9. ToSet(FlattenSeq(ss)) = {one[k] : k \in 1 .. n}
  <2>1. n \in Nat
    BY <1>1
  <2> HIDE DEF ss, one, n, texts, d, w
  <2> QED
    BY <1>5, <1>7, <1>8, <2>1, OnesFlattened
<1>10. {one[k] : k \in 1 .. n} = {d(k) : k \in 1 .. n}
  <2> HIDE DEF d, n
  <2> QED
    OBVIOUS
<1> QED
  BY <1>1, <1>9, <1>10

\* The nodes for the elements of a map, when they are read into a map to.
NodeOf(to, e) == [node |-> "property", map |-> to, element |-> e]

ElementIn(old, d, q, stray) == PropertyElements(old.property, old.entries, stray)[<<d, q>>]

WrittenNodes(old, d, m, to, stray) ==
  [k \in DOMAIN old.entries[m] |-> NodeOf(to, ElementIn(old, d, old.entries[m][k], stray))]

LEMMA NodeOfTyped ==
  ASSUME NEW old, Coherent(old.property, old.entries), NEW d \in 0 .. MaxNesting,
         NEW q \in Refs, NEW to \in Maps, NEW stray \in StrayTexts
  PROVE  NodeOf(to, ElementIn(old, d, q, stray)) \in PropertyNodesOf(AllElements)
<1> DEFINE e == ElementIn(old, d, q, stray)
<1>1. e \in AllElements
  BY PropertyElementTyped, ElementsGrow DEF ElementIn, AllElements
<1> HIDE DEF e
<1>2. NodeOf(to, e) \in PropertyNodesOf(AllElements)
  BY <1>1 DEF NodeOf, PropertyNodesOf
<1> QED
  BY <1>2 DEF e

LEMMA WrittenNodesTyped ==
  ASSUME NEW old, Coherent(old.property, old.entries), NEW d \in 0 .. MaxNesting,
         NEW m \in Maps, NEW to \in Maps, NEW stray \in StrayTexts
  PROVE  /\ WrittenNodes(old, d, m, to, stray) \in Seq(PropertyNodesOf(AllElements))
         /\ DOMAIN WrittenNodes(old, d, m, to, stray) = 1 .. Len(old.entries[m])
         /\ Len(old.entries[m]) \in Nat
         /\ \A k \in 1 .. Len(old.entries[m]) : old.entries[m][k] \in Refs
<1> DEFINE list == old.entries[m]
           n == Len(list)
           w(k) == NodeOf(to, ElementIn(old, d, list[k], stray))
<1>1. list \in Seq(Refs)
  BY DEF Coherent
<1>2. n \in Nat /\ DOMAIN list = 1 .. n /\ \A k \in 1 .. n : list[k] \in Refs
  BY <1>1
<1>3. \A k \in 1 .. n : w(k) \in PropertyNodesOf(AllElements)
  BY <1>2, NodeOfTyped
<1>4. WrittenNodes(old, d, m, to, stray) = [k \in 1 .. n |-> w(k)]
  BY <1>2 DEF WrittenNodes
<1>5. [k \in 1 .. n |-> w(k)] \in Seq(PropertyNodesOf(AllElements))
  <2> HIDE DEF w, n
  <2> QED
    BY <1>2, <1>3
<1> QED
  BY <1>2, <1>4, <1>5

\* Reading the element of a property makes the assignments that are asked.
GivesBack(old, props, lists, d, stray) ==
  \A q \in Refs, m, to \in Maps :
    LET asked == AskedOfOne(Asked(old, props, lists), old, props, lists, <<d, m, to>>, q)
    IN  Fault \notin asked =>
          ToSet(Assignments(props, lists)[NodeOf(to, ElementIn(old, d, q, stray))]) = asked

\* And so does reading those of a map.
LEMMA MapBack ==
  ASSUME NEW old, Coherent(old.property, old.entries), NEW props, NEW lists,
         Coherent(props, lists), NEW d \in 0 .. MaxNesting, NEW stray \in StrayTexts,
         GivesBack(old, props, lists, d, stray),
         NEW m \in Maps, NEW to \in Maps, Fault \notin Asked(old, props, lists)[<<d, m, to>>]
  PROVE  LET nodes == WrittenNodes(old, d, m, to, stray)
         IN  ToSet(FlattenSeq([k \in DOMAIN nodes |-> Assignments(props, lists)[nodes[k]]]))
               = Asked(old, props, lists)[<<d, m, to>>]
<1> DEFINE nodes == WrittenNodes(old, d, m, to, stray)
           A == Assignments(props, lists)
           Q == Asked(old, props, lists)
           list == old.entries[m]
           n == Len(list)
           of(q) == AskedOfOne(Q, old, props, lists, <<d, m, to>>, q)
           ss == [k \in DOMAIN nodes |-> A[nodes[k]]]
<1>1. nodes \in Seq(PropertyNodesOf(AllElements)) /\ DOMAIN nodes = 1 .. n /\ n \in Nat
      /\ \A k \in 1 .. n : list[k] \in Refs
  BY WrittenNodesTyped
<1>2. \A k \in 1 .. n : nodes[k] = NodeOf(to, ElementIn(old, d, list[k], stray))
  BY <1>1 DEF WrittenNodes
<1>3. Q[<<d, m, to>>] = UNION {of(q) : q \in ToSet(list)}
  <2>1. <<d, m, to>> \in (0 .. MaxNesting) \X Maps \X Maps
    OBVIOUS
  <2>2. Q[<<d, m, to>>] = AskedAt(Q, old, props, lists, <<d, m, to>>)
    BY <2>1, AskedIs
  <2> HIDE DEF Q
  <2> QED
    BY <2>2 DEF AskedAt
<1>4. ToSet(list) = {list[k] : k \in 1 .. n}
  <2>1. DOMAIN list = 1 .. n
    BY DEF Coherent
  <2> QED
    BY <2>1 DEF ToSet
<1>5. \A q \in ToSet(list) : Fault \notin of(q)
  <2> HIDE DEF of, list, Q
  <2> QED
    BY <1>3 DEF Q
<1>6. \A k \in 1 .. n : ToSet(A[nodes[k]]) = of(list[k])
  <2> TAKE k \in 1 .. n
  <2>1. list[k] \in Refs /\ list[k] \in ToSet(list)
    BY <1>1, <1>4
  <2>2. Fault \notin of(list[k])
    BY <1>5, <2>1
  <2>3. ToSet(A[NodeOf(to, ElementIn(old, d, list[k], stray))]) = of(list[k])
    BY <2>1, <2>2 DEF GivesBack
  <2> QED
    BY <1>2, <2>3
<1>7. ss \in Seq(Seq(Deeds))
  BY <1>1, NodesAssign
<1>8. ToSet(FlattenSeq(ss)) = UNION {ToSet(ss[k]) : k \in DOMAIN ss}
  <2> HIDE DEF ss
  <2> QED
    BY <1>7, FlattenMembers
<1>9. DOMAIN ss = 1 .. n /\ \A k \in 1 .. n : ss[k] = A[nodes[k]]
  BY <1>1
<1>10. UNION {ToSet(ss[k]) : k \in DOMAIN ss} = UNION {of(q) : q \in ToSet(list)}
  <2> HIDE DEF ss, of, list, nodes, A, n
  <2> QED
    BY <1>4, <1>6, <1>9
<1> QED
  BY <1>3, <1>8, <1>10

\* The element of a structure holds those of its map.
LEMMA StructureWritten ==
  ASSUME NEW old, Coherent(old.property, old.entries), NEW d \in 0 .. MaxNesting,
         NEW q \in Refs, NEW stray \in StrayTexts, old.property[q].type = "STRUCTURE",
         Len(old.property[q].items) = 1, old.property[q].items[1] \in Maps \ {Null}
  PROVE  LET x == old.property[q]
             e == ElementIn(old, d, q, stray)
             list == old.entries[x.items[1]]
         IN  /\ e.name = x.name /\ e.type = "structure"
             /\ e.children = IF d = 0 THEN <<>>
                             ELSE [k \in DOMAIN list |-> ElementIn(old, d - 1, list[k], stray)]
<1> DEFINE x == old.property[q]
           E == PropertyElements(old.property, old.entries, stray)
           m == x.items[1]
           list == old.entries[m]
           inner == [i \in DOMAIN MapItems(x) |-> InMap(E, old.entries, <<d, q>>, x.items[i])]
           children == IF d = 0 THEN <<>> ELSE FlattenSeq(inner)
           elements == [k \in DOMAIN list |-> E[<<d - 1, list[k]>>]]
<1>1. E[<<d, q>>] = ElementOf(x, children, stray)
  <2>1. <<d, q>> \in (0 .. MaxNesting) \X Refs
    OBVIOUS
  <2>2. E[<<d, q>>] = ElementAt(E, old.property, old.entries, <<d, q>>, stray)
    BY <2>1, PropertyElementIs
  <2> QED
    BY <2>2 DEF ElementAt
<1>2. /\ ElementOf(x, children, stray).name = x.name
      /\ ElementOf(x, children, stray).type = "structure"
      /\ ElementOf(x, children, stray).children = children
  <2> HIDE DEF children
  <2> QED
    BY DEF ElementOf
<1>3. ASSUME d # 0 PROVE FlattenSeq(inner) = elements
  <2>1. m # Null
    OBVIOUS
  <2>2. inner = <<InMap(E, old.entries, <<d, q>>, m)>>
    <3>1. MapItems(x) = x.items /\ IsSequence(x.items)
      BY DEF MapItems, Coherent, Sound
    <3>2. DOMAIN MapItems(x) = 1 .. 1
      BY <3>1 DEF IsSequence
    <3> QED
      BY <3>2
  <2>3. InMap(E, old.entries, <<d, q>>, m) = elements
    BY <2>1 DEF InMap
  <2>4. \A k \in DOMAIN list : list[k] \in Refs /\ list \in Seq(Refs)
    BY DEF Coherent
  <2>5. elements \in Seq(AllElements)
    <3> DEFINE w(k) == E[<<d - 1, list[k]>>]
    <3>1. list \in Seq(Refs)
      BY DEF Coherent
    <3>2. \A k \in DOMAIN list : w(k) \in AllElements
      <4>1. d - 1 \in 0 .. MaxNesting
        BY <1>3, BoundsAssumption
      <4> QED
        BY <2>4, <4>1, PropertyElementTyped, ElementsGrow DEF AllElements
    <3>3. Len(list) \in Nat /\ DOMAIN list = 1 .. Len(list)
      <4> HIDE DEF list
      <4> QED
        BY <3>1
    <3>4. [k \in 1 .. Len(list) |-> w(k)] \in Seq(AllElements)
      <4> DEFINE n == Len(list)
      <4> HIDE DEF w, list
      <4> QED
        BY <3>2, <3>3
    <3> QED
      BY <3>3, <3>4
  <2> HIDE DEF elements, inner
  <2> QED
    BY <2>2, <2>3, <2>5, FlattenOne
<1>4. children = IF d = 0 THEN <<>> ELSE elements
  BY <1>3
<1> HIDE DEF children
<1> QED
  BY <1>1, <1>2, <1>4 DEF ElementIn

LEMMA EachBack ==
  ASSUME NEW old, Coherent(old.property, old.entries), NEW props, NEW lists,
         Coherent(props, lists), NEW d \in 0 .. MaxNesting, NEW stray \in StrayTexts,
         d # 0 => GivesBack(old, props, lists, d - 1, stray)
  PROVE  GivesBack(old, props, lists, d, stray)
<1> DEFINE A == Assignments(props, lists)
           Q == Asked(old, props, lists)
<1> SUFFICES ASSUME NEW q \in Refs, NEW m \in Maps, NEW to \in Maps,
                    Fault \notin AskedOfOne(Q, old, props, lists, <<d, m, to>>, q)
             PROVE  ToSet(A[NodeOf(to, ElementIn(old, d, q, stray))])
                      = AskedOfOne(Q, old, props, lists, <<d, m, to>>, q)
  BY DEF GivesBack
<1> DEFINE asked == AskedOfOne(Q, old, props, lists, <<d, m, to>>, q)
           x == old.property[q]
           r == Find(props, lists[to], x.name)
           y == props[r]
           e == ElementIn(old, d, q, stray)
           node == NodeOf(to, e)
           texts == IF e.value # Null THEN <<e.value>> ELSE e.values
           inside == PropertyNodes(y.items[1], e.children)
<1>1. ~ Refused(old, props, lists, to, q)
  <2>1. Refused(old, props, lists, to, q) => asked = {Fault}
    BY Zenon DEF AskedOfOne, Refused
  <2> HIDE DEF Q
  <2> QED
    BY <2>1
<1>2. asked = IF x.type # "STRUCTURE"
              THEN {<<r, i - 1, Printed(x.type, x.items[i])>> : i \in DOMAIN x.items}
              ELSE IF d = 0 THEN {}
              ELSE Q[<<d - 1, x.items[1], y.items[1]>>]
  <2> DEFINE at == <<d, m, to>>
  <2>1. at[1] = d /\ at[3] = to
    OBVIOUS
  <2> HIDE DEF at, Q
  <2>2. AskedOfOne(Q, old, props, lists, at, q) =
          IF x.type # "STRUCTURE"
          THEN {<<r, i - 1, Printed(x.type, x.items[i])>> : i \in DOMAIN x.items}
          ELSE IF d = 0 THEN {}
          ELSE Q[<<d - 1, x.items[1], y.items[1]>>]
    BY <1>1, <2>1, Zenon DEF AskedOfOne, Refused
  <2> QED
    BY <2>2 DEF at
<1>3. /\ Sound(x) /\ Storable(x) /\ Lists(props, lists[to], x.name)
      /\ r \in Refs /\ Sound(y) /\ Takes(y, x)
      /\ x.type = "STRUCTURE" =>
           /\ Len(x.items) = 1 /\ x.items[1] \in Maps \ {Null}
           /\ y.type = "STRUCTURE" /\ y.items # <<>> /\ y.items[1] \in Maps \ {Null}
  BY <1>1, Taken DEF Storable, Takes
<1>4. A[node] = AssignedAt(A, props, lists, node)
  <2>1. node \in PropertyNodesOf(AllElements)
    BY NodeOfTyped
  <2> HIDE DEF node
  <2> QED
    BY <2>1, AssignmentsAre
<1>5. ASSUME e.name = x.name, e.type # ""
      PROVE  A[node] =
               IF e.type # "structure"
               THEN FlattenSeq([k \in DOMAIN texts |-> AssignedBy(r, y, texts[k], k - 1)])
               ELSE IF y.type # "STRUCTURE" \/ y.items = <<>> THEN <<Fault>>
               ELSE IF y.items[1] = Null THEN <<Fault>>
               ELSE FlattenSeq([k \in DOMAIN inside |-> A[inside[k]]])
  <2>1. x.name # Null
    BY <1>3, NullAssumption DEF Sound, WellTyped
  <2>2. node.map = to /\ node.element = e
    BY DEF NodeOf
  <2>3. AssignedAt(A, props, lists, node) =
          LET s == Find(props, lists[to], e.name)
              p == props[s]
              within == PropertyNodes(p.items[1], e.children)
          IN  IF e.name = Null \/ ~ Lists(props, lists[to], e.name) \/ e.type = ""
              THEN <<Fault>>
              ELSE IF e.type # "structure"
              THEN FlattenSeq([k \in DOMAIN texts |-> AssignedBy(s, p, texts[k], k - 1)])
              ELSE IF p.type # "STRUCTURE" \/ p.items = <<>> THEN <<Fault>>
              ELSE IF p.items[1] = Null THEN <<Fault>>
              ELSE FlattenSeq([k \in DOMAIN within |-> A[within[k]]])
    <3> HIDE DEF node, e, A
    <3> QED
      BY <2>2, Zenon DEF AssignedAt
  <2> HIDE DEF node, e, A
  <2> QED
    BY <1>3, <1>4, <1>5, <2>1, <2>3, Zenon
<1>6. CASE x.type # "STRUCTURE"
  <2>1. Plain(x)
    BY <1>3, <1>6 DEF Plain
  <2>2. \E children : e = ElementOf(x, children, stray)
    <3>1. <<d, q>> \in (0 .. MaxNesting) \X Refs
      OBVIOUS
    <3>2. e = ElementAt(PropertyElements(old.property, old.entries, stray),
                        old.property, old.entries, <<d, q>>, stray)
      BY <3>1, PropertyElementIs DEF ElementIn
    <3> HIDE DEF e
    <3> QED
      BY <3>2 DEF ElementAt
  <2>3. /\ e.name = x.name /\ e.type # "" /\ e.type # "structure" /\ texts = Texted(x, stray)
    <3>1. PICK children : e = ElementOf(x, children, stray)
      BY <2>2
    <3> DEFINE f == ElementOf(x, children, stray)
    <3>2. /\ f.name = x.name /\ f.type # "" /\ f.type # "structure"
          /\ (IF f.value # Null THEN <<f.value>> ELSE f.values) = Texted(x, stray)
      <4> HIDE DEF x, y, r, e
      <4> QED
        BY <2>1, TextsWritten
    <3> HIDE DEF f, e, x
    <3> QED
      BY <3>1, <3>2 DEF f
  <2> DEFINE written == Texted(x, stray)
  <2>4. A[node] = FlattenSeq([k \in DOMAIN written |-> AssignedBy(r, y, written[k], k - 1)])
    <3> DEFINE all(t) == FlattenSeq([k \in DOMAIN t |-> AssignedBy(r, y, t[k], k - 1)])
    <3>1. A[node] = all(texts)
      BY <1>5, <2>3
    <3> HIDE DEF all, texts, node, A
    <3>2. A[node] = all(written)
      BY <2>3, <3>1
    <3> QED
      BY <3>2 DEF all
  <2>5. ToSet(A[node]) = {<<r, i - 1, Printed(x.type, x.items[i])>> : i \in DOMAIN x.items}
    <3> HIDE DEF node, A, x, y, r
    <3> QED
      BY <1>3, <2>1, <2>4, ValuesBack
  <2> QED
    BY <1>2, <1>6, <2>5
<1>7. CASE x.type = "STRUCTURE"
  <2> DEFINE list == old.entries[x.items[1]]
  <2>1. /\ e.name = x.name /\ e.type = "structure"
        /\ e.children = IF d = 0 THEN <<>>
                        ELSE [k \in DOMAIN list |-> ElementIn(old, d - 1, list[k], stray)]
    <3>1. Len(x.items) = 1 /\ x.items[1] \in Maps \ {Null}
      BY <1>3, <1>7
    <3> HIDE DEF A, Q
    <3> QED
      BY <1>7, <3>1, StructureWritten
  <2>2. A[node] = FlattenSeq([k \in DOMAIN inside |-> A[inside[k]]])
    <3>1. e.type # ""
      BY <2>1
    <3> HIDE DEF node, A, e, inside
    <3> QED
      BY <1>3, <1>5, <1>7, <2>1, <3>1
  <2>3. CASE d = 0
    <3>1. inside = <<>>
      BY <2>1, <2>3 DEF PropertyNodes
    <3>2. A[node] = <<>>
      <4>1. [k \in DOMAIN inside |-> A[inside[k]]] = <<>>
        BY <3>1
      <4> QED
        BY <2>2, <4>1, FlattenNone
    <3>3. ToSet(<<>>) = {}
      BY DEF ToSet
    <3> QED
      BY <1>2, <1>7, <2>3, <3>2, <3>3
  <2>4. CASE d # 0
    <3>1. inside = WrittenNodes(old, d - 1, x.items[1], y.items[1], stray)
      <4>1. e.children = [k \in DOMAIN list |-> ElementIn(old, d - 1, list[k], stray)]
        BY <2>1, <2>4
      <4> HIDE DEF e
      <4> QED
        BY <4>1 DEF PropertyNodes, WrittenNodes, NodeOf
    <3>2. d - 1 \in 0 .. MaxNesting /\ GivesBack(old, props, lists, d - 1, stray)
      BY <2>4, BoundsAssumption
    <3>3. asked = Q[<<d - 1, x.items[1], y.items[1]>>]
      BY <1>2, <1>7, <2>4
    <3>4. Fault \notin Q[<<d - 1, x.items[1], y.items[1]>>]
      BY <3>3
    <3>5. ToSet(A[node]) = Q[<<d - 1, x.items[1], y.items[1]>>]
      <4>1. x.items[1] \in Maps /\ y.items[1] \in Maps
        BY <1>3, <1>7
      <4> HIDE DEF node, inside, x, y, r, e
      <4> QED
        BY <2>2, <3>1, <3>2, <3>4, <4>1, MapBack
    <3> QED
      BY <3>3, <3>5
  <2> QED
    BY <2>3, <2>4
<1> QED
  BY <1>6, <1>7

LEMMA AllBack ==
  ASSUME NEW old, Coherent(old.property, old.entries), NEW props, NEW lists,
         Coherent(props, lists), NEW stray \in StrayTexts
  PROVE  GivesBack(old, props, lists, MaxNesting, stray)
<1> DEFINE T == {d \in 0 .. MaxNesting : GivesBack(old, props, lists, d, stray)}
<1>1. MaxNesting \in Nat
  BY BoundsAssumption
<1>2. 0 \in T
  BY <1>1, EachBack
<1>3. ASSUME NEW k \in 0 .. MaxNesting - 1, k \in T PROVE k + 1 \in T
  <2> DEFINE d == k + 1
  <2>1. d \in 0 .. MaxNesting /\ d - 1 = k
    BY <1>1
  <2>2. GivesBack(old, props, lists, k, stray)
    BY <1>3
  <2> HIDE DEF d
  <2>3. GivesBack(old, props, lists, d, stray)
    BY <2>1, <2>2, EachBack
  <2> QED
    BY <2>1, <2>3 DEF d
<1> HIDE DEF T
<1>4. 0 .. MaxNesting \subseteq T
  BY <1>1, <1>2, <1>3, StepByStep
<1> QED
  BY <1>1, <1>4 DEF T

(***************************************************************************)
(* What is in a file that serialize() made: the section with the           *)
(* properties as they were then comes first, and no <configuration>.       *)
(***************************************************************************)
SavedWith(old, content, stray) ==
  /\ old.component \in Components /\ Coherent(old.property, old.entries)
  /\ content # Null /\ content # <<>>
  /\ content[1] = Section(old.component, old.property, old.entries, stray)
  /\ \A i \in DOMAIN content : content[i].section = "properties"

SavedIn(old, content) == \E stray \in StrayTexts : SavedWith(old, content, stray)

SavedOK ==
  /\ saved = [f \in Paths |-> saved[f]]
  /\ \A f \in Paths : saved[f] # Null => SavedIn(saved[f], file[f])

LEMMA InitSaved == Init => SavedOK
<1> SUFFICES ASSUME Init PROVE SavedOK
  OBVIOUS
<1>1. saved = [f \in Paths |-> Null]
  BY DEF Init
<1> QED
  BY <1>1 DEF SavedOK

LEMMA SavedStays ==
  ASSUME TypesInv, SavedOK, Next PROVE SavedOK'
<1>1. CASE UNCHANGED <<file, saved>>
  BY <1>1 DEF SavedOK
<1>2. ASSUME NEW c \in Components, NEW f \in Paths, Serialize(c, f) PROVE SavedOK'
  <2>0. PICK stray \in StrayTexts :
        file' = [file EXCEPT ![f] = Append(IF @ = Null THEN <<>> ELSE @,
                                           Section(c, property, entries, stray))]
    BY <1>2 DEF Serialize
  <2> DEFINE section == Section(c, property, entries, stray)
             new == [component |-> c, property |-> property, entries |-> entries]
             before == IF file[f] = Null THEN <<>> ELSE file[f]
             Sections == [section : STRING, elements : Seq(ComponentElements)]
  <2>1. file' = [file EXCEPT ![f] = Append(before, section)]
        /\ saved' = [saved EXCEPT ![f] = IF file[f] # Null THEN saved[f] ELSE new]
    BY <1>2, <2>0 DEF Serialize
  <2>2. section.section = "properties"
    BY DEF Section
  <2>3. Coherent(property, entries) /\ file \in [Paths -> Files \cup {Null}]
    BY DEF TypesInv, PropertiesOK, EntriesOK, FilesOK, Coherent
  <2>4. section \in Sections
    BY <2>3, SectionTyped
  <2>5. before \in Seq(Sections) /\ Files = Seq(Sections)
    <3>1. Files = Seq(Sections)
      BY DEF Files
    <3>2. file[f] \in Files \cup {Null}
      BY <2>3
    <3> HIDE DEF Sections
    <3> QED
      BY <3>1, <3>2
  <2>6. /\ \A g \in Paths : g # f => file'[g] = file[g] /\ saved'[g] = saved[g]
        /\ file'[f] = Append(before, section)
        /\ saved'[f] = IF file[f] # Null THEN saved[f] ELSE new
        /\ saved' = [g \in Paths |-> saved'[g]]
    <3> HIDE DEF new, before, section
    <3> QED
      BY <2>1, <2>3 DEF SavedOK
  <2>7. CASE file[f] = Null
    <3>1. file'[f] = Append(<<>>, section)
      BY <2>6, <2>7
    <3>2. /\ file'[f] # <<>> /\ file'[f][1] = section /\ DOMAIN file'[f] = 1 .. 1
          /\ file'[f] \in Files
      <4> HIDE DEF section
      <4> QED
        BY <2>4, <3>1 DEF Files
    <3>3. file'[f] # Null
      BY <3>2, NullAssumption
    <3>4. SavedWith(new, file'[f], stray)
      <4>1. new.component = c /\ new.property = property /\ new.entries = entries
        OBVIOUS
      <4>2. \A i \in DOMAIN file'[f] : file'[f][i].section = "properties"
        BY <2>2, <3>2
      <4> HIDE DEF new
      <4> QED
        BY <2>3, <3>2, <3>3, <4>1, <4>2 DEF SavedWith
    <3>5. saved'[f] = new
      BY <2>6, <2>7
    <3> HIDE DEF new, section, before
    <3> QED
      BY <2>6, <3>4, <3>5 DEF SavedOK, SavedIn
  <2>8. CASE file[f] # Null
    <3>1. before = file[f] /\ saved'[f] = saved[f]
      BY <2>6, <2>8
    <3>2. ASSUME saved[f] # Null PROVE SavedIn(saved[f], file'[f])
      <4>1. PICK old \in StrayTexts : SavedWith(saved[f], before, old)
        BY <3>1, <3>2 DEF SavedOK, SavedIn
      <4>2. before # <<>>
        BY <4>1 DEF SavedWith
      <4> HIDE DEF before, section
      <4>3. /\ file'[f] # <<>> /\ file'[f][1] = before[1] /\ file'[f] \in Files
            /\ \A i \in DOMAIN file'[f] :
                 \/ i \in DOMAIN before /\ file'[f][i] = before[i]
                 \/ file'[f][i] = section
        <5> HIDE DEF Sections
        <5>1. /\ file'[f] \in Seq(Sections) /\ file'[f] # <<>>
              /\ Len(file'[f]) = Len(before) + 1 /\ file'[f][Len(file'[f])] = section
              /\ \A i \in 1 .. Len(before) : file'[f][i] = before[i]
          BY <2>4, <2>5, <2>6, AppendProperties
        <5>2. Len(before) \in Nat \ {0} /\ DOMAIN before = 1 .. Len(before)
              /\ DOMAIN file'[f] = 1 .. Len(before) + 1
          BY <2>5, <4>2, <5>1
        <5> QED
          BY <2>5, <5>1, <5>2
      <4>4. file'[f] # Null
        BY <4>3, NullAssumption
      <4>5. \A i \in DOMAIN file'[f] : file'[f][i].section = "properties"
        BY <2>2, <4>1, <4>3 DEF SavedWith, section
      <4>6. SavedWith(saved[f], file'[f], old)
        BY <4>1, <4>3, <4>4, <4>5 DEF SavedWith
      <4> QED
        BY <4>6 DEF SavedIn
    <3> HIDE DEF new, section, before
    <3> QED
      BY <2>6, <3>1, <3>2 DEF SavedOK
  <2> QED
    BY <2>7, <2>8
<1> QED
  BY <1>1, <1>2, FileSteps

\* A file that serialize() made has one node for the component.
SavedElement(old, stray) ==
  [component  |-> UUIDOf[old.component],
   name       |-> Null,
   properties |-> [k \in DOMAIN old.entries[old.component] |->
                     ElementIn(old, MaxNesting, old.entries[old.component][k], stray)]]

LEMMA SavedNodes ==
  ASSUME NEW old, NEW content \in Files, NEW stray \in StrayTexts,
         SavedWith(old, content, stray)
  PROVE  Nodes(content) = <<[node |-> "properties", element |-> SavedElement(old, stray)]>>
<1> DEFINE e == SavedElement(old, stray)
           n == [node |-> "properties", element |-> e]
<1>1. content # Null /\ content # <<>> /\ Len(content) \in Nat /\ 1 \in 1 .. Len(content)
      /\ DOMAIN content = 1 .. Len(content)
  <2>1. content # Null /\ content # <<>>
    BY DEF SavedWith
  <2> DEFINE Sections == [section : STRING, elements : Seq(ComponentElements)]
  <2>2. content \in Seq(Sections)
    BY DEF Files
  <2> HIDE DEF Sections
  <2> QED
    BY <2>1, <2>2
<1>2. \A i \in 1 .. Len(content) : content[i].section = "properties"
  BY <1>1 DEF SavedWith
<1>3. FirstOf(content, "configuration") = 0
  BY <1>1, <1>2, FirstSection
<1>4. FirstOf(content, "properties") = 1
  BY <1>1, <1>2, FirstSection
<1>5. ElementNodes(content, "configuration") = <<>>
  BY <1>3, ElementNodesAre
<1>6. content[1].elements = <<e>>
  <2>1. content[1] = Section(old.component, old.property, old.entries, stray)
    BY DEF SavedWith
  <2>2. Section(old.component, old.property, old.entries, stray)
          = [section |-> "properties", elements |-> <<e>>]
    BY Zenon DEF Section, SavedElement, ElementIn
  <2> HIDE DEF e
  <2> QED
    BY <2>1, <2>2
<1>7. ElementNodes(content, "properties") = <<n>>
  <2>1. ElementNodes(content, "properties") =
          [k \in DOMAIN content[1].elements |->
             [node |-> "properties", element |-> content[1].elements[k]]]
    BY <1>4, ElementNodesAre
  <2> DEFINE elements == content[1].elements
  <2>2. DOMAIN elements = 1 .. 1 /\ elements[1] = e
    <3> HIDE DEF elements, e
    <3>1. elements = <<e>>
      BY <1>6 DEF elements
    <3> QED
      BY <3>1
  <2> HIDE DEF e
  <2> QED
    BY <2>1, <2>2
<1>8. Nodes(content) = <<>> \o <<n>>
  BY <1>1, <1>5, <1>7 DEF Nodes
<1> HIDE DEF n
<1>9. <<>> \o <<n>> = <<n>>
  OBVIOUS
<1> QED
  BY <1>8, <1>9 DEF n

\* Read into a component of the class, it makes the assignments that are asked.
LEMMA SavedRequests ==
  ASSUME NEW old, NEW content \in Files, SavedIn(old, content), NEW props, NEW lists,
         Coherent(props, lists), NEW c \in Components,
         UUIDOf[old.component] = UUIDOf[c], UUIDOf[old.component] \notin DOMAIN Aliases,
         Fault \notin Asked(old, props, lists)[<<MaxNesting, old.component, c>>]
  PROVE  /\ ToSet(RestOf(Nodes(content), props, lists, c, Null))
              = Asked(old, props, lists)[<<MaxNesting, old.component, c>>]
         /\ RestOf(Nodes(content), props, lists, c, Null) \in Seq(Deeds)
<1> PICK stray \in StrayTexts : SavedWith(old, content, stray)
  BY DEF SavedIn
<1> DEFINE e == SavedElement(old, stray)
           n == [node |-> "properties", element |-> e]
           nodes == PropertyNodes(c, e.properties)
           A == Assignments(props, lists)
           rest == RestOf(Nodes(content), props, lists, c, Null)
<1>1. Nodes(content) = <<n>>
  BY SavedNodes
<1>2. n \in WalkNodes
  <2>1. Nodes(content) \in Seq(WalkNodes)
    BY NodesTyped
  <2> HIDE DEF n
  <2>2. <<n>>[1] \in WalkNodes
    BY <1>1, <2>1
  <2> QED
    BY <2>2
<1>3. c \in Maps /\ old.component \in Maps /\ Coherent(old.property, old.entries)
      /\ UUIDOf[old.component] \in STRING
  BY ComponentsAssumption, UUIDAssumption DEF SavedWith
<1>4. rest = PendingOf(n, props, lists, c, Null)
  BY <1>1, <1>2, <1>3, RestOfOne
<1>5. /\ n.node = "properties" /\ n.element.name = Null
      /\ ClassOf(n) = UUIDOf[c] /\ ClassOf(n) # Malformed /\ n.element.properties = e.properties
  BY <1>3, UUIDAssumption DEF ClassOf, SavedElement
<1>6. rest = FlattenSeq([k \in DOMAIN nodes |-> A[nodes[k]]])
  <2> HIDE DEF A, rest, n, e
  <2> QED
    BY <1>4, <1>5 DEF PendingOf, A
<1>7. nodes = WrittenNodes(old, MaxNesting, old.component, c, stray)
  BY DEF PropertyNodes, WrittenNodes, NodeOf, SavedElement
<1>8. ToSet(rest) = Asked(old, props, lists)[<<MaxNesting, old.component, c>>]
  <2>1. MaxNesting \in 0 .. MaxNesting
    BY BoundsAssumption
  <2>2. GivesBack(old, props, lists, MaxNesting, stray)
    BY <1>3, AllBack
  <2> HIDE DEF rest, nodes
  <2> QED
    BY <1>3, <1>6, <1>7, <2>1, <2>2, MapBack
<1>9. rest \in Seq(Deeds)
  BY <1>2, <1>3, <1>4, PendingTyped
<1> QED
  BY <1>8, <1>9

(***************************************************************************)
(* While configure() reads such a file back, what is pending has been      *)
(* asked, and what has been asked is pending or there.                     *)
(***************************************************************************)
AskedNow == AskedOf(saved[walk.path])

Recalls ==
  LET old == saved[walk.path]
  IN  /\ walk.state # "idle" /\ walk.name = Null /\ old # Null
      /\ UUIDOf[old.component] = UUIDOf[walk.component]
      /\ UUIDOf[old.component] \notin DOMAIN Aliases
      /\ Fault \notin AskedNow /\ OnePlaceEach(AskedNow)

Given(a) ==
  a[2] + 1 \in DOMAIN property[a[1]].items /\ property[a[1]].items[a[2] + 1] = a[3]

BackOK ==
  Recalls =>
    /\ walk.state # "failed"
    /\ AskedNow \subseteq Deeds
    /\ ToSet(RestNow) \subseteq AskedNow
    /\ \A a \in AskedNow : a \in ToSet(RestNow) \/ Given(a)

LEMMA SameAskedNow ==
  ASSUME SameCall, SameShapes(property, property', entries)
  PROVE  AskedNow' = AskedNow
<1>1. Asked(saved[walk.path], property', entries) = Asked(saved[walk.path], property, entries)
  BY SameAsked
<1> QED
  BY <1>1 DEF AskedNow, AskedOf, SameCall

\* What is written does not undo what is there.
LEMMA GivenStays ==
  ASSUME TypesInv, NEW b, Assignable(b), property' = Written(property, b),
         NEW a \in Deeds, a # Fault, a[1] = b[1] /\ a[2] = b[2] => a[3] = b[3],
         Given(a) \/ a = b
  PROVE  Given(a)'
<1> DEFINE p == property[b[1]]
           new == WithItem(p, b[2], b[3])
<1>1. b[1] \in Refs /\ b[2] \in Nat /\ b[2] + 1 \in DOMAIN p.items /\ Sound(p)
  BY DEF Assignable, TypesInv, PropertiesOK
<1>2. new.items = [p.items EXCEPT ![b[2] + 1] = b[3]]
  BY <1>1, WrittenItem
<1>3. \A q \in Refs : property'[q] = IF q = b[1] THEN new ELSE property[q]
  <2>1. PropertiesAreThere /\ property' = [property EXCEPT ![b[1]] = new]
    BY DEF Written, TypesInv, PropertiesOK
  <2> HIDE DEF new
  <2> QED
    BY <2>1 DEF PropertiesAreThere
<1>4. a[1] \in Refs /\ a[2] \in Nat
  BY DEF Deeds
<1> HIDE DEF p, new
<1>5. CASE a[1] # b[1]
  BY <1>3, <1>4, <1>5 DEF Given
<1>6. CASE a[1] = b[1]
  <2>1. property'[a[1]] = new /\ property[a[1]] = p
    BY <1>3, <1>4, <1>6 DEF p
  <2>2. CASE a[2] = b[2]
    <3>1. a[3] = b[3]
      BY <1>6, <2>2
    <3>2. new.items[b[2] + 1] = b[3] /\ b[2] + 1 \in DOMAIN new.items
      BY <1>1, <1>2
    <3> QED
      BY <2>1, <2>2, <3>1, <3>2 DEF Given
  <2>3. CASE a[2] # b[2]
    <3>1. Given(a)
      BY <2>3
    <3>2. a[2] + 1 \in DOMAIN p.items /\ p.items[a[2] + 1] = a[3]
      BY <2>1, <3>1 DEF Given
    <3>3. a[2] + 1 # b[2] + 1
      BY <1>1, <1>4, <2>3
    <3>4. a[2] + 1 \in DOMAIN new.items /\ new.items[a[2] + 1] = a[3]
      BY <1>2, <3>2, <3>3
    <3> QED
      BY <2>1, <3>4 DEF Given
  <2> QED
    BY <2>2, <2>3
<1> QED
  BY <1>5, <1>6

LEMMA FirstAmong ==
  ASSUME NEW S, NEW s \in Seq(S), s # <<>>, NEW t \in Seq(S)
  PROVE  ToSet(s \o t) = ToSet(s) \cup ToSet(t) /\ s[1] \in ToSet(s)
<1>1. 1 \in DOMAIN s
  OBVIOUS
<1>2. s[1] \in ToSet(s)
  BY <1>1 DEF ToSet
<1> QED
  BY <1>2, ConcatMembers

LEMMA VisitBack ==
  ASSUME TypesInv, TypesInv', BackOK, Next, walk.state = "walking" PROVE BackOK'
<1>1. SameCall /\ SameShapes(property, property', entries)
      /\ (Rests \/ Stumbles \/ Ends \/ \E a : Makes(a))
  BY VisitSteps
<1>2. AskedNow' = AskedNow
  BY <1>1, SameAskedNow
<1>3. SUFFICES ASSUME Recalls'
               PROVE  /\ walk'.state # "failed"
                      /\ AskedNow \subseteq Deeds
                      /\ ToSet(RestNow') \subseteq AskedNow
                      /\ \A a \in AskedNow : a \in ToSet(RestNow') \/ Given(a)'
  BY <1>2 DEF BackOK
<1>4. Recalls
  BY <1>1, <1>2, <1>3 DEF Recalls, SameCall
<1>5. /\ AskedNow \subseteq Deeds /\ ToSet(RestNow) \subseteq AskedNow
      /\ \A a \in AskedNow : a \in ToSet(RestNow) \/ Given(a)
      /\ Fault \notin AskedNow /\ OnePlaceEach(AskedNow)
  BY <1>4 DEF BackOK, Recalls
<1>6. RestNow \in Seq(Deeds) /\ RestNow' \in Seq(Deeds)
  BY RestNowTyped, RestNowTypedNext
<1>7. UNCHANGED property => \A a : Given(a)' = Given(a)
  BY DEF Given
<1>8. CASE Rests
  BY <1>5, <1>7, <1>8 DEF Rests
<1>9. CASE Ends
  BY <1>5, <1>7, <1>9 DEF Ends
<1>10. ~ Stumbles
  <2>1. Fault \in Deeds
    BY DEF Deeds
  <2>2. Fault \notin ToSet(RestNow)
    BY <1>5
  <2>3. ASSUME NEW t \in Seq(Deeds) PROVE Fault \in ToSet(<<Fault>> \o t)
    <3> DEFINE one == <<Fault>>
    <3>1. one \in Seq(Deeds) /\ one # <<>> /\ one[1] = Fault
      BY <2>1
    <3> HIDE DEF one
    <3>2. Fault \in ToSet(one \o t)
      BY <3>1, FirstAmong
    <3> QED
      BY <3>2 DEF one
  <2>4. ASSUME NEW a \in Deeds, NEW t \in Seq(Deeds) PROVE Fault \in ToSet(<<a, Fault>> \o t)
    <3> DEFINE two == <<a, Fault>>
    <3>1. two \in Seq(Deeds) /\ 2 \in DOMAIN two /\ two[2] = Fault
      BY <2>1
    <3> HIDE DEF two
    <3>2. ToSet(two \o t) = ToSet(two) \cup ToSet(t)
      BY <3>1, ConcatMembers
    <3>3. Fault \in ToSet(two)
      BY <3>1 DEF ToSet
    <3> QED
      BY <3>2, <3>3 DEF two
  <2> QED
    BY <2>2, <2>3, <2>4 DEF Stumbles, Assignable
<1>11. ASSUME NEW b, Makes(b)
       PROVE  /\ walk'.state # "failed"
              /\ AskedNow \subseteq Deeds
              /\ ToSet(RestNow') \subseteq AskedNow
              /\ \A a \in AskedNow : a \in ToSet(RestNow') \/ Given(a)'
  <2>1. /\ walk'.state = "walking" /\ Assignable(b) /\ property' = Written(property, b)
        /\ RestNow = <<b>> \o RestNow' /\ b \in Deeds
    BY <1>11 DEF Makes, Assignable
  <2>2. ToSet(RestNow) = {b} \cup ToSet(RestNow')
    <3> DEFINE one == <<b>>
    <3>1. one \in Seq(Deeds) /\ ToSet(one) = {b}
      BY <2>1 DEF ToSet
    <3> HIDE DEF one
    <3>2. ToSet(one \o RestNow') = ToSet(one) \cup ToSet(RestNow')
      BY <1>6, <3>1, ConcatMembers
    <3> QED
      BY <2>1, <3>1, <3>2 DEF one
  <2>3. ASSUME NEW a \in AskedNow, a \notin ToSet(RestNow') PROVE Given(a)'
    <3>1. Given(a) \/ a = b
      BY <1>5, <2>2, <2>3
    <3>2. a \in Deeds /\ a # Fault /\ b \in AskedNow
      BY <1>5, <2>2, <2>3
    <3>3. a[1] = b[1] /\ a[2] = b[2] => a[3] = b[3]
      BY <1>5, <3>2 DEF OnePlaceEach
    <3> QED
      BY <2>1, <3>1, <3>2, <3>3, GivenStays
  <2> QED
    BY <1>5, <2>1, <2>2, <2>3
<1> QED
  BY <1>1, <1>8, <1>9, <1>10, <1>11

LEMMA CallBack ==
  ASSUME TypesInv, TypesInv', SavedOK, Next, walk.state # "walking" PROVE BackOK'
<1>1. ASSUME walk' = Idle PROVE BackOK'
  BY <1>1 DEF BackOK, Recalls, Idle
<1>2. ASSUME NEW c \in Components, NEW f \in Paths, NEW name, Configure(c, f, name)
      PROVE  BackOK'
  <2>1. /\ walk' = [state |-> "walking", component |-> c, name |-> name, path |-> f,
                    todo |-> Nodes(file[f])]
        /\ UNCHANGED <<property, entries, file, saved>>
    BY <1>2 DEF Configure, mapVars
  <2>2. SUFFICES ASSUME Recalls' PROVE AskedNow' \subseteq Deeds /\ ToSet(RestNow') = AskedNow'
    <3>1. walk'.state # "failed"
      BY <2>1
    <3> QED
      BY <2>2, <3>1 DEF BackOK
  <2> DEFINE old == saved[f]
  <2>3. /\ walk'.path = f /\ walk'.component = c /\ walk'.name = name
        /\ walk'.todo = Nodes(file[f])
    BY <2>1
  <2>4. /\ name = Null /\ old # Null /\ UUIDOf[old.component] = UUIDOf[c]
        /\ UUIDOf[old.component] \notin DOMAIN Aliases /\ Fault \notin AskedNow'
    BY <2>1, <2>2, <2>3 DEF Recalls
  <2>5. AskedNow' = Asked(old, property, entries)[<<MaxNesting, old.component, c>>]
    BY <2>1, <2>3 DEF AskedNow, AskedOf
  <2>6. RestNow' = RestOf(Nodes(file[f]), property, entries, c, Null)
    BY <2>1, <2>3, <2>4 DEF RestNow
  <2>7. SavedIn(old, file[f])
    BY <2>4 DEF SavedOK
  <2>8. file[f] \in Files
    BY <2>7 DEF SavedIn, SavedWith, TypesInv, FilesOK
  <2>9. Coherent(property, entries)
    BY DEF Coherent, TypesInv, PropertiesOK, EntriesOK
  <2> HIDE DEF old
  <2>10. ToSet(RestNow') = AskedNow' /\ RestNow' \in Seq(Deeds)
    BY <2>4, <2>5, <2>6, <2>7, <2>8, <2>9, SavedRequests
  <2>11. ToSet(RestNow') \subseteq Deeds
    BY <2>10 DEF ToSet
  <2> QED
    BY <2>10, <2>11
<1>3. UsesProperties => walk' = Idle
  BY DEF UsesProperties
<1>4. \A c : SerializeFails(c) => walk' = Idle
  BY DEF SerializeFails
<1>5. \A c, f : Serialize(c, f) => walk' = Idle
  BY DEF Serialize
<1>6. ~ (VisitElement \/ VisitProperty \/ VisitNoText \/ VisitValue \/ Configured)
  BY DEF VisitElement, VisitProperty, VisitNoText, VisitValue, Configured, Visits
<1> QED
  BY <1>1, <1>2, <1>3, <1>4, <1>5, <1>6 DEF Next

(***************************************************************************)
(* What serialize() wrote to a new file, configure() reads back, whatever  *)
(* the properties, their nesting, and what else was serialized to the file *)
(* later: into a component of the class that has a place for every value,  *)
(* it succeeds, and every value is there that was there then, up to the    *)
(* decimals that are printed.                                              *)
(***************************************************************************)
THEOREM SerializedIsReadBack == Spec => []RoundTrip
<1> DEFINE Inv == TypesInv /\ SavedOK /\ BackOK
<1>1. Init => Inv
  <2> SUFFICES ASSUME Init PROVE BackOK
    BY InitTypes, InitSaved
  <2> QED
    BY DEF Init, Idle, BackOK, Recalls
<1>2. Inv /\ [Next]_vars => Inv'
  <2> SUFFICES ASSUME Inv, [Next]_vars PROVE Inv'
    OBVIOUS
  <2>1. TypesInv'
    BY TypesStay
  <2>2. CASE Next
    BY <2>1, <2>2, SavedStays, VisitBack, CallBack
  <2>3. CASE UNCHANGED vars
    <3>1. UNCHANGED <<property, entries, walk, file, saved>>
      BY <2>3 DEF vars, mapVars
    <3>2. SavedOK'
      BY <3>1 DEF SavedOK
    <3>3. BackOK'
      BY <3>1 DEF BackOK, Recalls, AskedNow, AskedOf, RestNow, Given
    <3> QED
      BY <2>1, <3>2, <3>3
  <2> QED
    BY <2>2, <2>3
<1>3. Inv => RoundTrip
  <2> SUFFICES ASSUME Inv, Recalls, walk.state \in {"configured", "failed"}
               PROVE  /\ walk.state = "configured"
                      /\ \A a \in AskedNow : property[a[1]].items[a[2] + 1] = a[3]
    BY DEF RoundTrip, Recalls, AskedNow
  <2>1. walk.todo = <<>>
    BY DEF TypesInv, TodoOK
  <2>2. RestNow = <<>>
    BY <2>1, RestOfNone DEF RestNow
  <2>3. ToSet(RestNow) = {}
    BY <2>2 DEF ToSet
  <2> QED
    BY <2>3 DEF BackOK, Given
<1> QED
  BY <1>1, <1>2, <1>3, PTL DEF Spec
=============================================================================
