------------------------------- MODULE Property -------------------------------
(***************************************************************************)
(* The three implementations of IProperty: PropertyWrapper around one      *)
(* member of a component, PropertySequenceWrapper around a vector of it,   *)
(* and Property, which keeps its values itself.  A property is a record    *)
(*                                                                         *)
(*   [class, name, type, access, items]                                    *)
(*                                                                         *)
(* whose items are, by type, integers of the width of the type, texts, or  *)
(* references of property maps; a FLOAT or a DOUBLE is counted in thirds   *)
(* of the last decimal that to_string prints.  Property keeps utils::any   *)
(* objects: an item of it is Unset or [type, value]; it has a type only    *)
(* when a setter of strings has been called.  A setter answers an outcome  *)
(* [result, property].                                                     *)
(*                                                                         *)
(* A text is [number, tail]: the number it begins with, if any, and the    *)
(* kinds of characters that follow: a carriage return, other white space,  *)
(* and anything else.                                                      *)
(***************************************************************************)
EXTENDS Integers, SequencesExt

CONSTANTS IntBits,   \* the width of int32_t and uint32_t, scaled down
          LongBits,  \* the width of int64_t and uint64_t, scaled down
          Null,      \* the null pointer
          Unset,     \* a utils::any without a value
          StrayTexts \* what the memory of a dead string may be read as

ASSUME WidthsAssumption ==
  IntBits \in Nat \ {0} /\ LongBits \in Nat \ {0} /\ IntBits < LongBits

\* True of any width: the provers know no powers.
ASSUME PowersOfTwo ==
  \A bits \in {IntBits, LongBits} :
    /\ 2^(bits - 1) \in Nat \ {0} /\ 2^bits = 2 * 2^(bits - 1)
    /\ 2^bits <= 2^LongBits

Classes == {"wrapper", "sequence", "property"}
PropertyTypes == {"NONE", "INTEGER", "UINTEGER", "LONG", "ULONG", "CHARSTR",
                  "UNICODESTR", "FLOAT", "DOUBLE", "STRUCTURE"}
Accesses == {"IN", "OUT", "INOUT"}
StringTypes == {"CHARSTR", "UNICODESTR"}

Texts == [number : Seq(Int), tail : SUBSET {"return", "space", "other"}]
EmptyText == [number |-> <<>>, tail |-> {}]
TextOf(n) == [number |-> <<n>>, tail |-> {}]

ASSUME StrayTextsAssumption == StrayTexts \subseteq Texts

Done(p) == [result |-> "_SUCCESS", property |-> p]
Thrown(what, p) == [result |-> what, property |-> p]

\* Items are numbered from 0.
With(p, type, access, items) ==
  [class |-> p.class, name |-> p.name, type |-> type, access |-> access,
   items |-> items]

WithItem(p, i, v) == With(p, p.type, p.access, ReplaceAt(p.items, i + 1, v))

(***************************************************************************)
(* The setters.  One of the wrong type does nothing to a wrapper, and      *)
(* those of strings ignore the index of a PropertyWrapper.  A wrapped      *)
(* std::string assigned from the null pointer ends the program.            *)
(***************************************************************************)
SetWrapped(p, t, i, v) ==
  IF t # p.type THEN Done(p)
  ELSE IF t \in StringTypes
       THEN IF v = Null THEN Thrown("crash", p) ELSE Done(WithItem(p, 0, v))
  ELSE IF i > 0 THEN Thrown("out_of_range", p)
  ELSE Done(WithItem(p, 0, v))

SetInSequence(p, t, i, v) ==
  IF t # p.type THEN Done(p)
  ELSE IF i >= Len(p.items) THEN Thrown("out_of_range", p)
  ELSE IF t \in StringTypes /\ v = Null THEN Thrown("crash", p)
  ELSE Done(WithItem(p, i, v))

\* clear() returns at once when the type is NONE.
Cleared(p) ==
  IF p.type = "NONE" THEN p ELSE With(p, "NONE", p.access, <<>>)

CheckType(p, t) ==
  IF p.type = t THEN p ELSE With(p, t, p.access, Cleared(p).items)

\* Only the setters of strings check the type.
SetPlain(p, t, i, v) ==
  LET typed == IF t \in StringTypes THEN CheckType(p, t) ELSE p
  IN  IF v = Null THEN Thrown("invalid_argument", p)
      ELSE IF p.access = "OUT" THEN Thrown("AccessDenied", p)
      ELSE IF i >= Len(typed.items) THEN Thrown("out_of_range", typed)
      ELSE Done(WithItem(typed, i, [type |-> t, value |-> v]))

SetItem(p, t, i, v) ==
  CASE p.class = "wrapper"  -> SetWrapped(p, t, i, v)
    [] p.class = "sequence" -> SetInSequence(p, t, i, v)
    [] OTHER                -> SetPlain(p, t, i, v)

(***************************************************************************)
(* The getter of the property's own type, for an index below its size.     *)
(* The only values that a Property ever has are strings, and of those its  *)
(* getter answers the c_str() of a temporary copy, which is gone: the      *)
(* caller reads stray, any text.                                           *)
(***************************************************************************)
WrappedItem(p, i) == [result |-> "_SUCCESS", value |-> p.items[i + 1]]

PlainItem(p, i, stray) ==
  LET item == p.items[i + 1]
  IN  IF p.access = "IN" THEN [result |-> "_SUCCESS", value |-> Null]
      ELSE IF item # Unset /\ item.type = p.type
           THEN [result |-> "_SUCCESS", value |-> stray]
      ELSE [result |-> "bad_any_cast", value |-> Null]

Item(p, i, stray) ==
  IF p.class = "property" THEN PlainItem(p, i, stray) ELSE WrappedItem(p, i)

(***************************************************************************)
(* setProperties(): the size of a wrapper cannot change, a wrapped vector  *)
(* is resized, and a Property loses its values.                            *)
(***************************************************************************)
DefaultItem(p) ==
  IF p.class = "property" THEN Unset
  ELSE CASE p.type \in StringTypes -> EmptyText
         [] p.type = "STRUCTURE"   -> Null
         [] OTHER                  -> 0

Resized(p, n) ==
  With(p, p.type, p.access,
       [i \in 1 .. n |-> IF i <= Len(p.items) THEN p.items[i] ELSE DefaultItem(p)])

SetProperties(p, n, access) ==
  IF p.class = "wrapper" /\ n > 1 THEN p
  ELSE LET q == CASE p.class = "wrapper"  -> p
                  [] p.class = "sequence" -> Resized(p, n)
                  [] OTHER                -> Resized(Cleared(p), n)
       IN  With(q, q.type, access, q.items)

(***************************************************************************)
(* copyTo(): nothing is copied of a LONG, an ULONG or a DOUBLE, which the  *)
(* switch forgets; an exception of a getter or of a setter ends it.        *)
(***************************************************************************)
CopiedTypes == PropertyTypes \ {"NONE", "LONG", "ULONG", "DOUBLE"}

CopyItem(s, outcome, i, stray) ==
  LET item == Item(s, i - 1, stray)
  IN  IF outcome.result # "_SUCCESS" THEN outcome
      ELSE IF item.result # "_SUCCESS" THEN Thrown(item.result, outcome.property)
      ELSE SetItem(outcome.property, s.type, i - 1, item.value)

CopyItems(s, d, stray) ==
  LET copied[i \in 0 .. Len(s.items)] ==
        IF i = 0 THEN Done(d) ELSE CopyItem(s, copied[i - 1], i, stray)
  IN  copied[Len(s.items)]

\* aliased: s and d are the same object.
CopyTo(s, d, aliased, stray) ==
  LET dest == SetProperties(d, Len(s.items), s.access)
      src  == IF aliased THEN dest ELSE s
  IN  IF src.type \in CopiedTypes THEN CopyItems(src, dest, stray)
                                  ELSE Thrown("_FAIL", dest)
=============================================================================
