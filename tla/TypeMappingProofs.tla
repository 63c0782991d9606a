--------------------------- MODULE TypeMappingProofs ---------------------------
(***************************************************************************)
(* The laws of the type mapping, for every type it does not refuse: arrays *)
(* of any depth, any number of digits.                                     *)
(***************************************************************************)
EXTENDS TypeMapping, TLAPS

\* The Delta types the engine gives to elements: one of the named ones, or a
\* decimal within the digits of Delta.
DeltaElements ==
    {Plain(n) : n \in Named}
      \cup {Element("DECIMAL", ps) : ps \in (0..MaxPrecision) \X Nat}

-----------------------------------------------------------------------------
(* What the branches give.                                                 *)

LEMMA PlainElement ==
    ASSUME NEW n
    PROVE  /\ Plain(n).name = n
           /\ Plain(n).args = <<>> /\ Plain(n).args \in Seq(Nat) /\ Len(Plain(n).args) < 2
BY DEF Plain, Element

LEMMA DecimalDelta ==
    ASSUME NEW p \in Nat, NEW s \in Nat, p <= MaxPrecision
    PROVE  Element("DECIMAL", <<p, s>>) \in DeltaElements
<1>1. <<p, s>> \in (0..MaxPrecision) \X Nat
  BY DEF MaxPrecision
<1> QED
  BY <1>1 DEF DeltaElements

LEMMA ExactDelta ==
    ASSUME NEW name \in Exact
    PROVE  \E n \in Named : MapExact(name).delta = Plain(n)
BY DEF MapExact, Exact, Named, Logical

LEMMA ExactRebuilt ==
    ASSUME NEW name \in Exact
    PROVE  \E x \in Exact : /\ MapExact(name).reverse = Plain(x)
                           /\ MapExact(x).delta = MapExact(name).delta
<1>1. CASE name \in {"boolean", "bool"}
  <2>1. MapExact(name).reverse = Plain("boolean") /\ MapExact(name).delta = Plain("BOOLEAN")
    BY <1>1 DEF MapExact, Logical
  <2>2. MapExact("boolean").delta = Plain("BOOLEAN")
    BY DEF MapExact, Logical
  <2> QED
    BY <2>1, <2>2 DEF Exact
<1>2. CASE name \in {"smallint", "int2"}
  <2>1. MapExact(name).reverse = Plain("smallint") /\ MapExact(name).delta = Plain("SHORT")
    BY <1>2 DEF MapExact, Logical
  <2>2. MapExact("smallint").delta = Plain("SHORT")
    BY DEF MapExact, Logical
  <2> QED
    BY <2>1, <2>2 DEF Exact
<1>3. CASE name \in {"integer", "int", "int4"}
  <2>1. MapExact(name).reverse = Plain("integer") /\ MapExact(name).delta = Plain("INTEGER")
    BY <1>3 DEF MapExact, Logical
  <2>2. MapExact("integer").delta = Plain("INTEGER")
    BY DEF MapExact, Logical
  <2> QED
    BY <2>1, <2>2 DEF Exact
<1>4. CASE name \in {"bigint", "int8"}
  <2>1. MapExact(name).reverse = Plain("bigint") /\ MapExact(name).delta = Plain("LONG")
    BY <1>4 DEF MapExact, Logical
  <2>2. MapExact("bigint").delta = Plain("LONG")
    BY DEF MapExact, Logical
  <2> QED
    BY <2>1, <2>2 DEF Exact
<1>5. CASE name \in {"real", "float4"}
  <2>1. MapExact(name).reverse = Plain("real") /\ MapExact(name).delta = Plain("FLOAT")
    BY <1>5 DEF MapExact, Logical
  <2>2. MapExact("real").delta = Plain("FLOAT")
    BY DEF MapExact, Logical
  <2> QED
    BY <2>1, <2>2 DEF Exact
<1>6. CASE name \in {"double precision", "float8"}
  <2>1. MapExact(name).reverse = Plain("double precision") /\ MapExact(name).delta = Plain("DOUBLE")
    BY <1>6 DEF MapExact, Logical
  <2>2. MapExact("double precision").delta = Plain("DOUBLE")
    BY DEF MapExact, Logical
  <2> QED
    BY <2>1, <2>2 DEF Exact
<1>7. CASE name \in {"text"}
  <2>1. MapExact(name).reverse = Plain("text") /\ MapExact(name).delta = Plain("STRING")
    BY <1>7 DEF MapExact, Logical
  <2>2. MapExact("text").delta = Plain("STRING")
    BY DEF MapExact, Logical
  <2> QED
    BY <2>1, <2>2 DEF Exact
<1>8. CASE name \in {"date"}
  <2>1. MapExact(name).reverse = Plain("date") /\ MapExact(name).delta = Plain("DATE")
    BY <1>8 DEF MapExact, Logical
  <2>2. MapExact("date").delta = Plain("DATE")
    BY DEF MapExact, Logical
  <2> QED
    BY <2>1, <2>2 DEF Exact
<1>9. CASE name \in {"bytea"}
  <2>1. MapExact(name).reverse = Plain("bytea") /\ MapExact(name).delta = Plain("BINARY")
    BY <1>9 DEF MapExact, Logical
  <2>2. MapExact("bytea").delta = Plain("BINARY")
    BY DEF MapExact, Logical
  <2> QED
    BY <2>1, <2>2 DEF Exact
<1> QED
  BY <1>1, <1>2, <1>3, <1>4, <1>5, <1>6, <1>7, <1>8, <1>9 DEF Exact

LEMMA SubstituteDelta ==
    ASSUME NEW name \in Texts \cup {"interval", "money"}
    PROVE  MapSubstitute(name).delta \in DeltaElements
<1>1. CASE name \in Texts \cup {"interval"}
  <2>1. \E n \in Named : MapSubstitute(name).delta = Plain(n)
    BY <1>1 DEF MapSubstitute, Texts, Named, Logical
  <2> QED
    BY <2>1 DEF DeltaElements
<1>2. CASE name = "money"
  <2>1. MapSubstitute(name).delta = Element("DECIMAL", <<19, 2>>)
    BY <1>2 DEF MapSubstitute, Texts, Logical
  <2> QED
    BY <2>1, DecimalDelta DEF MaxPrecision
<1> QED
  BY <1>1, <1>2

LEMMA NumericDelta ==
    ASSUME NEW e, e.args \in Seq(Nat), MappableElement(e), e.name \in Numerics
    PROVE  MapNumeric(e).delta \in DeltaElements
<1>1. e.args = <<>> \/ Len(e.args) = 2
  BY DEF MappableElement, Numerics, Chars, Zoned, Unzoned
<1>2. CASE e.args = <<>>
  <2>1. MapNumeric(e).delta = Element("DECIMAL", <<MaxPrecision, 18>>)
    BY <1>2 DEF MapNumeric, Logical
  <2> QED
    BY <2>1, DecimalDelta DEF MaxPrecision
<1>3. CASE Len(e.args) = 2
  <2>1. e.args[1] \in Nat /\ e.args[2] \in Nat /\ e.args # <<>>
    BY <1>3
  <2>2. CASE e.args[1] > MaxPrecision
    <3>1. MapNumeric(e).delta
            = Element("DECIMAL", <<MaxPrecision, Least(e.args[2], MaxPrecision)>>)
      BY <2>1, <2>2 DEF MapNumeric, Logical
    <3>2. Least(e.args[2], MaxPrecision) \in Nat
      BY <2>1 DEF Least, MaxPrecision
    <3> QED
      BY <3>1, <3>2, DecimalDelta DEF MaxPrecision
  <2>3. CASE ~ (e.args[1] > MaxPrecision)
    <3>1. MapNumeric(e).delta = Element("DECIMAL", <<e.args[1], e.args[2]>>)
      BY <2>1, <2>3 DEF MapNumeric, Logical
    <3> QED
      BY <2>1, <2>3, <3>1, DecimalDelta DEF MaxPrecision
  <2> QED
    BY <2>2, <2>3
<1> QED
  BY <1>1, <1>2, <1>3

Becomes(e, delta, pg) ==
    MapElement(e).delta = Plain(delta) /\ MapElement(e).reverse = Plain(pg)

\* Which branch an element takes.
LEMMA Branches ==
    ASSUME NEW e, e.args \in Seq(Nat), MappableElement(e)
    PROVE  \/ e.name \in Exact /\ MapElement(e) = MapExact(e.name)
           \/ /\ e.name \in Texts \cup {"interval", "money"}
              /\ MapElement(e) = MapSubstitute(e.name)
           \/ e.name \in Numerics /\ MapElement(e) = MapNumeric(e)
           \/ e.name \in Chars /\ Becomes(e, "STRING", "text")
           \/ /\ e.name \in Zoned \cup {"timestamptz"}
              /\ Becomes(e, "TIMESTAMP", "timestamp with time zone")
           \/ /\ e.name \in Unzoned
              /\ Becomes(e, "TIMESTAMP_NTZ", "timestamp without time zone")
           \/ e.name \in TimesOfDay /\ Becomes(e, "STRING", "time")
<1>1. CASE e.name \in Exact
  BY <1>1 DEF MapElement, Exact, Texts, Numerics, Chars, Zoned, Unzoned, TimesOfDay
<1>2. CASE e.name \in Texts \cup {"interval", "money"}
  BY <1>2 DEF MapElement, Exact, Texts, Numerics, Chars, Zoned, Unzoned, TimesOfDay
<1>3. CASE e.name \in Numerics
  BY <1>3 DEF MapElement, Exact, Texts, Numerics, Chars, Zoned, Unzoned, TimesOfDay
<1>4. CASE e.name \in Chars
  BY <1>4 DEF MapElement, Becomes, Logical, Exact, Texts, Numerics, Chars, Zoned,
               Unzoned, TimesOfDay
<1>5. CASE e.name \in Zoned \cup {"timestamptz"}
  BY <1>5 DEF MapElement, Becomes, Logical, Exact, Texts, Numerics, Chars, Zoned,
               Unzoned, TimesOfDay
<1>6. CASE e.name \in Unzoned
  BY <1>6 DEF MapElement, Becomes, Logical, Exact, Texts, Numerics, Chars, Zoned,
               Unzoned, TimesOfDay
<1>7. CASE e.name \in TimesOfDay
  BY <1>7 DEF MapElement, Becomes, Logical, Exact, Texts, Numerics, Chars, Zoned,
               Unzoned, TimesOfDay
<1> QED
  BY <1>1, <1>2, <1>3, <1>4, <1>5, <1>6, <1>7 DEF MappableElement

LEMMA ElementDelta ==
    ASSUME NEW e, e.args \in Seq(Nat), MappableElement(e)
    PROVE  MapElement(e).delta \in DeltaElements
<1>1. CASE e.name \in Exact /\ MapElement(e) = MapExact(e.name)
  BY <1>1, ExactDelta DEF DeltaElements
<1>2. CASE /\ e.name \in Texts \cup {"interval", "money"}
           /\ MapElement(e) = MapSubstitute(e.name)
  BY <1>2, SubstituteDelta
<1>3. CASE e.name \in Numerics /\ MapElement(e) = MapNumeric(e)
  BY <1>3, NumericDelta
<1>4. CASE \E n \in Named : MapElement(e).delta = Plain(n)
  BY <1>4 DEF DeltaElements
<1> QED
  BY <1>1, <1>2, <1>3, <1>4, Branches DEF Becomes, Named

\* The scale of a numeric stays within its digits, also when these are clamped.
LEMMA ScaleFits ==
    ASSUME NEW e, e.args \in Seq(Nat), MappableElement(e), e.name \in Numerics,
           Len(e.args) = 2 => e.args[2] <= e.args[1]
    PROVE  LET d == MapNumeric(e).delta IN d.name = "DECIMAL" /\ d.args[2] <= d.args[1]
<1>1. e.args = <<>> \/ Len(e.args) = 2
  BY DEF MappableElement, Numerics, Chars, Zoned, Unzoned
<1>2. CASE e.args = <<>>
  <2>1. MapNumeric(e).delta = Element("DECIMAL", <<MaxPrecision, 18>>)
    BY <1>2 DEF MapNumeric, Logical
  <2> QED
    BY <2>1 DEF Element, MaxPrecision
<1>3. CASE Len(e.args) = 2
  <2>1. e.args[1] \in Nat /\ e.args[2] \in Nat /\ e.args # <<>>
    BY <1>3
  <2>2. CASE e.args[1] > MaxPrecision
    <3>1. MapNumeric(e).delta
            = Element("DECIMAL", <<MaxPrecision, Least(e.args[2], MaxPrecision)>>)
      BY <2>1, <2>2 DEF MapNumeric, Logical
    <3>2. Least(e.args[2], MaxPrecision) <= MaxPrecision
      BY <2>1 DEF Least, MaxPrecision
    <3> QED
      BY <3>1, <3>2 DEF Element
  <2>3. CASE ~ (e.args[1] > MaxPrecision)
    <3>1. MapNumeric(e).delta = Element("DECIMAL", <<e.args[1], e.args[2]>>)
      BY <2>1, <2>3 DEF MapNumeric, Logical
    <3> QED
      BY <1>3, <3>1 DEF Element
  <2> QED
    BY <2>2, <2>3
<1> QED
  BY <1>1, <1>2, <1>3

\* Every other decimal is that of money.
LEMMA DecimalFits ==
    ASSUME NEW e, e.args \in Seq(Nat), MappableElement(e),
           e.name \in Numerics /\ Len(e.args) = 2 => e.args[2] <= e.args[1],
           MapElement(e).delta.name = "DECIMAL"
    PROVE  MapElement(e).delta.args[2] <= MapElement(e).delta.args[1]
<1>1. CASE e.name \in Exact /\ MapElement(e) = MapExact(e.name)
  <2>1. \E n \in Named : MapElement(e).delta = Plain(n)
    BY <1>1, ExactDelta
  <2> QED
    BY <2>1 DEF Plain, Element, Named
<1>2. CASE /\ e.name \in Texts \cup {"interval", "money"}
           /\ MapElement(e) = MapSubstitute(e.name)
  <2>1. CASE e.name \in Texts \cup {"interval"}
    BY <1>2, <2>1 DEF MapSubstitute, Texts, Logical, Plain, Element
  <2>2. CASE e.name = "money"
    BY <1>2, <2>2 DEF MapSubstitute, Texts, Logical, Element
  <2> QED
    BY <1>2, <2>1, <2>2
<1>3. CASE e.name \in Numerics /\ MapElement(e) = MapNumeric(e)
  BY <1>3, ScaleFits
<1>4. CASE \E n \in Named : MapElement(e).delta = Plain(n)
  BY <1>4 DEF Plain, Element, Named
<1> QED
  BY <1>1, <1>2, <1>3, <1>4, Branches DEF Becomes, Named

-----------------------------------------------------------------------------
(* The theorems.                                                           *)

\* Whatever the engine maps a type to, Unity Catalog can be told it, within
\* the 38 digits it has, provided a numeric has no more digits behind the point
\* than it has digits (mapping.py:150-235, uc.py:18-64).
THEOREM MappedIsRegistrable ==
    ASSUME NEW t \in Types, Mappable(t), WellScaled(t)
    PROVE  Registrable(DeltaOf(t))
<1> DEFINE d == DeltaOf(t).element
<1>1. d = MapElement(t.element).delta
  BY DEF DeltaOf, MapPgToDelta, Logical, Type
<1>2. d \in DeltaElements
  BY <1>1, ElementDelta DEF Types, Elements, Mappable
<1>3. CASE \E n \in Named : d = Plain(n)
  BY <1>3 DEF Registrable, Expressible, Plain, Element, Named
<1>4. CASE \E ps \in (0..MaxPrecision) \X Nat : d = Element("DECIMAL", ps)
  <2>1. /\ d.name = "DECIMAL" /\ Len(d.args) = 2 /\ d.args[1] <= MaxPrecision
    BY <1>4 DEF Element, MaxPrecision
  <2>2. d.args[2] <= d.args[1]
    BY <1>1, <2>1, DecimalFits DEF Types, Elements, Mappable, WellScaled
  <2> QED
    BY <2>1, <2>2 DEF Registrable, Expressible
<1> QED
  BY <1>2, <1>3, <1>4 DEF DeltaElements

\* A Delta type is rebuilt as an element that is mapped to it again.
LEMMA ElementComesBack ==
    ASSUME NEW d \in DeltaElements
    PROVE  /\ MappableElement(ElementToPg(d))
           /\ MapElement(ElementToPg(d)).delta = d
<1>1. CASE \E n \in Named : d = Plain(n)
  <2>1. PICK n \in Named : d = Plain(n)
    BY <1>1
  <2> DEFINE e == ElementToPg(d)
  <2>2. CASE n \in {"BOOLEAN", "SHORT", "INTEGER", "LONG", "FLOAT", "DOUBLE",
                    "BINARY", "DATE"} \cup {"STRING"}
    <3>1. PICK x \in Exact : e = Plain(x)
      BY <2>1, <2>2 DEF ElementToPg, Plain, Element, Exact
    <3>2. e.name \in Exact /\ e.args = <<>>
      BY <3>1, PlainElement
    <3>3. MapElement(e) = MapExact(e.name)
      BY <3>2 DEF MapElement, Exact, Texts, Numerics, Chars, Zoned, Unzoned, TimesOfDay
    <3>4. MapExact(e.name).delta = d
      BY <2>1, <2>2 DEF MapExact, ElementToPg, Plain, Element, Logical
    <3> QED
      BY <3>2, <3>3, <3>4 DEF MappableElement
  <2>3. CASE n \in {"TIMESTAMP", "TIMESTAMP_NTZ"}
    <3>1. PICK x \in Zoned \cup Unzoned :
             /\ e = Plain(x)
             /\ n = IF x \in Zoned THEN "TIMESTAMP" ELSE "TIMESTAMP_NTZ"
      <4>1. CASE n = "TIMESTAMP"
        BY <2>1, <4>1 DEF ElementToPg, Plain, Element, Zoned
      <4>2. CASE n = "TIMESTAMP_NTZ"
        <5>1. e = Plain("timestamp without time zone")
          BY <2>1, <4>2 DEF ElementToPg, Plain, Element
        <5>2. /\ "timestamp without time zone" \in Unzoned
              /\ "timestamp without time zone" \notin Zoned
          BY DEF Zoned, Unzoned
        <5> QED
          BY <4>2, <5>1, <5>2
      <4> QED
        BY <2>3, <4>1, <4>2
    <3>2. e.name = x /\ e.args \in Seq(Nat) /\ Len(e.args) < 2
      BY <3>1, PlainElement
    <3>3. MappableElement(e)
      BY <3>2 DEF MappableElement, Zoned, Unzoned
    <3>4. MapElement(e).delta = Plain(n)
      BY <3>1, <3>2 DEF MapElement, Logical, Exact, Texts, Numerics, Chars, Zoned,
                        Unzoned, TimesOfDay
    <3> QED
      BY <2>1, <3>2, <3>3, <3>4
  <2> QED
    BY <2>2, <2>3 DEF Named
<1>2. CASE \E ps \in (0..MaxPrecision) \X Nat : d = Element("DECIMAL", ps)
  <2>1. PICK ps \in (0..MaxPrecision) \X Nat : d = Element("DECIMAL", ps)
    BY <1>2
  <2> DEFINE e == Element("numeric", ps)
  <2>2. ElementToPg(d) = e
    BY <2>1 DEF ElementToPg, Element
  <2>3. PICK p \in 0..MaxPrecision, s \in Nat : ps = <<p, s>>
    OBVIOUS
  <2>4. /\ ps \in Seq(Nat) /\ Len(ps) = 2 /\ ps # <<>> /\ ps[1] = p /\ ps[2] = s
        /\ ~ (p > MaxPrecision)
    BY <2>3 DEF MaxPrecision
  <2>5. e.name = "numeric" /\ e.args = ps
    BY DEF Element
  <2>6. MappableElement(e)
    BY <2>4, <2>5 DEF MappableElement, Numerics
  <2>7. MapElement(e) = MapNumeric(e)
    BY <2>5 DEF MapElement, Exact, Texts, Numerics, Chars, Zoned, Unzoned, TimesOfDay
  <2>8. MapNumeric(e).delta = Element("DECIMAL", <<p, s>>)
    BY <2>4, <2>5 DEF MapNumeric, Logical
  <2> QED
    BY <2>1, <2>2, <2>3, <2>5, <2>6, <2>7, <2>8
<1> QED
  BY <1>1, <1>2 DEF DeltaElements

\* The Delta types alone determine a Postgres type that is mapped to them
\* again: what a column rebuilt from the catalog is compared with is what it
\* was rebuilt from (mapping.py:242-283).
THEOREM MappedIsReverseStable ==
    ASSUME NEW t \in Types, Mappable(t)
    PROVE  ReverseStable(DeltaOf(t))
<1> DEFINE d == MapElement(t.element).delta
<1>1. DeltaOf(t) = Type(d, t.dims) /\ d \in DeltaElements
  BY ElementDelta DEF DeltaOf, MapPgToDelta, Logical, Type, Types, Elements, Mappable
<1>2. MapDeltaToPg(DeltaOf(t)) = Type(ElementToPg(d), t.dims)
  BY <1>1 DEF MapDeltaToPg, Type
<1>3. MappableElement(ElementToPg(d)) /\ MapElement(ElementToPg(d)).delta = d
  BY <1>1, ElementComesBack
<1> QED
  BY <1>1, <1>2, <1>3 DEF ReverseStable, Mappable, DeltaOf, MapPgToDelta, Logical, Type

\* The hint of an element is mapped to the Delta type of the element.
LEMMA SubstituteComesBack ==
    ASSUME NEW e, e.args \in Seq(Nat), MappableElement(e)
    PROVE  LET r == MapElement(e).reverse
           IN  MappableElement(r) /\ MapElement(r).delta = MapElement(e).delta
<1> DEFINE r == MapElement(e).reverse
<1>1. CASE e.name \in Exact /\ MapElement(e) = MapExact(e.name)
  <2>1. PICK x \in Exact : r = Plain(x) /\ MapExact(x).delta = MapExact(e.name).delta
    BY <1>1, ExactRebuilt
  <2>2. r.name = x /\ r.args = <<>>
    BY <2>1, PlainElement
  <2>3. MappableElement(r)
    BY <2>2 DEF MappableElement
  <2>4. MapElement(r) = MapExact(x)
    BY <2>2 DEF MapElement, Exact, Texts, Numerics, Chars, Zoned, Unzoned, TimesOfDay
  <2> QED
    BY <1>1, <2>1, <2>3, <2>4
<1>2. CASE /\ e.name \in Texts \cup {"interval", "money"}
           /\ MapElement(e) = MapSubstitute(e.name)
  <2>1. CASE e.name = "money"
    <3> DEFINE cents == <<19, 2>>
    <3>1. r = Element("numeric", cents) /\ MapElement(e).delta = Element("DECIMAL", cents)
      BY <1>2, <2>1 DEF MapSubstitute, Texts, Logical
    <3>2. /\ r.name = "numeric" /\ r.args = cents /\ Len(cents) = 2 /\ cents # <<>>
          /\ cents[1] = 19 /\ cents[2] = 2
      BY <3>1 DEF Element
    <3>3. MappableElement(r)
      BY <3>2 DEF MappableElement, Numerics
    <3>4. MapElement(r) = MapNumeric(r)
      BY <3>2 DEF MapElement, Exact, Texts, Numerics, Chars, Zoned, Unzoned, TimesOfDay
    <3>5. MapNumeric(r).delta = Element("DECIMAL", cents)
      BY <3>2 DEF MapNumeric, Logical, MaxPrecision
    <3> QED
      BY <3>1, <3>3, <3>4, <3>5
  <2>2. CASE e.name \in Texts \cup {"interval"}
    <3>1. r = Plain(e.name)
      BY <1>2, <2>2 DEF MapSubstitute, Texts, Logical
    <3>2. r.name = e.name /\ r.args = <<>>
      BY <3>1, PlainElement
    <3>3. MappableElement(r)
      BY <2>2, <3>2 DEF MappableElement
    <3>4. MapElement(r) = MapSubstitute(e.name)
      BY <2>2, <3>2 DEF MapElement, Exact, Texts, Numerics, Chars, Zoned, Unzoned,
                        TimesOfDay
    <3> QED
      BY <1>2, <3>3, <3>4
  <2> QED
    BY <1>2, <2>1, <2>2
<1>3. CASE e.name \in Numerics /\ MapElement(e) = MapNumeric(e)
  <2>1. e.args = <<>> \/ Len(e.args) = 2
    BY <1>3 DEF MappableElement, Numerics, Chars, Zoned, Unzoned
  <2>2. r = Element("numeric", e.args)
    BY <1>3 DEF MapNumeric, Logical
  <2>3. r.name = "numeric" /\ r.args = e.args
    BY <2>2 DEF Element
  <2>4. MappableElement(r)
    BY <2>1, <2>3 DEF MappableElement, Numerics
  <2>5. MapElement(r) = MapNumeric(r)
    BY <2>3 DEF MapElement, Exact, Texts, Numerics, Chars, Zoned, Unzoned, TimesOfDay
  <2>6. MapNumeric(r).delta = MapNumeric(e).delta
    BY <2>3 DEF MapNumeric
  <2> QED
    BY <1>3, <2>4, <2>5, <2>6
<1>4. CASE e.name \in Chars /\ Becomes(e, "STRING", "text")
  <2>1. r = Plain("text") /\ MapElement(e).delta = Plain("STRING")
    BY <1>4 DEF Becomes
  <2>2. r.name = "text" /\ r.args = <<>>
    BY <2>1, PlainElement
  <2>3. MappableElement(r)
    BY <2>2 DEF MappableElement, Exact
  <2>4. MapElement(r) = MapExact("text")
    BY <2>2 DEF MapElement, Exact, Texts, Numerics, Chars, Zoned, Unzoned, TimesOfDay
  <2>5. MapExact("text").delta = Plain("STRING")
    BY DEF MapExact, Logical
  <2> QED
    BY <2>1, <2>3, <2>4, <2>5
<1>5. CASE /\ e.name \in Zoned \cup {"timestamptz"}
           /\ Becomes(e, "TIMESTAMP", "timestamp with time zone")
  <2>1. r = Plain("timestamp with time zone") /\ MapElement(e).delta = Plain("TIMESTAMP")
    BY <1>5 DEF Becomes
  <2>2. r.name = "timestamp with time zone" /\ Len(r.args) < 2
    BY <2>1, PlainElement, Zenon
  <2>3. MappableElement(r)
    BY <2>2 DEF MappableElement, Zoned
  <2>4. MapElement(r).delta = MapElement(e).delta
    BY <1>5, <2>2 DEF MapElement, Logical, Becomes, Exact, Texts, Numerics, Chars, Zoned, Unzoned, TimesOfDay
  <2> QED
    BY <2>3, <2>4
<1>6. CASE /\ e.name \in Unzoned
           /\ Becomes(e, "TIMESTAMP_NTZ", "timestamp without time zone")
  <2>1. r = Plain("timestamp without time zone")
    BY <1>6 DEF Becomes
  <2>2. r.name = "timestamp without time zone" /\ Len(r.args) < 2
    BY <2>1, PlainElement, Zenon
  <2>3. MappableElement(r)
    BY <2>2 DEF MappableElement, Unzoned
  <2>4. MapElement(r).delta = MapElement(e).delta
    BY <1>6, <2>2 DEF MapElement, Logical, Becomes, Exact, Texts, Numerics, Chars, Zoned, Unzoned, TimesOfDay
  <2> QED
    BY <2>3, <2>4
<1>7. CASE e.name \in TimesOfDay /\ Becomes(e, "STRING", "time")
  <2>1. r = Plain("time")
    BY <1>7 DEF Becomes
  <2>2. r.name = "time" /\ r.args = <<>>
    BY <2>1, PlainElement
  <2>3. MappableElement(r)
    BY <2>2 DEF MappableElement, TimesOfDay
  <2>4. MapElement(r).delta = MapElement(e).delta
    BY <1>7, <2>2 DEF MapElement, Logical, Becomes, Exact, Texts, Numerics, Chars, Zoned, Unzoned, TimesOfDay
  <2> QED
    BY <2>3, <2>4
<1> QED
  BY <1>1, <1>2, <1>3, <1>4, <1>5, <1>6, <1>7, Branches

\* What a type is rebuilt as in Postgres when the engine's hint is followed is
\* stored as the type itself is, though it may be another type: varchar(9)
\* comes back as text, money as numeric(19,2) (mapping.py:286-294).
THEOREM SubstituteIsStable ==
    ASSUME NEW t \in Types, Mappable(t)
    PROVE  SubstituteStable(t)
<1> DEFINE r == MapElement(t.element).reverse
<1>1. MapPgToDelta(t).reverse = Type(r, t.dims)
  BY DEF MapPgToDelta, Logical
<1>2. MappableElement(r) /\ MapElement(r).delta = MapElement(t.element).delta
  BY SubstituteComesBack DEF Types, Elements, Mappable
<1> QED
  BY <1>1, <1>2 DEF SubstituteStable, Mappable, DeltaOf, MapPgToDelta, Logical, Type

\* The exact types are rebuilt without their hints.
LEMMA ExactWithoutHint ==
    ASSUME NEW name \in Exact
    PROVE  ElementToPg(MapExact(name).delta) = MapExact(name).reverse
BY DEF MapExact, ElementToPg, Plain, Element, Logical, Exact

LEMMA ElementWithoutHint ==
    ASSUME NEW e, e.args \in Seq(Nat), MappableElement(e), ~ MapElement(e).lossy
    PROVE  ElementToPg(MapElement(e).delta) = MapElement(e).reverse
<1>1. CASE e.name \in Exact /\ MapElement(e) = MapExact(e.name)
  BY <1>1, ExactWithoutHint
<1>2. CASE /\ e.name \in Texts \cup {"interval", "money"}
           /\ MapElement(e) = MapSubstitute(e.name)
  BY <1>2 DEF MapSubstitute, Texts, Logical
<1>3. CASE e.name \in Numerics /\ MapElement(e) = MapNumeric(e)
  <2>1. e.args # <<>> /\ ~ (e.args[1] > MaxPrecision)
    BY <1>3 DEF MapNumeric, Logical
  <2>2. Len(e.args) = 2
    BY <1>3, <2>1 DEF MappableElement, Numerics, Chars, Zoned, Unzoned
  <2>3. e.args = <<e.args[1], e.args[2]>>
    BY <2>2
  <2>4. MapElement(e).delta = Element("DECIMAL", e.args)
    <3>1. MapElement(e).delta = Element("DECIMAL", <<e.args[1], e.args[2]>>)
      BY <1>3, <2>1 DEF MapNumeric, Logical
    <3> QED
      BY <2>3, <3>1
  <2>5. MapElement(e).reverse = Element("numeric", e.args)
    BY <1>3, <2>1 DEF MapNumeric, Logical
  <2> QED
    BY <2>4, <2>5 DEF ElementToPg, Element
<1>4. CASE Becomes(e, "STRING", "text")
  BY <1>4 DEF Becomes, ElementToPg, Plain, Element
<1>5. CASE Becomes(e, "TIMESTAMP", "timestamp with time zone")
  <2>1. ElementToPg(Plain("TIMESTAMP")) = Plain("timestamp with time zone")
    BY DEF ElementToPg, Plain, Element
  <2> QED
    BY <1>5, <2>1 DEF Becomes
<1>6. CASE Becomes(e, "TIMESTAMP_NTZ", "timestamp without time zone")
  <2>1. ElementToPg(Plain("TIMESTAMP_NTZ")) = Plain("timestamp without time zone")
    BY DEF ElementToPg, Plain, Element
  <2> QED
    BY <1>6, <2>1 DEF Becomes
<1>7. CASE e.name \in TimesOfDay
  BY <1>7 DEF MapElement, Logical, Exact, Texts, Numerics, Chars, Zoned, Unzoned,
              TimesOfDay
<1> QED
  BY <1>1, <1>2, <1>3, <1>4, <1>5, <1>6, <1>7, Branches

\* A type that is said to be mapped without loss is rebuilt from the Delta
\* type alone as the hint would have it (mapping.py:263-283).
THEOREM LosslessIsRebuilt ==
    ASSUME NEW t \in Types, Mappable(t)
    PROVE  LosslessNeedsNoHint(t)
<1> DEFINE e == t.element
<1>1. SUFFICES ASSUME ~ MapPgToDelta(t).lossy
               PROVE  MapDeltaToPg(DeltaOf(t)) = MapPgToDelta(t).reverse
  BY DEF LosslessNeedsNoHint
<1>2. /\ DeltaOf(t) = Type(MapElement(e).delta, t.dims)
      /\ MapPgToDelta(t).reverse = Type(MapElement(e).reverse, t.dims)
      /\ MapPgToDelta(t).lossy = (MapElement(e).lossy \/ t.dims > 0)
  BY DEF DeltaOf, MapPgToDelta, Logical
<1>3. ~ MapElement(e).lossy
  BY <1>1, <1>2
<1>4. ElementToPg(MapElement(e).delta) = MapElement(e).reverse
  BY <1>3, ElementWithoutHint DEF Types, Elements, Mappable
<1> QED
  BY <1>2, <1>4 DEF MapDeltaToPg, Type
=============================================================================
