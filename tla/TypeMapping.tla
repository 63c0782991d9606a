------------------------------ MODULE TypeMapping ------------------------------
(***************************************************************************)
(* The type engine (src/packages/type-engine): Postgres types to Delta     *)
(* types, back, and to Unity Catalog's column descriptors.                 *)
(*                                                                         *)
(* A type is an element type, that is a name with arguments, and the       *)
(* number of its array dimensions: numeric(10,2)[] is <<"numeric",         *)
(* <<10, 2>>>> once.  The code recurs over the brackets and changes        *)
(* nothing but the element.                                                *)
(***************************************************************************)
EXTENDS Naturals, Sequences

Element(name, args) == [name |-> name, args |-> args]

Plain(name) == Element(name, <<>>)

Type(element, dims) == [element |-> element, dims |-> dims]

Elements == [name : STRING, args : Seq(Nat)]

Types == [element : Elements, dims : Nat]

\* The parts of LogicalType that anything depends on.
Logical(delta, lossy, reverse) ==
    [delta |-> delta, lossy |-> lossy, reverse |-> reverse]

-----------------------------------------------------------------------------
(* map_pg_to_delta()                                                       *)

MaxPrecision == 38

Exact == {"boolean", "bool", "smallint", "int2", "integer", "int", "int4",
          "bigint", "int8", "real", "float4", "double precision", "float8",
          "text", "date", "bytea"}

\* _PG_TO_DELTA_LOSSLESS
MapExact(name) ==
    LET to(delta, reverse) == Logical(Plain(delta), FALSE, Plain(reverse))
    IN  CASE name \in {"boolean", "bool"}            -> to("BOOLEAN", "boolean")
          [] name \in {"smallint", "int2"}           -> to("SHORT", "smallint")
          [] name \in {"integer", "int", "int4"}     -> to("INTEGER", "integer")
          [] name \in {"bigint", "int8"}             -> to("LONG", "bigint")
          [] name \in {"real", "float4"}             -> to("FLOAT", "real")
          [] name \in {"double precision", "float8"} -> to("DOUBLE", "double precision")
          [] name = "text"                           -> to("STRING", "text")
          [] name = "date"                           -> to("DATE", "date")
          [] name = "bytea"                          -> to("BINARY", "bytea")

Texts == {"jsonb", "json", "uuid", "cidr", "inet", "macaddr", "tsvector"}

\* _PG_TO_DELTA_LOSSY
MapSubstitute(name) ==
    CASE name \in Texts    -> Logical(Plain("STRING"), TRUE, Plain(name))
      [] name = "interval" -> Logical(Plain("LONG"), TRUE, Plain(name))
      [] name = "money"    -> Logical(Element("DECIMAL", <<19, 2>>), TRUE,
                                      Element("numeric", <<19, 2>>))

Least(m, n) == IF m < n THEN m ELSE n

\* Mutant of MapNumeric: the digits are clamped, the scale is not.
MapNumericScaleKept(t) ==
    LET decimal(p, s) == Element("DECIMAL", <<p, s>>)
        numeric       == Element("numeric", t.args)
    IN  IF t.args = <<>> THEN Logical(decimal(MaxPrecision, 18), TRUE, numeric)
        ELSE Logical(decimal(Least(t.args[1], MaxPrecision), t.args[2]),
                     t.args[1] > MaxPrecision, numeric)

\* numeric(p,s), within the 38 digits of Delta or clamped to them; bare
\* numeric, pinned.
MapNumeric(t) ==
    LET decimal(p, s) == Element("DECIMAL", <<p, s>>)
        numeric       == Element("numeric", t.args)
    IN  IF t.args = <<>> THEN Logical(decimal(MaxPrecision, 18), TRUE, numeric)
        ELSE IF t.args[1] > MaxPrecision
          THEN Logical(decimal(MaxPrecision, Least(t.args[2], MaxPrecision)), TRUE, numeric)
          ELSE Logical(decimal(t.args[1], t.args[2]), FALSE, numeric)

Numerics   == {"numeric", "decimal"}
Chars      == {"varchar", "character varying", "char", "character", "bpchar"}
Zoned      == {"timestamp with time zone"}
Unzoned    == {"timestamp", "timestamp without time zone"}
TimesOfDay == {"time", "timetz", "time with time zone", "time without time zone"}

\* The types map_pg_to_delta() does not refuse.
MappableElement(t) ==
    \/ t.args = <<>> /\ t.name \in Exact \cup Texts \cup TimesOfDay \cup Numerics
                                     \cup {"interval", "money", "timestamptz"}
    \/ Len(t.args) = 2 /\ t.name \in Numerics
    \/ Len(t.args) < 2 /\ t.name \in Chars \cup Zoned \cup Unzoned

Mappable(t) == MappableElement(t.element)

MapElement(t) ==
    CASE t.name \in Exact                -> MapExact(t.name)
      [] t.name \in Texts \cup {"interval", "money"} -> MapSubstitute(t.name)
      [] t.name \in Numerics             -> MapNumeric(t)
      [] t.name \in Chars                -> Logical(Plain("STRING"), FALSE, Plain("text"))
      [] t.name \in Zoned \cup {"timestamptz"} ->
            Logical(Plain("TIMESTAMP"), FALSE, Plain("timestamp with time zone"))
      [] t.name \in Unzoned              ->
            Logical(Plain("TIMESTAMP_NTZ"), FALSE, Plain("timestamp without time zone"))
      [] t.name \in TimesOfDay           -> Logical(Plain("STRING"), TRUE, Plain("time"))

\* An array becomes an array of what its elements become, and is lossy.
MapPgToDelta(t) ==
    LET e == MapElement(t.element)
    IN  Logical(Type(e.delta, t.dims), e.lossy \/ t.dims > 0, Type(e.reverse, t.dims))

DeltaOf(t) == MapPgToDelta(t).delta

-----------------------------------------------------------------------------
(* map_delta_to_pg(), for the types the engine gives                       *)

\* _DELTA_TO_PG
Named == {"BOOLEAN", "SHORT", "INTEGER", "LONG", "FLOAT", "DOUBLE", "STRING",
          "BINARY", "DATE", "TIMESTAMP", "TIMESTAMP_NTZ"}

ElementToPg(d) ==
    CASE d.name = "BOOLEAN"       -> Plain("boolean")
      [] d.name = "SHORT"         -> Plain("smallint")
      [] d.name = "INTEGER"       -> Plain("integer")
      [] d.name = "LONG"          -> Plain("bigint")
      [] d.name = "FLOAT"         -> Plain("real")
      [] d.name = "DOUBLE"        -> Plain("double precision")
      [] d.name = "STRING"        -> Plain("text")
      [] d.name = "BINARY"        -> Plain("bytea")
      [] d.name = "DATE"          -> Plain("date")
      [] d.name = "TIMESTAMP"     -> Plain("timestamp with time zone")
      [] d.name = "TIMESTAMP_NTZ" -> Plain("timestamp without time zone")
      [] d.name = "DECIMAL"       -> Element("numeric", d.args)

MapDeltaToPg(d) == Type(ElementToPg(d.element), d.dims)

-----------------------------------------------------------------------------
(* uc_column()                                                             *)

\* _uc_type_name() and _spark_json_type() know the type, and its elements.
Expressible(d) ==
    \/ d.element.name \in Named /\ d.element.args = <<>>
    \/ d.element.name = "DECIMAL" /\ Len(d.element.args) = 2

-----------------------------------------------------------------------------
(* What the services rely on                                               *)

\* A numeric with at most as many digits behind the point as it has.  (Postgres
\* 15 and later also has numeric(3,5); the engine hands its scale on as it is.)
WellScaled(t) ==
    t.element.name \in Numerics /\ Len(t.element.args) = 2
        => t.element.args[2] <= t.element.args[1]

\* Unity Catalog can be told the type, within the digits it has.
Registrable(d) ==
    /\ Expressible(d)
    /\ d.element.name = "DECIMAL" =>
          /\ d.element.args[1] <= MaxPrecision
          /\ d.element.args[2] <= d.element.args[1]

\* A table rebuilt in Postgres from the Delta type alone, as for a table that
\* comes from outside, has the same Delta type again.
ReverseStable(d) ==
    Mappable(MapDeltaToPg(d)) /\ DeltaOf(MapDeltaToPg(d)) = d

\* The substitute a type is rebuilt to is stored as the type itself is.
SubstituteStable(t) ==
    LET r == MapPgToDelta(t).reverse IN Mappable(r) /\ DeltaOf(r) = DeltaOf(t)

\* A type that is said to be mapped without loss can be rebuilt without the
\* engine's hint.
LosslessNeedsNoHint(t) ==
    ~MapPgToDelta(t).lossy => MapDeltaToPg(DeltaOf(t)) = MapPgToDelta(t).reverse
=============================================================================
