----------------------------- MODULE KnotValue -----------------------------
(***************************************************************************)
(* Values between the cloud and a thing in src/msg.c.  A JSON double is    *)
(* split into two integers (parse_json_value_types), travels to the thing  *)
(* in a knot_value_types, and what a thing reports is put together again   *)
(* (create_data_object).  config_is_valid compares two values as the       *)
(* limits of a configuration, as doubles whatever they are.                *)
(*                                                                         *)
(* A job takes one configuration, or one value a user sets and the thing   *)
(* reports back, through the functions that handle it.  The text of a      *)
(* double is what json-c kept of the document: sign, integer part, digits  *)
(* after the point and exponent; without a point it is 1e0.                *)
(*                                                                         *)
(* A knot_value_types is a packed union of the protocol library: the       *)
(* multiplier comes first in val_f and val_i, then value_int in the place  *)
(* of value, and val_b is the first byte.                                  *)
(***************************************************************************)
EXTENDS Integers, Sequences

CONSTANTS
  IntPart,    \* integer parts tried, without their sign
  Digit,      \* digits tried after the point
  Exponent,   \* exponents tried
  MaxDigits,  \* at most so many of them
  Width,      \* bits of an int
  None        \* no result yet, no limit

\* b to the power of n, as a recursive function that a proof can follow
Exp(b, n) ==
  LET power[k \in 0 .. n] == IF k = 0 THEN 1 ELSE b * power[k - 1]
  IN  power[n]

\* an int is in -Half .. Half - 1
Half == Exp(2, Width - 1)

ASSUME ValueAssumption ==
  /\ Width \in Nat \ {0}
  /\ IntPart \subseteq 0 .. Half - 1
  /\ Digit \subseteq 0 .. 9
  /\ Exponent \subseteq Nat
  /\ MaxDigits \in Nat \ {0}
  /\ Exp(10, MaxDigits) <= Half  \* a fraction fits an int: the overflow of %d, a
                                 \* FIXME of parse_json_value_types, is left out

VARIABLES
  job,     \* the input
  parsed,  \* what parsing made of it
  result   \* the verdict on a configuration, or the number reported

valueVars == <<job, parsed, result>>

-----------------------------------------------------------------------------
(* Inputs.                                                                 *)

Fraction == UNION {[1 .. n -> Digit] : n \in 0 .. MaxDigits}

\* the document: a double, an int, true (1) or false (0)
Json ==
  [type : {"double"}, neg : BOOLEAN, int : IntPart, frac : Fraction, exp : Exponent]
    \cup [type : {"int"}, neg : BOOLEAN, int : IntPart, frac : {<<>>}, exp : {0}]
    \cup [type : {"boolean"}, neg : {FALSE}, int : {0, 1}, frac : {<<>>}, exp : {0}]

\* None is no document
ASSUME JsonAssumption ==
  None \notin [type : {"double", "int", "boolean"}, neg : BOOLEAN, int : Nat,
               frac : Seq(Nat), exp : Nat]

Flag == {"time", "lower", "upper", "change", "unknown"}

\* the limits are there or not, whatever the flags say
Config == [kind : {"config"}, flags : SUBSET Flag, time : {0, 1},
           lower : Json \cup {None}, upper : Json \cup {None}]

\* the type is the one in the schema of the sensor, whatever the user sets
Data == [kind : {"data"}, value : Json, value_type : {"int", "float", "bool"}]

ValueInit ==
  /\ job \in Config \cup Data
  /\ parsed = None
  /\ result = None

-----------------------------------------------------------------------------
(* The functions of the code.                                              *)

\* the number the digits f spell, read from the left
DigitsValue(f) ==
  LET read[n \in 0 .. Len(f)] == IF n = 0 THEN 0 ELSE 10 * read[n - 1] + f[n]
  IN  read[Len(f)]

\* memset before parsing: the value of a limit that is not given
Zero == [int |-> 0, dec |-> 0, multiplier |-> 0]

\* parse_json_value_types, as val_f shows it: sscanf with "%d.%d" reads the fraction
\* as a number, the sign belongs to the integer part alone, and an exponent after the
\* fraction is not read; without a point nothing is
parse_json_value_types(t) ==
  LET int == IF t.neg THEN -t.int ELSE t.int
  IN  CASE t = None -> Zero
        [] t # None /\ t.type = "boolean" -> [Zero EXCEPT !.multiplier = t.int]
        [] t # None /\ t.type = "int" -> [int |-> int, dec |-> 0, multiplier |-> 1]
        [] t # None /\ t.type = "double" ->
             IF t.frac = <<>> THEN Zero
             ELSE [int |-> int, dec |-> DigitsValue(t.frac), multiplier |-> 1]

\* int subtraction: where it overflows the build may wrap or not
Minus(a, b) ==
  {a - b, ((a - b + Half) % (2 * Half)) - Half}

\* Mutant: fractions are not compared.
LimitsRefused_IntOnly(lower, upper) ==
  {d < 0 : d \in Minus(upper.int, lower.int)}

\* Mutant: fractions are compared in every case.
LimitsRefused_Always(lower, upper) ==
  {d < 0 \/ upper.dec - lower.dec <= 0 : d \in Minus(upper.int, lower.int)}

\* Consistency of limits: is the pair refused?
LimitsRefused(lower, upper) ==
  {d < 0 \/ (d = 0 /\ upper.dec - lower.dec <= 0) : d \in Minus(upper.int, lower.int)}

\* config_is_valid, for one entry of the list: the verdicts the build may give
config_is_valid(flags, time, lower, upper) ==
  IF \/ flags # {} /\ flags \subseteq {"unknown"}
     \/ "time" \in flags /\ time = 0
     \/ "time" \notin flags /\ time > 0
  THEN {FALSE}
  ELSE IF flags \cap {"lower", "upper"} # {}
       THEN {~r : r \in LimitsRefused(lower, upper)}
       ELSE {TRUE}

\* Mutant: every fraction has one digit.
knot_data_get_double_length_One(v) == 1

\* knot_data_get_double_length: characters of the number value_dec
knot_data_get_double_length(v) ==
  CHOOSE n \in 1 .. (MaxDigits + 1) :
    v.dec < Exp(10, n) /\ (n > 1 => v.dec >= Exp(10, n - 1))

\* doubles are counted in units of 10^-MaxDigits
Unit == Exp(10, MaxDigits)

\* knot_data_as_double
knot_data_as_double(v) ==
  v.multiplier *
    (v.int * Unit + v.dec * (Unit \div Exp(10, knot_data_get_double_length(v))))

\* create_data_object: the "value" of the type, in the same unit
Reported(v, value_type) ==
  CASE value_type = "int" -> v.int * Unit
    [] value_type = "float" -> knot_data_as_double(v)
    [] value_type = "bool" -> v.multiplier * Unit

-----------------------------------------------------------------------------
(* The way of one job.                                                     *)

\* parse_device_config, for one entry
ParseConfig ==
  /\ job.kind = "config"
  /\ parsed = None
  /\ parsed' = [lower |-> parse_json_value_types(job.lower),
                upper |-> parse_json_value_types(job.upper)]
  /\ UNCHANGED <<job, result>>

Validate ==
  /\ job.kind = "config"
  /\ parsed # None
  /\ result = None
  /\ \E ok \in config_is_valid(job.flags, job.time, parsed.lower, parsed.upper) :
       result' = ok
  /\ UNCHANGED <<job, parsed>>

\* parse_device_setdata: the value goes to the thing as it was parsed
ParseData ==
  /\ job.kind = "data"
  /\ parsed = None
  /\ parsed' = parse_json_value_types(job.value)
  /\ UNCHANGED <<job, result>>

\* the thing answers with the value it was given: create_data_object
Report ==
  /\ job.kind = "data"
  /\ parsed # None
  /\ result = None
  /\ result' = Reported(parsed, job.value_type)
  /\ UNCHANGED <<job, parsed>>

ValueNext == ParseConfig \/ Validate \/ ParseData \/ Report

ValueSpec == ValueInit /\ [][ValueNext]_valueVars

-----------------------------------------------------------------------------
(* Reference definitions and properties.                                   *)

\* the number a document means, in the same unit as Reported
Meaning(t) ==
  LET abs == t.int * Unit + DigitsValue(t.frac) * Exp(10, MaxDigits - Len(t.frac))
  IN  Exp(10, t.exp) * IF t.neg THEN -abs ELSE abs

\* a limit as a double: an int has no fraction, and one that is left out counts as 0
Limit(t) ==
  CASE t = None -> [type |-> "double", neg |-> FALSE, int |-> 0, frac |-> <<0>>,
                    exp |-> 0]
    [] t # None /\ t.type = "int" -> [t EXCEPT !.type = "double", !.frac = <<0>>]
    [] t # None /\ t.type # "int" -> t

\* Is all that counts of the double read?
Readable(t) == t.type = "double" /\ t.frac # <<>> /\ t.exp = 0

\* Can the split numbers tell which of two limits is larger?  Their difference has
\* to fit an int; where the integer parts are the same, neither may be negative and
\* the fractions need the same number of digits, unless one is 0.
Comparable(lower, upper) ==
  LET a == parse_json_value_types(lower)
      b == parse_json_value_types(upper)
  IN  /\ Readable(lower) /\ Readable(upper)
      /\ b.int - a.int \in -Half .. Half - 1
      /\ a.int = b.int => /\ ~lower.neg /\ ~upper.neg
                          /\ \/ Len(lower.frac) = Len(upper.frac)
                             \/ a.dec = 0 \/ b.dec = 0

InOrder == Meaning(Limit(job.lower)) < Meaning(Limit(job.upper))

\* a job that config_is_valid has decided, and about comparable limits
Decided ==
  /\ job.kind = "config"
  /\ result # None
  /\ Comparable(Limit(job.lower), Limit(job.upper))

AsksLimits == job.flags \cap {"lower", "upper"} # {}

\* "Checks if the config message received from the cloud is valid": the limits
\* of a configuration that config_is_valid accepts are in order.
AcceptedIsOrdered == Decided /\ result /\ AsksLimits => InOrder

\* The other direction: a configuration with some known event, a period exactly
\* when the time event is asked for, and limits in order is accepted.
OrderedIsAccepted ==
  /\ Decided
  /\ job.flags = {} \/ job.flags \ {"unknown"} # {}
  /\ (job.time > 0) <=> ("time" \in job.flags)
  /\ AsksLimits => InOrder
  => result

\* Does the union hold the value in the place where a sensor of the type has it?  A
\* double needs a fraction that is zero or that starts with another digit and belongs
\* to a number above 0.
Held(t, value_type) ==
  \/ t.type = "int" /\ value_type \in {"int", "float"}
  \/ t.type = "boolean" /\ value_type = "bool"
  \/ /\ Readable(t) /\ value_type = "float"
     /\ DigitsValue(t.frac) = 0 \/ (~t.neg /\ t.frac[1] # 0)

\* "Trick to get integral and fractional parts": the value a user sets and the
\* thing reports back reaches the cloud as the same value, if the union can hold it.
RoundTrip ==
  /\ job.kind = "data"
  /\ result # None
  /\ Held(job.value, job.value_type)
  => result = Meaning(job.value)
=============================================================================
