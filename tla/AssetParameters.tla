---------------------------- MODULE AssetParameters ----------------------------
(* lib/creative-assets/schema.ts and service-contracts.ts: the parameters that a *)
(* creative asset may be given, and which values are let through for them.  Of a *)
(* text only its length is kept, a number is counted in halves, and an option or *)
(* a colour is one of a few.                                                     *)
EXTENDS Naturals, Sequences

CONSTANTS
  Absent,       \* what is not declared, or not given
  OnSteps       \* whether the default of a number lies on one of its steps

VARIABLES
  parameter,     \* a parameter that somebody has declared
  chosen         \* the value that is given for it, if any

parameterVars == <<parameter, chosen>>

Opt(S) == S \union {Absent}
Known(x) == x # Absent

TextParameters == [type : {"string"}, min : Opt(0..2), max : Opt(1..2), default : Opt(0..3), required : BOOLEAN]
NumberParameters == [type : {"number"}, min : Opt(0..2), max : Opt(0..3), step : Opt(1..2), integer : BOOLEAN,
            default : Opt(0..4), required : BOOLEAN]
EnumParameters == [type : {"enum"}, options : UNION {[1..n -> 1..2] : n \in 1..2}, default : Opt(1..3), required : BOOLEAN]
BooleanParameters == [type : {"boolean"}, default : Opt({0, 1}), required : BOOLEAN]
ColorParameters == [type : {"color"}, default : Opt({0}), required : BOOLEAN]

Parameters == TextParameters \union NumberParameters \union EnumParameters \union BooleanParameters \union ColorParameters

Bounded(p) ==
  /\ Known(p.min) /\ Known(p.max) => p.min <= p.max
  /\ Known(p.default) /\ Known(p.min) => p.default >= p.min
  /\ Known(p.default) /\ Known(p.max) => p.default <= p.max

(* The schema lets it be declared.  Nothing is asked of a number's step.          *)
Declarable(p) ==
  CASE p.type = "string" -> Bounded(p)
    [] p.type = "number" -> Bounded(p) /\ (p.integer /\ Known(p.default) => p.default % 2 = 0)
    [] p.type = "enum"   -> /\ Len(p.options) = 2 => p.options[1] # p.options[2]
                            /\ Known(p.default) => \E i \in DOMAIN p.options : p.options[i] = p.default
    [] OTHER -> TRUE

Value(type, n) == [type |-> type, n |-> n]

InRange(p, n) == (Known(p.min) => n >= p.min) /\ (Known(p.max) => n <= p.max)
OnStep(p, n) == LET base == IF Known(p.min) THEN p.min ELSE 0
                IN  Known(p.step) /\ n >= base => (n - base) % p.step = 0

Allows(p, v) ==
  CASE p.type = "string"  -> v.type = "string" /\ InRange(p, v.n)
    [] p.type = "number"  -> /\ v.type = "number" /\ InRange(p, v.n) /\ OnStep(p, v.n)
                             /\ p.integer => v.n % 2 = 0
    [] p.type = "boolean" -> v.type = "boolean"
    [] p.type = "enum"    -> v.type = "enum" /\ \E i \in DOMAIN p.options : p.options[i] = v.n
    [] p.type = "color"   -> v.type = "color" /\ v.n = 0

(* Without a value, a parameter that is required has to have a default.           *)
LetThrough(p, v) == IF Known(v.n) THEN Allows(p, v) ELSE p.required => Known(p.default)

(* What the asset is made with.                                                   *)
Effective(p, v) == IF Known(v.n) THEN v ELSE Value(p.type, p.default)

ParametersInit ==
  /\ parameter \in {p \in Parameters : Declarable(p)}
  /\ OnSteps /\ parameter.type = "number" /\ Known(parameter.default) => OnStep(parameter, parameter.default)
  /\ chosen = Value("none", Absent)

Give ==
  /\ chosen.type = "none"
  /\ chosen' \in {Value(t, n) : t \in {"string", "number", "boolean", "enum", "color"}, n \in Opt(0..4)}
  /\ UNCHANGED parameter

-------------------------------------------------------------------------------
(* Values that are let through come, with the defaults of those left out, to what *)
(* the declaration allows, and a required one to something.                       *)
DefaultsAreAllowed ==
  LetThrough(parameter, chosen) =>
    LET v == Effective(parameter, chosen)
    IN  IF Known(v.n) THEN Allows(parameter, v) ELSE ~parameter.required
===============================================================================
