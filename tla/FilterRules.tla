---------------------------- MODULE FilterRules ----------------------------
(***************************************************************************)
(* pkg/filter: what a rule says of a value, and how the field that a rule  *)
(* names is found in an object.                                            *)
(*                                                                         *)
(* A value is what package reflect shows of it: its type, its kind and     *)
(* what it holds.  A number is held as <<h>>, a multiple of 1 / Unit (each *)
(* float64 is one of 1 / 2^1074); the infinities are numbers too, beyond   *)
(* all others; a float that is not a number (NaN) holds <<>>.  A string is *)
(* the sequence of its letters; an array, a map or a slice is the sequence *)
(* of its elements, a struct that of its fields; a pointer holds what it   *)
(* points to, if anything.                                                 *)
(*                                                                         *)
(* A definition whose name holds an underscore is a mutant: the definition *)
(* named before the underscore with one plausible mistake in it.           *)
(***************************************************************************)
EXTENDS Integers, SequencesExt

CONSTANTS Unit,         \* the parts of one that numbers are held in
          MaxExact,     \* float64 holds every integer up to it (2^53)
          MaxInt,       \* the largest int; the smallest is -MaxInt - 1
          NoInt,        \* what int(f) makes of a float64 that is no int: Go leaves
                        \* it to the build (amd64 makes the smallest int)
          Lower,        \* [letters -> their lower case]
          Language,     \* [regular expressions that compile -> what they match]
          TypeString,   \* [types -> their reflect.Type.String()]
          Elem,         \* [pointer types -> what they point to]
          Lookup,       \* [struct types -> [names -> an index path and a type]]
          Unexported    \* the fields <<struct type, index>> that are private

\* What the types of Go make of a value.
IsValue(v) ==
    /\ v.type = "int" => v.val \in Seq(Int) /\ Len(v.val) = 1
    /\ v.kind \in {"float32", "float64"} => v.val \in Seq(Int) /\ Len(v.val) <= 1
    /\ v.type \in {"string", "float32", "float64"} => v.kind = v.type
    /\ v.kind \in {"array", "map", "slice", "string"} => v.val \in Seq(Range(v.val))

\* The value of an empty interface.
Nil == [type |-> "nil", kind |-> "invalid", val |-> <<>>]

IsNaN(v) == v.kind \in {"float32", "float64"} /\ v.val = <<>>

IsNil(v) == v = Nil \/ (v.kind = "ptr" /\ v.val = <<>>)

\* An integer x as a float64: beyond MaxExact, and up to twice as far, only the
\* even ones have a float64, and x is rounded to the nearest of them, a tie to a
\* multiple of 4.  (The wider steps further out are not modelled.)
Rounded(h) ==
    LET x == h \div Unit
    IN  IF x \in -MaxExact .. MaxExact \/ x % 2 = 0 THEN h
        ELSE IF (x + 1) % 4 = 0 THEN h + Unit ELSE h - Unit

\* Values of the built-in types of integers ("int" stands for all) and float32,
\* whose numbers are all float64s, become float64; those of the other types, a
\* named type of numbers included, stay.
convertValue(v) ==
    CASE v.type = "int" ->
            [type |-> "float64", kind |-> "float64", val |-> <<Rounded(v.val[1])>>]
      [] v.type = "float32" -> [type |-> "float64", kind |-> "float64", val |-> v.val]
      [] OTHER -> v

-----------------------------------------------------------------------------
(* The evaluators.  The answer is "true", "false" or "panic". *)

Answer(b) == IF b THEN "true" ELSE "false"

Negated(answer) ==
    IF answer = "true" THEN "false" ELSE IF answer = "false" THEN "true" ELSE answer

StringTypes == {"regexp", "^=", "=$", "~="}
OrderTypes == {"<", "<=", ">", ">="}

\* Go's == on two interfaces: slices and maps cannot be compared, and NaN is not
\* even equal to itself.  (Structs and arrays that hold one of these, and two
\* pointers to different copies, are not told apart here.)
Equal(v, ref) ==
    IF v.type = ref.type /\ v.kind \in {"slice", "map"} THEN "panic"
    ELSE Answer(\/ v.type = ref.type /\ v.val = ref.val /\ ~IsNaN(v)
                \/ IsNil(v) /\ IsNil(ref))

EqualFold(v, ref) ==
    IF v.kind = "string" /\ ref.kind = "string"
    THEN Answer([k \in DOMAIN v.val |-> Lower[v.val[k]]]
                = [k \in DOMAIN ref.val |-> Lower[ref.val[k]]])
    ELSE Equal(v, ref)

Substring(s, t) == \E k \in 0 .. Len(s) - Len(t) : SubSeq(s, k + 1, k + Len(t)) = t

\* The types of rules that only match values of type string.
StringMatch(type, v, ref) ==
    Answer(/\ v.type = "string"
           /\ \/ type = "regexp" /\ v.val \in Language[ref.val]
              \/ type = "^=" /\ IsPrefix(ref.val, v.val)
              \/ type = "=$" /\ IsSuffix(ref.val, v.val)
              \/ type = "~=" /\ Substring(v.val, ref.val))

\* "At most" is "less than".
Holds_Strict(type, x, y) ==
    \/ type \in {"<", "<="} /\ x < y
    \/ type = ">" /\ x > y
    \/ type = ">=" /\ x >= y

Holds(type, x, y) ==
    \/ type = "<" /\ x < y
    \/ type = "<=" /\ x <= y
    \/ type = ">" /\ x > y
    \/ type = ">=" /\ x >= y

\* int(f) drops the fraction of what a float64 holds.
Truncated(val) ==
    LET x == IF val = <<>> THEN NoInt
             ELSE IF val[1] >= 0 THEN val[1] \div Unit ELSE -((-val[1]) \div Unit)
    IN  IF x \in -MaxInt - 1 .. MaxInt THEN x ELSE NoInt

\* Numbers are compared, and the lengths of what has one.  NaN is neither less nor
\* greater than a number, nor equal to it.
Order(type, v, ref) ==
    CASE v.kind = "float64" ->
            Answer(~IsNaN(v) /\ ~IsNaN(ref) /\ Holds(type, v.val[1], ref.val[1]))
      [] v.kind \in {"array", "map", "slice", "string"} ->
            Answer(Holds(type, Len(v.val), Truncated(ref.val)))
      [] OTHER -> "false"

\* getEvaluator: the evaluator of a rule, or NoEvaluator if it is invalid.
NoEvaluator == [not |-> FALSE, type |-> "none", ref |-> Nil]

Valid(rule) ==
    \/ rule.type \in {"==", "="}
    \/ /\ rule.type \in StringTypes
       /\ rule.value.type = "string"
       /\ rule.type = "regexp" => rule.value.val \in DOMAIN Language
    \/ rule.type \in OrderTypes /\ convertValue(rule.value).kind = "float64"

getEvaluator(rule) ==
    IF Valid(rule)
    THEN [not |-> rule.not, type |-> rule.type, ref |-> convertValue(rule.value)]
    ELSE NoEvaluator

\* Evaluate, of the evaluator of a type of rule.
BaseAnswer(type, v, ref) ==
    CASE type = "==" -> Equal(convertValue(v), ref)
      [] type = "=" -> EqualFold(convertValue(v), ref)
      [] type \in StringTypes -> StringMatch(type, v, ref)
      [] type \in OrderTypes -> Order(type, convertValue(v), ref)

Evaluate(e, v) ==
    LET answer == BaseAnswer(e.type, v, e.ref)
    IN  IF e.not THEN Negated(answer) ELSE answer

-----------------------------------------------------------------------------
(* The fields *)

Deref(t) == IF t \in DOMAIN Elem THEN Elem[t] ELSE t

\* getFieldPath: the indices that lead from an object of type t to the field
\* with these names, one after the other.
getFieldPath(t, names) ==
    LET After[k \in 0 .. Len(names)] ==
          IF k = 0 THEN [type |-> t, path |-> <<>>, err |-> "nil"]
          ELSE LET before == After[k - 1]
                   in == Deref(before.type)
               IN  IF before.err # "nil" THEN before
                   ELSE IF in \notin DOMAIN Lookup
                     THEN [before EXCEPT !.err = "not supported"]
                   ELSE IF names[k] \notin DOMAIN Lookup[in]
                     THEN [before EXCEPT !.err = "field not found"]
                   ELSE [type |-> Lookup[in][names[k]].type,
                         path |-> before.path \o Lookup[in][names[k]].index,
                         err |-> "nil"]
    IN  After[Len(names)]

\* reflect.Indirect: a nil pointer leads to no value.
Indirect(v) ==
    IF v.kind # "ptr" THEN v ELSE IF v.val = <<>> THEN Nil ELSE v.val[1]

\* The loop of GetFieldValue, and CanInterface.  Value.Field panics on what is
\* not a struct or has no such field.
Walk(obj, path) ==
    LET At[k \in 0 .. Len(path)] ==
          IF k = 0 THEN [value |-> obj, st |-> "ok"]
          ELSE LET before == At[k - 1]
                   v == Indirect(before.value)
               IN  IF before.st = "panic" THEN before
                   ELSE IF v.kind # "struct" \/ path[k] > Len(v.val)
                     THEN [before EXCEPT !.st = "panic"]
                   ELSE [value |-> v.val[path[k]],
                         st |-> IF <<v.type, path[k]>> \in Unexported THEN "error"
                                ELSE before.st]
    IN  At[Len(path)]
=============================================================================
