------------------------------- MODULE Filter -------------------------------
(***************************************************************************)
(* pkg/filter: one Processor and the successive calls of ApplySubset on    *)
(* it.  A call goes through the slice and the rules, one rule at a time,   *)
(* and moves the objects that match to the front of the same slice.  What  *)
(* lives longer than a rule is the evaluator, kept in the Rule, and what   *)
(* lives longer than a call is the cache of field paths of the Processor.  *)
(*                                                                         *)
(* The Processor is used by one goroutine at a time: nothing guards its    *)
(* cache.                                                                  *)
(*                                                                         *)
(* A definition whose name holds an underscore is a mutant: the definition *)
(* named before the underscore with one plausible mistake in it.           *)
(***************************************************************************)
EXTENDS FilterRules

CONSTANTS maxRules,     \* WithMaxRules
          maxResults,   \* WithMaxResults
          Slices,       \* the slices that are given to ApplySubset
          RuleSets,     \* the rules: sequences (AND) of sequences (OR) of rules
          Offsets,      \* the offsets and the lengths asked for
          Lengths,
          MaxCalls      \* bound of the model: number of calls

ASSUME FilterAssumption ==
    /\ maxRules \in Nat \ {0}
    /\ maxResults \in Nat \ {0}
    /\ Offsets \subseteq Nat
    /\ Lengths \subseteq Nat
    /\ \A s \in Slices : s \in Seq(Range(s))
    /\ \A rs \in RuleSets : /\ rs \in Seq(Range(rs))
                            /\ \A a \in DOMAIN rs : rs[a] \in Seq(Range(rs[a]))
    /\ MaxCalls \in Nat
    /\ Unit \in Nat \ {0}
    /\ MaxInt \in Nat
    /\ NoInt \in Int

\* The objects and the references are values, and an object has a type.
ASSUME ValuesAssumption ==
    /\ \A s \in Slices : \A k \in DOMAIN s :
          IsValue(s[k]) /\ (s[k] = Nil \/ s[k].type \in DOMAIN TypeString)
    /\ \A rs \in RuleSets : \A a \in DOMAIN rs : \A b \in DOMAIN rs[a] :
          IsValue(rs[a][b].value)

VARIABLES
    pc,                     \* "idle", or "loop" in filterSliceValue
    rules, offset, length,  \* the arguments of the call
    slice,                  \* the caller's slice
    i,                      \* the object that is being matched
    and, or,                \* the rule that comes next for it
    n, m, skip,             \* the counters of filterSliceValue
    eval,                   \* [positions of rules -> Rule.eval]
    cache,                  \* [<<type string, names>> -> the path of the field]
    ret,                    \* what the last call returned
    input,                  \* history: the slice as it was given
    calls                   \* history: number of calls

arguments == <<rules, offset, length, input, calls>>
position == <<i, and, or>>
counters == <<n, m, skip>>
vars == <<pc, arguments, slice, position, counters, eval, cache, ret>>

\* err is "nil", "error", or "panic" when a panic goes through the caller.
NoReturn == [n |-> 0, m |-> 0, err |-> "none"]

Init ==
    /\ pc = "idle"
    /\ rules = <<>> /\ offset = 0 /\ length = 0 /\ slice = <<>> /\ input = <<>>
    /\ i = 1 /\ and = 1 /\ or = 1
    /\ n = 0 /\ m = 0 /\ skip = 0
    /\ eval = <<>>
    /\ ret = NoReturn
    /\ cache = <<>>
    /\ calls = 0

-----------------------------------------------------------------------------

RulesCount(rs) == FoldSeq(LAMBDA set, sum : Len(set) + sum, 0, rs)

\* ApplySubset is called, with rules that have not been evaluated yet.
ApplySubset(rs, s, o, l) ==
    /\ pc = "idle"
    /\ ret = NoReturn
    /\ calls < MaxCalls
    /\ rules' = rs /\ offset' = o /\ length' = l /\ slice' = s /\ input' = s
    /\ i' = 1 /\ and' = 1 /\ or' = 1
    /\ n' = 0 /\ m' = 0 /\ skip' = o
    /\ eval' = [a \in DOMAIN rs |-> [b \in DOMAIN rs[a] |-> NoEvaluator]]
    /\ IF l < 1 \/ l > maxResults \/ RulesCount(rs) > maxRules
       THEN pc' = "idle" /\ ret' = [NoReturn EXCEPT !.err = "error"]
       ELSE pc' = "loop" /\ ret' = NoReturn
    /\ calls' = calls + 1
    /\ UNCHANGED cache

\* filterSliceValue is left in the middle.
Return(err) ==
    /\ pc' = "idle"
    /\ ret' = [NoReturn EXCEPT !.err = err]

\* The next object comes with the first rule.
NextObject ==
    /\ i' = i + 1
    /\ and' = 1
    /\ or' = 1

\* The rule is true, false, or ends the call.
Decide(answer) ==
    \/ /\ answer = "true"
       /\ and' = and + 1
       /\ or' = 1
       /\ UNCHANGED <<i, pc, ret>>
    \/ /\ answer = "false"
       /\ or' = or + 1
       /\ UNCHANGED <<i, and, pc, ret>>
    \/ /\ answer \in {"error", "panic"}
       /\ Return(answer)
       /\ UNCHANGED position

\* Rule.Evaluate: the evaluator is made the first time.
EvaluateValue(value) ==
    LET made == getEvaluator(rules[and][or])
        e == IF eval[and][or] = NoEvaluator THEN made ELSE eval[and][or]
    IN  /\ eval' = [eval EXCEPT ![and][or] = e]
        /\ Decide(IF e = NoEvaluator THEN "error" ELSE Evaluate(e, value))

\* The paths are cached by their names only.
Key_NamesOnly(t, names) == names

Key(t, names) == <<TypeString[t], names>>

\* The cache with one more path.
Cached(key, path) ==
    [k \in DOMAIN cache \cup {key} |-> IF k = key THEN path ELSE cache[k]]

\* No two types of the objects have the same string.
UniqueTypes ==
    \A t, u \in DOMAIN TypeString : TypeString[t] = TypeString[u] => t = u

\* GetFieldValue, and Rule.Evaluate on what it returns.  A missing field makes
\* the rule false.
EvaluateField(obj, names) ==
    LET key == Key(obj.type, names)
        found == IF key \in DOMAIN cache THEN [path |-> cache[key], err |-> "nil"]
                 ELSE getFieldPath(obj.type, names)
        field == Walk(obj, found.path)
    IN  \/ /\ found.err = "field not found"
           /\ Decide("false")
           /\ UNCHANGED <<eval, cache>>
        \/ /\ found.err = "not supported"
           /\ Decide("error")
           /\ UNCHANGED <<eval, cache>>
        \/ /\ found.err = "nil"
           /\ cache' = Cached(key, found.path)
           /\ IF field.st = "ok" THEN EvaluateValue(field.value)
              ELSE Decide(field.st) /\ UNCHANGED eval

\* evaluateRule: the next rule of an OR that is not true yet.
EvaluateRule ==
    /\ pc = "loop"
    /\ i <= Len(slice)
    /\ and <= Len(rules)
    /\ or <= Len(rules[and])
    /\ LET obj == slice[i]
           names == rules[and][or].field
       IN  \/ names = <<>> /\ EvaluateValue(obj) /\ UNCHANGED cache
           \/ names # <<>> /\ obj = Nil /\ Decide("error") /\ UNCHANGED <<eval, cache>>
           \/ names # <<>> /\ obj # Nil /\ EvaluateField(obj, names)
    /\ UNCHANGED <<arguments, slice, counters>>

\* No rule of an OR is true: the object does not match.
NoMatch ==
    /\ pc = "loop"
    /\ i <= Len(slice)
    /\ and <= Len(rules)
    /\ or > Len(rules[and])
    /\ NextObject
    /\ UNCHANGED <<pc, arguments, slice, counters, eval, cache, ret>>

\* The offset is counted down for every match.
Match_SkipAlways ==
    /\ pc = "loop"
    /\ i <= Len(slice)
    /\ and > Len(rules)
    /\ m' = m + 1
    /\ skip' = skip - 1
    /\ IF skip <= 0 /\ n < length
       THEN slice' = [slice EXCEPT ![n + 1] = slice[i]] /\ n' = n + 1
       ELSE UNCHANGED <<slice, n>>
    /\ NextObject
    /\ UNCHANGED <<pc, arguments, eval, cache, ret>>

\* The object is written one place too far.
Match_OffByOne ==
    /\ pc = "loop"
    /\ i <= Len(slice)
    /\ and > Len(rules)
    /\ m' = m + 1
    /\ IF skip > 0
       THEN skip' = skip - 1 /\ UNCHANGED <<slice, n>>
       ELSE /\ UNCHANGED skip
            /\ IF n < length /\ n + 2 <= Len(slice)
               THEN slice' = [slice EXCEPT ![n + 2] = slice[i]] /\ n' = n + 1
               ELSE UNCHANGED <<slice, n>>
    /\ NextObject
    /\ UNCHANGED <<pc, arguments, eval, cache, ret>>

\* All are true: the object matches, and is moved to the front.
Match ==
    /\ pc = "loop"
    /\ i <= Len(slice)
    /\ and > Len(rules)
    /\ m' = m + 1
    /\ IF skip > 0
       THEN skip' = skip - 1 /\ UNCHANGED <<slice, n>>
       ELSE /\ UNCHANGED skip
            /\ IF n < length
               THEN slice' = [slice EXCEPT ![n + 1] = slice[i]] /\ n' = n + 1
               ELSE UNCHANGED <<slice, n>>
    /\ NextObject
    /\ UNCHANGED <<pc, arguments, eval, cache, ret>>

\* The end of the slice: it is shortened, and the call returns.
Finish ==
    /\ pc = "loop"
    /\ i > Len(slice)
    /\ slice' = SubSeq(slice, 1, n)
    /\ pc' = "idle"
    /\ ret' = [n |-> n, m |-> m, err |-> "nil"]
    /\ UNCHANGED <<arguments, position, counters, eval, cache>>

\* The caller has used what the call returned.
Take ==
    /\ pc = "idle"
    /\ ret # NoReturn
    /\ rules' = <<>> /\ offset' = 0 /\ length' = 0 /\ slice' = <<>> /\ input' = <<>>
    /\ i' = 1 /\ and' = 1 /\ or' = 1
    /\ n' = 0 /\ m' = 0 /\ skip' = 0
    /\ eval' = <<>>
    /\ ret' = NoReturn
    /\ UNCHANGED <<pc, cache, calls>>

Next ==
    \/ \E rs \in RuleSets, s \in Slices, o \in Offsets, l \in Lengths :
          ApplySubset(rs, s, o, l)
    \/ EvaluateRule
    \/ NoMatch
    \/ Match
    \/ Finish
    \/ Take

Spec == Init /\ [][Next]_vars

-----------------------------------------------------------------------------
(* Properties *)

\* What the rule means for an object, from nothing.
RuleAnswer(rule, obj) ==
    IF rule.field # <<>> /\ obj = Nil THEN "error"
    ELSE LET found == IF rule.field = <<>> THEN [path |-> <<>>, err |-> "nil"]
                      ELSE getFieldPath(obj.type, rule.field)
             field == IF rule.field = <<>> THEN [value |-> obj, st |-> "ok"]
                      ELSE Walk(obj, found.path)
         IN  CASE found.err = "field not found" -> "false"
               [] found.err = "not supported" -> "error"
               [] OTHER -> IF field.st # "ok" THEN field.st
                           ELSE IF Valid(rule)
                             THEN Evaluate(getEvaluator(rule), field.value)
                             ELSE "error"

\* The answers of the rules of an OR (of an AND), in their order: the first one
\* that is not "false" (not "true") counts.
First(answers, neutral) ==
    IF \A k \in DOMAIN answers : answers[k] = neutral THEN neutral
    ELSE answers[CHOOSE k \in DOMAIN answers :
                    /\ answers[k] # neutral
                    /\ \A j \in 1 .. k - 1 : answers[j] = neutral]

Verdict(obj) ==
    First([a \in DOMAIN rules |->
              First([b \in DOMAIN rules[a] |-> RuleAnswer(rules[a][b], obj)], "false")],
          "true")

\* The objects of a prefix of the input that match; how many of them are kept,
\* and which: the p-th one is the one that matches as number offset + p.
Matching(k) == {j \in 1 .. k : Verdict(input[j]) = "true"}

KeptOf(count) == IF count <= offset THEN 0
                 ELSE IF count - offset <= length THEN count - offset ELSE length

Keeps(k) ==
    /\ n = KeptOf(Cardinality(Matching(k)))
    /\ \A p \in 1 .. n : \E j \in Matching(k) :
           slice[p] = input[j] /\ Cardinality(Matching(j)) = offset + p

Refused == length < 1 \/ length > maxResults \/ RulesCount(rules) > maxRules

\* Every variable keeps its type.
TypeOK ==
    /\ pc \in {"idle", "loop"}
    /\ i \in 1 .. Len(input) + 1
    /\ and \in 1 .. Len(rules) + 1
    /\ and <= Len(rules) => or \in 1 .. Len(rules[and]) + 1
    /\ n \in 0 .. Len(input)
    /\ m \in 0 .. Len(input)
    /\ skip \in 0 .. offset
    /\ \A a \in DOMAIN eval : \A b \in DOMAIN eval[a] :
          eval[a][b] \in {NoEvaluator, getEvaluator(rules[a][b])}
    /\ ret.err \in {"none", "nil", "error", "panic"}
    /\ calls \in 0 .. MaxCalls

\* A call answers by its arguments only, whatever was cached by the calls and
\* the rules before: it fails at the first object whose rules fail, or else
\* keeps, in their order, the matching objects between the offset and the
\* length, and counts all of them.  A call that fails has moved to the front
\* what it would have kept of the objects before.
ReturnsReference ==
    pc = "idle" /\ ret # NoReturn =>
       IF Refused THEN ret.err = "error" /\ slice = input
       ELSE IF \E k \in DOMAIN input : Verdict(input[k]) \in {"error", "panic"}
         THEN /\ ret.err = Verdict(input[i])
              /\ \A j \in 1 .. i - 1 : Verdict(input[j]) \in {"true", "false"}
              /\ Keeps(i - 1)
         ELSE /\ ret = [n |-> Len(slice), m |-> Cardinality(Matching(Len(input))),
                        err |-> "nil"]
              /\ n = Len(slice) /\ Keeps(Len(input))

\* "In place": no write overtakes the reading.  The objects that are still to be
\* read, and, when the call fails, all those behind the kept ones, are where
\* they were.
ReadsWhatWasGiven ==
    pc = "loop" \/ ret.err \in {"error", "panic"} =>
       /\ Len(slice) = Len(input)
       /\ n < i
       /\ \A k \in n + 1 .. Len(slice) : slice[k] = input[k]

\* The types of rules agree with each other on a value and a reference.  Less than
\* excludes at least.  Of two numbers, one is less than the other or they are
\* equal, and they are equal when each is at most the other; with NaN on either
\* side none of these rules holds (so that a rule is not the negation of its
\* opposite).  What is exactly equal is equal; what begins or ends with the
\* reference contains it, and what contains it and is as long begins and ends
\* with it.
TypesAgree(v, ref) ==
    LET yes(type) ==
          LET rule == [not |-> FALSE, type |-> type, value |-> ref]
          IN  Valid(rule) /\ Evaluate(getEvaluator(rule), v) = "true"
        floats == convertValue(v).type = "float64" /\ convertValue(ref).type = "float64"
        ordered == ~IsNaN(v) /\ ~IsNaN(ref)
    IN  /\ yes("<") => yes("<=") /\ ~yes(">=")
        /\ yes(">") => yes(">=") /\ ~yes("<=")
        /\ floats => (yes("<=") /\ yes(">=")) = yes("==")
        /\ floats /\ ordered => yes("<") \/ yes("==") \/ yes(">")
        /\ floats /\ ~ordered =>
              \A type \in OrderTypes \cup {"==", "="} : ~yes(type)
        /\ yes("==") => yes("=")
        /\ yes("^=") \/ yes("=$") => yes("~=")
        /\ yes("~=") /\ yes("=") => yes("^=") /\ yes("=$")

\* The evaluators agree with each other on what a value is: the consequences that
\* TypesAgree lists, for each rule on the whole object, whatever its own type.
RuleTypesAgree ==
    pc = "loop" /\ i <= Len(slice) /\ and <= Len(rules) =>
       \A b \in DOMAIN rules[and] :
          rules[and][b].field = <<>> => TypesAgree(slice[i], rules[and][b].value)

\* GetFieldValue "returns the value of obj's field, specified by its dot
\* separated path": the path in the cache is the one of obj's own type.  It does
\* not hold when two types have the same string.
FieldOfItsOwnType ==
    pc = "loop" /\ i <= Len(slice) /\ and <= Len(rules) =>
       \A b \in DOMAIN rules[and] :
          LET t == slice[i].type
              key == Key(t, rules[and][b].field)
          IN  t \in DOMAIN TypeString /\ key \in DOMAIN cache =>
                 cache[key] = getFieldPath(t, rules[and][b].field).path
=============================================================================
