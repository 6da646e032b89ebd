------------------------------ MODULE MCFilter ------------------------------
(***************************************************************************)
(* A small instance of Filter for TLC: slices of structs, of strings, of   *)
(* numbers and of interfaces, and rules on their fields and on themselves. *)
(***************************************************************************)
EXTENDS Filter

\* The smallest int, as on amd64.
MCNoInt == -9

\* Values, by their type.
Number(x) == [type |-> "int", kind |-> "int", val |-> <<2 * x>>]
Halves(h) == [type |-> "float64", kind |-> "float64", val |-> <<h>>]
Float32(h) == [type |-> "float32", kind |-> "float32", val |-> <<h>>]
NaN == [type |-> "float64", kind |-> "float64", val |-> <<>>]
\* A float64 that no int holds, as an infinity.
Huge == Halves(40)
Str(s) == [type |-> "string", kind |-> "string", val |-> s]
Name(s) == [type |-> "Name", kind |-> "string", val |-> s]
List(s) == [type |-> "[]interface {}", kind |-> "slice", val |-> s]
Address(country) == [type |-> "Address", kind |-> "struct", val |-> <<Str(country)>>]
Home(at) == [type |-> "*Address", kind |-> "ptr", val |-> at]
User(name, age, home) ==
    [type |-> "User", kind |-> "struct", val |-> <<Str(name), Number(age), home, Number(0)>>]
\* Another type, with its fields in another order.
Person(age, name) ==
    [type |-> "Person", kind |-> "struct", val |-> <<Number(age), Str(name)>>]

a == <<"a">>
A == <<"A">>
ab == <<"a", "b">>

MCLower == [l \in {"a", "A", "b"} |-> IF l = "A" THEN "a" ELSE l]
\* "a" as a regular expression matches what holds an a; "ab" does not compile.
MCLanguage == (a :> {a, ab}) @@ (A :> {A})

ObjectTypes == {"int", "float32", "float64", "string", "Name", "[]interface {}", "User",
                "Person", "*Address"}

\* Every type has a name of its own ...
UniqueStrings == [t \in ObjectTypes |-> t]
\* ... or two packages of the same name each have a type of the same name.
SameStrings == [UniqueStrings EXCEPT !["Person"] = "User"]

MCElem == "*Address" :> "Address"
MCLookup ==
    ("User" :> ("name" :> [index |-> <<1>>, type |-> "string"]
             @@ "age" :> [index |-> <<2>>, type |-> "int"]
             @@ "home" :> [index |-> <<3>>, type |-> "*Address"]
             @@ "secret" :> [index |-> <<4>>, type |-> "int"]))
    @@ ("Person" :> ("age" :> [index |-> <<1>>, type |-> "int"]
                  @@ "name" :> [index |-> <<2>>, type |-> "string"]))
    @@ ("Address" :> ("country" :> [index |-> <<1>>, type |-> "string"]))
MCUnexported == {<<"User", 4>>}

nowhere == User(a, 1, Home(<<>>))
there == User(A, 2, Home(<<Address(a)>>))
other == User(ab, 1, Home(<<Address(A)>>))
person == Person(1, a)

MCSlices ==
    {<<>>, <<other, there, other>>, <<other, nowhere>>,
     <<there, person>>, <<person, other>>,
     <<Str(A), Str(ab)>>, <<Str(ab), Str(ab), Str(a)>>, <<Name(a), Str(a)>>,
     <<Number(5), NaN, Float32(3)>>, <<Halves(-40), Huge, Number(4)>>,
     <<there, Nil>>, <<Home(<<>>)>>, <<Number(1), there>>,
     <<List(<<Nil>>), List(<<>>)>>}

Rule(field, type, value) == [field |-> field, not |-> FALSE, type |-> type, value |-> value]
Not(rule) == [rule EXCEPT !.not = TRUE]

OnFields == {
    Rule(<<"name">>, "==", Str(a)),
    Not(Rule(<<"name">>, "regexp", Str(a))),
    Rule(<<"age">>, "<", Halves(3)),
    Rule(<<"home", "country">>, "=", Str(A)),
    Rule(<<"nickname">>, "==", Str(a)),
    Not(Rule(<<"nickname">>, "==", Str(a))),
    Rule(<<"secret">>, "==", Halves(0)),
    Rule(<<"name", "first">>, "==", Str(a))}

OnObjects == {
    Rule(<<>>, "<=", Number(4)),
    Rule(<<>>, "<=", Halves(3)),
    Rule(<<>>, ">=", Float32(3)),
    Not(Rule(<<>>, "<", NaN)),
    Rule(<<>>, "==", NaN),
    Rule(<<>>, "<", Huge),
    Not(Rule(<<>>, "~=", Str(a))),
    Rule(<<>>, "regexp", Str(A)),
    Rule(<<>>, "regexp", Str(ab)),
    Rule(<<>>, "like", Str(a)),
    Rule(<<>>, "==", Nil),
    Rule(<<>>, "==", List(<<>>))}

Simple == {Rule(<<"name">>, "==", Str(a)), Rule(<<"age">>, "<", Halves(3)),
           Rule(<<"home", "country">>, "=", Str(A))}

MCRuleSets ==
    {<<<<r>>>> : r \in OnFields \cup OnObjects}
    \cup {<<<<r, s>>>> : r, s \in Simple}
    \cup {<<<<r>>, <<s>>>> : r, s \in Simple}
    \cup {<<>>, <<<<>>>>}
    \cup {<<<<r, r, r>>>> : r \in {Rule(<<>>, "==", Nil)}}
=============================================================================
