---------------------------- MODULE Conditions -----------------------------
(***************************************************************************)
(* domains/workflows/engine/condition.go: the expression of a condition    *)
(* step, evaluated on the payload of the event.                            *)
(*                                                                         *)
(* A text is a sequence of tokens: the characters that operators and       *)
(* quotes are made of, and words that stand for the rest.  No token is a   *)
(* prefix of another, so texts are ordered as Go orders strings, token by  *)
(* token.  A path is written without its dots.                             *)
(***************************************************************************)
EXTENDS Integers, SequencesExt

\* In the order of their first bytes.
Tokens == <<"!", "'", "0", "10", "9", "<", "=", ">", "age", "false", "gold", "map", "nan",
            "tier", "true", "user">>
Alphabet == {Tokens[k] : k \in DOMAIN Tokens}

Quote == "'"
Quoted(text) == <<Quote>> \o text \o <<Quote>>

\* What strconv.ParseFloat accepts; NaN compares with nothing.
NaN == -1
Numerals == [t \in {"0", "9", "10", "nan"} |->
               CASE t = "0" -> 0 [] t = "9" -> 9 [] t = "10" -> 10 [] t = "nan" -> NaN]

\* The values of a decoded JSON document.
Nil == [type |-> "nil"]
Str(t) == [type |-> "string", is |-> t]
Number(n) == [type |-> "number", is |-> n]
Boolean(b) == [type |-> "bool", is |-> b]
Object(fields) == [type |-> "object", is |-> fields]

IsValue(value) ==
  CASE value.type = "nil"    -> TRUE
    [] value.type = "string" -> value.is \in Seq(Alphabet)
    [] value.type = "number" -> \E t \in DOMAIN Numerals : value.is = Numerals[t]
    [] value.type = "bool"   -> value.is \in BOOLEAN
    [] OTHER                 -> value.type = "object"

-----------------------------------------------------------------------------
\* Two-character operators are looked for before one-character ones, anywhere
\* in the text.
TwoCharacters == << <<"=", "=">>, <<"!", "=">>, <<">", "=">>, <<"<", "=">> >>
OneCharacter == << <<">">>, <<"<">> >>

\* Mutant of Operators: one-character operators first.
OperatorsShortFirst == OneCharacter \o TwoCharacters

Operators == TwoCharacters \o OneCharacter

\* Where op occurs in the text.
Places(text, op) == {k \in DOMAIN text : IsPrefix(op, SubSeq(text, k, Len(text)))}

SplitExpr(text) ==
  LET found == {o \in DOMAIN Operators : Places(text, Operators[o]) # {}}
      op == Operators[Min(found)]
      at == Min(Places(text, op))
  IN  IF found = {} THEN [op |-> << >>, path |-> text, lit |-> << >>]
      ELSE [op |-> op, path |-> SubSeq(text, 1, at - 1),
            lit |-> SubSeq(text, at + Len(op), Len(text))]

LookupPath(payload, path) ==
  LET field(value, name) ==
        IF value.type = "object" /\ name \in DOMAIN value.is THEN value.is[name] ELSE Nil
  IN  IF path = << >> THEN Nil ELSE FoldLeft(field, Object(payload), path)

-----------------------------------------------------------------------------
ParseNumber(text) ==
  {Numerals[t] : t \in {u \in DOMAIN Numerals : text = <<u>>}}

\* The number that a value or a text is, if any: a set of at most one.
ToNumber(value) ==
  CASE value.type = "number" -> {value.is}
    [] value.type = "string" -> ParseNumber(value.is)
    [] OTHER                 -> {}

AsString(value) ==
  CASE value.type = "nil"    -> << >>
    [] value.type = "string" -> value.is
    [] value.type = "number" -> CHOOSE t \in {<<u>> : u \in DOMAIN Numerals} :
                                  ParseNumber(t) = {value.is}
    [] value.type = "bool"   -> IF value.is THEN <<"true">> ELSE <<"false">>
    [] OTHER                 -> <<"map">>

Unquote(lit) ==
  IF Len(lit) >= 2 /\ Head(lit) = Quote /\ Last(lit) = Quote
  THEN SubSeq(lit, 2, Len(lit) - 1) ELSE lit

Truthy(value) ==
  CASE value.type = "nil"    -> FALSE
    [] value.type = "bool"   -> value.is
    [] value.type = "string" -> value.is # << >>
    [] value.type = "number" -> value.is # 0
    [] OTHER                 -> TRUE

Rank(token) == CHOOSE r \in DOMAIN Tokens : Tokens[r] = token

Before(s, t) ==
  \E n \in 0 .. Len(s) :
    /\ n < Len(t) /\ SubSeq(s, 1, n) = SubSeq(t, 1, n)
    /\ n = Len(s) \/ Rank(s[n + 1]) < Rank(t[n + 1])

\* The six operators, given what "less", "equal" and "greater" are.
Apply(op, less, equal, greater) ==
  CASE op = <<"=", "=">> -> equal
    [] op = <<"!", "=">> -> ~equal
    [] op = <<">">>      -> greater
    [] op = <<"<">>      -> less
    [] op = <<">", "=">> -> greater \/ equal
    [] op = <<"<", "=">> -> less \/ equal

\* By number when both sides are numbers, by text otherwise.  (Booleans, which
\* the code compares apart, are equal exactly when their texts are.)
Compare(value, op, lit) ==
  LET s == AsString(value)  t == Unquote(lit)
      byNumber(m, n) == IF NaN \in {m, n} THEN Apply(op, FALSE, FALSE, FALSE)
                        ELSE Apply(op, m < n, m = n, m > n)
  IN  IF ToNumber(value) # {} /\ ParseNumber(lit) # {}
      THEN \E m \in ToNumber(value), n \in ParseNumber(lit) : byNumber(m, n)
      ELSE Apply(op, Before(s, t), s = t, Before(t, s))

\* An empty expression is an error, which the engine takes for false.
EvalCondition(text, payload) ==
  LET e == SplitExpr(text)  value == LookupPath(payload, e.path)
  IN  /\ text # << >>
      /\ IF e.op = << >> THEN Truthy(value) ELSE Compare(value, e.op, e.lit)
=============================================================================
