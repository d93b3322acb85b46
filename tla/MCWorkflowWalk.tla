--------------------------- MODULE MCWorkflowWalk ---------------------------
(***************************************************************************)
(* Workflows of two steps that may share an id or have none, and workflows *)
(* of three distinctly named steps, with references to each step, to no    *)
(* step and (on the false branch) to an unknown one, on a payload that     *)
(* their condition holds of and one that it does not hold of.  Then one    *)
(* condition step for every expression, on every value of its field.       *)
(***************************************************************************)
EXTENDS WorkflowWalk

If(field, op, lit) == [path |-> field, op |-> op, lit |-> lit]
IsGold == If(<<"user", "tier">>, <<"=", "=">>, Quoted(<<"gold">>))

Blank(id, type) == [id |-> id, type |-> type, next |-> Unset,
                    cond |-> IsGold, onTrue |-> Unset, onFalse |-> Unset]

StepsNamed(ids, targets, falseTargets) ==
  UNION {{[Blank(id, type) EXCEPT !.next = t] :
            type \in {"channel", "delay"}, t \in targets}
         \cup {[Blank(id, "condition") EXCEPT !.onTrue = t, !.onFalse = f] :
                 t \in targets, f \in falseTargets}
         \cup {Blank(id, "other")} : id \in ids}

TwoSteps ==
  {<<s, t>> : s \in StepsNamed({"", "a"}, {"", "a", "b"}, {"", "a"}),
              t \in StepsNamed({"a", "b"}, {"", "a", "b"}, {"", "a"})}

ThreeSteps ==
  LET named(id) == StepsNamed({id}, {"", "a", "b", "c"}, {"x", "a"})
  IN  {<<s, t, u>> : s \in named("a"), t \in named("b"), u \in named("c")}

Tier(value) == [f \in {"user"} |-> Object([g \in {"tier"} |-> value])]
NoFields == [f \in {} |-> Nil]

Walks == [steps : {<< >>} \cup TwoSteps \cup ThreeSteps,
          payload : {NoFields, Tier(Str(<<"gold">>))}, start : {0, 1, 3}]

-----------------------------------------------------------------------------
Words == {<< >>, <<"0">>, <<"9">>, <<"10">>, <<"nan">>, <<"true">>, <<"gold">>,
          <<"age", "=", "=", "user">>, <<"age", "!", "=", "user">>, <<"age", ">", "user">>}
Literals == Words \cup {Quoted(w) : w \in Words}

Values == {Str(w) : w \in Words} \cup {Number(n) : n \in {0, 9, 10}}
          \cup {Boolean(b) : b \in BOOLEAN} \cup {Object(NoFields)}

Questions ==
  [path : {<<"user", "tier">>}, op : {Operators[o] : o \in DOMAIN Operators}, lit : Literals]
  \cup [path : {<<"user", "tier">>, << >>}, op : {<< >>}, lit : {<< >>}]

Evaluations ==
  [steps : {<<[Blank("a", "condition") EXCEPT !.cond = q, !.onTrue = "x"],
              Blank("b", "channel")>> : q \in Questions},
   payload : {NoFields} \cup {Tier(v) : v \in Values}, start : {0}]

MCCalls == Walks \cup Evaluations
=============================================================================
