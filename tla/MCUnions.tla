------------------------------ MODULE MCUnions ------------------------------
(* A tag beside two fields of shapes whose presence differs, every set of   *)
(* cases of two values, and a list of names per case that may be wrong; for *)
(* one pair of fields, every enum of up to three constants.                 *)
EXTENDS Unions

Shape(k, p, e, z, v, t) ==
  [kind |-> k, ptrs |-> p, omitEmpty |-> e, omitZero |-> z, viaEmbedPtr |-> v, minItems |-> 0, text |-> t]

Const(v) == [exact |-> TRUE, value |-> v]
Consts == {{}, {Const("a")}, {Const("a"), Const("b")}, {Const("a"), Const("b"), Const("odd")},
           {Const("a"), Const("b"), [exact |-> FALSE, value |-> "odd"]}}
Texts == {[v \in {"a", "b", "odd"} |-> IF v = "odd" THEN o ELSE IF v = "b" THEN b ELSE "a"] :
            b \in {"a", "b", Fails}, o \in {"b", Fails}}
DeclaredEnums == [base : {"string", "int", "bool"}, wire : BOOLEAN, codec : {"plain", "text", "ptrText", "json"},
                  consts : Consts, negative : {{}, {"odd"}}, text : Texts]

Letters == [base |-> "string", wire |-> FALSE, codec |-> "plain", consts |-> {Const("a"), Const("b")},
            negative |-> {}, text |-> [v \in {"a", "b", "odd"} |-> Fails]]

EnumTag(e) ==
  [kind |-> "scalar", ptrs |-> 0, omitEmpty |-> FALSE, omitZero |-> FALSE, viaEmbedPtr |-> FALSE, minItems |-> 0,
   text |-> "enum", enum |-> e]

Tags == {Shape("scalar", 0, FALSE, FALSE, FALSE, "string"), EnumTag(Letters),
         Shape("scalar", 0, TRUE, FALSE, FALSE, "string"), Shape("scalar", 0, FALSE, FALSE, FALSE, "none")}

Shapes ==
  {Shape(k, 0, e, FALSE, v, "none") : k \in {"scalar", "slice"}, e \in BOOLEAN, v \in BOOLEAN} \cup
  {Shape("struct", 0, TRUE, FALSE, FALSE, "none"), Shape("struct", 0, FALSE, TRUE, FALSE, "none"),
   Shape("scalar", 1, FALSE, FALSE, FALSE, "none"), Shape("scalar", 2, TRUE, FALSE, FALSE, "none"),
   Shape("raw", 0, FALSE, FALSE, FALSE, "none"),
   [Shape("slice", 0, FALSE, FALSE, FALSE, "none") EXCEPT !.minItems = 1]}

StructsDef ==
  {[n \in {"tag", "x", "y"} |-> CASE n = "tag" -> t [] n = "x" -> x [] OTHER -> y] :
     t \in Tags, x \in Shapes, y \in Shapes} \cup
  {[n \in {"tag", "x", "y"} |-> IF n = "tag" THEN EnumTag(e) ELSE Shape("scalar", 0, TRUE, FALSE, FALSE, "none")] :
     e \in DeclaredEnums}

Lists == {<< >>, <<"x">>, <<"y">>, <<"x", "y">>, <<"x", "x">>, <<"tag">>, <<"z">>}
Cases == UNION {[V -> Lists] : V \in SUBSET {"a", "b"}} \cup {[v \in {"odd"} |-> <<"x", "y">>]}
Declared == {[tag |-> "tag", cases |-> c] : c \in Cases}
Sound == [tag |-> "tag", cases |-> [v \in {"a", "b"} |-> <<"x", "y">>]]

DeclsDef == {<<d>> : d \in Declared} \cup {<<Sound, Sound>>, <<[tag |-> "none", cases |-> Sound.cases], Sound>>}
=============================================================================
