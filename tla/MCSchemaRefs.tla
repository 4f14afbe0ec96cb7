---------------------------- MODULE MCSchemaRefs ----------------------------
(* Three types that reference each other in any way, cycles included, the  *)
(* shapes of registry that make the loops differ: a type used in both      *)
(* directions, one reached only through another, one that is only          *)
(* parameters, one no endpoint reaches, and a name that ends in Input.     *)
(* For one registry, $refs of up to four symbols below "/x".               *)
EXTENDS Document, TLC

CONSTANTS A, B, C

TypeDef == {A, B, C}
NameDef == {"A", "AInput", "B", "C"}
WithInputDef == [n \in NameDef |-> n \o "Input"]

Lists == {<< >>, <<A>>, <<B>>, <<C>>, <<B, C>>, <<C, A>>, <<A, B>>}

Use1(t, d) == [type |-> t, dir |-> d]
Tables ==
  {[inbound |-> <<A>>, bodies |-> <<Use1(A, "request"), Use1(A, "response")>>, params |-> {}],
   [inbound |-> <<B, A>>, bodies |-> <<Use1(A, "request"), Use1(C, "response")>>, params |-> {B}],
   [inbound |-> <<C>>, bodies |-> <<Use1(A, "response")>>, params |-> {C}],
   [inbound |-> <<B, B>>, bodies |-> <<Use1(B, "request"), Use1(B, "request")>>, params |-> {}]}

Named(b, e) == [name |-> (A :> "A" @@ B :> b @@ C :> "C"), enums |-> e]

RegistriesDef ==
  {[order |-> <<A, B, C>>, refs |-> (A :> a @@ B :> b @@ C :> c), own |-> o, undecodable |-> u,
    inbound |-> t.inbound, bodies |-> t.bodies, params |-> t.params,
    name |-> n.name, enums |-> n.enums] :
     a \in Lists, b \in Lists, c \in Lists \ {<<C, A>>, <<A, B>>}, o \in {{}, {A}, {C}, {B, C}}, u \in {{}, {C}},
     t \in Tables, n \in {Named("B", {}), Named("AInput", {})}}

(* What "x" holds: keys with what a pointer escapes, an array, or both.    *)
Under(f) == [p \in {<< <<"x">> >> \o q : q \in DOMAIN f} |-> f[Tail(p)]]
Items(p, n) == [q \in {Append(p, Decimal(l)) : l \in 0 .. n - 1} |-> "scalar"]
ExtrasDef ==
  {Under(<< >> :> "object" @@ [p \in {<<k>> : k \in {<<"~">>, <<"/">>, <<"~", "1">>, <<"~", "0">>, << >>, <<"0", "1">>}} |->
                                IF p = << <<"~">> >> THEN "object" ELSE "scalar"] @@ << <<"~">>, <<"/">> >> :> "scalar"),
   Under(<< >> :> "array" @@ Items(<< >>, 11)),
   Under(<< >> :> "object" @@ << <<"1">> >> :> "array" @@ Items(<< <<"1">> >>, 1))}

Symbols == {"/", "~", "0", "1", "-", "%!", "%2F", "%7E"}
Tails == UNION {[1 .. n -> Symbols] : n \in 0 .. 4}
GivenDef(r) ==
  IF r.refs[A] = <<B, C>> /\ r.refs[B] = << >> /\ r.refs[C] = << >> /\ r.own = {C} /\ r.undecodable = {}
     /\ r.name[B] = "B" /\ r.inbound = <<A>>
  THEN {Ref(<<"/", "x">> \o t) : t \in Tails} \cup {Ref(t) : t \in {<< >>, <<"x">>, <<"/">>, <<"%2F", "x">>}} \cup
       {ComponentRef(n) : n \in {"A", "AInput", "B", "BInput"}} \cup {[kind |-> "number"], [kind |-> "elsewhere"]}
  ELSE {}
=============================================================================
