--------------------------- MODULE MCArbitraries ---------------------------
(* Three types that tie to each other: by value, by pointer, by an optional *)
(* or a required collection, with a Count or without; and unions of two     *)
(* cases.  Go admits no type that holds itself by value, and one that       *)
(* cannot do without itself has no value to draw.  Besides, one type with   *)
(* one field of each kind, of each declaration of the bound methods.        *)
EXTENDS Arbitraries

CONSTANTS T1, T2, T3, LowerCounts

Undeclared == [m \in {"Range", "MaxBytes", "Pattern", "Count"} |-> NoMethod]

(* -16 .. 15 stands for int64.  A Range past what JavaScript counts to at   *)
(* both ends, for which fc.integer has no values, is left out.              *)
RangeEnds == {-16, -9, -8, -7, -1, 0, 1, 7, 8, 9, 15}
Bytes == <<NoMethod, Unreadable, <<-1>>, <<0>>, <<1>>, <<2>>, <<MaxInt32 + 1>>>>
Patterns == <<NoMethod, Unreadable, <<"">>, <<"bad">>, <<"p">>>>

(* Types are named by what they declare. *)
Plain == <<"Text", 1, 1>>
Count(lo, hi) == <<"Count", lo, hi>>
Numbers == {<<"Range", lo, hi>> : lo \in {x \in RangeEnds : x <= 7}, hi \in {x \in RangeEnds : x >= -7}}
Strings == {<<"Text", n, p>> : n \in DOMAIN Bytes, p \in DOMAIN Patterns}
Slices == {Count(lo, hi) : lo \in -1 .. 2, hi \in {0, 1, 2, MaxInt32, MaxInt32 + 1}}
Others == {<<"Mixed", n, 0>> : n \in DOMAIN Bytes}
Declared == Numbers \cup Strings \cup Slices \cup Others
NamedDef == Declared \cup {Count(lo, hi) : lo \in {0, 1, 3}, hi \in {1, 3}}
MethodsDef ==
  [n \in NamedDef |->
     CASE n[1] = "Range" -> [Undeclared EXCEPT !.Range = <<n[2], n[3]>>]
       [] n[1] = "Text" -> [Undeclared EXCEPT !.MaxBytes = Bytes[n[2]], !.Pattern = Patterns[n[3]]]
       [] n[1] = "Count" -> [Undeclared EXCEPT !.Count = <<n[2], n[3]>>]
       [] OTHER -> [Undeclared EXCEPT !.Range = <<0, 0>>, !.MaxBytes = Bytes[n[2]]]]

Texts == {[chars |-> c, bytes |-> c + w, matches |-> x] : c \in 0 .. 2, w \in {0}, x \in BOOLEAN}
         \cup {[chars |-> c, bytes |-> 2 * c, matches |-> x] : c \in 1 .. 2, x \in BOOLEAN}
ValuesDef == [k \in {"int", "uint", "string", "bool", "slice", "map"} |->
                CASE k = "int" -> -16 .. 15 [] k = "uint" -> -16 .. 15 [] k = "string" -> Texts
                  [] k = "bool" -> BOOLEAN [] OTHER -> 0 .. 5]

Value(r, o) == [ref |-> r, kind |-> "struct", optional |-> o, named |-> Plain]
Slice(r, o, n) == [ref |-> r, kind |-> "slice", optional |-> o, named |-> n]
Map(r) == [ref |-> r, kind |-> "map", optional |-> FALSE, named |-> Plain]

(* A lower bound on a collection that may lead back is for the run that    *)
(* shows what becomes of it.                                               *)
Lower == IF LowerCounts THEN {Count(1, 3)} ELSE {}

FieldsTo(r) ==
  {Value(r, o) : o \in BOOLEAN} \cup {Map(r)} \cup
  {Slice(r, FALSE, n) : n \in {Count(0, 3)} \cup Lower} \cup {Slice(r, TRUE, Count(1, 1))}

Counted == {Slice(None, FALSE, Count(lo, hi)) : lo \in 0 .. 1, hi \in {1, 3}} \cup {Slice(None, FALSE, Count(3, 3))}

Sets(R) == LET S == UNION {FieldsTo(r) : r \in R} IN {{}} \cup {{f} : f \in S}
Pairs == {a \cup b : a \in Sets({T1}), b \in Sets({T2})}

(* What a value of a type cannot be without: every type has values. *)
Needs(c, t) ==
  UNION {{f.ref : f \in {g \in c[t][k] : ~g.optional /\ (g.kind = "struct" \/ (g.named[1] = "Count" /\ g.named[2] >= 1))}} : k \in DOMAIN c[t]}
HasValues(c) ==
  \A S \in SUBSET Types \ {{}} : \E t \in S : Needs(c, t) \cap S = {}

Tied ==
  {c \in {[t \in {T1, T2, T3} |-> CASE t = T1 -> k1 [] t = T2 -> k2 [] OTHER -> k3] :
            k1 \in {<<s>> : s \in Pairs} \cup {<<s, {f}>> : s \in Sets({T1}), f \in FieldsTo(T2)},
            k2 \in {<<{f}>> : f \in FieldsTo(T1) \cup FieldsTo(T3)},
            k3 \in {<<s>> : s \in Sets({T1})} \cup {<<Counted>>}} : HasValues(c)}
OfOneField ==
  {[t \in {T1, T2, T3} |-> IF t = T1 THEN <<{[ref |-> None, kind |-> k, optional |-> o, named |-> n]}>> ELSE <<{}>>] :
     k \in DOMAIN ValuesDef, o \in BOOLEAN, n \in Declared}
RegistriesDef == Tied \cup OfOneField
=============================================================================
