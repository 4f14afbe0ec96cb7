-------------------------------- MODULE Enums --------------------------------
(***************************************************************************)
(* The members of a registered enum (discoverEnums, ast_engine.go), beside *)
(* what encoding/json writes for its values.  An enum is the kind of its   *)
(* underlying type, whether the registry gave it a Wire, the codec of the  *)
(* type, the constants of its package with their values, which values are  *)
(* negative, and the text Wire and MarshalText give each (Fails for none). *)
(* The order of the members is layout, but for what repeats.               *)
(***************************************************************************)
Fails == "fails"
Number == "number"   \* an integer as encoding/json writes it
Opaque == "opaque"   \* whatever MarshalJSON writes

(* checkEnumKind.  Mutant: the codec of the type is not looked at. *)
EnumKindFitsAnyCodec(e) ==
  \/ e.base = "string" /\ ~e.wire
  \/ e.base = "int" /\ e.wire

EnumKindFits(e) ==
  \/ e.base = "string" /\ ~e.wire /\ e.codec = "plain"
  \/ e.base = "int" /\ e.wire /\ e.codec = "text"

(* typedConsts; a repeated value counts once. *)
ConstValues(e) == {c.value : c \in {d \in e.consts : d.exact}}

(* wireName: the name of a constant, and whether it is a member. *)
WireName(e, v) == IF e.wire THEN e.text[v] ELSE v
IsMember(e, v) == e.wire => e.text[v] # Fails

(* Mutant: two values encoding alike are one member. *)
AnyNames(e) == e.wire => ConstValues(e) \cap e.negative = {}

(* memberNames: what it refuses, and what it names. *)
NamesDiffer(e) ==
  /\ e.wire => ConstValues(e) \cap e.negative = {}
  /\ \A v, w \in ConstValues(e) :
       IsMember(e, v) /\ IsMember(e, w) /\ WireName(e, v) = WireName(e, w) => v = w

EnumMembers(e) == {WireName(e, v) : v \in {w \in ConstValues(e) : IsMember(e, w)}}

EnumFits(e) == EnumKindFits(e) /\ NamesDiffer(e) /\ EnumMembers(e) # {}

-----------------------------------------------------------------------------
(* encoding/json: what a value of the type may be on the wire, nothing     *)
(* where MarshalText fails.  A pointer-receiver MarshalText is called for  *)
(* an addressable value only.                                              *)
Plainly(e, v) == IF e.base = "string" THEN v ELSE Number
Encoded(e, v) ==
  CASE e.codec = "plain" -> {Plainly(e, v)}
    [] e.codec = "text" -> {e.text[v]} \ {Fails}
    [] e.codec = "ptrText" -> {Plainly(e, v), e.text[v]} \ {Fails}
    [] OTHER -> {Opaque}
=============================================================================
