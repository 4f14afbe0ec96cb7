------------------------------ MODULE Presence ------------------------------
(***************************************************************************)
(* One member of a struct, from its Go type to the wire.  The generator    *)
(* plans its field; the server marshals a Go value, the generated decoder  *)
(* reads it, the client sends what it read back, or any request the        *)
(* OpenAPI document admits, and the server unmarshals it; a property test  *)
(* decodes a draw of the field's arbitrary.  The renderings are those      *)
(* of reqDecode, elemDecode and emitOptionalField (emitters.go),           *)
(* objectSchema and below (openapi.go), emitInterfaceField, and            *)
(* arbFieldExpr.                                                           *)
(*                                                                         *)
(* A scalar and a struct have two values, zero and another; what a struct  *)
(* holds is its own fields' matter.  JSON is null, a scalar, a struct's    *)
(* object, an array, or an object of a map, whose keys are left out.       *)
(***************************************************************************)
EXTENDS PresenceRules, Fields

CONSTANTS
  Members,  \* the members to plan: a type, the tag's options, viaEmbedPtr
  MaxItems  \* the upper bound of every Count, and of every collection

VARIABLES
  member,    \* the member
  plan,      \* what resolveNamedField makes of it
  field,     \* the part of the plan the rules of presence read
  phase,     \* who moves next: "generator", "server", "client", "sender", "receiver", or "done", "refused"
  origin,    \* where the value on the wire is from: "server", "client", "test"
  sent,      \* the Go value the server marshalled
  wire,      \* the JSON at the field's key, or Absent
  client,    \* what the decoder returned for the field
  received   \* the Go value unmarshalled from a request

vars == <<member, plan, field, phase, origin, sent, wire, client, received>>

Absent == [js |-> "absent"]
Throw == [js |-> "throw"]
Null == [js |-> "null"]
Scalar(x) == [js |-> "scalar", val |-> x]
Object(x) == [js |-> "object", val |-> x]
Items(f, s) == [js |-> IF f.kind = "slice" THEN "array" ELSE "dict", items |-> s]

IsCollection(f) == f.kind \in {"slice", "map"}
Lists(S, lo) == UNION {[1 .. n -> S] : n \in lo .. MaxItems}

-----------------------------------------------------------------------------
(* encoding/json.  A Go value is one of GoStates with what it holds: the   *)
(* elements of a collection, or a json.RawMessage's text.                  *)
Nil == [state |-> "nil", holds |-> << >>]
State(s) == [state |-> s, holds |-> << >>]
Held(h) == [state |-> IF h = << >> THEN "zero" ELSE "some", holds |-> h]

At(d, x) == [depth |-> d, state |-> x.state, holds |-> x.holds]

RECURSIVE GoValues(_)
GoValues(f) ==
  LET below == CASE IsCollection(f) -> {Nil} \cup {Held(l) : l \in Lists(GoValues(f.elem), 0)}
                 [] f.kind = "raw" -> {Nil} \cup {Held(j) : j \in {Null, Scalar("some")}}
                 [] OTHER -> {IF s = "nil" THEN Nil ELSE State(s) : s \in States(f)}
  IN {At(d, Nil) : d \in 0 .. f.ptrs - 1} \cup {At(f.ptrs, x) : x \in below}

RECURSIVE Marshal(_, _)
Marshal(f, v) ==
  IF NilPointer(f, v) \/ v.state = "nil" THEN Null
  ELSE CASE IsCollection(f) -> Items(f, [l \in DOMAIN v.holds |-> Marshal(f.elem, v.holds[l])])
         [] f.kind = "raw" -> v.holds
         [] f.kind = "struct" -> Object(v.state)
         [] OTHER -> Scalar(v.state)

Failed == [depth |-> 0, state |-> "error", holds |-> << >>]
ZeroValue(f) ==
  At(0, IF f.ptrs > 0 \/ NilValue(f) \/ f.kind = "raw" THEN Nil ELSE State("zero"))

RECURSIVE Unmarshal(_, _)
Unmarshal(f, j) ==
  CASE j = Absent \/ (j = Null /\ (f.ptrs > 0 \/ f.kind # "raw")) -> ZeroValue(f)
    [] j # Absent /\ f.kind = "raw" /\ (f.ptrs = 0 \/ j # Null) -> At(f.ptrs, Held(j))
    [] IsCollection(f) /\ j.js = Items(f, << >>).js ->
         LET l == [m \in DOMAIN j.items |-> Unmarshal(f.elem, j.items[m])]
         IN IF \E m \in DOMAIN l : l[m] = Failed THEN Failed ELSE At(f.ptrs, Held(l))
    [] f.kind = "struct" /\ j.js = "object" -> At(f.ptrs, State(j.val))
    [] f.kind \in {"scalar", "bytes"} /\ j.js = "scalar" -> At(f.ptrs, State(j.val))
    [] OTHER -> Failed

(* The bounds every written value of a server and every accepted request   *)
(* keep: each collection below non-nil pointers holds enough.              *)
RECURSIVE WithinCount(_, _)
WithinCount(f, v) ==
  IsCollection(f) /\ ~NilPointer(f, v) =>
    /\ Len(v.holds) >= f.minItems
    /\ \A l \in DOMAIN v.holds : WithinCount(f.elem, v.holds[l])

-----------------------------------------------------------------------------
(* The decoder. *)
Checked(f, t) ==
  IF t # Throw /\ IsCollection(f) /\ Len(t.items) < f.minItems THEN Throw ELSE t

(* Mutant: the null of a nil collection is taken before a pointer's. *)
RECURSIVE ElemDecoderEmptyFirst(_, _)
ElemDecoderEmptyFirst(e, j) ==
  CASE j = Null /\ IsCollection(e) /\ ~RefusesNull(e) -> Items(e, << >>)
    [] j = Null /\ ~IsCollection(e) /\ NullElem(e) -> Null
    [] e.kind = "raw" -> j
    [] e.kind = "bytes" /\ j = Null -> Scalar("zero")
    [] e.kind = "struct" -> IF j.js = "object" THEN j ELSE Throw
    [] IsCollection(e) /\ j # Null ->
         IF j.js # Items(e, << >>).js THEN Throw
         ELSE LET l == [m \in DOMAIN j.items |-> ElemDecoderEmptyFirst(e.elem, j.items[m])]
              IN IF \E m \in DOMAIN l : l[m] = Throw THEN Throw ELSE Checked(e, Items(e, l))
    [] OTHER -> IF j.js = "scalar" THEN j ELSE Throw

RECURSIVE DecodeValue(_, _), ElemDecoder(_, _)
DecodeItems(f, j) ==
  IF j.js # Items(f, << >>).js THEN Throw
  ELSE LET l == [m \in DOMAIN j.items |-> ElemDecoder(f.elem, j.items[m])]
       IN IF \E m \in DOMAIN l : l[m] = Throw THEN Throw ELSE Items(f, l)

(* reqDecode, and elemDecode, which decodes the same way: a nil collection *)
(* or []byte reads as empty unless a Count bound refuses it.               *)
DecodeValue(f, j) ==
  CASE f.kind = "raw" -> j
    [] f.kind = "bytes" /\ j = Null -> Scalar("zero")
    [] IsCollection(f) ->
         IF j = Null /\ ~RefusesNull(f) THEN Items(f, << >>) ELSE DecodeItems(f, j)
    [] f.kind = "struct" -> IF j.js = "object" THEN j ELSE Throw
    [] OTHER -> IF j.js = "scalar" THEN j ELSE Throw

ElemDecoder(e, j) ==
  IF NullElem(e) /\ j = Null THEN Null ELSE Checked(e, DecodeValue(e, j))

(* Mutant: null is decoded, not read as absent. *)
DecodeFieldNull(f, j) ==
  IF Optional(f) /\ j = Absent THEN Absent ELSE Checked(f, DecodeValue(f, j))

(* emitFieldDecodes: an optional field is set only when present. *)
DecodeField(f, j) ==
  IF Optional(f) /\ (j = Absent \/ (j = Null /\ f.kind # "raw" /\ ~RefusesNull(f)))
  THEN Absent ELSE Checked(f, DecodeValue(f, j))

-----------------------------------------------------------------------------
(* The TypeScript member. *)
RECURSIVE TypeAdmits(_, _)
TypeAdmits(f, t) ==
  CASE f.kind = "raw" -> TRUE
    [] f.kind = "struct" -> t.js = "object"
    [] IsCollection(f) ->
         /\ t.js = Items(f, << >>).js
         /\ \A l \in DOMAIN t.items :
              (NullElem(f.elem) /\ t.items[l] = Null) \/ TypeAdmits(f.elem, t.items[l])
    [] OTHER -> t.js = "scalar"

MemberAdmits(f, t) == (t = Absent /\ Optional(f)) \/ TypeAdmits(f, t)

(* The schemas. *)
RECURSIVE ValueSchema(_, _)
ElemSchema(e, j) == ValueSchema(e, j) \/ (j = Null /\ NullIn(e) /\ ~RefusesNull(e))
ValueSchema(f, j) ==
  CASE f.kind = "raw" -> TRUE
    [] f.kind = "struct" -> j.js = "object"
    [] IsCollection(f) ->
         /\ j.js = Items(f, << >>).js /\ Len(j.items) >= f.minItems
         /\ \A l \in DOMAIN j.items : ElemSchema(f.elem, j.items[l])
    [] OTHER -> j.js = "scalar"

(* Mutant: a Count bound leaves null in the schema. *)
FieldSchemaNullable(f, d, j) ==
  ValueSchema(f, j) \/ (j = Null /\ IF d = "response" THEN NullOut(f) ELSE NullIn(f))

FieldSchema(f, d, j) ==
  \/ ValueSchema(f, j)
  \/ j = Null /\ ~RefusesNull(f) /\ IF d = "response" THEN NullOut(f) ELSE NullIn(f)

(* Mutant: a request requires what a response always carries. *)
ObjectSchemaOneWay(f, d, j) == IF j = Absent THEN AbsentOut(f) ELSE FieldSchema(f, d, j)

ObjectSchema(f, d, j) ==
  IF j = Absent THEN IF d = "response" THEN AbsentOut(f) ELSE Optional(f)
  ELSE FieldSchema(f, d, j)

(* The arbitraries. *)
(* Mutant: a collection is drawn without its Count. *)
RECURSIVE ArbElemValueUncounted(_)
ArbElemValueUncounted(f) ==
  CASE IsCollection(f) ->
         {Items(f, l) : l \in Lists((IF NullElem(f.elem) THEN {Null} ELSE {}) \cup
                                    ArbElemValueUncounted(f.elem), 0)}
    [] f.kind = "struct" -> {Object("zero"), Object("some")}
    [] f.kind = "raw" -> {Null, Scalar("some")}
    [] OTHER -> {Scalar("zero"), Scalar("some")}

RECURSIVE ArbElemValue(_)
ArbElemExpr(e) == ArbElemValue(e) \cup IF NullElem(e) THEN {Null} ELSE {}
ArbElemValue(f) ==
  CASE IsCollection(f) -> {Items(f, l) : l \in Lists(ArbElemExpr(f.elem), f.minItems)}
    [] f.kind = "struct" -> {Object("zero"), Object("some")}
    [] f.kind = "raw" -> {Null, Scalar("some")}
    [] OTHER -> {Scalar("zero"), Scalar("some")}

ArbField(f) == ArbElemValue(f) \cup IF Optional(f) THEN {Absent} ELSE {}

-----------------------------------------------------------------------------
(* What a plan's elements are to the rules. *)
RECURSIVE Ruled(_)
Ruled(f) ==
  [kind |-> CASE f.kind \in {"bytes", "raw", "struct", "slice", "map"} -> f.kind
              [] f.kind = "time" -> "struct"
              [] OTHER -> "scalar",
   ptrs |-> f.ptrs, minItems |-> f.minItems, elem |-> IF f.kind \in {"slice", "map"} THEN Ruled(f.elem) ELSE NoElem,
   omitEmpty |-> FALSE, omitZero |-> FALSE, viaEmbedPtr |-> FALSE]

(* resolveNamedField sets Omittable by the Go type (omitemptyApplies), of  *)
(* which a scalar, text or mapped, may be a struct.                        *)
FieldOf(m, f) ==
  LET r == Ruled(f)
  IN [r EXCEPT !.kind = IF f.ptrs = 0 /\ Underlying(m.type).c = "struct" THEN "struct" ELSE @,
               !.omitEmpty = m.omitEmpty, !.omitZero = m.omitZero, !.viaEmbedPtr = m.viaEmbedPtr]

Init ==
  /\ member \in Members
  /\ plan = Plan /\ field = NoElem
  /\ phase = "generator" /\ origin = "server"
  /\ sent = Failed /\ wire = Absent /\ client = Absent /\ received = Failed

(* Every JSON value a client may try for the field. *)
RECURSIVE Tries(_)
Tries(f) ==
  {Null, Scalar("zero"), Scalar("some"), Object("some")} \cup
  IF IsCollection(f) THEN {Items(f, l) : l \in Lists(Tries(f.elem), 0)} ELSE {}

Resolve ==
  /\ phase = "generator"
  /\ plan' = ResolveNamedField(member)
  /\ IF plan'.refused THEN phase' = "refused" /\ UNCHANGED field
     ELSE phase' = "server" /\ field' = FieldOf(member, plan')
  /\ UNCHANGED <<member, origin, sent, wire, client, received>>

(* The server writes a value within its bounds, and no key for one it      *)
(* omits or whose embedded pointer is nil.                                 *)
Respond ==
  /\ phase = "server"
  /\ \E v \in GoValues(field) :
       \/ /\ OmittedByGo(field, v) \/ field.viaEmbedPtr
          /\ sent' = ZeroValue(field) /\ wire' = Absent
       \/ /\ ~OmittedByGo(field, v) /\ WithinCount(field, v)
          /\ sent' = v /\ wire' = Marshal(field, v)
  /\ phase' = "client"
  /\ UNCHANGED <<member, plan, field, origin, client, received>>

(* A property test decodes a draw. *)
Draw ==
  /\ phase = "server"
  /\ wire' \in ArbField(field)
  /\ phase' = "client" /\ origin' = "test"
  /\ UNCHANGED <<member, plan, field, sent, client, received>>

Decode ==
  /\ phase = "client"
  /\ client' = DecodeField(field, wire)
  /\ phase' = IF origin = "test" THEN "done" ELSE "sender"
  /\ UNCHANGED <<member, plan, field, origin, sent, wire, received>>

(* JSON.stringify leaves out what is undefined.  A field encoding/json     *)
(* cannot decode is in no request.                                         *)
Resend ==
  /\ phase = "sender" /\ ~plan.undecodable
  /\ wire' = client
  /\ phase' = "receiver"
  /\ UNCHANGED <<member, plan, field, origin, sent, client, received>>

(* A client that follows the OpenAPI document. *)
Request ==
  /\ phase = "server" /\ ~plan.undecodable
  /\ \E j \in Tries(field) \cup {Absent} : ObjectSchema(field, "request", j) /\ wire' = j
  /\ phase' = "receiver" /\ origin' = "client"
  /\ UNCHANGED <<member, plan, field, sent, client, received>>

Receive ==
  /\ phase = "receiver"
  /\ received' = IF wire = Throw THEN Failed ELSE Unmarshal(field, wire)
  /\ phase' = "done"
  /\ UNCHANGED <<member, plan, field, origin, sent, wire, client>>

Next == Resolve \/ Respond \/ Draw \/ Decode \/ Resend \/ Request \/ Receive
Spec == Init /\ [][Next]_vars

-----------------------------------------------------------------------------
(* The client's decoder takes whatever the server writes for the field,    *)
(* and what it returns has the member's TypeScript type.                   *)
ResponseDecodes ==
  phase = "sender" => client # Throw /\ MemberAdmits(field, client)

(* The response schema admits whatever the server writes, and a value read *)
(* from a response may be sent back: the request schema, which is another  *)
(* one, admits it.                                                         *)
WireFitsSchemas ==
  /\ phase = "client" /\ origin = "server" => ObjectSchema(field, "response", wire)
  /\ phase = "receiver" /\ origin = "server" => ObjectSchema(field, "request", wire)

(* What a Go value is to the other side: a nil under any pointer is one    *)
(* null, and without a pointer a nil collection is an empty one.           *)
RECURSIVE Meaning(_, _)
Meaning(f, v) ==
  IF NilPointer(f, v) \/ v.state = "nil" \/ (f.kind = "raw" /\ v.holds = Null)
  THEN IF f.ptrs > 0 \/ f.kind = "raw" THEN Nil ELSE State("zero")
  ELSE [state |-> v.state,
        holds |-> IF IsCollection(f) THEN [l \in DOMAIN v.holds |-> Meaning(f.elem, v.holds[l])]
                  ELSE v.holds]

(* A value that goes to a client and back means what it meant. *)
RoundTripKeepsMeaning ==
  phase = "done" /\ origin = "server" =>
    received # Failed /\ Meaning(field, received) = Meaning(field, sent)

(* A request the document admits is one encoding/json decodes, into a      *)
(* value within the declared bounds where it sends one.                    *)
RequestUnmarshals ==
  phase = "done" /\ origin = "client" =>
    received # Failed /\ (wire # Absent => WithinCount(field, received))

(* Drawn values pass the generated checks (docs/arbitraries.md). *)
DrawsDecode == phase = "done" /\ origin = "test" => client # Throw

(* The plan the rest is generated from is encoding/json's for the type.    *)
FieldIsWireForm == phase = "server" => PlanIsWireForm(member, plan)
=============================================================================
