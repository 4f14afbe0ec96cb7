------------------------------- MODULE Unions -------------------------------
(***************************************************************************)
(* A tagged union (unions.go).  resolveUnions checks each declaration      *)
(* against the fields of the registered struct; of an accepted one the     *)
(* server marshals any value of the struct, the generated decoder switches *)
(* on the tag and refuses the fields of other cases, the client sends back *)
(* what it decoded, and a property test decodes a draw.                    *)
(*                                                                         *)
(* On the wire a field is absent, null or a value; what a value decodes to *)
(* is Presence's matter.  The tag may be an enum, whose members are those  *)
(* discoverEnums found before the unions are resolved.                     *)
(***************************************************************************)
EXTENDS PresenceRules, Enums, Sequences

CONSTANTS
  Structs,    \* the structs: functions from wire names to fields
  Decls,      \* the lists of unions declared for the struct
  Values,     \* tag values
  NameParts   \* those that may stand in an OpenAPI component name

ASSUME StructsAreFields ==
  \A s \in Structs : \A n \in DOMAIN s : IsField(s[n]) /\ s[n].text \in {"string", "enum", "none"}
ASSUME ValuesNamed == NameParts \subseteq Values

VARIABLES
  fields,   \* the struct's fields by wire name
  unions,   \* the declarations left to resolve
  failed,   \* whether one was refused
  union,    \* the resolved union, or NoUnion: a tag and the fields of each case
  phase,    \* "enums", "resolve", "refused", "server", "client", "sender", "done"
  ofCase,   \* whether the server set only fields of the tag's case
  drawn,    \* whether the wire holds a draw
  wire,     \* the object on the wire: its tag value, and each key's value
  client    \* what the decoder returned, or Throw

vars == <<fields, unions, failed, union, phase, ofCase, drawn, wire, client>>

NoUnion == [tag |-> "", cases |-> << >>]
Throw == [error |-> "throw"]
Others(tag) == DOMAIN fields \ {tag}
OptionalName(n) == Optional(fields[n])

-----------------------------------------------------------------------------
IsEnum(n) == fields[n].text = "enum"

DiscoverEnums ==
  /\ phase = "enums"
  /\ phase' = IF \A n \in DOMAIN fields : IsEnum(n) => EnumFits(fields[n].enum) THEN "resolve" ELSE "refused"
  /\ UNCHANGED <<fields, unions, failed, union, ofCase, drawn, wire, client>>

(* A declaration has a tag's wire name and, by case value, a list of names. *)
CaseValuesFit(u) ==
  /\ u.tag \in DOMAIN fields
  /\ ~OptionalName(u.tag) /\ fields[u.tag].text # "none"
  /\ DOMAIN u.cases # {}
  /\ IsEnum(u.tag) => DOMAIN u.cases = EnumMembers(fields[u.tag].enum)

CaseFits(u, v) ==
  /\ v \in NameParts
  /\ LET list == u.cases[v]
     IN \A l \in DOMAIN list :
          /\ list[l] \in Others(u.tag)
          /\ \A m \in DOMAIN list : list[m] = list[l] => m = l

CaseFields(u, v) == {u.cases[v][l] : l \in DOMAIN u.cases[v]}
InSomeCase(u, n) == \E v \in DOMAIN u.cases : n \in CaseFields(u, v)
InEveryCase(u, n) == \A v \in DOMAIN u.cases : n \in CaseFields(u, v)

(* Mutant: a field of a nil-able embedded struct is taken for one an       *)
(* option drops.                                                           *)
FieldFitsWhenAbsent(u, n) == InSomeCase(u, n) /\ (AbsentOut(fields[n]) \/ InEveryCase(u, n))

(* A field some case leaves out must be one encoding/json drops. *)
FieldFits(u, n) == InSomeCase(u, n) /\ (Omittable(fields[n]) \/ InEveryCase(u, n))

UnionFits(u) ==
  /\ CaseValuesFit(u)
  /\ \A v \in DOMAIN u.cases : CaseFits(u, v)
  /\ \A n \in Others(u.tag) : FieldFits(u, n)

ResolveUnion ==
  /\ phase = "resolve" /\ unions # << >>
  /\ LET u == Head(unions)
         ok == union = NoUnion /\ UnionFits(u)
     IN /\ union' = IF ok THEN [tag |-> u.tag, cases |-> [v \in DOMAIN u.cases |-> CaseFields(u, v)]]
                    ELSE union
        /\ failed' = (failed \/ ~ok)
  /\ unions' = Tail(unions)
  /\ UNCHANGED <<fields, phase, ofCase, drawn, wire, client>>

Resolved ==
  /\ phase = "resolve" /\ unions = << >>
  /\ phase' = IF failed \/ union = NoUnion THEN "refused" ELSE "server"
  /\ UNCHANGED <<fields, unions, failed, union, ofCase, drawn, wire, client>>

-----------------------------------------------------------------------------
(* encoding/json over a struct value: the state of each field, "gone" when *)
(* the embedded pointer above it is nil.                                   *)
Gone == [depth |-> 0, state |-> "gone"]
ValuesOf(n) == GoStates(fields[n]) \cup IF fields[n].viaEmbedPtr THEN {Gone} ELSE {}
Written(n, v) == v # Gone /\ ~OmittedByGo(fields[n], v)
Unset(n, v) == v = Gone \/ IsZero(fields[n], v)
WithinCount(n, v) == Written(n, v) /\ RefusesNull(fields[n]) => ~WritesNull(fields[n], v)

(* The fields of the tag's case. *)
Allowed(v) == union.cases[v]

(* A server tags with one of the cases: of an enum, with a constant of it. *)
TagOfConst(v) == \E x \in ConstValues(fields[union.tag].enum) : v \in Encoded(fields[union.tag].enum, x)
TagOfCase(v) == IF IsEnum(union.tag) THEN TagOfConst(v) ELSE v \in DOMAIN union.cases

Respond ==
  /\ phase = "server"
  /\ \E v \in Values, s \in [Others(union.tag) -> UNION {ValuesOf(n) : n \in Others(union.tag)}] :
       /\ \A n \in DOMAIN s : s[n] \in ValuesOf(n) /\ WithinCount(n, s[n])
       /\ wire' = [tag |-> v,
                   has |-> [n \in {m \in DOMAIN s : Written(m, s[m])} |->
                              IF WritesNull(fields[n], s[n]) THEN "null" ELSE "value"]]
       /\ ofCase' = /\ TagOfCase(v)
                    /\ v \in DOMAIN union.cases => \A n \in DOMAIN s \ Allowed(v) : Unset(n, s[n])
  /\ phase' = "client"
  /\ UNCHANGED <<fields, unions, failed, union, drawn, client>>

-----------------------------------------------------------------------------
(* The decoder. *)
At(w, n) == IF n \in DOMAIN w.has THEN w.has[n] ELSE "absent"

(* Mutant: null is read as absent wherever it is. *)
TakenAsAbsentAnywhere(n, x) == x \in {"absent", "null"}

TakenAsAbsent(n, x) ==
  Optional(fields[n]) /\ (x = "absent" \/ (x = "null" /\ fields[n].kind # "raw" /\ ~RefusesNull(fields[n])))
TakenAsValue(n, x) ==
  \/ x = "value" \/ fields[n].kind = "raw"
  \/ x = "null" /\ NilValue(fields[n]) /\ ~RefusesNull(fields[n])

(* Mutant: a decoder that does not look at the fields of other cases. *)
RefuseNoKeys(w) == FALSE

RefuseKeys(w) == \E n \in Others(union.tag) \ Allowed(w.tag) : At(w, n) = "value"

(* A raw field is read unchecked: undefined, and so no key, if absent.     *)
Kept(w) == {n \in Allowed(w.tag) : At(w, n) # "absent" /\ ~TakenAsAbsent(n, At(w, n))}

DecodeUnion(w) ==
  IF \/ w.tag \notin DOMAIN union.cases \/ RefuseKeys(w)
     \/ \E n \in Allowed(w.tag) : ~TakenAsAbsent(n, At(w, n)) /\ ~TakenAsValue(n, At(w, n))
  THEN Throw
  ELSE [tag |-> w.tag, has |-> [n \in Kept(w) |-> "value"]]

Decode ==
  /\ phase = "client"
  /\ client' = DecodeUnion(wire)
  /\ phase' = IF drawn \/ client' = Throw THEN "done" ELSE "sender"
  /\ UNCHANGED <<fields, unions, failed, union, ofCase, drawn, wire>>

Resend ==
  /\ phase = "sender"
  /\ wire' = client
  /\ phase' = "done"
  /\ UNCHANGED <<fields, unions, failed, union, ofCase, drawn, client>>

-----------------------------------------------------------------------------
(* Mutant: the tag is drawn from the cases, not fixed to the one drawn. *)
ArbForUnionTagFree(w) ==
  /\ w.tag \in DOMAIN union.cases
  /\ \E v \in DOMAIN union.cases :
       DOMAIN w.has \subseteq Allowed(v) /\ {n \in Allowed(v) : ~OptionalName(n)} \subseteq DOMAIN w.has

(* A draw of one case: its required fields, and any of the optional ones. *)
ArbForUnion(w) ==
  /\ w.tag \in DOMAIN union.cases
  /\ DOMAIN w.has \subseteq Allowed(w.tag)
  /\ {n \in Allowed(w.tag) : ~OptionalName(n)} \subseteq DOMAIN w.has

Draw ==
  /\ phase = "server"
  /\ \E v \in DOMAIN union.cases, N \in SUBSET Others(union.tag) :
       /\ wire' = [tag |-> v, has |-> [n \in N |-> "value"]]
       /\ ArbForUnion(wire')
  /\ drawn' = TRUE /\ ofCase' = TRUE
  /\ phase' = "client"
  /\ UNCHANGED <<fields, unions, failed, union, client>>

-----------------------------------------------------------------------------
Init ==
  /\ fields \in Structs /\ unions \in Decls
  /\ failed = FALSE /\ union = NoUnion /\ phase = "enums"
  /\ ofCase = FALSE /\ drawn = FALSE
  /\ wire = Throw /\ client = Throw

Next == DiscoverEnums \/ ResolveUnion \/ Resolved \/ Respond \/ Decode \/ Resend \/ Draw
Spec == Init /\ [][Next]_vars

-----------------------------------------------------------------------------
(* The schemas: one closed object per case, in a oneOf. *)
NullableFor(n, d) ==
  fields[n].kind = "raw" \/ (~RefusesNull(fields[n]) /\ IF d = "response" THEN NullOut(fields[n]) ELSE NullIn(fields[n]))

(* Mutant: a request requires what a response always carries. *)
MayBeAbsentOneWay(n, d) == AbsentOut(fields[n])

MayBeAbsent(n, d) == IF d = "response" THEN AbsentOut(fields[n]) ELSE Optional(fields[n])

(* Mutant: the schema of a case admits the fields of the others. *)
CaseSchemaOpen(v, d, w) ==
  /\ w.tag = v
  /\ \A n \in Allowed(v) :
       CASE At(w, n) = "absent" -> MayBeAbsent(n, d)
         [] At(w, n) = "null" -> NullableFor(n, d)
         [] OTHER -> TRUE

CaseSchema(v, d, w) ==
  /\ w.tag = v
  /\ DOMAIN w.has \subseteq Allowed(v)
  /\ \A n \in Allowed(v) :
       CASE At(w, n) = "absent" -> MayBeAbsent(n, d)
         [] At(w, n) = "null" -> NullableFor(n, d)
         [] OTHER -> TRUE

OneOf(d, w) ==
  \E v \in DOMAIN union.cases :
    CaseSchema(v, d, w) /\ \A x \in DOMAIN union.cases : CaseSchema(x, d, w) => x = v

(* The decoder takes what the server writes for a value that sets only     *)
(* fields of its tag's case.                                               *)
CaseValuesDecode == phase \in {"sender", "done"} /\ ofCase /\ ~drawn => client # Throw

(* The decoder takes every draw of the union's arbitrary.                  *)
DrawsDecode == phase \in {"sender", "done"} /\ drawn => client # Throw

(* The document admits what the server writes for such a value, by one     *)
(* case, and so it does what a client sends back.                          *)
WireFitsOneCase ==
  /\ phase = "client" /\ ofCase /\ ~drawn => OneOf("response", wire)
  /\ phase = "done" /\ client # Throw /\ ~drawn => OneOf("request", wire)

(* A decoder that switches on the tag never drops what the server sent,    *)
(* whichever fields the server set: a key with a value is in the result,   *)
(* or the object is refused.  Nor is the tag's value: the name of a        *)
(* constant on the wire is that of no constant of another value.           *)
NothingLost ==
  phase = "sender" =>
    /\ \A n \in DOMAIN wire.has : wire.has[n] = "value" => n \in DOMAIN client.has
    /\ IsEnum(union.tag) =>
         LET e == fields[union.tag].enum
         IN \A x, y \in ConstValues(e) : client.tag \in Encoded(e, x) \cap Encoded(e, y) => x = y

(* The document and the decoder agree on what a server may say: a response *)
(* the oneOf admits is one the decoder takes.                              *)
AdmittedDecodes == phase \in {"sender", "done"} /\ OneOf("response", wire) => client # Throw

(* What the decoder returned is a member of the TypeScript union: the      *)
(* fields of the tag's case, the required ones among them.                 *)
DecodedIsTyped ==
  phase = "sender" =>
    /\ DOMAIN client.has \subseteq Allowed(client.tag)
    /\ \A n \in Allowed(client.tag) : OptionalName(n) \/ n \in DOMAIN client.has
=============================================================================
