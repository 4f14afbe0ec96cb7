---------------------------- MODULE Unions_proofs ----------------------------
(***************************************************************************)
(* The rules of presence.go against encoding/json, for every field: any    *)
(* kind, any number of pointers, any options and any Count.  Then what     *)
(* resolveUnion's checks buy, for every struct, declaration and Go value.  *)
(* Inv says what is known of an accepted union and of the object on the    *)
(* wire; the rules' exactness does the rest.                               *)
(***************************************************************************)
EXTENDS Unions, TLAPS

(* A field has a nil Go value exactly with a pointer, or with a kind that  *)
(* has one, and every field has a value that is neither empty nor zero.    *)
LEMMA ValuesOfField ==
  ASSUME NEW f, IsField(f)
  PROVE  /\ [depth |-> f.ptrs, state |-> "some"] \in GoStates(f)
         /\ f.ptrs > 0 => [depth |-> 0, state |-> "nil"] \in GoStates(f)
         /\ f.ptrs > 1 => [depth |-> 1, state |-> "nil"] \in GoStates(f)
         /\ NilValue(f) \/ f.kind = "raw" => [depth |-> f.ptrs, state |-> "nil"] \in GoStates(f)
         /\ ~(NilValue(f) \/ f.kind = "raw") => [depth |-> f.ptrs, state |-> "zero"] \in GoStates(f)
         /\ NilValue(f) => [depth |-> f.ptrs, state |-> "zero"] \in GoStates(f)
<1>1. \A s \in States(f) : [depth |-> f.ptrs, state |-> s] \in GoStates(f)
  BY DEF GoStates
<1>2. \A d \in 0 .. f.ptrs - 1 : [depth |-> d, state |-> "nil"] \in GoStates(f)
  BY DEF GoStates
<1>3. (f.ptrs > 0 => 0 \in 0 .. f.ptrs - 1) /\ (f.ptrs > 1 => 1 \in 0 .. f.ptrs - 1)
  BY DEF IsField
<1> QED BY <1>1, <1>2, <1>3 DEF States

(* What a value of a field can be. *)
LEMMA ValueShape ==
  ASSUME NEW f, IsField(f), NEW v \in GoStates(f)
  PROVE  /\ v.depth \in 0 .. f.ptrs
         /\ v.state \in {"nil", "zero", "some"}
         /\ v.depth = f.ptrs /\ v.state = "nil" => NilValue(f) \/ f.kind = "raw"
  BY DEF IsField, GoStates, States

(* The key is optional out exactly when encoding/json has a value to omit. *)
LEMMA AbsentExact ==
  ASSUME NEW f, IsField(f)
  PROVE  AbsentOut(f) <=> (f.viaEmbedPtr \/ \E v \in GoStates(f) : OmittedByGo(f, v))
<1>1. ASSUME NEW v \in GoStates(f), OmittedByGo(f, v) PROVE Omittable(f)
  BY <1>1, ValueShape DEF OmittedByGo, IsEmpty, IsZero, NilPointer, Omittable, OmitemptyApplies, IsField
<1>2. ASSUME Omittable(f) PROVE \E v \in GoStates(f) : OmittedByGo(f, v)
  <2>1. CASE f.ptrs > 0
    <3> DEFINE v == [depth |-> 0, state |-> "nil"]
    <3>1. v \in GoStates(f) BY <2>1, ValuesOfField
    <3>2. OmittedByGo(f, v)
      BY <1>2, <2>1 DEF OmittedByGo, IsEmpty, IsZero, NilPointer, Omittable, IsField
    <3> QED BY <3>1, <3>2
  <2>2. CASE f.ptrs = 0
    <3> DEFINE v == [depth |-> f.ptrs, state |-> IF NilValue(f) \/ f.kind = "raw" THEN "nil" ELSE "zero"]
    <3>1. v \in GoStates(f) BY ValuesOfField
    <3>2. OmittedByGo(f, v)
      BY <1>2, <2>2 DEF OmittedByGo, IsEmpty, IsZero, NilPointer, Omittable, OmitemptyApplies, IsField
    <3> QED BY <3>1, <3>2
  <2> QED BY <2>1, <2>2 DEF IsField
<1> QED BY <1>1, <1>2 DEF AbsentOut

(* A field is nullable out exactly when encoding/json has a null to write. *)
LEMMA NullExact ==
  ASSUME NEW f, IsField(f), f.kind # "raw"
  PROVE  NullOut(f) <=> \E v \in GoStates(f) : WritesNull(f, v)
<1>1. ASSUME NEW v \in GoStates(f), WritesNull(f, v) PROVE NullOut(f)
  BY <1>1, ValueShape
  DEF WritesNull, OmittedByGo, IsEmpty, IsZero, NilPointer, NullOut, NilValue, Omittable,
      OmitemptyApplies, IsField
<1>2. ASSUME NullOut(f) PROVE \E v \in GoStates(f) : WritesNull(f, v)
  <2>1. CASE f.ptrs > 1
    <3> DEFINE v == [depth |-> 1, state |-> "nil"]
    <3>1. v \in GoStates(f) BY <2>1, ValuesOfField
    <3>2. WritesNull(f, v)
      BY <2>1 DEF WritesNull, OmittedByGo, IsEmpty, IsZero, NilPointer, IsField
    <3> QED BY <3>1, <3>2
  <2>2. CASE f.ptrs = 1 /\ ~Omittable(f)
    <3> DEFINE v == [depth |-> 0, state |-> "nil"]
    <3>0. f.ptrs > 0 BY <2>2
    <3>1. v \in GoStates(f) BY <3>0, ValuesOfField
    <3>2. WritesNull(f, v)
      BY <2>2 DEF WritesNull, OmittedByGo, NilPointer, Omittable, OmitemptyApplies, IsField
    <3> QED BY <3>1, <3>2
  <2>3. CASE f.ptrs <= 1 /\ NilValue(f) /\ (f.ptrs = 1 \/ ~Omittable(f))
    <3> DEFINE v == [depth |-> f.ptrs, state |-> "nil"]
    <3>1. v \in GoStates(f) BY <2>3, ValuesOfField
    <3>2. WritesNull(f, v)
      BY <2>3 DEF WritesNull, OmittedByGo, IsEmpty, IsZero, NilPointer, Omittable,
                  OmitemptyApplies, NilValue, IsField
    <3> QED BY <3>1, <3>2
  <2> QED BY <1>2, <2>1, <2>2, <2>3 DEF NullOut, IsField
<1> QED BY <1>1, <1>2

(* absentOut and nullOut say absent and null exactly where encoding/json   *)
(* writes some value of the field so.                                      *)
THEOREM PresenceExact == \A f : IsField(f) => PresenceIsExact(f)
  BY AbsentExact, NullExact DEF PresenceIsExact

(* The request side takes every absence and every null of the response     *)
(* side, so the two schemas of a type differ only by what a request may    *)
(* send besides.                                                           *)
THEOREM RequestsTakeResponses ==
  \A f : IsField(f) => (AbsentOut(f) => Optional(f)) /\ (NullOut(f) => NullIn(f))
  BY DEF IsField, AbsentOut, Optional, NullOut, NullIn

(* A field that is neither optional nor of a kind with a nil has neither   *)
(* form: its decoder refuses both.                                         *)
THEOREM RequiredScalarIsPresent ==
  \A f : IsField(f) /\ f.kind # "raw" /\ ~Optional(f) /\ ~NilValue(f) =>
           \A v \in GoStates(f) : ~OmittedByGo(f, v) /\ ~WritesNull(f, v)
<1> SUFFICES ASSUME NEW f, IsField(f), f.kind # "raw", ~Optional(f), ~NilValue(f)
             PROVE  \A v \in GoStates(f) : ~OmittedByGo(f, v) /\ ~WritesNull(f, v)
  OBVIOUS
<1>1. ~AbsentOut(f) /\ ~NullOut(f) BY DEF Optional, NullOut, IsField
<1> QED BY <1>1, AbsentExact, NullExact

-----------------------------------------------------------------------------
Running == phase \in {"server", "client", "sender", "done"}

EnumsFit == \A n \in DOMAIN fields : IsEnum(n) => EnumFits(fields[n].enum)

(* An accepted union leaves out of a case only what an option drops, and   *)
(* has a case for each member of its tag's enum.                           *)
UnionIsSound ==
  union # NoUnion =>
    /\ union.tag \in DOMAIN fields
    /\ IsEnum(union.tag) => DOMAIN union.cases = EnumMembers(fields[union.tag].enum)
    /\ \A v \in DOMAIN union.cases : Allowed(v) \subseteq Others(union.tag)
    /\ \A n \in Others(union.tag) :
         Omittable(fields[n]) \/ \A v \in DOMAIN union.cases : n \in Allowed(v)

(* Each key on the wire is written as the rules say it may be, and a key   *)
(* of another case only where the server set it.                           *)
WireIsSound ==
  /\ DOMAIN wire.has \subseteq Others(union.tag)
  /\ \A n \in DOMAIN wire.has : wire.has[n] \in {"null", "value"}
  /\ \A n \in Others(union.tag) :
       /\ At(wire, n) = "absent" => Optional(fields[n]) \/ (drawn /\ n \notin Allowed(wire.tag))
       /\ At(wire, n) = "absent" => AbsentOut(fields[n]) \/ drawn
       /\ At(wire, n) = "null" =>
            fields[n].kind = "raw" \/ (NullOut(fields[n]) /\ ~RefusesNull(fields[n]))
  /\ ofCase \/ drawn =>
       /\ wire.tag \in DOMAIN union.cases
       /\ \A n \in Others(union.tag) \ Allowed(wire.tag) : At(wire, n) = "absent"

(* What the decoder returns: of a case all its required fields, and values *)
(* of them only.                                                           *)
IsDecoded(w) ==
  /\ w.tag \in DOMAIN union.cases
  /\ DOMAIN w.has \subseteq Allowed(w.tag)
  /\ \A n \in DOMAIN w.has : w.has[n] = "value"
  /\ \A n \in Allowed(w.tag) : OptionalName(n) \/ n \in DOMAIN w.has

Inv ==
  /\ fields \in Structs
  /\ UnionIsSound
  /\ Running => union # NoUnion
  /\ Running \/ phase = "resolve" => EnumsFit
  /\ phase = "enums" => union = NoUnion
  /\ phase \in {"enums", "resolve", "server"} => ~drawn
  /\ phase = "client" => WireIsSound
  /\ phase = "sender" =>
       WireIsSound /\ client = DecodeUnion(wire) /\ client # Throw
  /\ phase \in {"sender", "done"} /\ (ofCase \/ drawn) => client # Throw
  /\ phase = "done" /\ client = Throw => WireIsSound /\ DecodeUnion(wire) = Throw
  /\ phase = "done" /\ client # Throw /\ ~drawn => wire = client /\ IsDecoded(client)

(* A field an option applies to is dropped at the zero value of its type.  *)
LEMMA ZeroIsOmitted ==
  ASSUME NEW f, IsField(f), Omittable(f), NEW v \in GoStates(f), IsZero(f, v)
  PROVE  OmittedByGo(f, v)
  BY ValueShape DEF IsField, Omittable, OmitemptyApplies, IsZero, OmittedByGo, IsEmpty, NilPointer, NilValue

(* What encoding/json writes for a constant of a resolved enum is one of   *)
(* its members.                                                            *)
LEMMA ConstIsMember ==
  ASSUME NEW e, EnumFits(e), NEW x \in ConstValues(e), NEW v \in Encoded(e, x)
  PROVE  v \in EnumMembers(e)
<1>1. CASE e.base = "string" /\ ~e.wire /\ e.codec = "plain"
  BY <1>1 DEF EnumMembers, Encoded, Plainly, WireName, IsMember
<1>2. CASE e.base = "int" /\ e.wire /\ e.codec = "text"
  <2>1. v = e.text[x] /\ e.text[x] # Fails BY <1>2 DEF Encoded
  <2> QED BY <1>2, <2>1 DEF EnumMembers, WireName, IsMember
<1> QED BY <1>1, <1>2 DEF EnumFits, EnumKindFits

(* And of one value only.                                                  *)
LEMMA ConstIsOneValue ==
  ASSUME NEW e, EnumFits(e), NEW x \in ConstValues(e), NEW y \in ConstValues(e),
         NEW v \in Encoded(e, x), v \in Encoded(e, y)
  PROVE  x = y
<1>1. CASE e.base = "string" /\ ~e.wire /\ e.codec = "plain"
  BY <1>1 DEF Encoded, Plainly
<1>2. CASE e.base = "int" /\ e.wire /\ e.codec = "text"
  <2>1. v = e.text[x] /\ v = e.text[y] /\ v # Fails BY <1>2 DEF Encoded
  <2> QED BY <1>2, <2>1 DEF EnumFits, NamesDiffer, WireName, IsMember
<1> QED BY <1>1, <1>2 DEF EnumFits, EnumKindFits

LEMMA InitInv == Init => Inv
  BY DEF Init, Inv, UnionIsSound, Running

LEMMA DiscoverInv == Inv /\ DiscoverEnums => Inv'
  BY DEF Inv, DiscoverEnums, Running, EnumsFit, IsEnum, UnionIsSound

LEMMA ResolveInv == Inv /\ ResolveUnion => Inv'
<1> SUFFICES ASSUME Inv, ResolveUnion PROVE Inv' OBVIOUS
<1> DEFINE u == Head(unions)
           r == [tag |-> u.tag, cases |-> [v \in DOMAIN u.cases |-> CaseFields(u, v)]]
<1>1. ASSUME UnionFits(u), union' = r PROVE UnionIsSound'
  <2>1. \A v \in DOMAIN u.cases : CaseFields(u, v) \subseteq Others(u.tag)
    BY <1>1 DEF UnionFits, CaseFits, CaseFields
  <2>2. \A n \in Others(u.tag) : Omittable(fields[n]) \/ \A v \in DOMAIN u.cases : n \in CaseFields(u, v)
    BY <1>1 DEF UnionFits, FieldFits, InEveryCase
  <2>3. fields' = fields BY DEF ResolveUnion
  <2>5. u.tag \in DOMAIN fields /\ (IsEnum(u.tag) => DOMAIN u.cases = EnumMembers(fields[u.tag].enum))
    BY <1>1 DEF UnionFits, CaseValuesFit
  <2>4. r.tag = u.tag /\ DOMAIN r.cases = DOMAIN u.cases /\ \A v \in DOMAIN u.cases : r.cases[v] = CaseFields(u, v)
    OBVIOUS
  <2> HIDE DEF r, u
  <2> QED BY <1>1, <2>1, <2>2, <2>3, <2>4, <2>5 DEF UnionIsSound, Allowed, Others, IsEnum
<1>2. CASE union' = r /\ UnionFits(u)
  BY <1>1, <1>2 DEF Inv, ResolveUnion, Running, EnumsFit, IsEnum
<1>3. CASE union' = union
  BY <1>3 DEF Inv, ResolveUnion, Running, UnionIsSound, EnumsFit, IsEnum, Allowed, Others
<1> QED BY <1>2, <1>3 DEF ResolveUnion

LEMMA ResolvedInv == Inv /\ Resolved => Inv'
  BY DEF Inv, Resolved, Running, UnionIsSound, EnumsFit, IsEnum, Allowed, Others

(* What Respond puts on the wire. *)
LEMMA ResponseIsSound == Inv /\ Respond => WireIsSound'
<1> SUFFICES ASSUME Inv, Respond PROVE WireIsSound' OBVIOUS
<1>1. PICK v \in Values, s \in [Others(union.tag) -> UNION {ValuesOf(n) : n \in Others(union.tag)}] :
        /\ \A n \in DOMAIN s : s[n] \in ValuesOf(n) /\ WithinCount(n, s[n])
        /\ wire' = [tag |-> v,
                    has |-> [n \in {m \in DOMAIN s : Written(m, s[m])} |->
                               IF WritesNull(fields[n], s[n]) THEN "null" ELSE "value"]]
        /\ ofCase' = /\ TagOfCase(v)
                     /\ v \in DOMAIN union.cases => \A n \in DOMAIN s \ Allowed(v) : Unset(n, s[n])
  BY DEF Respond
<1>2. fields' = fields /\ union' = union /\ drawn' = FALSE BY DEF Respond, Inv
<1>3. union # NoUnion BY DEF Respond, Inv, Running
<1>4. DOMAIN s = Others(union.tag) OBVIOUS
<1>5. /\ wire'.tag = v
      /\ DOMAIN wire'.has = {m \in Others(union.tag) : Written(m, s[m])}
      /\ \A n \in DOMAIN wire'.has : wire'.has[n] = IF WritesNull(fields[n], s[n]) THEN "null" ELSE "value"
  BY <1>1, <1>4
<1>8. ofCase' => v \in DOMAIN union.cases
  <2>1. CASE ~IsEnum(union.tag) BY <1>1, <2>1 DEF TagOfCase
  <2>2. CASE IsEnum(union.tag)
    <3>1. EnumFits(fields[union.tag].enum) /\ DOMAIN union.cases = EnumMembers(fields[union.tag].enum)
      BY <1>3, <2>2 DEF Inv, Respond, Running, EnumsFit, UnionIsSound
    <3> QED BY <1>1, <2>2, <3>1, ConstIsMember DEF TagOfCase, TagOfConst
  <2> QED BY <2>1, <2>2
<1>6. ASSUME NEW n \in Others(union.tag)
      PROVE  /\ At(wire', n) = "absent" => AbsentOut(fields[n])
             /\ At(wire', n) = "null" =>
                  fields[n].kind = "raw" \/ (NullOut(fields[n]) /\ ~RefusesNull(fields[n]))
             /\ ofCase' /\ n \notin Allowed(v) => At(wire', n) = "absent"
  <2>1. IsField(fields[n]) BY StructsAreFields DEF Inv, Others
  <2>2. s[n] \in ValuesOf(n) /\ WithinCount(n, s[n]) BY <1>1, <1>4
  <2>3. s[n] # Gone => s[n] \in GoStates(fields[n]) BY <2>2 DEF ValuesOf
  <2>4. s[n] = Gone => fields[n].viaEmbedPtr
    BY <2>1, <2>2, ValueShape DEF ValuesOf, Gone
  <2>5. At(wire', n) = IF Written(n, s[n]) THEN IF WritesNull(fields[n], s[n]) THEN "null" ELSE "value" ELSE "absent"
    BY <1>5 DEF At
  <2>6. ~Written(n, s[n]) => AbsentOut(fields[n])
    BY <2>1, <2>3, <2>4, AbsentExact DEF Written
  <2>7. Written(n, s[n]) /\ WritesNull(fields[n], s[n]) =>
          fields[n].kind = "raw" \/ (NullOut(fields[n]) /\ ~RefusesNull(fields[n]))
    BY <2>1, <2>2, <2>3, NullExact DEF Written, WithinCount
  <2>8. ofCase' /\ n \notin Allowed(v) => ~Written(n, s[n])
    <3>1. ASSUME ofCase', n \notin Allowed(v), s[n] # Gone PROVE OmittedByGo(fields[n], s[n])
      <4>1. v \in DOMAIN union.cases /\ Unset(n, s[n]) BY <1>1, <1>4, <1>8, <3>1
      <4>2. Omittable(fields[n]) BY <1>3, <3>1, <4>1 DEF Inv, UnionIsSound
      <4> QED BY <2>1, <2>3, <3>1, <4>1, <4>2, ZeroIsOmitted DEF Unset
    <3> QED BY <3>1 DEF Written
  <2> QED BY <2>5, <2>6, <2>7, <2>8
<1>7. ofCase' => wire'.tag \in DOMAIN union.cases BY <1>5, <1>8
<1>9. \A n \in DOMAIN wire'.has : wire'.has[n] \in {"null", "value"} BY <1>5
<1> QED BY <1>2, <1>5, <1>6, <1>7, <1>9 DEF WireIsSound, At, Others, Allowed, Optional

LEMMA RespondInv == Inv /\ Respond => Inv'
  BY ResponseIsSound DEF Inv, Respond, Running, UnionIsSound, EnumsFit, IsEnum, Allowed, Others

(* What Draw puts on the wire. *)
LEMMA DrawInv == Inv /\ Draw => Inv'
<1> SUFFICES ASSUME Inv, Draw PROVE Inv' OBVIOUS
<1>1. PICK v \in DOMAIN union.cases, N \in SUBSET Others(union.tag) :
        wire' = [tag |-> v, has |-> [n \in N |-> "value"]] /\ ArbForUnion(wire')
  BY DEF Draw
<1>2. wire'.tag = v /\ DOMAIN wire'.has = N /\ \A n \in N : wire'.has[n] = "value"
  BY <1>1
<1>3. \A n : At(wire', n) = IF n \in N THEN "value" ELSE "absent"
  BY <1>2 DEF At
<1>4. N \subseteq Allowed(v) /\ \A n \in Allowed(v) : OptionalName(n) \/ n \in N
  BY <1>1, <1>2 DEF ArbForUnion
<1>5. fields' = fields /\ union' = union /\ drawn' = TRUE BY DEF Draw
<1>6. WireIsSound'
  BY <1>1, <1>2, <1>3, <1>4, <1>5 DEF WireIsSound, At, Others, Allowed, OptionalName
<1> QED BY <1>5, <1>6 DEF Inv, Draw, Running, UnionIsSound, EnumsFit, IsEnum, Allowed, Others

(* What the decoder does not throw is a value of the union: a wire lacks   *)
(* no required field of its tag's case.                                    *)
LEMMA DecodeIsDecoded ==
  ASSUME UnionIsSound, union # NoUnion, WireIsSound, DecodeUnion(wire) # Throw
  PROVE  DecodeUnion(wire).tag = wire.tag /\ IsDecoded(DecodeUnion(wire))
<1>1. wire.tag \in DOMAIN union.cases /\ ~RefuseKeys(wire) BY DEF DecodeUnion
<1>2. DecodeUnion(wire) = [tag |-> wire.tag, has |-> [n \in Kept(wire) |-> "value"]]
  BY DEF DecodeUnion
<1>3. Kept(wire) \subseteq Allowed(wire.tag) BY DEF Kept
<1>4. \A n \in Allowed(wire.tag) : OptionalName(n) \/ n \in Kept(wire)
  <2>1. Allowed(wire.tag) \subseteq Others(union.tag) BY <1>1 DEF UnionIsSound
  <2>2. \A n \in Allowed(wire.tag) : At(wire, n) = "absent" => OptionalName(n)
    BY <2>1 DEF WireIsSound, OptionalName
  <2> QED BY <2>2 DEF Kept, TakenAsAbsent, OptionalName
<1> QED BY <1>1, <1>2, <1>3, <1>4 DEF IsDecoded

(* An object whose keys of other cases carry no value and whose keys of    *)
(* its own are each taken decodes.                                         *)
LEMMA TakenDecodes ==
  ASSUME NEW w, w.tag \in DOMAIN union.cases, ~RefuseKeys(w),
         \A n \in Allowed(w.tag) : TakenAsAbsent(n, At(w, n)) \/ TakenAsValue(n, At(w, n))
  PROVE  DecodeUnion(w) # Throw
<1> DEFINE t == [tag |-> w.tag, has |-> [n \in Kept(w) |-> "value"]]
<1>1. DecodeUnion(w) = t BY DEF DecodeUnion
<1>2. DOMAIN t = {"tag", "has"} /\ DOMAIN Throw = {"error"} BY DEF Throw
<1> QED BY <1>1, <1>2

(* A null the rules speak of is one the decoder takes. *)
LEMMA NullTaken ==
  ASSUME NEW n, IsField(fields[n]),
         fields[n].kind = "raw" \/ (NullOut(fields[n]) /\ ~RefusesNull(fields[n]))
  PROVE  TakenAsAbsent(n, "null") \/ TakenAsValue(n, "null")
<1>1. NullOut(fields[n]) => fields[n].kind # "raw" /\ (Optional(fields[n]) \/ NilValue(fields[n]))
  BY DEF NullOut, Optional, IsField
<1> QED BY <1>1 DEF TakenAsAbsent, TakenAsValue

(* A sound object of its case decodes. *)
LEMMA SoundDecodes ==
  ASSUME Inv, WireIsSound, union # NoUnion, ofCase \/ drawn
  PROVE  DecodeUnion(wire) # Throw
<1>1. wire.tag \in DOMAIN union.cases /\ ~RefuseKeys(wire)
  BY DEF WireIsSound, RefuseKeys
<1>2. ASSUME NEW n \in Allowed(wire.tag)
      PROVE  TakenAsAbsent(n, At(wire, n)) \/ TakenAsValue(n, At(wire, n))
  <2>1. n \in Others(union.tag) BY <1>1, <1>2 DEF Inv, UnionIsSound
  <2>2. IsField(fields[n]) BY <2>1, StructsAreFields DEF Inv, Others
  <2>3. /\ At(wire, n) \in {"absent", "null", "value"}
        /\ At(wire, n) = "absent" => Optional(fields[n])
        /\ At(wire, n) = "null" => fields[n].kind = "raw" \/ (NullOut(fields[n]) /\ ~RefusesNull(fields[n]))
    BY <1>2, <2>1 DEF WireIsSound, At
  <2> QED BY <2>2, <2>3, NullTaken DEF TakenAsAbsent, TakenAsValue
<1> QED BY <1>1, <1>2, TakenDecodes

(* So does every object the document admits. *)
LEMMA AdmittedIsTaken ==
  ASSUME Inv, union # NoUnion, OneOf("response", wire),
         \A n \in DOMAIN wire.has : wire.has[n] \in {"null", "value"}
  PROVE  DecodeUnion(wire) # Throw
<1>1. wire.tag \in DOMAIN union.cases /\ CaseSchema(wire.tag, "response", wire)
  BY DEF OneOf, CaseSchema
<1>2. ~RefuseKeys(wire) BY <1>1 DEF CaseSchema, RefuseKeys, At
<1>3. ASSUME NEW n \in Allowed(wire.tag)
      PROVE  TakenAsAbsent(n, At(wire, n)) \/ TakenAsValue(n, At(wire, n))
  <2>1. n \in Others(union.tag) BY <1>1, <1>3 DEF Inv, UnionIsSound
  <2>2. IsField(fields[n]) BY <2>1, StructsAreFields DEF Inv, Others
  <2>3. At(wire, n) \in {"absent", "null", "value"} BY DEF At
  <2>4. /\ At(wire, n) = "absent" => AbsentOut(fields[n])
        /\ At(wire, n) = "null" => NullableFor(n, "response")
    BY <1>1 DEF CaseSchema, MayBeAbsent
  <2> QED BY <2>2, <2>3, <2>4, NullTaken DEF NullableFor, TakenAsAbsent, TakenAsValue, Optional
<1> QED BY <1>1, <1>2, <1>3, TakenDecodes

LEMMA DecodeInv == Inv /\ Decode => Inv'
<1> SUFFICES ASSUME Inv, Decode PROVE Inv' OBVIOUS
<1>1. WireIsSound /\ union # NoUnion BY DEF Inv, Decode, Running
<1>2. ofCase \/ drawn => client' # Throw BY <1>1, SoundDecodes DEF Decode
<1>3. client' = DecodeUnion(wire)' BY DEF Decode, DecodeUnion, Kept, RefuseKeys, At, Others, Allowed, TakenAsAbsent, TakenAsValue
<1>4. WireIsSound'
  BY <1>1 DEF Decode, WireIsSound, At, Others, Allowed
<1>5. client' = Throw => (WireIsSound /\ DecodeUnion(wire) = Throw)'
  BY <1>3, <1>4
<1>6. drawn => client' # Throw BY <1>2
<1> QED BY <1>1, <1>2, <1>3, <1>4, <1>5, <1>6 DEF Inv, Decode, Running, UnionIsSound, EnumsFit, IsEnum, Allowed, Others

LEMMA ResendInv == Inv /\ Resend => Inv'
<1> SUFFICES ASSUME Inv, Resend PROVE Inv' OBVIOUS
<1>1. client # Throw /\ IsDecoded(client) BY DecodeIsDecoded DEF Inv, Resend, Running
<1>2. (wire = client /\ IsDecoded(client))'
  BY <1>1 DEF Resend, IsDecoded, Allowed, OptionalName
<1> QED BY <1>1, <1>2 DEF Inv, Resend, Running, UnionIsSound, EnumsFit, IsEnum, Allowed, Others

LEMMA StutterInv == Inv /\ UNCHANGED vars => Inv'
  BY DEF Inv, vars, Running, UnionIsSound, EnumsFit, IsEnum, WireIsSound, DecodeUnion, Kept, RefuseKeys, At, Others, Allowed,
         TakenAsAbsent, TakenAsValue, IsDecoded, OptionalName

(* The invariant holds throughout. *)
LEMMA InvHolds == Spec => []Inv
<1>1. Init => Inv BY InitInv
<1>2. Inv /\ [Next]_vars => Inv'
  BY DiscoverInv, ResolveInv, ResolvedInv, RespondInv, DrawInv, DecodeInv, ResendInv, StutterInv DEF Next
<1> QED BY <1>1, <1>2, PTL DEF Spec

(* The decoder of an accepted union takes every object the server writes   *)
(* of a value that sets only its case's fields: resolveUnion refuses every *)
(* union of which that is not so.                                          *)
THEOREM CasesDecode == Spec => []CaseValuesDecode
<1>1. Inv => CaseValuesDecode BY DEF Inv, CaseValuesDecode
<1> QED BY <1>1, InvHolds, PTL

(* The decoder takes every draw of an accepted union's arbitrary.          *)
THEOREM UnionDrawsDecode == Spec => []DrawsDecode
<1>1. Inv => DrawsDecode BY DEF Inv, DrawsDecode
<1> QED BY <1>1, InvHolds, PTL

(* Whatever fields the server sets, the decoder returns every value it was *)
(* sent or throws.                                                         *)
THEOREM NothingIsLost == Spec => []NothingLost
<1>1. ASSUME Inv, phase = "sender", NEW n \in DOMAIN wire.has, wire.has[n] = "value"
      PROVE  n \in DOMAIN client.has
  <2>1. client = DecodeUnion(wire) /\ client # Throw /\ n \in Others(union.tag) BY <1>1 DEF Inv, WireIsSound
  <2>2. At(wire, n) = "value" BY <1>1 DEF At
  <2>3. wire.tag \in DOMAIN union.cases /\ ~RefuseKeys(wire) BY <2>1 DEF DecodeUnion
  <2>4. n \in Allowed(wire.tag) BY <2>1, <2>2, <2>3 DEF RefuseKeys
  <2>5. ~TakenAsAbsent(n, At(wire, n)) BY <2>2 DEF TakenAsAbsent
  <2>6. client.has = [m \in Kept(wire) |-> "value"]
    BY <2>1 DEF DecodeUnion
  <2> QED BY <2>2, <2>4, <2>5, <2>6 DEF Kept
<1>2. ASSUME Inv, phase = "sender", IsEnum(union.tag),
             NEW x \in ConstValues(fields[union.tag].enum), NEW y \in ConstValues(fields[union.tag].enum),
             client.tag \in Encoded(fields[union.tag].enum, x) \cap Encoded(fields[union.tag].enum, y)
      PROVE  x = y
  <2>1. EnumFits(fields[union.tag].enum) BY <1>2 DEF Inv, Running, EnumsFit, UnionIsSound
  <2> QED BY <1>2, <2>1, ConstIsOneValue
<1>3. Inv => NothingLost BY <1>1, <1>2 DEF NothingLost
<1> QED BY <1>3, InvHolds, PTL

(* A response the document's oneOf admits, whichever fields the server     *)
(* set, is one the decoder takes.                                          *)
THEOREM AdmittedIsDecoded == Spec => []AdmittedDecodes
<1>1. ASSUME Inv, phase \in {"sender", "done"}, OneOf("response", wire), client = Throw PROVE FALSE
  <2>1. phase = "done" /\ WireIsSound /\ DecodeUnion(wire) = Throw BY <1>1 DEF Inv
  <2>2. union # NoUnion BY <1>1, <2>1 DEF Inv, Running
  <2> QED BY <1>1, <2>1, <2>2, AdmittedIsTaken DEF WireIsSound
<1>2. Inv => AdmittedDecodes BY <1>1 DEF AdmittedDecodes
<1> QED BY <1>2, InvHolds, PTL

(* What a decoder returns is a member of the generated TypeScript union.   *)
THEOREM DecodedIsMember == Spec => []DecodedIsTyped
<1>1. Inv /\ phase = "sender" => IsDecoded(client) BY DecodeIsDecoded DEF Inv, Running
<1>2. Inv => DecodedIsTyped BY <1>1 DEF DecodedIsTyped, IsDecoded
<1> QED BY <1>2, InvHolds, PTL

(* What the server writes of a value of one case fits that case's schema   *)
(* and no other, and so does what a client sends back of what it decoded.  *)
THEOREM WireFits == Spec => []WireFitsOneCase
<1>1. ASSUME Inv, phase = "client", ofCase, ~drawn PROVE OneOf("response", wire)
  <2>1. WireIsSound /\ union # NoUnion BY <1>1 DEF Inv, Running
  <2>2. wire.tag \in DOMAIN union.cases BY <1>1, <2>1 DEF WireIsSound
  <2>3. DOMAIN wire.has \subseteq Allowed(wire.tag) BY <1>1, <2>1 DEF WireIsSound, At
  <2>4. ASSUME NEW n \in Allowed(wire.tag)
        PROVE  /\ At(wire, n) = "absent" => MayBeAbsent(n, "response")
               /\ At(wire, n) = "null" => NullableFor(n, "response")
    <3>1. n \in Others(union.tag) BY <1>1, <2>1, <2>2, <2>4 DEF Inv, UnionIsSound
    <3> QED BY <1>1, <2>1, <3>1 DEF WireIsSound, MayBeAbsent, NullableFor
  <2> QED BY <2>2, <2>3, <2>4 DEF OneOf, CaseSchema
<1>2. ASSUME Inv, phase = "done", client # Throw, ~drawn PROVE OneOf("request", wire)
  <2>1. IsDecoded(wire) BY <1>2 DEF Inv
  <2>2. \A n \in Allowed(wire.tag) :
          At(wire, n) # "null" /\ (At(wire, n) = "absent" => MayBeAbsent(n, "request"))
    BY <2>1 DEF IsDecoded, At, MayBeAbsent, OptionalName
  <2> QED BY <2>1, <2>2 DEF OneOf, CaseSchema, IsDecoded
<1>3. Inv => WireFitsOneCase BY <1>1, <1>2 DEF WireFitsOneCase
<1> QED BY <1>3, InvHolds, PTL
=============================================================================
