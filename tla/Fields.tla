------------------------------- MODULE Fields -------------------------------
(***************************************************************************)
(* From the Go type of a struct field to its plan (resolveNamedField,      *)
(* resolveInto and below, ast_engine.go), beside what encoding/json writes *)
(* for a value of that type and reads back into it.                        *)
(*                                                                         *)
(* A type is a record: c is its constructor, of what it is of.  A named    *)
(* type has its marshalers in writes (value or pointer receiver), the      *)
(* unmarshalers of its pointer in reads, whether the registry knows it as  *)
(* an enum or a struct or maps it, and its bound methods.  An enum has     *)
(* passed checkEnumKind.  Names, docs and TypeScript text are left out.    *)
(***************************************************************************)
EXTENDS Bounds

CONSTANT Methods  \* by name, the declarations of bound methods

Basic(b) == [c |-> "basic", basic |-> b]
Pointer(t) == [c |-> "pointer", of |-> t]
Slice(t) == [c |-> "slice", of |-> t]
Map(k, t) == [c |-> "map", key |-> k, of |-> t]
Array(t) == [c |-> "array", of |-> t]
Alias(t, mapped) == [c |-> "alias", of |-> t, mapped |-> mapped]
Interface == [c |-> "interface"]
Struct == [c |-> "struct"]
Channel == [c |-> "channel"]
Named(t) ==
  [c |-> "named", of |-> t, std |-> "", role |-> "", mapped |-> FALSE, writes |-> {}, reads |-> {}, methods |-> "none"]

IntegerTypes == {"int", "uint", "uint8"}
Unalias(t) == IF t.c = "alias" THEN t.of ELSE t
IsNamed(t) == t.c = "named"
Underlying(t) == IF IsNamed(Unalias(t)) THEN Unalias(t).of ELSE Unalias(t)
IsBasic(t, B) == Underlying(t).c = "basic" /\ Underlying(t).basic \in B
Writes(t) == IF IsNamed(Unalias(t)) THEN Unalias(t).writes ELSE {}
Reads(t) == IF IsNamed(Unalias(t)) THEN Unalias(t).reads ELSE {}

(* Mutant: a MarshalJSON on the pointer receiver is not seen. *)
MarshalCodecOfValue(t) ==
  CASE "json" \in Writes(t) -> "json"
    [] "json" \notin Writes(t) /\ "text" \in Writes(t) -> "text"
    [] Writes(t) \cap {"json", "text"} = {} /\ "ptrText" \in Writes(t) -> "ptrText"
    [] OTHER -> "plain"

MarshalCodec(t) ==
  IF Writes(t) \cap {"json", "ptrJSON"} # {} THEN "json"
  ELSE IF "text" \in Writes(t) THEN "text"
  ELSE IF "ptrText" \in Writes(t) THEN "ptrText" ELSE "plain"

-----------------------------------------------------------------------------
(* The plan: refused stands for the Refusals, undecodable for InRefusals.  *)
NoElem == [kind |-> "none"]
Plan == [kind |-> "none", ptrs |-> 0, elem |-> NoElem, bounded |-> FALSE, minItems |-> 0, quotes |-> "",
         refused |-> FALSE, undecodable |-> FALSE]

Refuse(fi) == [fi EXCEPT !.kind = "refused", !.refused = TRUE]
Of(fi, kind) == [fi EXCEPT !.kind = kind]

NeedDecoder(t, fi) ==
  LET missing == CASE MarshalCodec(t) = "json" -> "json" \notin Reads(t)
                   [] MarshalCodec(t) = "text" -> Reads(t) = {}
                   [] OTHER -> FALSE
  IN [fi EXCEPT !.undecodable = @ \/ missing]

BasicKind(b) ==
  CASE b \in {"bool", "string", "int"} -> b
    [] b \in {"uint", "uint8"} -> "uint"
    [] b = "float" -> "number"
    [] OTHER -> "refused"

ApplyBounds(t, fi) ==
  LET d == Methods[t.methods]
      b == NamedBounds(d)
      g == IF Refused(d, fi.kind) THEN Refuse(fi) ELSE fi
  IN [g EXCEPT !.bounded = \E m \in DOMAIN d : Declares(d, m), !.minItems = b.minItems]

(* inheritRefusals *)
WithElem(fi, kind, e) ==
  [fi EXCEPT !.kind = kind, !.elem = e, !.refused = @ \/ e.refused, !.undecodable = @ \/ e.undecodable]

MapKey(k, fi) ==
  CASE IsBasic(k, {"string"}) -> fi
    [] ~IsBasic(k, {"string"}) /\ "text" \notin Writes(k) -> IF IsBasic(k, IntegerTypes) THEN fi ELSE [fi EXCEPT !.refused = TRUE]
    [] OTHER -> [fi EXCEPT !.undecodable = @ \/ "text" \notin Reads(k)]

(* Mutant: any slice of bytes is text. *)
IsBytesUncoded(t) == IsBasic(t.of, {"uint8"})

(* resolveSliceType: what is base64 text. *)
IsBytes(t) == IsBasic(t.of, {"uint8"}) /\ MarshalCodec(t.of) = "plain"

IsDuration(t) == IsNamed(Unalias(t)) /\ Unalias(t).std = "Duration"
IsMapped(t) == (t.c \in {"alias", "named"} /\ t.mapped) \/ (IsNamed(Unalias(t)) /\ Unalias(t).mapped)

RECURSIVE ResolveInto(_, _)
ResolveNamedType(t, fi) ==
  CASE t.std = "Time" -> Of(fi, "time")
    [] t.std = "RawMessage" -> Of(fi, "raw")
    [] t.std = "Number" -> Of(fi, "number")
    [] t.role = "enum" -> NeedDecoder(t, Of(fi, "enum"))
    [] t.role # "enum" /\ t.std = "" ->
         CASE t.of.c = "interface" -> Refuse(fi)
           [] t.of.c # "interface" /\ t.role = "type" ->
                IF MarshalCodec(t) # "plain" THEN Refuse(fi) ELSE Of(fi, "struct")
           [] t.of.c # "interface" /\ t.role = "" ->
                CASE MarshalCodec(t) = "text" -> ApplyBounds(t, NeedDecoder(t, Of(fi, "string")))
                  [] MarshalCodec(t) = "plain" /\ t.of.c # "struct" -> ApplyBounds(t, ResolveInto(t.of, fi))
                  [] OTHER -> Refuse(fi)

ResolveInto(t, fi) ==
  CASE IsDuration(t) -> Refuse(fi)
    [] ~IsDuration(t) /\ IsMapped(t) -> NeedDecoder(t, Of(fi, "mapped"))
    [] ~IsDuration(t) /\ ~IsMapped(t) ->
         CASE t.c = "alias" -> ResolveInto(Unalias(t), fi)
           [] t.c = "pointer" -> ResolveInto(t.of, [fi EXCEPT !.ptrs = @ + 1])
           [] t.c = "named" -> ResolveNamedType(t, fi)
           [] t.c = "basic" -> IF BasicKind(t.basic) = "refused" THEN Refuse(fi) ELSE Of(fi, BasicKind(t.basic))
           [] t.c = "slice" -> IF IsBytes(t) THEN Of(fi, "bytes") ELSE WithElem(fi, "slice", ResolveInto(t.of, Plan))
           [] t.c = "map" -> MapKey(t.key, WithElem(fi, "map", ResolveInto(t.of, Plan)))
           [] OTHER -> Refuse(fi)

(* Mutant: the option is applied whatever marshals the value. *)
QuotableUncoded(t) ==
  LET u == IF Unalias(t).c = "pointer" THEN Unalias(t).of ELSE Unalias(t)
  IN IsBasic(u, {"bool", "string", "int", "uint", "uint8", "float"})

Quotable(t) ==
  LET u == IF Unalias(t).c = "pointer" THEN Unalias(t).of ELSE Unalias(t)
  IN IsBasic(u, {"bool", "string", "int", "uint", "uint8", "float"}) /\ MarshalCodec(u) = "plain"

Quote(fi) ==
  IF fi.kind = "mapped" \/ fi.bounded THEN Refuse(fi)
  ELSE IF fi.kind = "refused" THEN fi
  ELSE [fi EXCEPT !.kind = "quoted", !.quotes = fi.kind, !.bounded = TRUE]

(* m is a struct's member: its type and whether its tag says ",string".    *)
ResolveNamedField(m) ==
  LET fi == ResolveInto(m.type, Plan)
  IN CASE m.string /\ Quotable(m.type) -> Quote(fi)
       [] m.string /\ ~Quotable(m.type) -> [fi EXCEPT !.refused = TRUE]
       [] OTHER -> fi

-----------------------------------------------------------------------------
(* encoding/json: the forms its encoder of a type writes (newTypeEncoder). *)
JS(x) == [js |-> x]
Scalars == {"bool", "string", "int", "uint", "uint8", "float"}
ScalarForm(b) == CASE b = "bool" -> JS("bool") [] b = "string" -> JS("string") [] OTHER -> JS("number")

(* The option applies to a scalar kind under at most one pointer.          *)
QuotedByTag(m) ==
  /\ m.string
  /\ LET u == IF Unalias(m.type).c = "pointer" THEN Unalias(m.type).of ELSE m.type IN IsBasic(u, Scalars)

(* A pointer receiver's method is called where the value is addressable.   *)
RECURSIVE Written(_, _)
Written(t, quoted) ==
  LET u == Unalias(t)
      Text(form) == IF quoted THEN [js |-> "text", of |-> form] ELSE form
      below == Written(u.of, quoted)
  IN CASE u.c = "basic" -> {IF u.basic \in Scalars THEN Text(ScalarForm(u.basic)) ELSE JS("error")}
       [] u.c = "pointer" -> {JS("null")} \cup below
       [] u.c = "slice" ->
            {JS("null")} \cup
            IF IsBasic(u.of, {"uint8"}) /\ Writes(u.of) = {} THEN {JS("string")} ELSE {[js |-> "array", of |-> Written(u.of, FALSE)]}
       [] u.c = "array" -> {[js |-> "array", of |-> Written(u.of, FALSE)]}
       [] u.c = "map" ->
            IF IsBasic(u.key, {"string"} \cup IntegerTypes) \/ "text" \in Writes(u.key)
            THEN {JS("null"), [js |-> "dict", of |-> Written(u.of, FALSE)]} ELSE {JS("error")}
       [] u.c = "struct" -> {JS("object")}
       [] u.c = "interface" -> {JS("any")}
       [] u.c = "named" ->
           (CASE u.std = "Time" -> {JS("string")}
              [] u.std = "RawMessage" -> {JS("any")}
              [] u.std = "Number" -> {Text(JS("number"))}
              [] u.std \in {"", "Duration"} ->
                   IF "json" \in u.writes THEN {JS("any")}
                   ELSE (IF "ptrJSON" \in u.writes THEN {JS("any")} ELSE {}) \cup
                        (IF "text" \in u.writes THEN {JS("string")}
                         ELSE (IF "ptrText" \in u.writes THEN {JS("string")} ELSE {}) \cup below))
       [] OTHER -> {JS("error")}

RECURSIVE Parts(_)
Parts(t) == {t} \cup (IF "of" \in DOMAIN t THEN Parts(t.of) ELSE {}) \cup (IF t.c = "map" THEN Parts(t.key) ELSE {})

(* Its decoder of the type takes these forms: an UnmarshalText only text,  *)
(* and without an unmarshaler what a marshaler wrote need not fit.         *)
RECURSIVE TakesBack(_)
TakesBack(t) ==
  LET u == Unalias(t)
  IN CASE u.c = "named" ->
            \/ u.std # "" \/ "json" \in u.reads
            \/ u.reads = {"text"} /\ Written(u, FALSE) \subseteq {JS("string"), JS("null")}
            \/ u.reads = {} /\ u.writes = {} /\ (u.role = "type" \/ TakesBack(u.of))
       [] u.c = "slice" -> Written(u, FALSE) = {JS("null"), JS("string")} \/ TakesBack(u.of)
       [] u.c = "pointer" -> TakesBack(u.of)
       [] u.c = "map" ->
            /\ IsBasic(u.key, {"string"}) \/ "text" \in Reads(u.key) \/ ("text" \notin Writes(u.key) /\ IsBasic(u.key, IntegerTypes))
            /\ TakesBack(u.of)
       [] OTHER -> TRUE

(* The forms a plan stands for. *)
RECURSIVE PlannedValue(_), Planned(_)
PlannedValue(f) ==
  CASE f.kind \in {"string", "time", "bytes", "enum"} -> JS("string")
    [] f.kind \in {"int", "uint", "number"} -> JS("number")
    [] f.kind = "bool" -> JS("bool")
    [] f.kind = "struct" -> JS("object")
    [] f.kind = "slice" -> [js |-> "array", of |-> Planned(f.elem)]
    [] f.kind = "map" -> [js |-> "dict", of |-> Planned(f.elem)]
    [] f.kind = "quoted" -> [js |-> "text", of |-> PlannedValue([f EXCEPT !.kind = f.quotes])]
    [] OTHER -> JS("any")

Planned(f) ==
  {PlannedValue(f)} \cup IF f.ptrs > 0 \/ f.kind \in {"slice", "map", "bytes"} THEN {JS("null")} ELSE {}

(* The field an accepted type is planned as has the form encoding/json     *)
(* gives its values, wherever they are, and unless a request refuses it,   *)
(* encoding/json reads that form back.  (A mapped type's form is the       *)
(* user's; a type that reads text and writes none is taken as it writes.)  *)
PlanIsWireForm(m, f) ==
  LET parts == Parts(m.type)
      oneWay == \E p \in parts : Reads(p) = {"text"} /\ Writes(p) = {}
  IN ~f.refused /\ ~(\E p \in parts : IsMapped(p)) =>
       /\ Written(m.type, QuotedByTag(m)) = Planned(f)
       /\ ~f.undecodable /\ ~oneWay => TakesBack(m.type)
=============================================================================
