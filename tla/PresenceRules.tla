---------------------------- MODULE PresenceRules ----------------------------
(***************************************************************************)
(* When the key of a field may be absent and when its value may be null    *)
(* (presence.go), beside what encoding/json writes for each Go value of    *)
(* the field.  A field is a record of its wire kind, the pointer levels    *)
(* above its value, its omit options, whether it is promoted through an    *)
(* embedded pointer and the lower bound of its Count (0 for none).         *)
(***************************************************************************)
EXTENDS Integers

(* scalar is every kind whose value is a JSON scalar and no Go nil, and a  *)
(* type mapped to one; struct is a registered struct, and time.Time.       *)
Kinds == {"scalar", "bytes", "raw", "struct", "slice", "map"}

IsField(f) ==
  /\ f.kind \in Kinds
  /\ f.ptrs \in Nat
  /\ f.omitEmpty \in BOOLEAN /\ f.omitZero \in BOOLEAN /\ f.viaEmbedPtr \in BOOLEAN
  /\ f.minItems \in Nat

(* omitempty never finds a struct empty. *)
OmitemptyApplies(f) == f.ptrs > 0 \/ f.kind # "struct"
Omittable(f) == f.omitZero \/ (f.omitEmpty /\ OmitemptyApplies(f))

(* Mutant: a nil embedded pointer is forgotten. *)
AbsentOutOfOptions(f) == Omittable(f)

AbsentOut(f) == Omittable(f) \/ f.viaEmbedPtr
Optional(f) == f.ptrs > 0 \/ AbsentOut(f)

NilValue(f) == f.kind \in {"slice", "map", "bytes"}

(* Mutant: an omit option is thought to look through a pointer. *)
NullOutUnlessOmittable(f) ==
  f.kind # "raw" /\ (f.ptrs > 0 \/ NilValue(f)) /\ ~Omittable(f)

NullOut(f) ==
  CASE f.kind = "raw" -> FALSE
    [] f.kind # "raw" /\ f.ptrs > 1 -> TRUE
    [] f.kind # "raw" /\ f.ptrs = 1 -> ~Omittable(f) \/ NilValue(f)
    [] OTHER -> NilValue(f) /\ ~Omittable(f)

NullIn(f) == f.kind # "raw" /\ (f.ptrs > 0 \/ NilValue(f))
NullElem(f) == f.ptrs > 0 /\ f.kind # "raw"
RefusesNull(f) == f.ptrs = 0 /\ f.minItems >= 1

-----------------------------------------------------------------------------
(* encoding/json.  A Go value is how many pointers are followed before a   *)
(* nil one, or all of them and the state of the value below: nil, zero but *)
(* not nil (an empty collection, 0, "", a zero struct), or anything else.  *)
States(f) ==
  CASE NilValue(f) \/ f.kind = "raw" -> {"nil", "zero", "some"}
    [] OTHER -> {"zero", "some"}

GoStates(f) ==
  {[depth |-> d, state |-> "nil"] : d \in 0 .. f.ptrs - 1} \cup
  {[depth |-> f.ptrs, state |-> s] : s \in States(f)}

NilPointer(f, v) == v.depth < f.ptrs

(* omitempty: a nil pointer, or with no pointer above it a false, a 0, ""  *)
(* or an empty collection.                                                 *)
IsEmpty(f, v) == (NilPointer(f, v) /\ v.depth = 0) \/ (f.ptrs = 0 /\ f.kind # "struct" /\ v.state # "some")

(* omitzero: the zero value of the field's type, so no empty collection.   *)
IsZero(f, v) ==
  \/ NilPointer(f, v) /\ v.depth = 0
  \/ f.ptrs = 0 /\ v.state = IF NilValue(f) \/ f.kind = "raw" THEN "nil" ELSE "zero"

OmittedByGo(f, v) == (f.omitEmpty /\ IsEmpty(f, v)) \/ (f.omitZero /\ IsZero(f, v))
WritesNull(f, v) == ~OmittedByGo(f, v) /\ (NilPointer(f, v) \/ v.state = "nil")

(* The rules say absent and null exactly where some value of the field is  *)
(* written so: a member is optional, a schema nullable, for a reason.  (A  *)
(* json.RawMessage is unknown and has the schema of any value.)            *)
PresenceIsExact(f) ==
  /\ AbsentOut(f) <=> (f.viaEmbedPtr \/ \E v \in GoStates(f) : OmittedByGo(f, v))
  /\ f.kind # "raw" => (NullOut(f) <=> \E v \in GoStates(f) : WritesNull(f, v))
=============================================================================
