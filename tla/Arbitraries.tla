---------------------------- MODULE Arbitraries ----------------------------
(***************************************************************************)
(* Drawing a value of a registered type from the generated arbitraries     *)
(* (arbForType and below, emitters.go; arbForUnion, unions.go), with       *)
(* fast-check's depth counter.  A draw of a type is a draw of one record   *)
(* and then of the types its fields tie to; the model follows any one of   *)
(* them, so a draw that could go on forever is a behaviour that never      *)
(* ends.                                                                   *)
(*                                                                         *)
(* A type is its cases, each a set of fields: a struct has one case, a     *)
(* union several.  A field ties to a type or to none, is a value or a      *)
(* collection of them, and may be of a type that declares limits.          *)
(***************************************************************************)
EXTENDS Bounds, FiniteSets

CONSTANTS
  Types, None,  \* the registered types; what a field without one refers to
  Named,        \* the named types of fields
  Methods,      \* the bound methods each of them declares
  Values,       \* by kind, the values that are drawn and checked
  Registries,   \* functions from Types to sequences of cases
  MaxDepth,     \* arbRecursionCap's maxDepth
  Absent        \* drawn for a field that is left out

ASSUME DepthBound == MaxDepth \in Nat

(* Each type may declare each bound method; a Range and a Count return two *)
(* integers.                                                               *)
ASSUME MethodsAssumption ==
  \A n \in Named :
    LET d == Methods[n]
    IN /\ DOMAIN d = {"Range", "MaxBytes", "Pattern", "Count"}
       /\ Declares(d, "Range") => d["Range"] \in Int \X Int
       /\ Declares(d, "Count") => d["Count"] \in Int \X Int

(* A text has no fewer bytes than code points. *)
ASSUME ValuesAssumption ==
  /\ \A kind \in DOMAIN Values : Absent \notin Values[kind]
  /\ \A kind \in IntegerKinds \cap DOMAIN Values : Values[kind] \subseteq Int
  /\ "string" \in DOMAIN Values => \A v \in Values["string"] : v.chars \in Nat /\ v.bytes \in Nat /\ v.chars <= v.bytes
  /\ "slice" \in DOMAIN Values => Values["slice"] \subseteq Nat
  /\ Absent \notin Int /\ "struct" \notin DOMAIN Values

(* A struct is one case, and a union has at least one.                     *)
ASSUME RegistriesAssumption ==
  \A r \in Registries : \A t \in Types :
    /\ 1 \in DOMAIN r[t]
    /\ \A c \in DOMAIN r[t] : \A f \in r[t][c] :
         f.ref \in Types \cup {None} /\ f.named \in Named /\ f.kind \in DOMAIN Values \cup {"struct"}

VARIABLES
  cases,   \* the registry
  reaches, \* arbReachability: the types each type's arbitrary can reach
  type,    \* the type being drawn
  depth,   \* fast-check's counter under the shared identifier
  fields,  \* the fields of the case drawn
  record,  \* what was drawn for them: Absent, a number of items or a scalar
  phase    \* "bounds", "refused", "draw", "follow" or "done"

vars == <<cases, reaches, type, depth, fields, record, phase>>

Collection(f) == f.kind \in {"slice", "map"}
FieldsOf(t) == UNION {cases[t][c] : c \in DOMAIN cases[t]}

(* resolveNamedType: structs are registered, and their methods not read. *)
Bounded(f) == f.kind # "struct"
Limited(f) == Bounded(f) /\ \E m \in DOMAIN Methods[f.named] : Declares(Methods[f.named], m)
Limits == [n \in Named |-> NamedBounds(Methods[n])]
RefusedTypes == {p \in Named \X DOMAIN Values : Refused(Methods[p[1]], p[2])}

-----------------------------------------------------------------------------
(* arbReachability *)
ArbRefs(f) == {f.ref} \ {None}
ArbEdges(t) == UNION {ArbRefs(f) : f \in FieldsOf(t)}

(* Mutant: a type reaches only what it ties to itself. *)
ReachableDirectly(t) == ArbEdges(t)

ReachableFrom(t) ==
  {u \in Types :
     \A S \in SUBSET Types :
       ArbEdges(t) \subseteq S /\ (\A x \in S : ArbEdges(x) \subseteq S) => u \in S}

Capped(t) == t \in reaches[t]
LeadsBack(t, f) == \E r \in ArbRefs(f) : r = t \/ t \in reaches[r]

(* Mutant: an array with a Count is drawn as one without. *)
DrawnOfUncounted(f) ==
  CASE Collection(f) -> 0 .. 2 [] f.kind = "struct" -> {1}
    [] OTHER -> {v \in Values[f.kind] : Drawn(Limits[f.named], v)}

(* arbFieldExpr.  Of a collection, the number of items: to two, or what    *)
(* arbArrayConstraintsFor makes of its Count.                              *)
DrawnOf(f) ==
  LET b == Limits[f.named]
  IN CASE Collection(f) -> IF b.hasCount THEN {n \in b.minItems .. b.maxItems : n <= 2 \/ n = b.minItems} ELSE 0 .. 2
       [] f.kind = "struct" -> {1}
       [] OTHER -> {v \in Values[f.kind] : Drawn(b, v)}

(* A field of a record: a leaf has no recursive optional field, and an     *)
(* empty recursive collection.                                             *)
ArbField(t, f, leaf) ==
  LET cut == leaf /\ LeadsBack(t, f)
  IN (IF f.optional THEN {Absent} ELSE {}) \cup
     (IF cut /\ f.optional THEN {} ELSE IF cut /\ Collection(f) THEN {0} ELSE DrawnOf(f))

ArbRecord(t, fs, leaf) ==
  {r \in [fs -> UNION {ArbField(t, f, leaf) : f \in fs}] : \A f \in fs : r[f] \in ArbField(t, f, leaf)}

(* fc.oneof's branches, leaves first; at the cap fast-check takes the first. *)
Leaves(t) == {[case |-> c, leaf |-> TRUE] : c \in DOMAIN cases[t]}
Full(t) == {[case |-> c, leaf |-> FALSE] : c \in DOMAIN cases[t]}
Branches(t) ==
  IF ~Capped(t) THEN Full(t)
  ELSE IF depth >= MaxDepth THEN {[case |-> 1, leaf |-> TRUE]}
  ELSE Leaves(t) \cup Full(t)

(* The counter is only compared with the cap, so it is kept at most there. *)
Deeper(by) == IF depth + by > MaxDepth THEN MaxDepth ELSE depth + by

(* applyBounds, for every field. *)
FieldRefused(f) == Bounded(f) /\ <<f.named, f.kind>> \in RefusedTypes

ReadBounds ==
  /\ phase = "bounds" /\ \A t \in Types : \A f \in FieldsOf(t) : ~FieldRefused(f)
  /\ phase' = "draw"
  /\ UNCHANGED <<cases, reaches, type, depth, fields, record>>

RefuseBounds ==
  /\ phase = "bounds" /\ \E t \in Types : \E f \in FieldsOf(t) : FieldRefused(f)
  /\ phase' = "refused"
  /\ UNCHANGED <<cases, reaches, type, depth, fields, record>>

Draw ==
  /\ phase = "draw"
  /\ \E b \in Branches(type) :
       /\ fields' = cases[type][b.case]
       /\ record' \in ArbRecord(type, fields', b.leaf)
  /\ depth' = Deeper(IF Capped(type) THEN 1 ELSE 0)
  /\ phase' = "follow"
  /\ UNCHANGED <<cases, reaches, type>>

Ties(f) == ArbRefs(f) # {} /\ record[f] # Absent /\ record[f] > 0

(* The draws a record goes on with: one per value or item. *)
Follow ==
  /\ phase = "follow"
  /\ \E f \in fields :
       /\ Ties(f)
       /\ type' = f.ref
       /\ depth' = Deeper(IF Collection(f) THEN 1 ELSE 0)
  /\ phase' = "draw"
  /\ UNCHANGED <<cases, reaches, fields, record>>

Finish ==
  /\ phase = "follow" /\ \A f \in fields : ~Ties(f)
  /\ phase' = "done"
  /\ UNCHANGED <<cases, reaches, type, depth, fields, record>>

Init ==
  /\ cases \in Registries /\ type \in Types
  /\ reaches = [t \in Types |-> ReachableFrom(t)]
  /\ depth = 0 /\ fields = {} /\ record = << >> /\ phase = "bounds"

Next == ReadBounds \/ RefuseBounds \/ Draw \/ Follow \/ Finish
Spec == Init /\ [][Next]_vars

(* fast-check draws until the value is whole. *)
FairSpec == Spec /\ WF_vars(Next)

-----------------------------------------------------------------------------
(* Every draw ends, of any types that tie to each other in any way Go      *)
(* admits and whatever fast-check picks below the cap.                     *)
DrawEnds == <>(phase \in {"done", "refused"})

(* What is drawn passes the generated checks: a required field is there,   *)
(* an integer is within its Range, a string within its Pattern and its     *)
(* MaxBytes, and a collection within its Count (docs/arbitraries.md, "How   *)
(* values are drawn").                                                     *)
DrawPassesChecks ==
  phase \in {"follow", "done"} =>
    \A f \in fields :
      IF record[f] = Absent THEN f.optional
      ELSE Bounded(f) => ValidatorCheck(Limits[f.named], record[f])

(* A limit has one source (docs/type-mapping.md, "Bounds"): past the        *)
(* refusals, the checks of the decoder and the keywords of the schema take *)
(* every value the bound methods allow, and no other.  The keywords count  *)
(* code points, and past what JavaScript counts to two integers may be one. *)
ChecksAreDeclared ==
  phase \notin {"bounds", "refused"} =>
    \A t \in Types : \A f \in FieldsOf(t) :
      Limited(f) => \A v \in Values[f.kind] :
        LET d == Methods[f.named]
            b == Limits[f.named]
        IN /\ Within(d, v) => ValidatorCheck(b, v) /\ Admits(b, f.kind, v)
           /\ ValidatorCheck(b, v) /\ (f.kind \in IntegerKinds => Number(v) = v /\ v \in -MaxSafe .. MaxSafe) => Within(d, v)
           /\ Admits(b, f.kind, v) /\ (f.kind = "string" => v.chars = v.bytes) => Within(d, v)
=============================================================================
