------------------------- MODULE Arbitraries_proofs -------------------------
(***************************************************************************)
(* A limit has one source, for any bound methods and any values; and what  *)
(* is drawn passes the checks of the decoder, but for the empty collection *)
(* a leaf has where the type of the field counts its items from one.       *)
(***************************************************************************)
EXTENDS Arbitraries, TLAPS

(* Each limit is what its method returns, where there is one.              *)
Reads(d, b) ==
  /\ b.hasRange <=> Declares(d, "Range")
  /\ b.hasCount <=> Declares(d, "Count")
  /\ Declares(d, "Range") => b.min = d["Range"][1] /\ b.max = d["Range"][2]
  /\ Declares(d, "Count") => b.minItems = d["Count"][1] /\ b.maxItems = d["Count"][2]
  /\ Declares(d, "MaxBytes") => b.maxBytes = d["MaxBytes"][1]
  /\ ~Declares(d, "MaxBytes") => b.maxBytes = 0
  /\ b.pattern = IF Declares(d, "Pattern") THEN d["Pattern"][1] ELSE ""

(* Past the refusals a method has a field of its kind, and a limit to set. *)
Fits(d, kind) ==
  /\ Declares(d, "Range") => kind \in IntegerKinds /\ d["Range"][1] \in Int /\ d["Range"][2] \in Int
  /\ Declares(d, "MaxBytes") => kind = "string" /\ d["MaxBytes"][1] \in Nat /\ d["MaxBytes"][1] > 0
  /\ Declares(d, "Pattern") => kind = "string" /\ d["Pattern"][1] # ""
  /\ Declares(d, "Count") => kind = "slice" /\ d["Count"][1] \in Int /\ d["Count"][2] \in Int

LEMMA NamedBoundsRead ==
  ASSUME NEW d
  PROVE  Reads(d, NamedBounds(d))
BY DEF Reads, NamedBounds, First, Second

(* 0 bytes and the empty pattern are no limit. *)
LEMMA NoneRead ==
  ASSUME NEW d, NEW b, Reads(d, b)
  PROVE  /\ b.maxBytes > 0 => Declares(d, "MaxBytes")
         /\ b.pattern # "" => Declares(d, "Pattern")
<1>1. ~Declares(d, "MaxBytes") => b.maxBytes = 0 BY DEF Reads
<1>2. b.maxBytes = 0 => ~(b.maxBytes > 0) OBVIOUS
<1>3. b.pattern # "" => Declares(d, "Pattern") BY DEF Reads
<1> QED BY <1>1, <1>2, <1>3

LEMMA AppliedBounds ==
  ASSUME NEW n \in Named, NEW kind \in DOMAIN Values, ~Refused(Methods[n], kind)
  PROVE  Reads(Methods[n], Limits[n]) /\ Fits(Methods[n], kind)
<1> DEFINE d == Methods[n]
           b == Limits[n]
<1>1. /\ DOMAIN d = {"Range", "MaxBytes", "Pattern", "Count"}
      /\ Declares(d, "Range") => d["Range"][1] \in Int /\ d["Range"][2] \in Int
      /\ Declares(d, "Count") => d["Count"][1] \in Int /\ d["Count"][2] \in Int
  BY MethodsAssumption
<1>2. Refusals(d) = {} /\ ~Misfit(NamedBounds(d), kind) BY DEF Refused
<1>3. b = NamedBounds(d) BY DEF Limits
<1>4. Reads(d, b) BY <1>3, NamedBoundsRead
<1>5. ~Misfit(b, kind) BY <1>2, <1>3
<1>6. ASSUME Declares(d, "MaxBytes") PROVE kind = "string" /\ d["MaxBytes"][1] \in Nat /\ d["MaxBytes"][1] > 0
  <2>1. "MaxBytes" \notin Refusals(d) /\ "MaxBytes" \in DOMAIN d BY <1>1, <1>2
  <2>2. MaxBytesFits(d["MaxBytes"][1]) BY <2>1, <1>6 DEF Refusals
  <2>3. d["MaxBytes"][1] \in Nat /\ d["MaxBytes"][1] > 0 BY <2>2, LimitsAssumption DEF MaxBytesFits
  <2>4. b.maxBytes > 0 BY <1>4, <1>6, <2>3 DEF Reads
  <2> QED BY <1>5, <2>3, <2>4 DEF Misfit
<1>7. ASSUME Declares(d, "Pattern") PROVE kind = "string" /\ d["Pattern"][1] # ""
  <2>1. "Pattern" \notin Refusals(d) /\ "Pattern" \in DOMAIN d BY <1>1, <1>2
  <2>2. PatternFits(d["Pattern"][1]) BY <2>1, <1>7 DEF Refusals
  <2>3. b.pattern = d["Pattern"][1] BY <1>4, <1>7 DEF Reads
  <2> QED BY <1>5, <2>2, <2>3 DEF Misfit, PatternFits
<1>8. Declares(d, "Range") => kind \in IntegerKinds BY <1>4, <1>5 DEF Misfit, Reads
<1>9. Declares(d, "Count") => kind = "slice" BY <1>4, <1>5 DEF Misfit, Reads
<1> QED BY <1>1, <1>4, <1>6, <1>7, <1>8, <1>9 DEF Fits

-----------------------------------------------------------------------------
(* JavaScript counts exactly to MaxSafe, and past it a number is read as a *)
(* neighbour, by which two numbers may become one but not change places.   *)
LEMMA NumberIs ==
  ASSUME NEW x \in Int
  PROVE  /\ Number(x) \in {x - 1, x, x + 1}
         /\ x \in -MaxSafe .. MaxSafe => Number(x) = x
         /\ x > MaxSafe => Number(x) > MaxSafe
         /\ x < -MaxSafe => Number(x) < -MaxSafe
<1>1. MaxSafe \in Nat /\ MaxSafe % 2 = 1 BY LimitsAssumption
<1>2. Number(x) \in {x - 1, x, x + 1} BY DEF Number
<1>3. ASSUME x = MaxSafe + 1 \/ x = -MaxSafe - 1 PROVE Number(x) = x
  <2>1. x % 2 = 0 BY <1>1, <1>3
  <2> QED BY <2>1 DEF Number
<1>4. x \in -MaxSafe .. MaxSafe => Number(x) = x BY DEF Number
<1> QED BY <1>1, <1>2, <1>3, <1>4

LEMMA NumberKeepsOrder ==
  ASSUME NEW x \in Int, NEW y \in Int, x <= y
  PROVE  Number(x) <= Number(y)
<1>1. Number(x) \in {x - 1, x, x + 1} /\ Number(y) \in {y - 1, y, y + 1} BY NumberIs
<1>2. CASE y >= x + 2 BY <1>1, <1>2
<1>3. CASE y = x BY <1>1, <1>3
<1>4. CASE y = x + 1
  <2>1. x % 2 = 0 \/ y % 2 = 0 BY <1>4
  <2>2. Number(x) = x \/ Number(y) = y BY <2>1 DEF Number
  <2> QED BY <1>1, <1>4, <2>2
<1> QED BY <1>2, <1>3, <1>4

-----------------------------------------------------------------------------
(* What a value is, by its kind. *)
LEMMA ValueIs ==
  ASSUME NEW kind \in DOMAIN Values, NEW v \in Values[kind]
  PROVE  /\ v # Absent
         /\ kind \in IntegerKinds => v \in Int
         /\ kind = "string" => v.chars \in Nat /\ v.bytes \in Nat /\ v.chars <= v.bytes
         /\ kind = "slice" => v \in Nat
BY ValuesAssumption DEF IntegerKinds

(* A type the code takes has one limit, of its kind, or none; the checks of *)
(* the decoder pass what it allows. *)
LEMMA CheckTakesAllowed ==
  ASSUME NEW n \in Named, NEW kind \in DOMAIN Values, ~Refused(Methods[n], kind),
         NEW v \in Values[kind], Within(Methods[n], v)
  PROVE  ValidatorCheck(Limits[n], v)
<1> DEFINE d == Methods[n]
           b == Limits[n]
<1>1. ASSUME b.hasRange PROVE Number(b.min) <= Number(v) /\ Number(v) <= Number(b.max)
  <2>1. Declares(d, "Range") BY <1>1, AppliedBounds DEF Reads, Fits
  <2>2. b.min = d["Range"][1] /\ b.max = d["Range"][2] BY <2>1, AppliedBounds DEF Reads, Fits
  <2>3. b.min \in Int /\ b.max \in Int /\ v \in Int BY <2>1, <2>2, AppliedBounds, ValueIs DEF Reads, Fits
  <2>4. b.min <= v /\ v <= b.max BY <2>1, <2>2 DEF Within
  <2> QED BY <2>3, <2>4, NumberKeepsOrder
<1>2. ASSUME b.maxBytes > 0 PROVE v.bytes <= b.maxBytes
  <2>1. Reads(d, b) BY AppliedBounds
  <2>2. Declares(d, "MaxBytes") BY <1>2, <2>1, NoneRead
  <2>3. b.maxBytes = d["MaxBytes"][1] BY <2>1, <2>2 DEF Reads
  <2> QED BY <2>2, <2>3 DEF Within
<1>3. ASSUME b.pattern # "" PROVE v.matches
  <2>1. Declares(d, "Pattern") BY <1>3, AppliedBounds DEF Reads, Fits
  <2> QED BY <2>1 DEF Within
<1>4. ASSUME b.hasCount PROVE b.minItems <= v /\ v <= b.maxItems
  <2>1. Declares(d, "Count") BY <1>4, AppliedBounds DEF Reads, Fits
  <2>2. b.minItems = d["Count"][1] /\ b.maxItems = d["Count"][2] BY <2>1, AppliedBounds DEF Reads, Fits
  <2> QED BY <2>1, <2>2 DEF Within
<1> QED BY <1>1, <1>2, <1>3, <1>4 DEF ValidatorCheck

(* And so does the schema: an unsigned integer with a limit has a Range.   *)
LEMMA SchemaTakesAllowed ==
  ASSUME NEW n \in Named, NEW kind \in DOMAIN Values, ~Refused(Methods[n], kind),
         \E m \in DOMAIN Methods[n] : Declares(Methods[n], m),
         NEW v \in Values[kind], Within(Methods[n], v)
  PROVE  Admits(Limits[n], kind, v)
<1> DEFINE d == Methods[n]
           b == Limits[n]
<1>1. Reads(d, b) /\ Fits(d, kind) BY AppliedBounds
<1>2. b.hasRange => b.min <= v /\ v <= b.max
  BY <1>1 DEF Reads, Within
<1>3. kind = "uint" => b.hasRange
  <2>1. HAVE kind = "uint"
  <2>2. PICK m \in {"Range", "MaxBytes", "Pattern", "Count"} : Declares(d, m) BY MethodsAssumption
  <2>3. m = "Range" BY <2>1, <2>2, AppliedBounds DEF Reads, Fits
  <2> QED BY <1>1, <2>2, <2>3 DEF Reads
<1>4. ASSUME b.maxBytes > 0 PROVE v.chars <= b.maxBytes
  <2>2. Declares(d, "MaxBytes") BY <1>1, <1>4, NoneRead
  <2>3. b.maxBytes = d["MaxBytes"][1] BY <1>1, <2>2 DEF Reads
  <2>4. b.maxBytes \in Nat /\ kind = "string" BY <2>2, <2>3, AppliedBounds DEF Reads, Fits
  <2>5. v.chars \in Nat /\ v.bytes \in Nat /\ v.chars <= v.bytes BY <2>4, ValueIs
  <2>6. v.bytes <= b.maxBytes BY <2>2, <2>3 DEF Within
  <2> QED BY <2>4, <2>5, <2>6
<1>5. b.pattern # "" => v.matches BY <1>1 DEF Reads, Within
<1>6. b.hasCount => b.minItems <= v /\ v <= b.maxItems
  BY <1>1 DEF Reads, Within
<1> QED BY <1>2, <1>3, <1>4, <1>5, <1>6 DEF Admits

(* What the decoder takes of the numbers JavaScript counts to is allowed.   *)
LEMMA CheckedIsAllowed ==
  ASSUME NEW n \in Named, NEW kind \in DOMAIN Values, ~Refused(Methods[n], kind),
         NEW v \in Values[kind], ValidatorCheck(Limits[n], v), kind \in IntegerKinds => v \in -MaxSafe .. MaxSafe
  PROVE  Within(Methods[n], v)
<1> DEFINE d == Methods[n]
           b == Limits[n]
<1>1. Reads(d, b) /\ Fits(d, kind) BY AppliedBounds
<1>2. ASSUME Declares(d, "Range") PROVE d["Range"][1] <= v /\ v <= d["Range"][2]
  <2>1. /\ b.hasRange /\ b.min = d["Range"][1] /\ b.max = d["Range"][2]
    BY <1>1, <1>2 DEF Reads
  <2>2. kind \in IntegerKinds /\ b.min \in Int /\ b.max \in Int BY <1>2, <2>1, AppliedBounds DEF Reads, Fits
  <2>3. v \in -MaxSafe .. MaxSafe /\ v \in Int BY <2>2, ValueIs
  <2>4. Number(b.min) <= Number(v) /\ Number(v) <= Number(b.max) BY <2>1 DEF ValidatorCheck
  <2>5. Number(v) = v BY <2>3, NumberIs
  <2>6. b.min <= v
    <3>1. b.min \in -MaxSafe .. MaxSafe \/ b.min > MaxSafe \/ b.min < -MaxSafe BY <2>2, LimitsAssumption
    <3>2. /\ b.min \in -MaxSafe .. MaxSafe => Number(b.min) = b.min
          /\ b.min > MaxSafe => Number(b.min) > MaxSafe
          /\ Number(b.min) \in Int
      BY <2>2, NumberIs
    <3> QED BY <2>2, <2>3, <2>4, <2>5, <3>1, <3>2, LimitsAssumption
  <2>7. v <= b.max
    <3>1. b.max \in -MaxSafe .. MaxSafe \/ b.max > MaxSafe \/ b.max < -MaxSafe BY <2>2, LimitsAssumption
    <3>2. /\ b.max \in -MaxSafe .. MaxSafe => Number(b.max) = b.max
          /\ b.max < -MaxSafe => Number(b.max) < -MaxSafe
          /\ Number(b.max) \in Int
      BY <2>2, NumberIs
    <3> QED BY <2>2, <2>3, <2>4, <2>5, <3>1, <3>2, LimitsAssumption
  <2> QED BY <2>1, <2>6, <2>7
<1>3. ASSUME Declares(d, "MaxBytes") PROVE v.bytes <= d["MaxBytes"][1]
  <2>1. b.maxBytes = d["MaxBytes"][1] BY <1>1, <1>3 DEF Reads
  <2>2. b.maxBytes > 0 BY <1>3, <2>1, AppliedBounds DEF Reads, Fits
  <2> QED BY <2>1, <2>2 DEF ValidatorCheck
<1>4. ASSUME Declares(d, "Pattern") PROVE v.matches
  <2>1. b.pattern # "" BY <1>1, <1>4, AppliedBounds DEF Reads, Fits
  <2> QED BY <2>1 DEF ValidatorCheck
<1>5. Declares(d, "Count") => d["Count"][1] <= v /\ v <= d["Count"][2]
  BY <1>1 DEF Reads, ValidatorCheck
<1> QED BY <1>2, <1>3, <1>4, <1>5 DEF Within

(* What the schema admits of the texts of one byte a code point is allowed. *)
LEMMA AdmittedIsAllowed ==
  ASSUME NEW n \in Named, NEW kind \in DOMAIN Values, ~Refused(Methods[n], kind),
         NEW v \in Values[kind], Admits(Limits[n], kind, v), kind = "string" => v.chars = v.bytes
  PROVE  Within(Methods[n], v)
<1> DEFINE d == Methods[n]
           b == Limits[n]
<1>1. Reads(d, b) /\ Fits(d, kind) BY AppliedBounds
<1>2. Declares(d, "Range") => d["Range"][1] <= v /\ v <= d["Range"][2]
  BY <1>1 DEF Reads, Admits
<1>3. ASSUME Declares(d, "MaxBytes") PROVE v.bytes <= d["MaxBytes"][1]
  <2>1. b.maxBytes = d["MaxBytes"][1] BY <1>1, <1>3 DEF Reads
  <2>2. b.maxBytes > 0 /\ v.chars = v.bytes BY <1>3, <2>1, AppliedBounds DEF Reads, Fits
  <2> QED BY <2>1, <2>2 DEF Admits
<1>4. ASSUME Declares(d, "Pattern") PROVE v.matches
  <2>1. b.pattern # "" BY <1>1, <1>4, AppliedBounds DEF Reads, Fits
  <2> QED BY <2>1 DEF Admits
<1>5. Declares(d, "Count") => d["Count"][1] <= v /\ v <= d["Count"][2]
  BY <1>1 DEF Reads, Admits
<1> QED BY <1>2, <1>3, <1>4, <1>5 DEF Within

-----------------------------------------------------------------------------
(* The fields of every type, once their bounds have been read: what a field *)
(* of an accepted registry is.                                             *)
Applied(f) ==
  /\ f.named \in Named /\ f.kind \in DOMAIN Values \cup {"struct"}
  /\ Bounded(f) => f.kind \in DOMAIN Values /\ ~Refused(Methods[f.named], f.kind)

(* A required collection a leaf leaves empty, with a Count from one.       *)
CountAboveNone(t, f) ==
  /\ LeadsBack(t, f) /\ ~f.optional /\ Collection(f)
  /\ Limits[f.named].hasCount /\ Limits[f.named].minItems > 0

(* What may be drawn for a field of type t. *)
Fine(t, f, x) ==
  IF x = Absent THEN f.optional
  ELSE Bounded(f) => ValidatorCheck(Limits[f.named], x) \/ (x = 0 /\ CountAboveNone(t, f))

LEMMA DrawnPasses ==
  ASSUME NEW f, Applied(f), NEW x \in DrawnOf(f)
  PROVE  x # Absent /\ (Bounded(f) => ValidatorCheck(Limits[f.named], x))
<1> DEFINE d == Methods[f.named]
           b == Limits[f.named]
<1>1. CASE f.kind = "struct"
  <2>1. x = 1 BY <1>1 DEF DrawnOf, Collection
  <2> QED BY <1>1, <2>1, ValuesAssumption DEF Bounded
<1>2. CASE f.kind # "struct"
  <2>1. Bounded(f) BY <1>2 DEF Bounded
  <2>2. f.named \in Named /\ f.kind \in DOMAIN Values /\ ~Refused(d, f.kind) BY <2>1 DEF Applied
  <2>3. Reads(d, b) /\ Fits(d, f.kind) BY <2>2, AppliedBounds
  <2>4. CASE Collection(f)
    <3>1. f.kind \in {"slice", "map"} BY <2>4 DEF Collection
    <3>2. ~b.hasRange /\ ~Declares(d, "MaxBytes") /\ ~Declares(d, "Pattern")
      BY <2>3, <3>1 DEF Reads, Fits, IntegerKinds
    <3>3. ~(b.maxBytes > 0) /\ b.pattern = "" BY <2>3, <3>2, NoneRead
    <3>4. ASSUME b.hasCount PROVE x \in Int /\ b.minItems <= x /\ x <= b.maxItems
      <4>1. b.minItems \in Int /\ b.maxItems \in Int BY <2>3, <3>4 DEF Reads, Fits
      <4>2. x \in IF b.hasCount THEN {n \in b.minItems .. b.maxItems : n <= 2 \/ n = b.minItems} ELSE 0 .. 2
        BY <2>4, <1>2 DEF DrawnOf
      <4>3. x \in {n \in b.minItems .. b.maxItems : n <= 2 \/ n = b.minItems} BY <3>4, <4>2, Zenon
      <4> QED BY <4>1, <4>3
    <3>5. ~b.hasCount => x \in Int BY <2>4 DEF DrawnOf
    <3>6. x # Absent BY <3>4, <3>5, ValuesAssumption
    <3> QED BY <3>2, <3>3, <3>4, <3>6 DEF ValidatorCheck
  <2>5. CASE ~Collection(f)
    <3>1. x \in Values[f.kind] /\ Drawn(b, x) BY <2>5, <1>2 DEF DrawnOf
    <3>2. x # Absent BY <3>1, <2>2, ValueIs
    <3>3. ~b.hasCount BY <2>3, <2>5 DEF Reads, Fits, Collection
    <3>4. ASSUME b.hasRange PROVE Number(b.min) <= Number(x) /\ Number(x) <= Number(b.max)
      <4>1. f.kind \in IntegerKinds /\ b.min \in Int /\ b.max \in Int BY <2>3, <3>4 DEF Reads, Fits
      <4>2. x \in Int BY <4>1, <2>2, <3>1, ValueIs
      <4>3. LowestOf(b) <= x /\ x <= HighestOf(b) BY <3>1, <3>4 DEF Drawn
      <4>4. x \in -MaxSafe .. MaxSafe /\ b.min <= x /\ x <= b.max
        BY <4>1, <4>2, <4>3, LimitsAssumption DEF LowestOf, HighestOf
      <4> QED BY <4>1, <4>2, <4>4, NumberKeepsOrder
    <3> QED BY <3>1, <3>2, <3>3, <3>4 DEF Drawn, ValidatorCheck
  <2> QED BY <2>4, <2>5
<1> QED BY <1>1, <1>2

LEMMA EmptyIsFine ==
  ASSUME NEW t, NEW f, Applied(f), LeadsBack(t, f), ~f.optional, Collection(f)
  PROVE  Fine(t, f, 0)
<1> DEFINE d == Methods[f.named]
           b == Limits[f.named]
<1>1. f.kind \in {"slice", "map"} /\ Bounded(f) BY DEF Collection, Bounded
<1>2. f.named \in Named /\ f.kind \in DOMAIN Values /\ ~Refused(d, f.kind) BY <1>1 DEF Applied
<1>3. Reads(d, b) /\ Fits(d, f.kind) BY <1>2, AppliedBounds
<1>4. ~b.hasRange /\ ~Declares(d, "MaxBytes") /\ ~Declares(d, "Pattern")
  BY <1>1, <1>3 DEF Reads, Fits, IntegerKinds
<1>5. ~(b.maxBytes > 0) /\ b.pattern = "" BY <1>3, <1>4, NoneRead
<1>6. ASSUME b.hasCount, ~(b.minItems > 0) PROVE b.minItems <= 0 /\ 0 <= b.maxItems
  <2>1. Declares(d, "Count") /\ b.minItems = d["Count"][1] /\ b.maxItems = d["Count"][2] BY <1>3, <1>6 DEF Reads
  <2>2. b.minItems \in Int /\ b.maxItems \in Int BY <1>3, <2>1 DEF Fits
  <2>3. CountFits(d["Count"][1], d["Count"][2])
    <3>1. "Count" \in DOMAIN d \ Refusals(d) BY <1>2, MethodsAssumption DEF Refused
    <3> QED BY <2>1, <3>1 DEF Refusals
  <2> QED BY <1>6, <2>1, <2>2, <2>3, LimitsAssumption DEF CountFits
<1>7. 0 # Absent BY ValuesAssumption
<1>8. CASE b.hasCount /\ b.minItems > 0 BY <1>7, <1>8 DEF Fine, CountAboveNone
<1>9. CASE ~(b.hasCount /\ b.minItems > 0) BY <1>4, <1>5, <1>6, <1>7, <1>9 DEF Fine, ValidatorCheck
<1> QED BY <1>8, <1>9

(* arbFieldExpr, of a leaf and of any other record. *)
LEMMA FieldIsFine ==
  ASSUME NEW t, NEW f, NEW leaf, Applied(f), NEW x \in ArbField(t, f, leaf)
  PROVE  Fine(t, f, x)
<1>1. CASE x = Absent /\ f.optional BY <1>1 DEF Fine
<1>2. CASE x \in DrawnOf(f) BY <1>2, DrawnPasses DEF Fine
<1>3. CASE x = 0 /\ LeadsBack(t, f) /\ ~f.optional /\ Collection(f)
  BY <1>3, EmptyIsFine
<1> QED BY <1>1, <1>2, <1>3 DEF ArbField

-----------------------------------------------------------------------------
(* Past the refusals every field's limits are read; what was last drawn is *)
(* a record of a registered case, each field of it fine.                   *)
AllApplied == \A t \in Types : \A f \in FieldsOf(t) : Applied(f)

DrawnIsFine ==
  phase \in {"follow", "done"} =>
    fields \subseteq FieldsOf(type) /\ \A f \in fields : Fine(type, f, record[f])

IInv ==
  /\ cases \in Registries /\ type \in Types
  /\ phase \notin {"bounds", "refused"} => AllApplied
  /\ DrawnIsFine

LEMMA Initially ==
  ASSUME Init
  PROVE  IInv
BY DEF Init, IInv, DrawnIsFine

LEMMA FieldsAre ==
  ASSUME cases \in Registries, NEW t \in Types, NEW f \in FieldsOf(t)
  PROVE  f.ref \in Types \cup {None} /\ f.named \in Named /\ f.kind \in DOMAIN Values \cup {"struct"}
<1>1. PICK c \in DOMAIN cases[t] : f \in cases[t][c] BY DEF FieldsOf
<1> QED BY <1>1, RegistriesAssumption

LEMMA ReadBoundsKeeps ==
  ASSUME IInv, ReadBounds
  PROVE  IInv'
<1>1. UNCHANGED <<cases, reaches, type, depth, fields, record>> /\ phase' = "draw" BY DEF ReadBounds
<1>2. ASSUME NEW t \in Types, NEW f \in FieldsOf(t) PROVE Applied(f)
  <2>1. f.named \in Named /\ f.kind \in DOMAIN Values \cup {"struct"} BY FieldsAre DEF IInv
  <2>2. ~FieldRefused(f) BY DEF ReadBounds
  <2>3. ASSUME Bounded(f) PROVE f.kind \in DOMAIN Values /\ ~Refused(Methods[f.named], f.kind)
    <3>1. f.kind \in DOMAIN Values BY <2>1, <2>3 DEF Bounded
    <3>2. <<f.named, f.kind>> \notin RefusedTypes BY <2>2, <2>3 DEF FieldRefused
    <3> QED BY <2>1, <3>1, <3>2 DEF RefusedTypes
  <2> QED BY <2>1, <2>3 DEF Applied
<1>3. AllApplied' BY <1>1, <1>2 DEF AllApplied, FieldsOf
<1> QED BY <1>1, <1>3 DEF IInv, DrawnIsFine

LEMMA DrawKeeps ==
  ASSUME IInv, Draw
  PROVE  IInv'
<1>1. /\ UNCHANGED <<cases, reaches, type>> /\ phase = "draw" /\ phase' = "follow"
      /\ AllApplied /\ type \in Types
  BY DEF Draw, IInv
<1>2. PICK b \in Branches(type) : fields' = cases[type][b.case] /\ record' \in ArbRecord(type, fields', b.leaf)
  BY DEF Draw
<1>3. b.case \in DOMAIN cases[type] BY <1>2, RegistriesAssumption DEF IInv, Branches, Leaves, Full
<1>4. fields' \subseteq FieldsOf(type) BY <1>2, <1>3 DEF FieldsOf
<1>5. ASSUME NEW f \in fields' PROVE Fine(type, f, record'[f])
  <2>1. Applied(f) BY <1>1, <1>4 DEF AllApplied
  <2>2. record'[f] \in ArbField(type, f, b.leaf) BY <1>2 DEF ArbRecord
  <2> QED BY <2>1, <2>2, FieldIsFine
<1>6. AllApplied' BY <1>1 DEF AllApplied, FieldsOf
<1>7. DrawnIsFine'
  BY <1>1, <1>4, <1>5 DEF DrawnIsFine, FieldsOf, Fine, CountAboveNone, LeadsBack
<1> QED BY <1>1, <1>6, <1>7 DEF IInv

LEMMA FollowKeeps ==
  ASSUME IInv, Follow
  PROVE  IInv'
<1>1. UNCHANGED <<cases, reaches, fields, record>> /\ phase = "follow" /\ phase' = "draw" BY DEF Follow
<1>2. PICK f \in fields : Ties(f) /\ type' = f.ref BY DEF Follow
<1>3. f \in FieldsOf(type) BY <1>1, <1>2 DEF IInv, DrawnIsFine
<1>4. f.ref \in Types \cup {None} BY <1>3, FieldsAre DEF IInv
<1>5. type' \in Types BY <1>2, <1>4 DEF Ties, ArbRefs
<1>6. AllApplied' BY <1>1 DEF IInv, AllApplied, FieldsOf
<1> QED BY <1>1, <1>5, <1>6 DEF IInv, DrawnIsFine

LEMMA OthersKeep ==
  ASSUME IInv, RefuseBounds \/ Finish \/ UNCHANGED vars
  PROVE  IInv'
<1>1. UNCHANGED <<cases, reaches, type, fields, record>> BY DEF RefuseBounds, Finish, vars
<1>2. /\ phase' \notin {"bounds", "refused"} => phase \notin {"bounds", "refused"}
      /\ phase' \in {"follow", "done"} => phase \in {"follow", "done"}
  BY DEF RefuseBounds, Finish, vars
<1>3. AllApplied => AllApplied' BY <1>1 DEF AllApplied, FieldsOf
<1>4. DrawnIsFine' BY <1>1, <1>2 DEF IInv, DrawnIsFine, FieldsOf, Fine, CountAboveNone, LeadsBack
<1> QED BY <1>1, <1>2, <1>3, <1>4 DEF IInv

LEMMA NextKeeps ==
  ASSUME IInv, [Next]_vars
  PROVE  IInv'
BY ReadBoundsKeeps, DrawKeeps, FollowKeeps, OthersKeep DEF Next

(* Whatever the registry and whatever fast-check picks, what is drawn of a *)
(* field passes its check, or is the empty collection of a leaf whose type *)
(* counts its items from one (arbFieldExpr, applyBounds).                  *)
THEOREM DrawsAreFine == Spec => []IInv
<1>1. Init => IInv BY Initially
<1>2. IInv /\ [Next]_vars => IInv' BY NextKeeps
<1> QED BY <1>1, <1>2, PTL DEF Spec

(* No required collection by which a type leads back to itself counts its  *)
(* items from one.                                                         *)
EmptyFits == \A t \in Types : \A f \in FieldsOf(t) : ~CountAboveNone(t, f)

(* What is drawn passes the generated checks, of every registry but those  *)
(* (docs/arbitraries.md, "How values are drawn").                          *)
THEOREM DrawsPass == Spec /\ EmptyFits => []DrawPassesChecks
<1>1. EmptyFits /\ [Next]_vars => EmptyFits'
  BY DEF Next, ReadBounds, RefuseBounds, Draw, Follow, Finish, vars, EmptyFits, FieldsOf, CountAboveNone, LeadsBack
<1>2. IInv /\ EmptyFits => DrawPassesChecks
  BY DEF IInv, DrawnIsFine, EmptyFits, Fine, DrawPassesChecks
<1> QED BY <1>1, <1>2, DrawsAreFine, PTL DEF Spec

(* A limit has one source: the checks of the decoder and the keywords of   *)
(* the schema take every value the bound methods allow and, of the numbers *)
(* JavaScript counts to and the texts whose code points are bytes, no      *)
(* other (applyBounds, validatorCheck and addKeywords).                    *)
THEOREM LimitsAgree == Spec => []ChecksAreDeclared
<1>1. IInv => ChecksAreDeclared
  <2> SUFFICES ASSUME IInv, phase \notin {"bounds", "refused"},
                      NEW t \in Types, NEW f \in FieldsOf(t), Limited(f), NEW v \in Values[f.kind]
               PROVE  LET d == Methods[f.named]
                          b == Limits[f.named]
                      IN /\ Within(d, v) => ValidatorCheck(b, v) /\ Admits(b, f.kind, v)
                         /\ ValidatorCheck(b, v) /\ (f.kind \in IntegerKinds => Number(v) = v /\ v \in -MaxSafe .. MaxSafe) => Within(d, v)
                         /\ Admits(b, f.kind, v) /\ (f.kind = "string" => v.chars = v.bytes) => Within(d, v)
    BY DEF ChecksAreDeclared
  <2>1. Applied(f) BY DEF IInv, AllApplied
  <2>2. f.named \in Named /\ f.kind \in DOMAIN Values /\ ~Refused(Methods[f.named], f.kind)
    BY <2>1 DEF Applied, Limited
  <2>3. \E m \in DOMAIN Methods[f.named] : Declares(Methods[f.named], m) BY DEF Limited
  <2> QED BY <2>2, <2>3, CheckTakesAllowed, SchemaTakesAllowed, CheckedIsAllowed, AdmittedIsAllowed
<1> QED BY <1>1, DrawsAreFine, PTL
=============================================================================
