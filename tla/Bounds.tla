------------------------------- MODULE Bounds -------------------------------
(***************************************************************************)
(* The limits a field type declares through its bound methods (bounds.go): *)
(* how they are read, what the decoder checks, what the schema says and    *)
(* what the arbitrary draws.                                               *)
(*                                                                         *)
(* A declaration has, for each bound method, NoMethod, Unreadable (a pointer *)
(* receiver, another signature, a body that is not one return of           *)
(* constants) or the constants it returns.  A pattern is "", one Go does   *)
(* not compile, or "p".  A value of a string type is its counts of code    *)
(* points and bytes and whether it matches; one of a slice type its length. *)
(***************************************************************************)
EXTENDS Integers, Sequences

CONSTANTS
  NoMethod, Unreadable,
  MaxInt32,  \* math.MaxInt32
  MaxSafe    \* maxSafeInteger: one below the first power of two past which doubles are even

ASSUME LimitsAssumption == MaxInt32 \in Nat /\ MaxSafe \in Nat /\ MaxSafe % 2 = 1

Declares(d, m) == d[m] \notin {NoMethod, Unreadable}

(* The constants m returns, or none. *)
First(d, m, none) == IF Declares(d, m) THEN d[m][1] ELSE none
Second(d, m, none) == IF Declares(d, m) THEN d[m][2] ELSE none

(* setCount and set: what makes a method's constants no bound. *)
CountFits(lo, hi) == 0 <= lo /\ lo <= hi /\ hi <= MaxInt32
RangeFits(lo, hi) == lo <= hi
MaxBytesFits(n) == n \in 1 .. MaxInt32
PatternFits(p) == p \notin {"", "bad"}

(* namedBounds: the methods that cannot be read or set no bound. *)
Refusals(d) ==
  {m \in DOMAIN d :
     \/ d[m] = Unreadable
     \/ Declares(d, m) /\ CASE m = "Range" -> ~RangeFits(d[m][1], d[m][2])
                            [] m = "MaxBytes" -> ~MaxBytesFits(d[m][1])
                            [] m = "Pattern" -> ~PatternFits(d[m][1])
                            [] OTHER -> ~CountFits(d[m][1], d[m][2])}

(* namedBounds: the limits, in which 0 bytes and the empty pattern are none. *)
NamedBounds(d) ==
  [hasRange |-> Declares(d, "Range"), min |-> First(d, "Range", 0), max |-> Second(d, "Range", 0),
   maxBytes |-> First(d, "MaxBytes", 0), pattern |-> First(d, "Pattern", ""),
   hasCount |-> Declares(d, "Count"), minItems |-> First(d, "Count", 0), maxItems |-> Second(d, "Count", 0)]

IntegerKinds == {"int", "uint"}

Misfit(b, kind) ==
  \/ b.hasRange /\ kind \notin IntegerKinds
  \/ (b.maxBytes > 0 \/ b.pattern # "") /\ kind # "string"
  \/ b.hasCount /\ kind # "slice"

(* applyBounds refuses the field. *)
Refused(d, kind) == Refusals(d) # {} \/ Misfit(NamedBounds(d), kind)

-----------------------------------------------------------------------------
(* A JSON number, or a literal of the generated text, as JavaScript reads   *)
(* it: past MaxSafe + 1 to the nearest even, of two those with an even half. *)
Number(n) ==
  IF n \in -MaxSafe .. MaxSafe \/ n % 2 = 0 THEN n ELSE IF (n - 1) % 4 = 0 THEN n - 1 ELSE n + 1

(* Mutant: a Range of 0 to 0 is taken for none, as 0 bytes are. *)
ValidatorCheckFlagless(b, v) ==
  /\ b.hasRange /\ (b.min # 0 \/ b.max # 0) => Number(b.min) <= Number(v) /\ Number(v) <= Number(b.max)
  /\ b.maxBytes > 0 => v.bytes <= b.maxBytes
  /\ b.pattern # "" => v.matches
  /\ b.hasCount => b.minItems <= v /\ v <= b.maxItems

(* validatorCheck: the checks of the generated decoder pass. *)
ValidatorCheck(b, v) ==
  /\ b.hasRange => Number(b.min) <= Number(v) /\ Number(v) <= Number(b.max)
  /\ b.maxBytes > 0 => v.bytes <= b.maxBytes
  /\ b.pattern # "" => v.matches
  /\ b.hasCount => b.minItems <= v /\ v <= b.maxItems

(* addKeywords, over the type's own: the minimum of an unsigned integer is  *)
(* 0 until a Range says otherwise.                                         *)
Admits(b, kind, v) ==
  /\ IF b.hasRange THEN b.min <= v /\ v <= b.max ELSE kind = "uint" => v >= 0
  /\ b.maxBytes > 0 => v.chars <= b.maxBytes
  /\ b.pattern # "" => v.matches
  /\ b.hasCount => b.minItems <= v /\ v <= b.maxItems

(* arbBoundedPrim: fc.integer between the ends of the Range that JavaScript *)
(* counts to exactly.                                                      *)
LowestOf(b) == IF b.min > -MaxSafe THEN b.min ELSE -MaxSafe
HighestOf(b) == IF b.max < MaxSafe THEN b.max ELSE MaxSafe

Drawn(b, v) ==
  /\ b.hasRange => LowestOf(b) <= v /\ v <= HighestOf(b)
  /\ b.maxBytes > 0 => v.bytes <= b.maxBytes
  /\ b.pattern # "" => v.matches

-----------------------------------------------------------------------------
(* What the methods say of a value, as a binder that calls them checks it. *)
Within(d, v) ==
  /\ Declares(d, "Range") => d["Range"][1] <= v /\ v <= d["Range"][2]
  /\ Declares(d, "MaxBytes") => v.bytes <= d["MaxBytes"][1]
  /\ Declares(d, "Pattern") => v.matches
  /\ Declares(d, "Count") => d["Count"][1] <= v /\ v <= d["Count"][2]
=============================================================================
