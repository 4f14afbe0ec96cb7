------------------------------ MODULE Document ------------------------------
(***************************************************************************)
(* The last check of a rendered OpenAPI document (checkRefs and below,     *)
(* openapi.go): every $ref, those a Mappings Schema or an Extensions value *)
(* gives among them, names something in the document.                      *)
(*                                                                         *)
(* Text is a sequence of symbols: a letter or a word no pointer splits, a  *)
(* slash, a tilde, a digit, a percent-encoding ("%2F", "%7E") or a percent *)
(* that begins none ("%!").  A document is what its positions hold, a      *)
(* position being the keys, and in an array the indices, that lead to it.  *)
(* No field has the wire name $ref, for which the check would take the     *)
(* schemas of an object's fields for a reference.                          *)
(***************************************************************************)
EXTENDS SchemaRefs, SequencesExt

CONSTANTS
  Extras,    \* by position, what the registry's Extensions values hold
  Given(_)   \* the $refs a registry's Mappings Schema may hold

VARIABLES
  extra,     \* one of Extras
  given,     \* the $ref given, or NoRef
  checked    \* "not yet", "accepted" or "refused"

docVars == <<vars, extra, given, checked>>

NoRef == [kind |-> "none"]
RefsOf(g) == IF g = NoRef THEN {} ELSE {g}

(* componentsRef and a component's name. *)
Ref(ptr) == [kind |-> "fragment", ptr |-> ptr]
ComponentRef(n) == Ref(<<"/", "components", "/", "schemas", "/", n>>)
WrittenRefs ==
  {ComponentRef(ComponentName(b.type, b.dir)) : b \in Bodies} \cup
  UNION {{ComponentRef(ComponentName(t, c.dir)) : t \in References(c.type)} : c \in Components}

(* The document: its components by name, the enums' too, and the extras.   *)
Schemas == << <<"components">>, <<"schemas">> >>
NamedSchemas == {Append(Schemas, <<n>>) : n \in {NameOf(c) : c \in Components} \cup reg.enums}
DocOf(x) ==
  [p \in {<< >>, SubSeq(Schemas, 1, 1), Schemas} \cup NamedSchemas \cup DOMAIN x |->
     IF p \in DOMAIN x THEN x[p] ELSE "object"]

-----------------------------------------------------------------------------
(* pointerTokens *)
Encodings == [c \in {"%2F", "%7E"} |-> IF c = "%2F" THEN "/" ELSE "~"]
PathUnescape(frag) == [l \in DOMAIN frag |-> IF frag[l] \in DOMAIN Encodings THEN Encodings[frag[l]] ELSE frag[l]]

(* What stands between the slashes: slash n of a text, from 0, its start.  *)
Cut(cuts, n) == CHOOSE c \in cuts : Cardinality({d \in cuts : d < c}) = n
Split(text) ==
  LET cuts == {0, Len(text) + 1} \cup {l \in DOMAIN text : text[l] = "/"}
  IN [n \in 1 .. Cardinality(cuts) - 1 |-> SubSeq(text, Cut(cuts, n - 1) + 1, Cut(cuts, n) - 1)]

(* unescapeToken *)
Escapes(tok) == \A l \in DOMAIN tok : tok[l] = "~" => l < Len(tok) /\ tok[l + 1] \in {"0", "1"}
Unescaped(tok, l) ==
  CASE tok[l] # "~" -> tok[l] [] tok[l] = "~" /\ tok[l + 1] = "0" -> "~" [] OTHER -> "/"
UnescapeToken(tok) ==
  LET kept == SelectSeq([l \in DOMAIN tok |-> l], LAMBDA l : l = 1 \/ tok[l - 1] # "~")
  IN [n \in DOMAIN kept |-> Unescaped(tok, kept[n])]

(* arrayIndex.  Arrays have fewer than a hundred items. *)
Digits == <<"0", "1", "2", "3", "4", "5", "6", "7", "8", "9">>
Decimal(n) == IF n < 10 THEN <<Digits[n + 1]>> ELSE <<Digits[(n \div 10) + 1], Digits[(n % 10) + 1]>>
Digit(c) == CHOOSE d \in 0 .. 9 : Digits[d + 1] = c
Value(tok) ==
  LET v[n \in 0 .. Len(tok)] == IF n = 0 THEN 0 ELSE 10 * v[n - 1] + Digit(tok[n])
  IN v[Len(tok)]

(* Mutant: whatever reads as a number is an index. *)
IsArrayIndexByAtoi(tok) == tok # << >> /\ Range(tok) \subseteq Range(Digits) /\ Value(tok) < 100

IsArrayIndex(tok) ==
  /\ tok # << >> /\ (tok[1] = "0" => Len(tok) = 1)
  /\ Range(tok) \subseteq Range(Digits) /\ Value(tok) < 100

(* One step of resolvesIn from the position it is at, {} for none. *)
Below(doc, p, key) ==
  CASE doc[p] = "object" -> {Append(p, key)} \cap DOMAIN doc
    [] doc[p] = "array" -> IF IsArrayIndex(key) THEN {Append(p, Decimal(Value(key)))} \cap DOMAIN doc ELSE {}
    [] OTHER -> {}

ResolvesIn(doc, ref) ==
  /\ ref.kind = "fragment" /\ "%!" \notin Range(ref.ptr)
  /\ LET ptr == PathUnescape(ref.ptr)
         tokens == Split(Tail(ptr))
     IN \/ ptr = << >>
        \/ /\ ptr[1] = "/"
           /\ \A l \in DOMAIN tokens : Escapes(tokens[l])
           /\ LET cur[n \in 0 .. Len(tokens)] ==
                    IF n = 0 THEN {<< >>} ELSE UNION {Below(doc, p, UnescapeToken(tokens[n])) : p \in cur[n - 1]}
              IN cur[Len(tokens)] # {}

(* checkRefs, over all the document holds: what the user gives is met here *)
(* first, so it is chosen here.                                            *)
CheckRefs ==
  /\ phase = "written" /\ checked = "not yet"
  /\ \/ UNCHANGED <<given, extra>>
     \/ given' \in Given(reg) /\ extra' \in Extras
  /\ \E doc \in {DocOf(extra')} :
       checked' = IF \A r \in WrittenRefs \cup RefsOf(given') : ResolvesIn(doc, r) THEN "accepted" ELSE "refused"
  /\ UNCHANGED vars

DocInit == Init /\ extra = [p \in {} |-> "object"] /\ given = NoRef /\ checked = "not yet"
DocNext == (Next /\ UNCHANGED <<extra, given, checked>>) \/ CheckRefs

(* The check waits for nothing and is the last step but for the writes: no *)
(* more fairness is needed than that of the walks.                         *)
DocSpec == DocInit /\ [][DocNext]_docVars /\ WF_vars(Next)

-----------------------------------------------------------------------------
(* The pointer checkRefs reports of a position: keys escaped, indices in   *)
(* decimal.                                                                *)
Escape(c) == CASE c = "~" -> <<"~", "0">> [] c = "/" -> <<"~", "1">> [] OTHER -> <<c>>
EscapeKey(key) ==
  LET text[n \in 0 .. Len(key)] == IF n = 0 THEN << >> ELSE text[n - 1] \o Escape(key[n])
  IN text[Len(key)]
At(p) ==
  LET text[n \in 0 .. Len(p)] == IF n = 0 THEN << >> ELSE text[n - 1] \o <<"/">> \o EscapeKey(p[n])
  IN text[Len(p)]

Names(r, pointers) == r.kind = "fragment" /\ "%!" \notin Range(r.ptr) /\ PathUnescape(r.ptr) \in pointers

(* A document is written exactly if each $ref in it is the pointer of one  *)
(* thing in it (RFC 6901, as wiregen itself writes the pointers of its     *)
(* messages), whoever gave it, and the $refs wiregen writes alone never    *)
(* stop it.                                                                *)
EveryRefNamesOne ==
  checked # "not yet" =>
    \A positions \in {DOMAIN DocOf(extra)} : \A pointers \in {{At(p) : p \in positions}} :
      /\ checked = "accepted" <=> \A r \in WrittenRefs \cup RefsOf(given) : Names(r, pointers)
      /\ checked = "refused" => given # NoRef
      /\ Cardinality(pointers) = Cardinality(positions)
=============================================================================
