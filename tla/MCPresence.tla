----------------------------- MODULE MCPresence -----------------------------
(* Members of every kind of field, up to two pointers, each omit option,   *)
(* directly or through an embedded pointer; collections of them, and of    *)
(* collections; and, wherever a type can stand, named types with each set  *)
(* of marshalers, each role in the registry and each kind of bound.        *)
EXTENDS Presence

CONSTANT MaxPtrs

Bound == {"Range", "MaxBytes", "Pattern", "Count"}
Only(m, c) == [n \in Bound |-> IF n = m THEN c ELSE NoMethod]
MethodsDef ==
  [n \in {"none", "items", "range", "reversed"} |->
     CASE n = "none" -> Only("", NoMethod)
       [] n = "items" -> Only("Count", <<1, MaxItems>>)
       [] n = "range" -> Only("Range", <<1, 2>>)
       [] OTHER -> Only("Range", <<2, 1>>)]

Std(s, t, codecs) == [Named(t) EXCEPT !.std = s, !.writes = codecs, !.reads = codecs]
Bytes == Slice(Basic("uint8"))
RawMessage == Std("RawMessage", Bytes, {"json"})
Registered == [Named(Struct) EXCEPT !.role = "type"]

Pointed(t, p) == CASE p = 0 -> t [] p = 1 -> Pointer(t) [] OTHER -> Pointer(Pointer(t))
Below(T) == {Pointed(t, p) : t \in T, p \in 0 .. MaxPtrs}

Simple == {Basic("string"), Bytes, RawMessage, Registered}
Collections(E) ==
  UNION {{Slice(e), [Named(Slice(e)) EXCEPT !.methods = "items"], Map(Basic("string"), e)} : e \in E}

(* Elements to nest: one that is never null, one that is text for nil, one *)
(* with a pointer, and the one that is any JSON.                           *)
Inner == {Basic("string"), Bytes, Pointer(Registered), RawMessage}
Nested == Collections(Inner) \cup {Pointer(t) : t \in Collections(Inner)}

Member(t) == [type |-> t, string |-> FALSE, omitEmpty |-> FALSE, omitZero |-> FALSE, viaEmbedPtr |-> FALSE]
Shapes ==
  UNION {{[Member(t) EXCEPT !.omitEmpty = "empty" \in o, !.omitZero = "zero" \in o, !.viaEmbedPtr = v] :
            t \in Below(Simple \cup Collections(Below(Simple)) \cup Collections(Nested))} :
         o \in {{}, {"empty"}, {"zero"}}, v \in BOOLEAN}

-----------------------------------------------------------------------------
(* A method has one receiver.  A registered type is a struct; an enum has  *)
(* a string kind and no marshaler, or an integer kind and a MarshalText    *)
(* (checkEnumKind); an interface has no more methods than it lists.        *)
Declared ==
  {[Named(t) EXCEPT !.role = r, !.mapped = m, !.writes = w, !.reads = d, !.methods = b] :
     t \in {Basic("int"), Basic("string"), Basic("uint8"), Basic("complex"), Struct, Bytes, Interface},
     r \in {"", "type", "enum"}, m \in BOOLEAN,
     w \in {x \in SUBSET {"json", "ptrJSON", "text", "ptrText"} :
              ~({"json", "ptrJSON"} \subseteq x) /\ ~({"text", "ptrText"} \subseteq x)},
     d \in SUBSET {"json", "text"}, b \in {"none", "range", "reversed"}}

Possible(n) ==
  /\ n.role = "type" => n.of = Struct
  /\ n.role = "enum" => \/ n.of = Basic("string") /\ n.writes = {}
                        \/ n.of \in {Basic("int"), Basic("uint8")} /\ n.writes = {"text"}
  /\ n.of = Interface => n.writes \cap {"ptrJSON", "ptrText"} = {}
  /\ n.methods # "none" => n.of \in {Basic("int"), Struct} /\ ~n.mapped /\ n.role = ""

Names == {n \in Declared : Possible(n)} \cup
  {Std("Time", Struct, {"json", "text"}), Std("Number", Basic("string"), {}), Std("Duration", Basic("int"), {}), RawMessage}
Unnamed == {Basic(b) : b \in {"bool", "string", "int", "uint", "uint8", "float", "complex"}} \cup
  {Interface, Struct, Channel, Array(Basic("int")), Array(Basic("uint8"))}

Keys == {n \in Names \cup Unnamed : Underlying(n).c \notin {"slice"}}
Places(T) ==
  Below(T) \cup
  UNION {{Slice(t), Slice(Pointer(t)), Map(Basic("string"), t), Alias(t, TRUE), Alias(t, FALSE), Slice(Alias(t, FALSE)),
          Pointer(Alias(Pointer(t), FALSE)), Named(Slice(t))} : t \in T}

Typed ==
  {[Member(t) EXCEPT !.string = s, !.omitEmpty = o] :
     t \in Places(Names \cup Unnamed) \cup {Map(k, Basic("int")) : k \in Keys}, s \in BOOLEAN, o \in BOOLEAN}

MembersDef == Shapes \cup Typed
=============================================================================
