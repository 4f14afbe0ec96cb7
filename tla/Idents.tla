------------------------------- MODULE Idents -------------------------------
(***************************************************************************)
(* The identifiers of the generated modules (names.go, endpoints.go): what *)
(* each module binds or imports, as its emitter writes it, and the claims  *)
(* Generate checks beforehand.  A binding is an identifier and what it is  *)
(* of.                                                                     *)
(***************************************************************************)
EXTENDS Integers, Sequences

CONSTANTS
  Reserved,            \* tsReservedWords
  Pascal, EnumList,    \* pascal and enumConstName, over the names in use
  Helpers              \* validatorsExports: "Decoder", "decodeArray" and others

(* A registry, as the generator holds it: the wire types it lists, those of *)
(* its endpoints, events and unions and the error envelope, its enums; the  *)
(* packages of the bare names registered so far; the overrides of names;    *)
(* whether there is an arbitraries file; the constants' names.              *)
NoType == [pkg |-> "", name |-> ""]

Binding(id, kind, of) == [id |-> id, of |-> <<kind, of>>]
Fixed(ids, kind) == {Binding(id, kind, id) : id \in ids}

EventsIdents == {"EventFrame", "EventName", "EVENT_DECODERS", "decodeEventFrame"}
ClientReserved == {"clientRequest", "ApiResult", "EndpointSpec", "ClientOpts", "qs", "decodeBlob"}
ArbitrariesIdents == {"fc", "arbModel", "ARBITRARY_BY_TYPE"}

SanitizeTypeIdent(s) == IF s \in Reserved THEN s \o "Val" ELSE s

Names(r) == DOMAIN r.typeNames \cup DOMAIN r.enums
TSName(r, n) ==
  LET overrides == IF n \in DOMAIN r.typeNames THEN r.tsNameOverride ELSE r.enumTSName
  IN IF n \in DOMAIN overrides THEN SanitizeTypeIdent(overrides[n]) ELSE n

TypeName(r, n) == Binding(TSName(r, n), "type", n)
DecoderName(r, n) == Binding("decode" \o TSName(r, n), "decoder", n)
EnumConstName(r, n) == Binding(EnumList[TSName(r, n)], "members", n)
ArbName(r, n) == Binding("arb" \o TSName(r, n), "arbitrary", n)

DescriptorName(e) == Binding(e.name \o "Endpoint", "descriptor", e.name)
CodesName(e) == Binding(e.name \o "Codes", "codes", e.name)
ErrorName(e) == Binding(Pascal[e.name] \o "Error", "error", e.name)
ArgsName(e) == Binding(Pascal[e.name] \o "Args", "args", e.name)
FunctionName(e) == Binding(e.name, "function", e.name)

HasFunction(e) == e.kind \in {"json", "raw"}

-----------------------------------------------------------------------------
(* claimIdents.  Two claims of one identifier are an error, and nothing    *)
(* else is, so the order of the claims does not matter.                    *)
Claims(r) ==
  Fixed(Helpers, "validators")
  \cup (IF r.events # << >> THEN Fixed(EventsIdents, "events") ELSE {})
  \cup (IF r.endpoints # << >> THEN Fixed(ClientReserved, "client") ELSE {})
  \cup {TypeName(r, n) : n \in Names(r)}
  \cup {DecoderName(r, n) : n \in DOMAIN r.typeNames}
  \cup {EnumConstName(r, n) : n \in DOMAIN r.enums}
  \cup (IF r.arbs THEN Fixed(ArbitrariesIdents, "arbitraries") \cup {ArbName(r, n) : n \in Names(r)} ELSE {})

(* Mutant: the list of codes, which no module exports, is not claimed. *)
EndpointClaimsExported(e) ==
  {DescriptorName(e), ErrorName(e), ArgsName(e)} \cup IF HasFunction(e) THEN {FunctionName(e)} ELSE {}

EndpointClaims(e) ==
  {DescriptorName(e), CodesName(e), ErrorName(e), ArgsName(e)}
  \cup IF HasFunction(e) THEN {FunctionName(e)} ELSE {}

NoneTwice(C) == \A c, d \in C : c.id = d.id => c = d
Apart(C, D) == \A c \in C, d \in D : c.id # d.id

-----------------------------------------------------------------------------
(* The generated modules.  An import is used only where the code needs it; *)
(* any type, member list or helper may be needed by some decoder.          *)
TypesModule(r) == {TypeName(r, n) : n \in Names(r)}

DecodersModule(r) ==
  Fixed(Helpers, "validators") \cup TypesModule(r)
  \cup {DecoderName(r, n) : n \in DOMAIN r.typeNames} \cup {EnumConstName(r, n) : n \in DOMAIN r.enums}

EventTypes(r) == {r.events[i].data.name : i \in DOMAIN r.events}
EventsModule(r) ==
  IF r.events = << >> THEN {}
  ELSE Fixed(EventsIdents, "events") \cup Fixed({"Decoder"}, "validators")
       \cup {TypeName(r, n) : n \in EventTypes(r)} \cup {DecoderName(r, n) : n \in EventTypes(r)}

EndpointBindings(r, e) ==
  Fixed({"EndpointSpec"}, "client")
  \cup {CodesName(e), ErrorName(e), DescriptorName(e)}
  \cup (IF e.params \cup e.query # {} \/ e.request # NoType \/ e.headers # << >> THEN {ArgsName(e)} ELSE {})
  \cup (IF e.query # {} THEN Fixed({"qs"}, "client") ELSE {})
  \cup (IF e.request # NoType THEN {TypeName(r, e.request.name)} ELSE {})
  \cup (IF HasFunction(e)
        THEN {FunctionName(e)} \cup Fixed({"clientRequest", "ApiResult", "ClientOpts"}, "client") ELSE {})
  \cup (IF e.kind = "raw" THEN Fixed({"decodeBlob"}, "client") ELSE {})
  \cup (IF e.kind = "json" /\ e.response # NoType
        THEN {TypeName(r, e.response.name), DecoderName(r, e.response.name)} ELSE {})
  \cup (IF e.array THEN Fixed({"decodeArray"}, "validators") ELSE {})

ClientModule(r) == UNION {EndpointBindings(r, r.endpoints[i]) : i \in DOMAIN r.endpoints}

ArbitrariesModule(r) ==
  IF ~r.arbs THEN {}
  ELSE Fixed(ArbitrariesIdents, "arbitraries") \cup TypesModule(r) \cup {ArbName(r, n) : n \in Names(r)}

ConstantsModule(r) == {Binding(r.consts[i], "constant", i) : i \in DOMAIN r.consts}

ImportingModules(r) ==
  TypesModule(r) \cup DecodersModule(r) \cup EventsModule(r) \cup ClientModule(r) \cup ArbitrariesModule(r)
=============================================================================
