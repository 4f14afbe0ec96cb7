------------------------------ MODULE Endpoints ------------------------------
(***************************************************************************)
(* The registry's names and events (wiregen.go) and the endpoint table     *)
(* (endpoints.go): the checks before and after the packages are loaded,    *)
(* then the paths of the OpenAPI document (renderOpenAPI) and the client's *)
(* requests.                                                               *)
(*                                                                         *)
(* A path is a sequence of literals and placeholders.  Params and Query    *)
(* are the fields of their structs, {} for none; the header names are in    *)
(* lower case.  Spelling (of paths, codes, events, header names, media     *)
(* types) and what only decorates the document are left out, and           *)
(* extensions are "nil", "empty" or a set of members.                      *)
(***************************************************************************)
EXTENDS Register

CONSTANT Registries  \* sets of registries

(* The parameters of an endpoint without a Params struct are none. *)
FieldsOfStructs(r) == \A i \in DOMAIN r.endpoints : r.endpoints[i].paramsType = NoType => r.endpoints[i].params = {}

ASSUME RegistriesAssumption ==
  \A F \in Registries : \A r \in F : Lists(r) /\ FieldsOfStructs(r) /\ r.typeNames = << >> /\ r.enums = << >>

ASSUME HelpersAssumption == {"Decoder", "decodeArray"} \subseteq Helpers

VARIABLES
  reg,      \* the registry and the names registered so far
  taken,    \* the bindings claimed so far
  paths,    \* the paths met so far, which stand for their templates
  routes,   \* the methods and templates met so far
  catalog,  \* the first listing of each error code met so far
  next,     \* the mention, or the endpoint, the running loop looks at
  doc,      \* the document's operations, by path and method
  phase     \* "names", "events", "claim", "table", "args", "render", "done" or "refused"

vars == <<reg, taken, paths, routes, catalog, next, doc, phase>>

Range(s) == {s[i] : i \in DOMAIN s}
NoRepeat(s) == \A i, j \in DOMAIN s : s[i] = s[j] => i = j

(* An event has a name of its own, which fits a line, and data; a union has *)
(* a type.                                                                  *)
EventsSound(r) ==
  /\ NoRepeat([i \in DOMAIN r.events |-> r.events[i].name])
  /\ \A i \in DOMAIN r.events : r.events[i].name # "two lines" /\ r.events[i].data # NoType
  /\ \A i \in DOMAIN r.unions : r.unions[i] # NoType

-----------------------------------------------------------------------------
Lit(s) == [placeholder |-> FALSE, name |-> s]
Hole(s) == [placeholder |-> TRUE, name |-> s]

PathTemplate(p) == [i \in DOMAIN p |-> IF p[i].placeholder THEN Hole("") ELSE p[i]]
PathParams(p) == {p[i].name : i \in {j \in DOMAIN p : p[j].placeholder}}
ValidPath(p) == \A i, j \in DOMAIN p : p[i].placeholder /\ p[i] = p[j] => i = j

SuccessStatus(e) ==
  CASE e.status # 0 -> e.status
    [] e.status = 0 /\ e.kind = "redirect" -> 302
    [] e.status = 0 /\ e.kind = "json" /\ e.response = NoType -> 204
    [] OTHER -> 200

(* Mutant: a body may come with the status that has none. *)
ValidStatusOneWay(e) ==
  LET st == SuccessStatus(e)
  IN IF e.kind = "redirect" THEN st \in {301, 302, 303, 307, 308}
     ELSE st \in 200 .. 299 \ {205} /\ (e.kind = "json" /\ e.response = NoType => st = 204)

ValidStatus(e) ==
  LET st == SuccessStatus(e)
  IN IF e.kind = "redirect" THEN st \in {301, 302, 303, 307, 308}
     ELSE st \in 200 .. 299 \ {205} /\ (e.kind = "json" /\ e.response = NoType <=> st = 204)

ValidKind(e) ==
  /\ IF e.kind = "json" THEN e.array => e.response # NoType ELSE e.response = NoType /\ ~e.array
  /\ e.kind = "raw" <=> e.contentType
  /\ e.kind \in {"stream", "redirect"} => e.method = "GET"
  /\ e.kind = "redirect" => e.headers = << >>
  /\ ValidStatus(e)

ValidHeaders(e) ==
  /\ NoRepeat([i \in DOMAIN e.headers |-> e.headers[i].name])
  /\ NoRepeat([i \in DOMAIN e.headers |-> e.headers[i].arg])

ValidEndpoint(e) ==
  /\ e.name \notin Reserved
  /\ ValidPath(e.path)
  /\ ValidKind(e)
  /\ e.request # NoType => e.method # "GET"
  /\ PathParams(e.path) # {} <=> e.paramsType # NoType
  /\ ValidHeaders(e)

-----------------------------------------------------------------------------
NormExt(x) == IF x = "empty" THEN "nil" ELSE x

(* Mutant: no extensions and an empty map of them differ. *)
AgreesUnnormalized(er, prev) == er.status = prev.status /\ er.ext = prev.ext

(* Mutant: a second listing is held to the status of the first only. *)
AgreesInStatus(er, prev) == er.status = prev.status

Agrees(er, prev) == er.status = prev.status /\ NormExt(er.ext) = NormExt(prev.ext)

ValidErrors(e) ==
  /\ NoRepeat([i \in DOMAIN e.errors |-> e.errors[i].code])
  /\ \A er \in Range(e.errors) :
       er.status \in 400 .. 599 /\ (er.code \in DOMAIN catalog => Agrees(er, catalog[er.code]))

(* The codes met first in e join the catalog. *)
WithErrors(e) ==
  [c \in DOMAIN catalog \cup {er.code : er \in Range(e.errors)} |->
     IF c \in DOMAIN catalog THEN catalog[c]
     ELSE CHOOSE er \in Range(e.errors) : er.code = c]

(* Mutant: placeholders' names tell two paths apart. *)
PathIsNewAsWritten(e) == TRUE

(* paths keeps one path for each template. *)
PathIsKnownOrNew(e) == \A p \in paths : PathTemplate(p) = PathTemplate(e.path) => p = e.path

Route(e) == <<e.method, PathTemplate(e.path)>>

(* Mutant: the route is not looked up. *)
EndpointFitsAnyRoute(e) ==
  /\ ValidEndpoint(e) /\ PathIsKnownOrNew(e) /\ ValidErrors(e)
  /\ NoneTwice(EndpointClaims(e)) /\ Apart(EndpointClaims(e), taken)

EndpointFits(e) ==
  /\ ValidEndpoint(e)
  /\ PathIsKnownOrNew(e)
  /\ Route(e) \notin routes
  /\ ValidErrors(e)
  /\ NoneTwice(EndpointClaims(e)) /\ Apart(EndpointClaims(e), taken)

-----------------------------------------------------------------------------
FieldNames(F) == {f.name : f \in F}

(* Members of the arguments object: a field may be the body's or a header's *)
(* namesake, and a header that of no other header (ValidHeaders).           *)
Args(e) == FieldNames(e.params) \cup FieldNames(e.query) \cup {h.arg : h \in Range(e.headers)}
             \cup IF e.request = NoType THEN {} ELSE {"body"}

(* Mutant: a field named body beside a body is not looked for. *)
DistinctArgsWithoutBody(e) ==
  /\ FieldNames(e.params) \cap FieldNames(e.query) = {}
  /\ \A h \in Range(e.headers) : h.arg \notin FieldNames(e.params) \cup FieldNames(e.query)

DistinctArgs(e) ==
  /\ FieldNames(e.params) \cap FieldNames(e.query) = {}
  /\ \A h \in Range(e.headers) : h.arg \notin FieldNames(e.params) \cup FieldNames(e.query)
  /\ e.request # NoType => "body" \notin FieldNames(e.params) \cup FieldNames(e.query) \cup {h.arg : h \in Range(e.headers)}

ResolvesArgs(e) ==
  /\ \A f \in e.params \cup e.query : f.scalar
  /\ \A f \in e.params : ~f.optional
  /\ e.paramsType # NoType => FieldNames(e.params) = PathParams(e.path)
  /\ DistinctArgs(e)

-----------------------------------------------------------------------------
(* operation *)
Content(e) ==
  CASE e.kind = "json" -> e.response.name
    [] e.kind = "raw" -> "blob"
    [] e.kind = "stream" -> "stream"
    [] OTHER -> ""

ErrorResponses(e) ==
  [st \in {er.status : er \in Range(e.errors)} |->
     [content |-> "error", codes |-> {[code |-> er.code, ext |-> NormExt(er.ext)] :
                                      er \in {x \in Range(e.errors) : x.status = st}}]]

Operation(e) ==
  LET errors == ErrorResponses(e)
  IN [id |-> e.name,
      responses |-> [st \in DOMAIN errors \cup {SuccessStatus(e)} |->
                       IF st \in DOMAIN errors THEN errors[st]
                       ELSE [content |-> Content(e), codes |-> {}]]]

(* What a client function reads of a success: endpointResult. *)
Decodes(e) == IF e.kind = "raw" THEN "blob" ELSE e.response.name

-----------------------------------------------------------------------------
Init ==
  /\ \E F \in Registries : reg \in F
  /\ taken = {} /\ paths = {} /\ routes = {} /\ catalog = << >>
  /\ next = 1 /\ doc = << >> /\ phase = "names"

Mention == Mentions(reg)[next]
MoreNames == next <= Len(Mentions(reg))

Endpoint == reg.endpoints[next]
More == next <= Len(reg.endpoints)

(* The loop of a phase ends, and the next one begins. *)
Loop(from, to) ==
  /\ phase = from /\ ~More
  /\ next' = 1 /\ phase' = to
  /\ UNCHANGED <<reg, taken, paths, routes, catalog, doc>>

Refuse ==
  /\ phase' = "refused"
  /\ UNCHANGED <<reg, taken, paths, routes, catalog, next, doc>>

RegisterName ==
  /\ phase = "names" /\ MoreNames /\ (Known(reg, Mention) \/ Fits(reg, Mention))
  /\ reg' = Registered(reg, Mention)
  /\ next' = next + 1
  /\ UNCHANGED <<taken, paths, routes, catalog, doc, phase>>

RefuseName == phase = "names" /\ MoreNames /\ ~(Known(reg, Mention) \/ Fits(reg, Mention)) /\ Refuse

NamesDone ==
  /\ phase = "names" /\ ~MoreNames
  /\ next' = 1 /\ phase' = "events"
  /\ UNCHANGED <<reg, taken, paths, routes, catalog, doc>>

(* validate, of the events and the unions. *)
ValidateEvents ==
  /\ phase = "events" /\ EventsSound(reg)
  /\ phase' = "claim"
  /\ UNCHANGED <<reg, taken, paths, routes, catalog, next, doc>>

RefuseEvents == phase = "events" /\ ~EventsSound(reg) /\ Refuse

ClaimIdents ==
  /\ phase = "claim" /\ NoneTwice(Claims(reg))
  /\ taken' = Claims(reg)
  /\ phase' = "table"
  /\ UNCHANGED <<reg, paths, routes, catalog, next, doc>>

RefuseClaims == phase = "claim" /\ ~NoneTwice(Claims(reg)) /\ Refuse

CheckEndpoint ==
  /\ phase = "table" /\ More /\ EndpointFits(Endpoint)
  /\ paths' = paths \cup {Endpoint.path}
  /\ routes' = routes \cup {Route(Endpoint)}
  /\ catalog' = WithErrors(Endpoint)
  /\ taken' = taken \cup EndpointClaims(Endpoint)
  /\ next' = next + 1
  /\ UNCHANGED <<reg, doc, phase>>

RefuseEndpoint == phase = "table" /\ More /\ ~EndpointFits(Endpoint) /\ Refuse

(* validateEndpointTypes *)
ResolveArgs ==
  /\ phase = "args" /\ More /\ ResolvesArgs(Endpoint)
  /\ next' = next + 1
  /\ UNCHANGED <<reg, taken, paths, routes, catalog, doc, phase>>

RefuseArgs == phase = "args" /\ More /\ ~ResolvesArgs(Endpoint) /\ Refuse

RenderPath ==
  /\ phase = "render" /\ More
  /\ LET item == IF Endpoint.path \in DOMAIN doc THEN doc[Endpoint.path] ELSE << >>
     IN doc' = Put(doc, Endpoint.path, Put(item, Endpoint.method, Operation(Endpoint)))
  /\ next' = next + 1
  /\ UNCHANGED <<reg, taken, paths, routes, catalog, phase>>

TableDone == Loop("table", "args")
ArgsDone == Loop("args", "render")
Rendered == Loop("render", "done")

Next ==
  \/ RegisterName \/ RefuseName \/ NamesDone \/ ValidateEvents \/ RefuseEvents
  \/ ClaimIdents \/ RefuseClaims
  \/ CheckEndpoint \/ RefuseEndpoint \/ TableDone
  \/ ResolveArgs \/ RefuseArgs \/ ArgsDone
  \/ RenderPath \/ Rendered

Spec == Init /\ [][Next]_vars

-----------------------------------------------------------------------------
All == Range(reg.endpoints)
Done == phase = "done"

(* What docs/http-client.md and docs/type-mapping.md ask of a registry, of  *)
(* all its endpoints at once: each is valid, no two have one method and path or *)
(* paths that differ in placeholders' names, a code means one thing, and no *)
(* identifier is bound twice.                                               *)
PairSound(d, e) ==
  /\ PathTemplate(d.path) = PathTemplate(e.path) => d.path = e.path /\ d.method # e.method
  /\ Apart(EndpointClaims(d), EndpointClaims(e))

CodesSound ==
  \A d, e \in All : \A x \in Range(d.errors), y \in Range(e.errors) :
    x.code = y.code => x.status = y.status /\ NormExt(x.ext) = NormExt(y.ext)

Sound ==
  /\ \A e \in All :
       /\ ValidEndpoint(e) /\ ResolvesArgs(e)
       /\ NoRepeat([i \in DOMAIN e.errors |-> e.errors[i].code])
       /\ \A er \in Range(e.errors) : er.status \in 400 .. 599
       /\ NoneTwice(EndpointClaims(e)) /\ Apart(EndpointClaims(e), Claims(reg))
  /\ \A i, j \in DOMAIN reg.endpoints : i # j => PairSound(reg.endpoints[i], reg.endpoints[j])
  /\ CodesSound
  /\ NoneTwice(Claims(reg))
  /\ NamesSound(reg) /\ EventsSound(reg)

(* Checking one name, then one endpoint at a time against what came before *)
(* accepts the sound registries and refuses the others, whatever the order *)
(* of the table.                                                           *)
AcceptsExactlySound == (Done => Sound) /\ (phase = "refused" => ~Sound)

(* Once the names are registered each stands for what its mentions mean.   *)
NamesMeanOneType == phase \notin {"names", "refused"} => NamesMean(reg)

(* The document has every endpoint's operation: none took another's place, *)
(* and no two of its paths are one but for their placeholders' names.      *)
OperationsKept ==
  Done => /\ \A e \in All : /\ e.path \in DOMAIN doc /\ e.method \in DOMAIN doc[e.path]
                            /\ doc[e.path][e.method] = Operation(e)
          /\ \A p, q \in DOMAIN doc : PathTemplate(p) = PathTemplate(q) => p = q

(* In the document a code has one status and one set of extensions, in     *)
(* every operation (ErrorRef's comment).                                   *)
CodeMeansOneThing ==
  Done => \A p, q \in DOMAIN doc : \A m \in DOMAIN doc[p], n \in DOMAIN doc[q] :
            LET a == doc[p][m].responses
                b == doc[q][n].responses
            IN \A s \in DOMAIN a, t \in DOMAIN b : \A x \in a[s].codes, y \in b[t].codes :
                 x.code = y.code => s = t /\ x.ext = y.ext

(* The response the client decodes is the one the document declares, and   *)
(* the client expects no body exactly when the status has none.            *)
BodiesAgree ==
  Done => \A e \in All :
            HasFunction(e) =>
              LET r == doc[e.path][e.method].responses[SuccessStatus(e)]
              IN r.content = Decodes(e) /\ (Decodes(e) = "" <=> SuccessStatus(e) = 204)

(* Every member of an arguments object goes to one place of the request,   *)
(* and no placeholder of the path is left in it.                           *)
Sent(e, a) ==
  {<<"path", n>> : n \in FieldNames(e.params) \cap PathParams(e.path) \cap {a}}
  \cup {<<"query", n>> : n \in FieldNames(e.query) \cap {a}}
  \cup {<<"header", h.name>> : h \in {x \in Range(e.headers) : x.arg = a}}
  \cup (IF e.request # NoType /\ a = "body" THEN {<<"body", "">>} ELSE {})

ArgumentsReachRequest ==
  phase \in {"render", "done"} =>
    \A e \in All :
      /\ \A a \in Args(e) : Sent(e, a) # {} /\ \A p, q \in Sent(e, a) : p = q
      /\ PathParams(e.path) \subseteq FieldNames(e.params)

(* No identifier of the modules that import each other means two things    *)
(* (docs/type-mapping.md, "Identifiers").                                  *)
OneMeaning == Done => NoneTwice(ImportingModules(reg))

(* Generate's comment: it refuses two generated identifiers of one name,   *)
(* the constants' included.                                                *)
GeneratedNamesDiffer == Done => NoneTwice(ImportingModules(reg) \cup ConstantsModule(reg))
=============================================================================
