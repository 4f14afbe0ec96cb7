----------------------------- MODULE MCEndpoints -----------------------------
(* Registries in seven families, each of which varies what one of the checks *)
(* looks at; the family Constants of the other run.                         *)
EXTENDS Endpoints

CONSTANT Families

ReservedDef == {"delete", "object", "default"}
HelpersDef == {"Decoder", "decodeArray"}
PascalDef == [n \in {"get", "put", "del", "getError", "getEndpoint", "decodeT", "decodeBlob", "GetArgs", "delete"} |->
                CASE n = "get" -> "Get" [] n = "put" -> "Put" [] n = "del" -> "Del"
                  [] n = "getError" -> "GetError" [] n = "getEndpoint" -> "GetEndpoint"
                  [] n = "decodeT" -> "DecodeT" [] n = "decodeBlob" -> "DecodeBlob"
                  [] n = "delete" -> "Delete" [] OTHER -> n]
EnumListDef == [n \in {"T", "U", "E", "GetArgs", "getCodes", "deleteVal", "object", "fc"} |->
                  CASE n \in {"T", "U", "E"} -> n \o "S" [] n = "GetArgs" -> "GET_ARGSS"
                    [] n = "getCodes" -> "GET_CODESS" [] OTHER -> n \o "S"]

Type(p, n) == [pkg |-> p, name |-> n]
T == Type("a", "T")
Plain == [name |-> "get", method |-> "GET", path |-> <<Lit("x")>>, kind |-> "json", status |-> 0,
          response |-> T, request |-> NoType, paramsType |-> NoType, queryType |-> NoType, array |-> FALSE, contentType |-> FALSE,
          params |-> {}, query |-> {}, headers |-> << >>, errors |-> << >>]
Registry(s) ==
  [types |-> <<T>>, enumRefs |-> <<Type("a", "E")>>, events |-> << >>, unions |-> << >>, errorEnvelope |-> NoType,
   tsNameOverride |-> << >>, enumTSName |-> << >>, arbs |-> FALSE, consts |-> << >>, endpoints |-> s,
   typeNames |-> << >>, enums |-> << >>]

Field(n) == [name |-> n, optional |-> FALSE, scalar |-> TRUE]
Paths == {<<Lit("x")>>, <<Lit("x"), Hole("id")>>, <<Lit("x"), Hole("no")>>}
On(n, m, p) == [Plain EXCEPT !.name = n, !.method = m, !.path = p, !.params = {Field(f) : f \in PathParams(p)},
                                   !.paramsType = IF PathParams(p) = {} THEN NoType ELSE Type("a", "P")]

Routes ==
  {Registry(<<On("get", m1, p1), On("put", m2, p2), On("del", m3, p3)>>) :
     m1 \in {"GET", "POST"}, m2 \in {"GET", "POST"}, m3 \in {"GET", "POST"},
     p1 \in Paths, p2 \in Paths, p3 \in Paths}

Listings == {[code |-> c, status |-> s, ext |-> x] : c \in {"c", "d"}, s \in {404, 409}, x \in {"nil", "empty", "x-a"}}
             \cup {[code |-> "c", status |-> 200, ext |-> "nil"]}
Errors ==
  {Registry(<<[Plain EXCEPT !.errors = e1], [On("put", "POST", <<Lit("x")>>) EXCEPT !.errors = e2]>>) :
     e1 \in {<<a, b>> : a \in Listings, b \in Listings}, e2 \in {<< >>} \cup {<<a>> : a \in Listings}}

Kinds ==
  {Registry(<<[Plain EXCEPT !.method = m, !.kind = k, !.status = s, !.response = t, !.request = q,
                            !.array = a, !.contentType = (k = "raw"), !.headers = h]>>) :
     m \in {"GET", "POST"}, k \in {"json", "raw", "stream", "redirect"}, s \in {0, 201, 204, 205, 302, 404},
     t \in {NoType, T}, q \in {NoType, T}, a \in BOOLEAN, h \in {<< >>, <<[name |-> "h", arg |-> "id"]>>}}

FieldSets == {{}, {Field("id")}, {Field("body")}, {Field("id"), Field("no")},
              {[Field("id") EXCEPT !.optional = TRUE]}, {[Field("no") EXCEPT !.scalar = FALSE]}}
Arguments ==
  {Registry(<<[Plain EXCEPT !.method = "POST", !.path = p, !.params = f, !.query = g, !.request = q, !.headers = h,
                            !.paramsType = IF f = {} THEN NoType ELSE Type("a", "P"),
                            !.queryType = IF g = {} THEN NoType ELSE Type("a", "Q")]>>) :
     p \in Paths \cup {<<Hole("id"), Hole("no")>>, <<Hole("id"), Hole("id")>>, <<Hole("body")>>},
     f \in FieldSets, g \in FieldSets, q \in {NoType, T},
     h \in {<< >>, <<[name |-> "h", arg |-> "id"]>>, <<[name |-> "h", arg |-> "body"]>>,
            <<[name |-> "h", arg |-> "id"], [name |-> "h", arg |-> "no"]>>}}

EndpointNames == {"get", "getEndpoint", "getError", "decodeT", "decodeBlob", "GetArgs", "delete"}
Overrides(n, S) == {<< >>} \cup {[x \in {n} |-> s] : s \in S}
Identifiers ==
  {[Registry(s) EXCEPT !.tsNameOverride = t, !.enumTSName = e, !.arbs = a, !.events = v] :
     s \in {<< >>} \cup {<<On(n1, "GET", <<Lit("x")>>), [On(n2, "POST", <<Lit("x")>>) EXCEPT !.kind = k, !.response = NoType,
                                                          !.contentType = (k = "raw")]>> :
                         n1 \in EndpointNames, n2 \in EndpointNames, k \in {"json", "raw"}},
     t \in Overrides("T", {"GetArgs", "getCodes", "delete"}), e \in Overrides("E", {"GetArgs", "fc"}), a \in BOOLEAN,
     v \in {<< >>, <<[name |-> "created", data |-> T]>>}}

(* Two packages' types of one name, listed, referenced and as enums.       *)
Some == {T, Type("b", "T"), Type("a", "U")}
Short(S) == {<< >>} \cup {<<x>> : x \in S} \cup {<<x, y>> : x \in S, y \in S}
Event(n, d) == [name |-> n, data |-> d]
Mentioned ==
  {[Registry(s) EXCEPT !.types = l, !.enumRefs = m, !.events = v, !.unions = u, !.errorEnvelope = x] :
     s \in {<< >>} \cup {<<[Plain EXCEPT !.response = t]>> : t \in Some},
     l \in Short(Some) \cup {<<Type("", "T")>>}, m \in {<< >>} \cup {<<t>> : t \in Some} \cup {<<T, T>>},
     v \in {<< >>, <<Event("created", T)>>}, u \in {<< >>, <<Type("a", "U")>>}, x \in {NoType, T}}

Eventful ==
  {[Registry(<< >>) EXCEPT !.types = l, !.enumRefs = m, !.events = v, !.unions = u, !.errorEnvelope = x] :
     l \in {<< >>, <<T>>}, m \in {<< >>} \cup {<<t>> : t \in Some},
     v \in {<< >>, <<Event("two lines", T)>>, <<Event("created", NoType)>>, <<Event("created", Type("b", "T"))>>,
            <<Event("created", Type("a", "U")), Event("created", T)>>, <<Event("created", T), Event("changed", T)>>},
     u \in {<< >>, <<NoType>>, <<T>>, <<Type("a", "U")>>}, x \in {NoType, T, Type("a", "U"), Type("a", "")}}

Constants == {[Registry(<< >>) EXCEPT !.consts = c] : c \in [1 .. 2 -> {"A", "B"}]}

RegistriesDef ==
  IF Families = "accepted" THEN {Routes, Errors, Kinds, Arguments, Identifiers, Mentioned, Eventful} ELSE {Constants}
=============================================================================
