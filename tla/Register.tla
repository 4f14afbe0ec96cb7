------------------------------ MODULE Register ------------------------------
(***************************************************************************)
(* The names of a registry (registerNames, wiregen.go).  The generator     *)
(* keys types and enums by their bare Go names; it meets every type the    *)
(* registry mentions in one order and records the package of each name.    *)
(***************************************************************************)
EXTENDS Idents

IsSeq(s) == Len(s) \in Nat /\ s = [i \in 1 .. Len(s) |-> s[i]]

(* The shape of a registry. *)
Lists(r) ==
  /\ IsSeq(r.types) /\ IsSeq(r.enumRefs) /\ IsSeq(r.events) /\ IsSeq(r.unions) /\ IsSeq(r.endpoints)
  /\ {"types", "enumRefs", "events", "unions", "errorEnvelope", "endpoints", "typeNames", "enums",
      "tsNameOverride", "enumTSName", "arbs", "consts"} \subseteq DOMAIN r

EndpointTypes(e) == <<e.paramsType, e.queryType, e.request, e.response>>

(* referencedTypes *)
TypesOfEndpoints(r) ==
  [k \in 1 .. 4 * Len(r.endpoints) |-> EndpointTypes(r.endpoints[(k + 3) \div 4])[((k - 1) % 4) + 1]]
TypesOfEvents(r) == [i \in 1 .. Len(r.events) |-> r.events[i].data]
References(r) == TypesOfEndpoints(r) \o TypesOfEvents(r) \o r.unions \o <<r.errorEnvelope>>

(* The types listed, then those referenced, then the enums.                *)
InRole(role, s) == [i \in 1 .. Len(s) |-> [role |-> role, type |-> s[i]]]
Mentions(r) == InRole("listed", r.types) \o InRole("reference", References(r)) \o InRole("enum", r.enumRefs)

(* Mutant: a bare name known is taken for the type referenced. *)
KnownByName(r, m) == m.role = "reference" /\ (m.type = NoType \/ m.type.name \in DOMAIN r.typeNames)

(* A reference to none, or to a type registered before. *)
Known(r, m) ==
  /\ m.role = "reference"
  /\ \/ m.type = NoType
     \/ m.type.name \in DOMAIN r.typeNames /\ r.typeNames[m.type.name] = m.type.pkg

(* registerName *)
WellFormed(t) == t.pkg # "" /\ t.name # ""
Fits(r, m) == WellFormed(m.type) /\ m.type.name \notin Names(r)

Put(f, k, v) == [x \in DOMAIN f \cup {k} |-> IF x = k THEN v ELSE f[x]]

Registered(r, m) ==
  IF Known(r, m) THEN r
  ELSE IF m.role = "enum" THEN [r EXCEPT !.enums = Put(@, m.type.name, m.type.pkg)]
       ELSE [r EXCEPT !.typeNames = Put(@, m.type.name, m.type.pkg)]

-----------------------------------------------------------------------------
(* What "wiregen keys types and enums by bare name" asks of a registry, of *)
(* all it mentions at once: two mentions of one name are of one type, not  *)
(* both where it is listed, and neither an enum.                           *)
Named(m) == ~(m.role = "reference" /\ m.type = NoType)
Agree(m, n) ==
  m.type.pkg = n.type.pkg /\ "enum" \notin {m.role, n.role} /\ "reference" \in {m.role, n.role}

NamesSound(r) ==
  LET Q == Mentions(r)
  IN /\ \A i \in DOMAIN Q : Named(Q[i]) => WellFormed(Q[i].type)
     /\ \A i, j \in DOMAIN Q :
          i # j /\ Named(Q[i]) /\ Named(Q[j]) /\ Q[i].type.name = Q[j].type.name => Agree(Q[i], Q[j])

(* The names recorded are those mentioned, each of the one type, or the    *)
(* one enum, that every mention of it means.                               *)
Means(r, m) ==
  IF m.role = "enum" THEN m.type.name \in DOMAIN r.enums /\ r.enums[m.type.name] = m.type.pkg
  ELSE m.type.name \in DOMAIN r.typeNames /\ r.typeNames[m.type.name] = m.type.pkg

NamesMean(r) ==
  LET Q == Mentions(r)
  IN /\ \A i \in DOMAIN Q : Named(Q[i]) => Means(r, Q[i])
     /\ \A n \in Names(r) : \E i \in DOMAIN Q : Named(Q[i]) /\ Q[i].type.name = n
     /\ DOMAIN r.typeNames \cap DOMAIN r.enums = {}
=============================================================================
