-------------------------- MODULE Endpoints_proofs --------------------------
(***************************************************************************)
(* Registering the names and checking the endpoints one by one accepts     *)
(* exactly the sound registries, and the document of an accepted one has   *)
(* every operation, for any registry.                                      *)
(*                                                                         *)
(* The invariant: what a loop has recorded is what the mentions, or the    *)
(* endpoints, before it hold, and those are sound together; a registry is  *)
(* refused only at a mention or an endpoint that makes it unsound.         *)
(***************************************************************************)
EXTENDS Endpoints, TLAPS

(* What the loop has recorded of the first n mentions. *)
NamesAre(r, n) ==
  /\ \A i \in 1 .. n : Named(Mentions(r)[i]) => WellFormed(Mentions(r)[i].type) /\ Means(r, Mentions(r)[i])
  /\ \A name \in Names(r) : \E i \in 1 .. n : Named(Mentions(r)[i]) /\ Mentions(r)[i].type.name = name
  /\ DOMAIN r.typeNames \cap DOMAIN r.enums = {}
  /\ \A i, j \in 1 .. n :
       LET m == Mentions(r)[i]
           q == Mentions(r)[j]
       IN i # j /\ Named(m) /\ Named(q) /\ m.type.name = q.type.name => Agree(m, q)

-----------------------------------------------------------------------------
(* u is s and then t. *)
Joins(u, s, t) ==
  /\ IsSeq(u) /\ Len(u) = Len(s) + Len(t)
  /\ \A i \in 1 .. Len(s) : u[i] = s[i]
  /\ \A i \in 1 .. Len(t) : u[Len(s) + i] = t[i]

(* Sequences one after the other. *)
LEMMA Concat ==
  ASSUME NEW s, NEW t, IsSeq(s), IsSeq(t)
  PROVE  Joins(s \o t, s, t)
<1> DEFINE S == {s[i] : i \in 1 .. Len(s)} \cup {t[i] : i \in 1 .. Len(t)}
<1>1. s \in Seq(S) /\ t \in Seq(S)
  <2>1. s \in [1 .. Len(s) -> S] /\ t \in [1 .. Len(t) -> S] BY DEF IsSeq
  <2> QED BY <2>1 DEF IsSeq
<1> HIDE DEF S
<1>2. s \o t \in Seq(S) /\ Len(s \o t) = Len(s) + Len(t) BY <1>1
<1>3. \A i \in 1 .. Len(s) + Len(t) : (s \o t)[i] = IF i <= Len(s) THEN s[i] ELSE t[i - Len(s)] BY <1>1
<1>4. Len(s) \in Nat /\ Len(t) \in Nat BY DEF IsSeq
<1>5. IsSeq(s \o t)
  <2>1. PICK u : u = s \o t OBVIOUS
  <2>2. u \in Seq(S) BY <1>2, <2>1
  <2>3. u \in [1 .. Len(u) -> S] /\ Len(u) \in Nat BY <2>2
  <2>4. u = [i \in 1 .. Len(u) |-> u[i]] BY <2>3
  <2> QED BY <2>1, <2>3, <2>4 DEF IsSeq
<1> QED BY <1>2, <1>3, <1>4, <1>5 DEF Joins

(* u is s with a role. *)
Plays(u, role, s) ==
  /\ IsSeq(u) /\ Len(u) = Len(s)
  /\ \A i \in 1 .. Len(u) : u[i] = [role |-> role, type |-> s[i]] /\ u[i].role = role

(* The types with a role are as many, in their order. *)
LEMMA InRoleIsSeq ==
  ASSUME NEW role, NEW s, IsSeq(s)
  PROVE  Plays(InRole(role, s), role, s)
BY DEF InRole, IsSeq, Plays

(* The references are the endpoints' types, the events', the unions' and   *)
(* the envelope.                                                           *)
LEMMA ReferencesAre ==
  ASSUME NEW r, Lists(r)
  PROVE  /\ IsSeq(References(r))
         /\ \A i \in 1 .. Len(r.endpoints), k \in 1 .. 4 :
              \E j \in 1 .. Len(References(r)) : References(r)[j] = EndpointTypes(r.endpoints[i])[k]
         /\ \A i \in 1 .. Len(r.events) : \E j \in 1 .. Len(References(r)) : References(r)[j] = r.events[i].data
<1> DEFINE a == TypesOfEndpoints(r)
           b == TypesOfEvents(r)
           c == r.unions
           d == <<r.errorEnvelope>>
<1>1. IsSeq(a) /\ Len(a) = 4 * Len(r.endpoints) BY DEF Lists, TypesOfEndpoints, IsSeq
<1>2. IsSeq(b) /\ Len(b) = Len(r.events) BY DEF Lists, TypesOfEvents, IsSeq
<1>3. IsSeq(c) BY DEF Lists
<1>4. IsSeq(d) BY DEF IsSeq
<1>5. ASSUME NEW i \in 1 .. Len(r.endpoints), NEW k \in 1 .. 4
      PROVE  \E j \in 1 .. Len(a) : a[j] = EndpointTypes(r.endpoints[i])[k]
  <2> DEFINE j == 4 * (i - 1) + k
  <2>1. Len(r.endpoints) \in Nat BY DEF Lists, IsSeq
  <2>2. j \in 1 .. 4 * Len(r.endpoints) BY <2>1
  <2>3. (j + 3) \div 4 = i BY <2>1
  <2>4. ((j - 1) % 4) + 1 = k BY <2>1
  <2>5. a[j] = EndpointTypes(r.endpoints[(j + 3) \div 4])[((j - 1) % 4) + 1] BY <2>2 DEF TypesOfEndpoints
  <2> QED BY <1>1, <2>2, <2>3, <2>4, <2>5
<1>6. \A i \in 1 .. Len(r.events) : b[i] = r.events[i].data BY DEF TypesOfEvents
<1> HIDE DEF a, b, c, d
<1>7. PICK e : e = a \o b OBVIOUS
<1>8. Joins(e, a, b)
  <2>1. Joins(a \o b, a, b) BY <1>1, <1>2, Concat, Zenon
  <2> QED BY <1>7, <2>1, Zenon
<1>9. PICK f : f = e \o c OBVIOUS
<1>10. Joins(f, e, c)
  <2>1. IsSeq(e) BY <1>8 DEF Joins
  <2>2. Joins(e \o c, e, c) BY <1>3, <2>1, Concat, Zenon
  <2> QED BY <1>9, <2>2, Zenon
<1>11. PICK g : g = f \o d OBVIOUS
<1>12. Joins(g, f, d)
  <2>1. IsSeq(f) BY <1>10 DEF Joins
  <2>2. Joins(f \o d, f, d) BY <1>4, <2>1, Concat, Zenon
  <2> QED BY <1>11, <2>2, Zenon
<1>13. References(r) = g BY <1>7, <1>9, <1>11 DEF References, a, b, c, d
<1>14. Len(a) \in Nat /\ Len(b) \in Nat /\ Len(c) \in Nat /\ Len(d) \in Nat BY <1>1, <1>2, <1>3, <1>4 DEF IsSeq
<1>15. \A i \in 1 .. Len(a) : i \in 1 .. Len(g) /\ g[i] = a[i] BY <1>8, <1>10, <1>12, <1>14 DEF Joins
<1>16. \A i \in 1 .. Len(b) : Len(a) + i \in 1 .. Len(g) /\ g[Len(a) + i] = b[i]
  <2> SUFFICES ASSUME NEW i \in 1 .. Len(b) PROVE Len(a) + i \in 1 .. Len(g) /\ g[Len(a) + i] = b[i] OBVIOUS
  <2>1. e[Len(a) + i] = b[i] /\ Len(e) = Len(a) + Len(b) BY <1>8 DEF Joins
  <2>2. Len(a) + i \in 1 .. Len(e) BY <1>14, <2>1
  <2>3. f[Len(a) + i] = e[Len(a) + i] /\ Len(f) = Len(e) + Len(c) BY <1>10, <2>2 DEF Joins
  <2>4. Len(a) + i \in 1 .. Len(f) BY <1>14, <2>1, <2>2, <2>3
  <2>5. g[Len(a) + i] = f[Len(a) + i] /\ Len(g) = Len(f) + Len(d) BY <1>12, <2>4 DEF Joins
  <2> QED BY <1>14, <2>1, <2>3, <2>4, <2>5
<1>17. \A i \in 1 .. Len(r.events) : \E j \in 1 .. Len(g) : g[j] = r.events[i].data BY <1>2, <1>6, <1>16
<1>18. \A i \in 1 .. Len(r.endpoints), k \in 1 .. 4 : \E j \in 1 .. Len(g) : g[j] = EndpointTypes(r.endpoints[i])[k]
  <2> SUFFICES ASSUME NEW i \in 1 .. Len(r.endpoints), NEW k \in 1 .. 4
               PROVE \E j \in 1 .. Len(g) : g[j] = EndpointTypes(r.endpoints[i])[k] OBVIOUS
  <2>1. PICK j \in 1 .. Len(a) : a[j] = EndpointTypes(r.endpoints[i])[k] BY <1>5
  <2> QED BY <1>15, <2>1
<1>19. IsSeq(g) BY <1>12 DEF Joins
<1> QED BY <1>13, <1>17, <1>18, <1>19

(* The mentions are the types listed, the references and the enums, in     *)
(* this order.                                                             *)
LEMMA MentionsAre ==
  ASSUME NEW r, Lists(r)
  PROVE  /\ IsSeq(Mentions(r))
         /\ \A i \in 1 .. Len(Mentions(r)) :
              /\ Mentions(r)[i].role \in {"listed", "reference", "enum"}
              /\ Mentions(r)[i].role = "listed" => \A j \in 1 .. i : Mentions(r)[j].role = "listed"
              /\ Mentions(r)[i].role = "reference" => \A j \in 1 .. i : Mentions(r)[j].role # "enum"
         /\ \A k \in 1 .. Len(References(r)) :
              \E i \in 1 .. Len(Mentions(r)) : Mentions(r)[i] = [role |-> "reference", type |-> References(r)[k]]
<1> DEFINE a == InRole("listed", r.types)
           b == InRole("reference", References(r))
           c == InRole("enum", r.enumRefs)
<1>0. IsSeq(References(r)) BY ReferencesAre
<1>1a. Plays(a, "listed", r.types)
  <2>1. IsSeq(r.types) BY DEF Lists
  <2> QED BY <2>1, InRoleIsSeq, Zenon
<1>2a. Plays(b, "reference", References(r)) BY <1>0, InRoleIsSeq, Zenon
<1>3a. Plays(c, "enum", r.enumRefs)
  <2>1. IsSeq(r.enumRefs) BY DEF Lists
  <2> QED BY <2>1, InRoleIsSeq, Zenon
<1> HIDE DEF a, b, c
<1>1. IsSeq(a) /\ \A i \in 1 .. Len(a) : a[i].role = "listed" BY <1>1a DEF Plays
<1>2. /\ IsSeq(b) /\ Len(b) = Len(References(r))
      /\ \A i \in 1 .. Len(b) : b[i] = [role |-> "reference", type |-> References(r)[i]] /\ b[i].role = "reference"
  BY <1>2a DEF Plays
<1>3. IsSeq(c) /\ \A i \in 1 .. Len(c) : c[i].role = "enum" BY <1>3a DEF Plays
<1>4. PICK e : e = a \o b OBVIOUS
<1>5a. Joins(e, a, b)
  <2>1. Joins(a \o b, a, b) BY <1>1, <1>2, Concat, Zenon
  <2> QED BY <1>4, <2>1, Zenon
<1>5. /\ IsSeq(e) /\ Len(e) = Len(a) + Len(b)
      /\ \A i \in 1 .. Len(a) : e[i] = a[i]
      /\ \A i \in 1 .. Len(b) : e[Len(a) + i] = b[i]
  BY <1>5a DEF Joins
<1>6. PICK g : g = e \o c OBVIOUS
<1>7a. Joins(g, e, c)
  <2>1. Joins(e \o c, e, c) BY <1>3, <1>5, Concat, Zenon
  <2> QED BY <1>6, <2>1, Zenon
<1>7. /\ IsSeq(g) /\ Len(g) = Len(e) + Len(c)
      /\ \A i \in 1 .. Len(e) : g[i] = e[i]
      /\ \A i \in 1 .. Len(c) : g[Len(e) + i] = c[i]
  BY <1>7a DEF Joins
<1>8. Mentions(r) = g BY <1>4, <1>6 DEF Mentions, a, b, c
<1>9. Len(a) \in Nat /\ Len(b) \in Nat /\ Len(c) \in Nat BY <1>1, <1>2, <1>3 DEF IsSeq
<1>10. /\ \A i \in 1 .. Len(a) : g[i].role = "listed"
       /\ \A i \in Len(a) + 1 .. Len(a) + Len(b) : g[i] = b[i - Len(a)] /\ g[i].role = "reference"
       /\ \A i \in Len(a) + Len(b) + 1 .. Len(g) : g[i].role = "enum"
  <2>1. ASSUME NEW i \in 1 .. Len(a) PROVE g[i].role = "listed" BY <1>1, <1>5, <1>7, <1>9
  <2>2. ASSUME NEW i \in Len(a) + 1 .. Len(a) + Len(b) PROVE g[i] = b[i - Len(a)] /\ g[i].role = "reference"
    <3>1. i - Len(a) \in 1 .. Len(b) /\ i \in 1 .. Len(e) BY <1>5, <1>9
    <3>2. e[Len(a) + (i - Len(a))] = b[i - Len(a)] BY <1>5, <3>1
    <3>3. Len(a) + (i - Len(a)) = i BY <1>9
    <3> QED BY <1>2, <1>7, <3>1, <3>2, <3>3
  <2>3. ASSUME NEW i \in Len(a) + Len(b) + 1 .. Len(g) PROVE g[i].role = "enum"
    <3>1. i - Len(e) \in 1 .. Len(c) BY <1>5, <1>7, <1>9
    <3>2. g[Len(e) + (i - Len(e))] = c[i - Len(e)] BY <1>7, <3>1
    <3>3. Len(e) + (i - Len(e)) = i BY <1>5, <1>9
    <3> QED BY <1>3, <3>1, <3>2, <3>3
  <2> QED BY <2>1, <2>2, <2>3
<1>11. ASSUME NEW k \in 1 .. Len(b) PROVE \E i \in 1 .. Len(g) : g[i] = b[k]
  <2>1. Len(a) + k \in 1 .. Len(e) /\ Len(a) + k \in 1 .. Len(g) BY <1>5, <1>7, <1>9
  <2> QED BY <1>5, <1>7, <2>1
<1>12. ASSUME NEW i \in 1 .. Len(g)
       PROVE  /\ g[i].role \in {"listed", "reference", "enum"}
              /\ g[i].role = "listed" => \A j \in 1 .. i : g[j].role = "listed"
              /\ g[i].role = "reference" => \A j \in 1 .. i : g[j].role # "enum"
  <2>1. CASE i \in 1 .. Len(a)
    <3>1. \A j \in 1 .. i : j \in 1 .. Len(a) BY <2>1
    <3> QED BY <1>10, <2>1, <3>1
  <2>2. CASE i \in Len(a) + 1 .. Len(a) + Len(b)
    <3>1. \A j \in 1 .. i : j \in 1 .. Len(a) \/ j \in Len(a) + 1 .. Len(a) + Len(b) BY <1>9, <2>2
    <3> QED BY <1>10, <2>2, <3>1
  <2>3. CASE i \in Len(a) + Len(b) + 1 .. Len(g) BY <1>10, <2>3
  <2>4. Len(g) = Len(a) + Len(b) + Len(c) BY <1>5, <1>7
  <2> QED BY <1>9, <2>1, <2>2, <2>3, <2>4
<1>13. \A k \in 1 .. Len(References(r)) :
         \E i \in 1 .. Len(g) : g[i] = [role |-> "reference", type |-> References(r)[k]]
  BY <1>2, <1>11
<1> QED BY <1>7, <1>8, <1>12, <1>13

-----------------------------------------------------------------------------
(* Registering changes the names registered and nothing else. *)
Keeps(r, q) ==
  /\ DOMAIN q = DOMAIN r
  /\ q.types = r.types /\ q.enumRefs = r.enumRefs /\ q.events = r.events /\ q.unions = r.unions
  /\ q.errorEnvelope = r.errorEnvelope /\ q.endpoints = r.endpoints

(* What keeps the registry's lists keeps their shape and mentions. *)
LEMMA KeepsMentions ==
  ASSUME NEW r, NEW q, Lists(r), Keeps(r, q)
  PROVE  Lists(q) /\ References(q) = References(r) /\ Mentions(q) = Mentions(r)
<1>1. TypesOfEndpoints(q) = TypesOfEndpoints(r) /\ TypesOfEvents(q) = TypesOfEvents(r)
  BY DEF Keeps, TypesOfEndpoints, TypesOfEvents
<1>2. q.types = r.types /\ q.enumRefs = r.enumRefs /\ q.events = r.events /\ q.unions = r.unions
      /\ q.errorEnvelope = r.errorEnvelope /\ q.endpoints = r.endpoints /\ DOMAIN q = DOMAIN r
  BY DEF Keeps
<1>3. References(q) = References(r) BY <1>1, <1>2, Zenon DEF References
<1>4. Mentions(q) = Mentions(r) BY <1>2, <1>3, Zenon DEF Mentions
<1>5. Lists(q) BY <1>2, Zenon DEF Lists
<1> QED BY <1>3, <1>4, <1>5

(* What a name registered changes. *)
LEMMA RegisteredIs ==
  ASSUME NEW r, NEW m, Lists(r), ~Known(r, m)
  PROVE  LET q == Registered(r, m)
         IN /\ Keeps(r, q)
            /\ q.enums = IF m.role = "enum" THEN Put(r.enums, m.type.name, m.type.pkg) ELSE r.enums
            /\ q.typeNames = IF m.role = "enum" THEN r.typeNames ELSE Put(r.typeNames, m.type.name, m.type.pkg)
<1> {"types", "enumRefs", "events", "unions", "errorEnvelope", "endpoints", "typeNames", "enums"} \subseteq DOMAIN r
  BY DEF Lists
<1>1. CASE m.role = "enum" BY <1>1 DEF Registered, Keeps
<1>2. CASE m.role # "enum" BY <1>2 DEF Registered, Keeps
<1> QED BY <1>1, <1>2

(* One name more is registered as all mentions so far mean it. *)
LEMMA RegisterKeeps ==
  ASSUME NEW r, Lists(r), NEW n \in 1 .. Len(Mentions(r)), NamesAre(r, n - 1),
         Known(r, Mentions(r)[n]) \/ Fits(r, Mentions(r)[n])
  PROVE  Keeps(r, Registered(r, Mentions(r)[n])) /\ NamesAre(Registered(r, Mentions(r)[n]), n)
<1> DEFINE M == Mentions(r)
           m == M[n]
           q == Registered(r, m)
<1>0. Len(M) \in Nat BY MentionsAre DEF IsSeq
<1>1. \A i \in 1 .. n : i \in 1 .. n - 1 \/ i = n BY <1>0
<1>2. \A i \in 1 .. n - 1 : i \in 1 .. n /\ i # n BY <1>0
<1>2a. n \in 1 .. n BY <1>0
<1> HIDE DEF M, m, q
<1>3. /\ \A i \in 1 .. n - 1 : Named(M[i]) => WellFormed(M[i].type) /\ Means(r, M[i])
      /\ \A name \in Names(r) : \E i \in 1 .. n - 1 : Named(M[i]) /\ M[i].type.name = name
      /\ DOMAIN r.typeNames \cap DOMAIN r.enums = {}
      /\ \A i, j \in 1 .. n - 1 :
           i # j /\ Named(M[i]) /\ Named(M[j]) /\ M[i].type.name = M[j].type.name => Agree(M[i], M[j])
  BY DEF NamesAre, M
<1>4. M[n] = m BY DEF m
<1>4a. \A i \in 1 .. n - 1 : Named(M[i]) => M[i].type.name \in Names(r) BY <1>3 DEF Means, Names
<1>5. CASE Known(r, m)
  <2>1. q = r BY <1>5 DEF q, Registered
  <2>2. Keeps(r, q) BY <2>1 DEF Keeps
  <2>3. CASE ~Named(m)
    <3>1. \A name \in Names(r) : \E i \in 1 .. n : Named(M[i]) /\ M[i].type.name = name BY <1>2, <1>3
    <3>2. NamesAre(r, n) BY <1>1, <1>3, <1>4, <2>3, <3>1 DEF NamesAre, M
    <3> QED BY <2>1, <2>2, <3>2 DEF q, m, M
  <2>4. CASE Named(m)
    <3>1. m.role = "reference" /\ m.type.name \in DOMAIN r.typeNames /\ r.typeNames[m.type.name] = m.type.pkg
      BY <1>5, <2>4 DEF Known, Named
    <3>2. Means(r, m) BY <3>1 DEF Means
    <3>3. m.type.name \notin DOMAIN r.enums BY <1>3, <3>1
    <3>4. ASSUME NEW i \in 1 .. n - 1, Named(M[i]), M[i].type.name = m.type.name
          PROVE Agree(M[i], m) /\ Agree(m, M[i]) /\ M[i].type.pkg = m.type.pkg
      <4>1. Means(r, M[i]) BY <1>3, <3>4
      <4>2. M[i].role # "enum" /\ r.typeNames[m.type.name] = M[i].type.pkg BY <3>3, <3>4, <4>1 DEF Means
      <4> QED BY <3>1, <4>2 DEF Agree
    <3>5. WellFormed(m.type)
      <4>1. PICK i \in 1 .. n - 1 : Named(M[i]) /\ M[i].type.name = m.type.name BY <1>3, <3>1 DEF Names
      <4> QED BY <1>3, <3>4, <4>1 DEF WellFormed
    <3>6. \A name \in Names(r) : \E i \in 1 .. n : Named(M[i]) /\ M[i].type.name = name BY <1>2, <1>3
    <3>7. \A i \in 1 .. n : Named(M[i]) => WellFormed(M[i].type) /\ Means(r, M[i])
      BY <1>1, <1>3, <1>4, <3>2, <3>5
    <3>8. \A i, j \in 1 .. n :
            i # j /\ Named(M[i]) /\ Named(M[j]) /\ M[i].type.name = M[j].type.name => Agree(M[i], M[j])
      BY <1>1, <1>3, <1>4, <3>4
    <3>9. NamesAre(r, n) BY <1>3, <3>6, <3>7, <3>8 DEF NamesAre, M
    <3> QED BY <2>1, <2>2, <3>9 DEF q, m, M
  <2> QED BY <2>3, <2>4
<1>6. CASE ~Known(r, m)
  <2>1. WellFormed(m.type) /\ m.type.name \notin Names(r) BY <1>6 DEF Fits, m, M
  <2>2. Named(m) BY <1>6 DEF Known, Named
  <2>3. /\ Keeps(r, q)
        /\ q.enums = IF m.role = "enum" THEN Put(r.enums, m.type.name, m.type.pkg) ELSE r.enums
        /\ q.typeNames = IF m.role = "enum" THEN r.typeNames ELSE Put(r.typeNames, m.type.name, m.type.pkg)
    BY <1>6, RegisteredIs, Zenon DEF q
  <2>4. Mentions(q) = M BY <2>3, KeepsMentions DEF M
  <2>5. m.type.name \notin DOMAIN r.typeNames /\ m.type.name \notin DOMAIN r.enums BY <2>1 DEF Names
  <2>6. Names(q) = Names(r) \cup {m.type.name} BY <2>3 DEF Names, Put
  <2>7. DOMAIN q.typeNames \cap DOMAIN q.enums = {} BY <1>3, <2>3, <2>5 DEF Put
  <2>8. Means(q, m) BY <2>3 DEF Means, Put
  <2>9. ASSUME NEW i \in 1 .. n - 1, Named(M[i])
        PROVE WellFormed(M[i].type) /\ Means(q, M[i]) /\ M[i].type.name # m.type.name
    <3>1. M[i].type.name # m.type.name BY <1>4a, <2>1, <2>9
    <3>2. Means(r, M[i]) BY <1>3, <2>9
    <3>3. Means(q, M[i]) BY <2>3, <3>1, <3>2 DEF Means, Put
    <3> QED BY <1>3, <2>9, <3>1, <3>3
  <2>10. \A i \in 1 .. n : Named(M[i]) => WellFormed(M[i].type) /\ Means(q, M[i])
    BY <1>1, <1>4, <2>1, <2>8, <2>9
  <2>11. \A name \in Names(q) : \E i \in 1 .. n : Named(M[i]) /\ M[i].type.name = name
    BY <1>2, <1>2a, <1>3, <1>4, <2>2, <2>6
  <2>12. \A i, j \in 1 .. n :
           i # j /\ Named(M[i]) /\ Named(M[j]) /\ M[i].type.name = M[j].type.name => Agree(M[i], M[j])
    BY <1>1, <1>3, <1>4, <2>9
  <2>13. NamesAre(q, n) BY <2>4, <2>7, <2>10, <2>11, <2>12 DEF NamesAre
  <2> QED BY <2>3, <2>13 DEF q, m, M
<1> QED BY <1>5, <1>6

(* A name is refused only in a registry whose mentions do not agree. *)
LEMMA RefusedIsUnsound ==
  ASSUME NEW r, Lists(r), NEW n \in 1 .. Len(Mentions(r)), NamesAre(r, n - 1),
         ~Known(r, Mentions(r)[n]), ~Fits(r, Mentions(r)[n])
  PROVE  ~NamesSound(r)
<1> DEFINE M == Mentions(r)
           m == M[n]
<1>0. IsSeq(M) /\ m.role \in {"listed", "reference", "enum"}
      /\ (m.role = "listed" => \A j \in 1 .. n : M[j].role = "listed")
  BY MentionsAre
<1>1. DOMAIN M = 1 .. Len(M) /\ Len(M) \in Nat BY <1>0 DEF IsSeq
<1>2. \A i \in 1 .. n - 1 : i \in DOMAIN M /\ i \in 1 .. n /\ i # n BY <1>1
<1>3. n \in DOMAIN M BY <1>1
<1> SUFFICES ASSUME NamesSound(r) PROVE FALSE OBVIOUS
<1>4. /\ \A i \in 1 .. n - 1 : Named(M[i]) => Means(r, M[i])
      /\ \A name \in Names(r) : \E i \in 1 .. n - 1 : Named(M[i]) /\ M[i].type.name = name
  BY DEF NamesAre
<1>5. Named(m) BY DEF Known, Named
<1>6. WellFormed(m.type) BY <1>3, <1>5 DEF NamesSound
<1>7. m.type.name \in Names(r) BY <1>6 DEF Fits
<1>8. PICK i \in 1 .. n - 1 : Named(M[i]) /\ M[i].type.name = m.type.name BY <1>4, <1>7
<1>9. Agree(M[i], m) BY <1>2, <1>3, <1>5, <1>8 DEF NamesSound
<1>10. Means(r, M[i]) BY <1>4, <1>8
<1> HIDE DEF M, m
<1>11. M[i].type.pkg = m.type.pkg /\ M[i].role # "enum" /\ m.role # "enum" /\ (M[i].role = "reference" \/ m.role = "reference")
  BY <1>9 DEF Agree
<1>12. m.role = "reference" BY <1>0, <1>2, <1>11
<1>13. m.type.name \in DOMAIN r.typeNames /\ r.typeNames[m.type.name] = m.type.pkg BY <1>8, <1>10, <1>11 DEF Means
<1>14. Known(r, m) BY <1>12, <1>13 DEF Known
<1> QED BY <1>14 DEF m, M

(* With every mention met, the registry is sound in its names. *)
LEMMA NamesComplete ==
  ASSUME NEW r, Lists(r), NamesAre(r, Len(Mentions(r)))
  PROVE  NamesSound(r) /\ NamesMean(r)
<1>1. DOMAIN Mentions(r) = 1 .. Len(Mentions(r)) BY MentionsAre DEF IsSeq
<1>2. NamesSound(r) BY <1>1 DEF NamesAre, NamesSound
<1>3. NamesMean(r) BY <1>1 DEF NamesAre, NamesMean
<1> QED BY <1>2, <1>3

(* What a reference names is registered. *)
LEMMA ReferencesAreKnown ==
  ASSUME NEW r, Lists(r), NamesMean(r), NEW k \in 1 .. Len(References(r)), References(r)[k] # NoType
  PROVE  References(r)[k].name \in DOMAIN r.typeNames
<1>1. PICK i \in 1 .. Len(Mentions(r)) : Mentions(r)[i] = [role |-> "reference", type |-> References(r)[k]]
  BY MentionsAre
<1>2. i \in DOMAIN Mentions(r) BY MentionsAre DEF IsSeq
<1>3. PICK m : m = Mentions(r)[i] OBVIOUS
<1>4. m.role = "reference" /\ m.type = References(r)[k] BY <1>1, <1>3
<1>5. Named(m) BY <1>4 DEF Named
<1>6. Means(r, m) BY <1>2, <1>3, <1>5 DEF NamesMean
<1> QED BY <1>4, <1>6 DEF Means

(* The types of the endpoints and the events are registered. *)
LEMMA TypesAreKnown ==
  ASSUME NEW r, Lists(r), NamesMean(r)
  PROVE  /\ \A i \in 1 .. Len(r.endpoints), k \in 1 .. 4 :
              EndpointTypes(r.endpoints[i])[k] # NoType => EndpointTypes(r.endpoints[i])[k].name \in DOMAIN r.typeNames
         /\ \A i \in 1 .. Len(r.events) : r.events[i].data # NoType => r.events[i].data.name \in DOMAIN r.typeNames
<1>1. ASSUME NEW i \in 1 .. Len(r.endpoints), NEW k \in 1 .. 4, EndpointTypes(r.endpoints[i])[k] # NoType
      PROVE  EndpointTypes(r.endpoints[i])[k].name \in DOMAIN r.typeNames
  <2>1. PICK j \in 1 .. Len(References(r)) : References(r)[j] = EndpointTypes(r.endpoints[i])[k] BY ReferencesAre
  <2> QED BY <1>1, <2>1, ReferencesAreKnown
<1>2. ASSUME NEW i \in 1 .. Len(r.events), r.events[i].data # NoType
      PROVE  r.events[i].data.name \in DOMAIN r.typeNames
  <2>1. PICK j \in 1 .. Len(References(r)) : References(r)[j] = r.events[i].data BY ReferencesAre
  <2> QED BY <1>2, <2>1, ReferencesAreKnown
<1> QED BY <1>1, <1>2

-----------------------------------------------------------------------------

E(i) == reg.endpoints[i]

(* An endpoint sound by itself, beside the claims of the registry. *)
AloneSound(e) ==
  /\ ValidEndpoint(e)
  /\ NoRepeat([i \in DOMAIN e.errors |-> e.errors[i].code])
  /\ \A er \in Range(e.errors) : er.status \in 400 .. 599
  /\ NoneTwice(EndpointClaims(e)) /\ Apart(EndpointClaims(e), Claims(reg))

PrefixSound(n) ==
  /\ \A i \in 1 .. n : AloneSound(E(i))
  /\ \A i, j \in 1 .. n : i # j => PairSound(E(i), E(j))

(* What the loop has recorded of the first n endpoints. *)
TakenIs(n) == \A c : c \in taken <=> (c \in Claims(reg) \/ \E i \in 1 .. n : c \in EndpointClaims(E(i)))
PathsAre(n) == \A p : p \in paths <=> \E i \in 1 .. n : p = E(i).path
RoutesAre(n) == \A r : r \in routes <=> \E i \in 1 .. n : r = Route(E(i))
CatalogIs(n) ==
  /\ \A i \in 1 .. n : \A er \in Range(E(i).errors) :
       er.code \in DOMAIN catalog /\ Agrees(er, catalog[er.code])
  /\ \A c \in DOMAIN catalog :
       \E i \in 1 .. n : \E er \in Range(E(i).errors) : er.code = c /\ catalog[c] = er

Prefix(n) == PrefixSound(n) /\ TakenIs(n) /\ PathsAre(n) /\ RoutesAre(n) /\ CatalogIs(n)

DocIs(n) ==
  /\ \A p \in DOMAIN doc :
       /\ p \in paths
       /\ \A m \in DOMAIN doc[p] : \E i \in 1 .. n : p = E(i).path /\ m = E(i).method
  /\ \A i \in 1 .. n :
       /\ E(i).path \in DOMAIN doc /\ E(i).method \in DOMAIN doc[E(i).path]
       /\ doc[E(i).path][E(i).method] = Operation(E(i))

Phases == {"names", "events", "claim", "table", "args", "render", "done", "refused"}

AfterNames == {"events", "claim", "table", "args", "render", "done"}

NamesInv ==
  /\ phase = "names" => next \in 1 .. Len(Mentions(reg)) + 1 /\ NamesAre(reg, next - 1)
  /\ phase \in AfterNames => NamesAre(reg, Len(Mentions(reg)))
  /\ phase \in AfterNames \ {"events"} => EventsSound(reg)

IInv ==
  /\ Lists(reg) /\ phase \in Phases /\ NamesInv
  /\ phase \in AfterNames => next \in 1 .. Len(reg.endpoints) + 1
  /\ phase \in {"names", "events", "claim"} => paths = {} /\ routes = {} /\ catalog = << >>
  /\ phase \in {"events", "claim"} => next = 1
  /\ phase \in {"names", "events", "claim", "table", "args"} => doc = << >>
  /\ phase \in {"table", "args", "render", "done"} => NoneTwice(Claims(reg))
  /\ phase = "table" => Prefix(next - 1)
  /\ phase \in {"args", "render", "done"} => Prefix(Len(reg.endpoints))
  /\ phase = "args" => \A i \in 1 .. next - 1 : ResolvesArgs(E(i))
  /\ phase \in {"render", "done"} => \A i \in 1 .. Len(reg.endpoints) : ResolvesArgs(E(i))
  /\ phase = "render" => DocIs(next - 1)
  /\ phase = "done" => DocIs(Len(reg.endpoints))
  /\ phase = "refused" => ~Sound

-----------------------------------------------------------------------------
(* The endpoints are a sequence. *)
LEMMA EndpointsAreListed ==
  ASSUME NEW r, Lists(r)
  PROVE  Len(r.endpoints) \in Nat /\ DOMAIN r.endpoints = 1 .. Len(r.endpoints)
BY DEF Lists, IsSeq

(* Once they are registered the names stay. *)
LEMMA NamesKept ==
  ASSUME NamesInv, reg' = reg, phase \in AfterNames \ {"events"}, phase' \in AfterNames \ {"events"}
  PROVE  NamesInv'
BY DEF NamesInv, AfterNames

(* A table is sound when its endpoints are, alone and in pairs, their codes *)
(* agree, the claims of the registry do not repeat and its names and events *)
(* are sound.                                                               *)
LEMMA SoundByIndex ==
  ASSUME Lists(reg)
  PROVE Sound <=> /\ PrefixSound(Len(reg.endpoints))
                  /\ \A i \in 1 .. Len(reg.endpoints) : ResolvesArgs(E(i))
                  /\ CodesSound /\ NoneTwice(Claims(reg)) /\ NamesSound(reg) /\ EventsSound(reg)
<1>1. DOMAIN reg.endpoints = 1 .. Len(reg.endpoints)
  BY EndpointsAreListed
<1>2. All = {E(i) : i \in 1 .. Len(reg.endpoints)}
  BY <1>1 DEF All, Range, E
<1> DEFINE Alone == \A e \in All : AloneSound(e) /\ ResolvesArgs(e)
           Pairs == \A i, j \in DOMAIN reg.endpoints : i # j => PairSound(reg.endpoints[i], reg.endpoints[j])
<1>3. Sound <=> Alone /\ Pairs /\ CodesSound /\ NoneTwice(Claims(reg)) /\ NamesSound(reg) /\ EventsSound(reg)
  <2>1. ASSUME NEW e \in All
        PROVE (AloneSound(e) /\ ResolvesArgs(e)) <=>
                 (/\ ValidEndpoint(e) /\ ResolvesArgs(e)
                  /\ NoRepeat([i \in DOMAIN e.errors |-> e.errors[i].code])
                  /\ \A er \in Range(e.errors) : er.status \in 400 .. 599
                  /\ NoneTwice(EndpointClaims(e)) /\ Apart(EndpointClaims(e), Claims(reg)))
    BY Zenon DEF AloneSound
  <2> QED BY <2>1, Zenon DEF Sound
<1>4. Alone <=> \A i \in 1 .. Len(reg.endpoints) : AloneSound(E(i)) /\ ResolvesArgs(E(i))
  BY <1>2
<1>5. Pairs <=> \A i, j \in 1 .. Len(reg.endpoints) : i # j => PairSound(E(i), E(j))
  BY <1>1 DEF E
<1> HIDE DEF Alone, Pairs
<1> QED
  BY <1>3, <1>4, <1>5 DEF PrefixSound

(* The codes of a table the catalog was made from agree with each other. *)
LEMMA CatalogAgrees ==
  ASSUME Lists(reg), CatalogIs(Len(reg.endpoints))
  PROVE CodesSound
<1>1. DOMAIN reg.endpoints = 1 .. Len(reg.endpoints)
  BY EndpointsAreListed
<1> SUFFICES ASSUME NEW d \in All, NEW e \in All, NEW x \in Range(d.errors), NEW y \in Range(e.errors), x.code = y.code
             PROVE x.status = y.status /\ NormExt(x.ext) = NormExt(y.ext)
  BY DEF CodesSound
<1>2. PICK i \in 1 .. Len(reg.endpoints) : d = E(i)
  BY <1>1 DEF All, Range, E
<1>3. PICK j \in 1 .. Len(reg.endpoints) : e = E(j)
  BY <1>1 DEF All, Range, E
<1>4. Agrees(x, catalog[x.code]) /\ Agrees(y, catalog[x.code])
  BY <1>2, <1>3 DEF CatalogIs
<1> QED
  BY <1>4 DEF Agrees

-----------------------------------------------------------------------------
(* The codes an endpoint lists are listed once. *)
LEMMA CodesOnce ==
  ASSUME NEW e, NoRepeat([i \in DOMAIN e.errors |-> e.errors[i].code])
  PROVE \A x, y \in Range(e.errors) : x.code = y.code => x = y
BY DEF NoRepeat, Range

(* An endpoint that fits is recorded, and sound beside those before it. *)
LEMMA CheckEndpointInv == IInv /\ CheckEndpoint => IInv'
<1> SUFFICES ASSUME IInv, CheckEndpoint PROVE IInv' OBVIOUS
<1> DEFINE e == Endpoint
<1>0. PICK n : n = next OBVIOUS
<1>1. reg' = reg /\ phase = "table" /\ phase' = "table" /\ next' = n + 1 /\ doc' = doc
      /\ n \in 1 .. Len(reg.endpoints)
  BY <1>0, EndpointsAreListed DEF CheckEndpoint, More, IInv, AfterNames
<1>2. Prefix(n - 1) /\ EndpointFits(e) /\ e = E(n) /\ Lists(reg) /\ NoneTwice(Claims(reg))
  BY <1>0, <1>1 DEF CheckEndpoint, IInv, E, Endpoint
<1>3. paths' = paths \cup {e.path} /\ routes' = routes \cup {Route(e)}
      /\ catalog' = WithErrors(e) /\ taken' = taken \cup EndpointClaims(e)
  BY DEF CheckEndpoint
<1>4. \A i : E(i)' = E(i)
  BY <1>1 DEF E
<1>5. \A i \in 1 .. n : i \in 1 .. n - 1 \/ i = n
  BY <1>1
<1>6. 1 .. n - 1 \subseteq 1 .. n /\ n \in 1 .. n /\ next' - 1 = n
  BY <1>1
<1> HIDE DEF e
<1>7. AloneSound(e)
  <2>1. \A c \in Claims(reg) : c \in taken
    BY <1>2 DEF Prefix, TakenIs
  <2>2. Apart(EndpointClaims(e), taken)
    BY <1>2 DEF EndpointFits
  <2>3. Apart(EndpointClaims(e), Claims(reg))
    BY <2>1, <2>2 DEF Apart
  <2>4. ValidErrors(e) /\ ValidEndpoint(e) /\ NoneTwice(EndpointClaims(e))
    BY <1>2 DEF EndpointFits
  <2>5. NoRepeat([i \in DOMAIN e.errors |-> e.errors[i].code])
    BY <2>4, Zenon DEF ValidErrors
  <2>6. \A er \in Range(e.errors) : er.status \in 400 .. 599
    BY <2>4, Zenon DEF ValidErrors
  <2> QED BY <2>3, <2>4, <2>5, <2>6, Zenon DEF AloneSound
<1>8. ASSUME NEW i \in 1 .. n - 1
      PROVE  PairSound(E(i), e) /\ PairSound(e, E(i))
  <2>1. EndpointClaims(E(i)) \subseteq taken
    BY <1>2 DEF Prefix, TakenIs
  <2>2. Apart(EndpointClaims(E(i)), EndpointClaims(e)) /\ Apart(EndpointClaims(e), EndpointClaims(E(i)))
    BY <1>2, <2>1 DEF EndpointFits, Apart
  <2>3. E(i).path \in paths /\ Route(E(i)) \in routes
    BY <1>2 DEF Prefix, PathsAre, RoutesAre
  <2>4. PathTemplate(E(i).path) = PathTemplate(e.path) => E(i).path = e.path
    BY <1>2, <2>3 DEF EndpointFits, PathIsKnownOrNew
  <2>5. Route(E(i)) # Route(e)
    BY <1>2, <2>3 DEF EndpointFits
  <2>6. PathTemplate(E(i).path) = PathTemplate(e.path) => E(i).method # e.method
    BY <2>5 DEF Route
  <2> QED BY <2>2, <2>4, <2>6 DEF PairSound
<1>9. PrefixSound(n)'
  <2>1. \A i \in 1 .. n - 1 : AloneSound(E(i))
    BY <1>2 DEF Prefix, PrefixSound
  <2>2. \A i, j \in 1 .. n - 1 : i # j => PairSound(E(i), E(j))
    BY <1>2 DEF Prefix, PrefixSound
  <2>3. \A i \in 1 .. n : AloneSound(E(i))
    BY <1>2, <1>5, <1>7, <2>1
  <2>4. \A i, j \in 1 .. n : i # j => PairSound(E(i), E(j))
    BY <1>2, <1>5, <1>8, <2>2
  <2>5. \A i \in 1 .. n : AloneSound(E(i))'
    BY <1>1, <1>4, <2>3 DEF AloneSound
  <2> QED BY <1>1, <1>4, <1>6, <2>4, <2>5 DEF PrefixSound
<1>10. TakenIs(n)'
  <2>1. \A c : c \in taken <=> (c \in Claims(reg) \/ \E i \in 1 .. n - 1 : c \in EndpointClaims(E(i)))
    BY <1>2 DEF Prefix, TakenIs
  <2>2. \A c : c \in taken' <=> (c \in Claims(reg) \/ \E i \in 1 .. n : c \in EndpointClaims(E(i)))
    BY <1>2, <1>3, <1>5, <1>6, <2>1
  <2> QED BY <1>1, <1>4, <2>2 DEF TakenIs
<1>11. PathsAre(n)'
  <2>1. \A p : p \in paths <=> \E i \in 1 .. n - 1 : p = E(i).path
    BY <1>2 DEF Prefix, PathsAre
  <2>2. \A p : p \in paths' <=> \E i \in 1 .. n : p = E(i).path
    BY <1>2, <1>3, <1>5, <1>6, <2>1
  <2> QED BY <1>4, <2>2 DEF PathsAre
<1>12. RoutesAre(n)'
  <2>1. \A r : r \in routes <=> \E i \in 1 .. n - 1 : r = Route(E(i))
    BY <1>2 DEF Prefix, RoutesAre
  <2>2. \A r : r \in routes' <=> \E i \in 1 .. n : r = Route(E(i))
    BY <1>2, <1>3, <1>5, <1>6, <2>1
  <2> QED BY <1>4, <2>2 DEF RoutesAre
<1>13. CatalogIs(n)'
  <2> DEFINE errs(i) == Range(E(i).errors)
  <2>1. /\ \A i \in 1 .. n - 1 : \A er \in errs(i) : er.code \in DOMAIN catalog /\ Agrees(er, catalog[er.code])
        /\ \A c \in DOMAIN catalog : \E i \in 1 .. n - 1 : \E er \in errs(i) : er.code = c /\ catalog[c] = er
    BY <1>2 DEF Prefix, CatalogIs
  <2>2. errs(n) = Range(e.errors)
    BY <1>2
  <2>3. \A er \in errs(n) : er.code \in DOMAIN catalog => Agrees(er, catalog[er.code])
    BY <1>2, <2>2 DEF EndpointFits, ValidErrors
  <2>4. \A x, y \in errs(n) : x.code = y.code => x = y
    BY <1>2, <2>2, CodesOnce DEF EndpointFits, ValidErrors
  <2>5. /\ \A c \in DOMAIN catalog : c \in DOMAIN catalog' /\ catalog'[c] = catalog[c]
        /\ \A c \in DOMAIN catalog' : c \in DOMAIN catalog \/ \E er \in errs(n) : er.code = c /\ catalog'[c] = er
        /\ \A er \in errs(n) : er.code \in DOMAIN catalog'
    BY <1>3, <2>2 DEF WithErrors
  <2> HIDE DEF errs
  <2>6. \A i \in 1 .. n : \A er \in errs(i) : er.code \in DOMAIN catalog' /\ Agrees(er, catalog'[er.code])
    <3>1. ASSUME NEW er \in errs(n) PROVE Agrees(er, catalog'[er.code])
      <4>1. CASE er.code \in DOMAIN catalog BY <2>3, <2>5, <4>1
      <4>2. CASE er.code \notin DOMAIN catalog
        <5>1. catalog'[er.code] = er BY <2>4, <2>5, <4>2
        <5> QED BY <5>1 DEF Agrees
      <4> QED BY <4>1, <4>2
    <3> QED BY <1>5, <2>1, <2>5, <3>1
  <2>7. \A c \in DOMAIN catalog' : \E i \in 1 .. n : \E er \in errs(i) : er.code = c /\ catalog'[c] = er
    BY <1>6, <2>1, <2>5
  <2>8. \A i : errs(i)' = errs(i)
    BY <1>4 DEF errs
  <2>9. \A i \in 1 .. n : \A er \in errs(i)' : er.code \in DOMAIN catalog' /\ Agrees(er, catalog'[er.code])
    BY <2>6, <2>8
  <2>10. \A c \in DOMAIN catalog' : \E i \in 1 .. n : \E er \in errs(i)' : er.code = c /\ catalog'[c] = er
    BY <2>7, <2>8
  <2> QED BY <2>9, <2>10 DEF CatalogIs, errs, Agrees
<1>14. Prefix(n)'
  BY <1>9, <1>10, <1>11, <1>12, <1>13 DEF Prefix
<1>15. (phase = "table" => Prefix(next - 1))'
  BY <1>6, <1>14
<1>16. next' \in 1 .. Len(reg'.endpoints) + 1
  BY <1>1, EndpointsAreListed
<1>17. NamesInv' BY <1>1, NamesKept DEF IInv, AfterNames
<1> QED BY <1>1, <1>2, <1>15, <1>16, <1>17 DEF IInv, AfterNames

-----------------------------------------------------------------------------
(* A table is refused only at an endpoint that makes it unsound. *)
LEMMA RefuseEndpointInv == IInv /\ RefuseEndpoint => IInv'
<1> SUFFICES ASSUME IInv, RefuseEndpoint PROVE IInv' OBVIOUS
<1> DEFINE e == Endpoint
<1>0. PICK n : n = next OBVIOUS
<1>1. /\ UNCHANGED <<reg, next>> /\ phase = "table" /\ phase' = "refused"
      /\ n \in 1 .. Len(reg.endpoints) /\ Prefix(n - 1) /\ ~EndpointFits(e) /\ e = E(n) /\ Lists(reg)
  BY <1>0, EndpointsAreListed DEF RefuseEndpoint, Refuse, More, IInv, E, Endpoint, AfterNames
<1> HIDE DEF e
<1>2. ASSUME Sound PROVE EndpointFits(e)
  <2>1. PrefixSound(Len(reg.endpoints)) /\ CodesSound
    BY <1>1, <1>2, SoundByIndex
  <2>2. \A i \in 1 .. n - 1 : i \in 1 .. Len(reg.endpoints) /\ i # n
    BY <1>1, EndpointsAreListed
  <2>3. AloneSound(e) /\ \A i \in 1 .. n - 1 : PairSound(e, E(i)) /\ PairSound(E(i), e)
    BY <1>1, <2>1, <2>2 DEF PrefixSound
  <2>4. PathIsKnownOrNew(e)
    BY <1>1, <2>3 DEF PathIsKnownOrNew, Prefix, PathsAre, PairSound
  <2>5. Route(e) \notin routes
    <3>1. ASSUME NEW i \in 1 .. n - 1 PROVE Route(e) # Route(E(i))
      BY <2>3 DEF PairSound, Route
    <3> QED BY <1>1, <3>1 DEF Prefix, RoutesAre
  <2>6. Apart(EndpointClaims(e), taken)
    <3>1. ASSUME NEW i \in 1 .. n - 1 PROVE Apart(EndpointClaims(e), EndpointClaims(E(i)))
      BY <2>3 DEF PairSound
    <3>2. Apart(EndpointClaims(e), Claims(reg)) BY <2>3 DEF AloneSound
    <3> QED BY <1>1, <3>1, <3>2 DEF Apart, Prefix, TakenIs
  <2>7. ASSUME NEW er \in Range(e.errors), er.code \in DOMAIN catalog
        PROVE  Agrees(er, catalog[er.code])
    <3>1. PICK i \in 1 .. n - 1 : \E x \in Range(E(i).errors) : x.code = er.code /\ catalog[er.code] = x
      BY <1>1, <2>7 DEF Prefix, CatalogIs
    <3>2. E(i) \in All /\ e \in All
      BY <1>1, <2>2, EndpointsAreListed DEF All, Range, E
    <3> QED BY <2>1, <3>1, <3>2 DEF CodesSound, Agrees
  <2>8. ValidErrors(e)
    <3>1. NoRepeat([i \in DOMAIN e.errors |-> e.errors[i].code]) /\ \A er \in Range(e.errors) : er.status \in 400 .. 599
      BY <2>3, Zenon DEF AloneSound
    <3> QED BY <2>7, <3>1, Zenon DEF ValidErrors
  <2>9. ValidEndpoint(e) /\ NoneTwice(EndpointClaims(e))
    BY <2>3, Zenon DEF AloneSound
  <2> QED BY <2>4, <2>5, <2>6, <2>8, <2>9, Zenon DEF EndpointFits
<1>3. ~Sound'
  <2>1. ~Sound BY <1>1, <1>2
  <2> QED BY <1>1, <2>1 DEF Sound, All, CodesSound
<1> QED BY <1>1, <1>3 DEF IInv, NamesInv, Phases, AfterNames

(* Claims of the registry that repeat make a table unsound. *)
LEMMA RefuseClaimsInv == IInv /\ RefuseClaims => IInv'
<1> SUFFICES ASSUME IInv, RefuseClaims PROVE IInv' OBVIOUS
<1>1. UNCHANGED <<reg, next>> /\ phase' = "refused" /\ ~NoneTwice(Claims(reg)) /\ Lists(reg)
  BY DEF RefuseClaims, Refuse, IInv
<1>2. ~Sound BY <1>1, SoundByIndex
<1>3. ~Sound' BY <1>1, <1>2 DEF Sound, All, CodesSound
<1> QED BY <1>1, <1>3 DEF IInv, NamesInv, Phases, AfterNames

(* Arguments of an endpoint that do not resolve make a table unsound. *)
LEMMA RefuseArgsInv == IInv /\ RefuseArgs => IInv'
<1> SUFFICES ASSUME IInv, RefuseArgs PROVE IInv' OBVIOUS
<1>1. UNCHANGED <<reg, next>> /\ phase' = "refused" /\ ~ResolvesArgs(E(next)) /\ Lists(reg)
      /\ next \in 1 .. Len(reg.endpoints)
  BY EndpointsAreListed DEF RefuseArgs, Refuse, IInv, More, Endpoint, E, AfterNames
<1>2. ~Sound BY <1>1, SoundByIndex
<1>3. ~Sound' BY <1>1, <1>2 DEF Sound, All, CodesSound
<1> QED BY <1>1, <1>3 DEF IInv, NamesInv, Phases, AfterNames

-----------------------------------------------------------------------------
(* The invariant holds at the start. *)
LEMMA InitInv == Init => IInv
<1> SUFFICES ASSUME Init PROVE IInv OBVIOUS
<1>1. Lists(reg) /\ reg.typeNames = << >> /\ reg.enums = << >> BY RegistriesAssumption DEF Init
<1>2. NamesAre(reg, 0) BY <1>1 DEF NamesAre, Names
<1>3. Len(Mentions(reg)) \in Nat BY <1>1, MentionsAre DEF IsSeq
<1> QED BY <1>1, <1>2, <1>3 DEF Init, IInv, NamesInv, Phases, AfterNames

(* A name registered is what its mentions so far mean. *)
LEMMA RegisterNameInv == IInv /\ RegisterName => IInv'
<1> SUFFICES ASSUME IInv, RegisterName PROVE IInv' OBVIOUS
<1>0. PICK n : n = next OBVIOUS
<1>1. Lists(reg) /\ Len(Mentions(reg)) \in Nat BY MentionsAre DEF IInv, IsSeq
<1>2. n \in 1 .. Len(Mentions(reg)) /\ NamesAre(reg, n - 1)
  BY <1>0, <1>1 DEF IInv, NamesInv, RegisterName, MoreNames
<1>3. Known(reg, Mentions(reg)[n]) \/ Fits(reg, Mentions(reg)[n]) BY <1>0 DEF RegisterName, Mention
<1>4. reg' = Registered(reg, Mentions(reg)[n]) BY <1>0 DEF RegisterName, Mention
<1>5. Keeps(reg, reg') /\ NamesAre(reg', n) BY <1>1, <1>2, <1>3, <1>4, RegisterKeeps
<1>6. Lists(reg') /\ Mentions(reg') = Mentions(reg) BY <1>1, <1>5, KeepsMentions
<1>7. next' = n + 1 /\ next' - 1 = n /\ next' \in 1 .. Len(Mentions(reg')) + 1
  BY <1>0, <1>1, <1>2, <1>6 DEF RegisterName
<1>8. UNCHANGED <<taken, paths, routes, catalog, doc, phase>> /\ phase = "names" BY DEF RegisterName
<1>9. NamesInv' BY <1>5, <1>7, <1>8 DEF NamesInv, AfterNames
<1> QED BY <1>6, <1>8, <1>9 DEF IInv, Phases, AfterNames

(* A name refused makes the registry unsound. *)
LEMMA RefuseNameInv == IInv /\ RefuseName => IInv'
<1> SUFFICES ASSUME IInv, RefuseName PROVE IInv' OBVIOUS
<1>0. PICK n : n = next OBVIOUS
<1>1. Lists(reg) /\ Len(Mentions(reg)) \in Nat BY MentionsAre DEF IInv, IsSeq
<1>2. n \in 1 .. Len(Mentions(reg)) /\ NamesAre(reg, n - 1)
  BY <1>0, <1>1 DEF IInv, NamesInv, RefuseName, MoreNames
<1>3. ~NamesSound(reg) BY <1>0, <1>1, <1>2, RefusedIsUnsound DEF RefuseName, Mention
<1>4. UNCHANGED <<reg, next>> /\ phase' = "refused" BY DEF RefuseName, Refuse
<1>5. ~Sound' BY <1>3, <1>4 DEF Sound
<1> QED BY <1>1, <1>4, <1>5 DEF IInv, NamesInv, Phases, AfterNames

(* Every name is registered when the first loop ends. *)
LEMMA NamesDoneInv == IInv /\ NamesDone => IInv'
<1> SUFFICES ASSUME IInv, NamesDone PROVE IInv' OBVIOUS
<1>0. PICK n : n = next OBVIOUS
<1>1. Lists(reg) /\ Len(Mentions(reg)) \in Nat BY MentionsAre DEF IInv, IsSeq
<1>2. n - 1 = Len(Mentions(reg)) /\ NamesAre(reg, n - 1)
  BY <1>0, <1>1 DEF IInv, NamesInv, NamesDone, MoreNames
<1>3. /\ UNCHANGED <<reg, paths, routes, catalog, doc>> /\ phase = "names" /\ phase' = "events" /\ next' = 1
      /\ paths = {} /\ routes = {} /\ catalog = << >> /\ doc = << >>
  BY DEF NamesDone, IInv
<1>4. NamesInv' BY <1>2, <1>3 DEF NamesInv, AfterNames
<1> QED BY <1>1, <1>3, <1>4, EndpointsAreListed DEF IInv, Phases, AfterNames

(* Sound events let the registry through, *)
LEMMA ValidateEventsInv == IInv /\ ValidateEvents => IInv'
<1> SUFFICES ASSUME IInv, ValidateEvents PROVE IInv' OBVIOUS
<1>1. /\ UNCHANGED <<reg, paths, routes, catalog, doc, next>> /\ phase = "events" /\ phase' = "claim" /\ next = 1
      /\ paths = {} /\ routes = {} /\ catalog = << >> /\ doc = << >> /\ Lists(reg) /\ EventsSound(reg)
  BY DEF ValidateEvents, IInv
<1>2. NamesAre(reg, Len(Mentions(reg))) BY <1>1 DEF IInv, NamesInv, AfterNames
<1>3. NamesInv' BY <1>1, <1>2 DEF NamesInv, AfterNames
<1> QED BY <1>1, <1>3, EndpointsAreListed DEF IInv, Phases, AfterNames

(* and others make it unsound. *)
LEMMA RefuseEventsInv == IInv /\ RefuseEvents => IInv'
<1> SUFFICES ASSUME IInv, RefuseEvents PROVE IInv' OBVIOUS
<1>1. UNCHANGED <<reg, next>> /\ phase' = "refused" /\ ~EventsSound(reg) /\ Lists(reg)
  BY DEF RefuseEvents, Refuse, IInv
<1>2. ~Sound' BY <1>1 DEF Sound
<1> QED BY <1>1, <1>2 DEF IInv, NamesInv, Phases, AfterNames

(* The claims of the registry are recorded before any endpoint's. *)
LEMMA ClaimIdentsInv == IInv /\ ClaimIdents => IInv'
<1> SUFFICES ASSUME IInv, ClaimIdents PROVE IInv' OBVIOUS
<1>1. /\ UNCHANGED <<reg, paths, routes, catalog, next, doc>> /\ next = 1 /\ phase = "claim" /\ phase' = "table" /\ Lists(reg)
      /\ taken' = Claims(reg) /\ paths = {} /\ routes = {} /\ catalog = << >> /\ NoneTwice(Claims(reg))
      /\ doc = << >>
  BY DEF ClaimIdents, IInv
<1>2. Prefix(0)'
  BY <1>1 DEF Prefix, PrefixSound, TakenIs, PathsAre, RoutesAre, CatalogIs
<1>3. (phase = "table" => Prefix(next - 1))'
  <2>1. next' - 1 = 0 BY <1>1
  <2> QED BY <1>2, <2>1
<1>names. NamesInv' BY <1>1, NamesKept DEF IInv, AfterNames
<1> QED BY <1>1, <1>3, <1>names, EndpointsAreListed DEF IInv, Phases, AfterNames

(* What is recorded of a prefix stays true while the records stay. *)
LEMMA PrefixKept ==
  ASSUME NEW n, Prefix(n), UNCHANGED <<reg, taken, paths, routes, catalog>>
  PROVE  Prefix(n)'
BY DEF Prefix, PrefixSound, AloneSound, TakenIs, PathsAre, RoutesAre, CatalogIs, E

(* A loop that ends has seen every endpoint. *)
LEMMA TableDoneInv == IInv /\ TableDone => IInv'
<1> SUFFICES ASSUME IInv, TableDone PROVE IInv' OBVIOUS
<1>0. PICK n : n = Len(reg.endpoints) OBVIOUS
<1>1. /\ UNCHANGED <<reg, taken, paths, routes, catalog, doc>> /\ phase = "table" /\ phase' = "args" /\ next' = 1 /\ Lists(reg)
      /\ NoneTwice(Claims(reg)) /\ Prefix(next - 1) /\ next - 1 = n /\ doc = << >>
  BY <1>0, EndpointsAreListed DEF TableDone, Loop, More, IInv, AfterNames
<1>2. Prefix(n)' BY <1>1, PrefixKept
<1>3. (phase \in {"args", "render", "done"} => Prefix(Len(reg.endpoints)))' BY <1>0, <1>1, <1>2
<1>names. NamesInv' BY <1>1, NamesKept DEF IInv, AfterNames
<1> QED BY <1>1, <1>3, <1>names, EndpointsAreListed DEF IInv, Phases, AfterNames

(* The arguments of every endpoint resolve when the second loop ends. *)
LEMMA ArgsDoneInv == IInv /\ ArgsDone => IInv'
<1> SUFFICES ASSUME IInv, ArgsDone PROVE IInv' OBVIOUS
<1>0. PICK n : n = Len(reg.endpoints) OBVIOUS
<1>1. /\ UNCHANGED <<reg, taken, paths, routes, catalog, doc>> /\ phase = "args" /\ phase' = "render" /\ next' = 1
      /\ Lists(reg) /\ NoneTwice(Claims(reg)) /\ Prefix(n) /\ next - 1 = n
      /\ \A i \in 1 .. n : ResolvesArgs(E(i))
  BY <1>0, EndpointsAreListed DEF ArgsDone, Loop, More, IInv, AfterNames
<1>2. Prefix(n)' BY <1>1, PrefixKept
<1>3. (phase \in {"args", "render", "done"} => Prefix(Len(reg.endpoints)))' BY <1>0, <1>1, <1>2
<1>4. (phase \in {"render", "done"} => \A i \in 1 .. Len(reg.endpoints) : ResolvesArgs(E(i)))' BY <1>0, <1>1 DEF E
<1>5. doc = << >> BY <1>1 DEF IInv
<1>6. (phase = "render" => DocIs(next - 1))' BY <1>1, <1>5 DEF DocIs
<1>names. NamesInv' BY <1>1, NamesKept DEF IInv, AfterNames
<1> QED BY <1>1, <1>3, <1>4, <1>6, <1>names, EndpointsAreListed DEF IInv, Phases, AfterNames

(* Every operation is in the document when the third loop ends. *)
LEMMA RenderedInv == IInv /\ Rendered => IInv'
<1> SUFFICES ASSUME IInv, Rendered PROVE IInv' OBVIOUS
<1>0. PICK n : n = Len(reg.endpoints) OBVIOUS
<1>1. /\ UNCHANGED <<reg, taken, paths, routes, catalog, doc>> /\ phase = "render" /\ phase' = "done" /\ next' = 1
      /\ Lists(reg) /\ NoneTwice(Claims(reg)) /\ Prefix(n) /\ next - 1 = n
      /\ (\A i \in 1 .. n : ResolvesArgs(E(i))) /\ DocIs(next - 1)
  BY <1>0, EndpointsAreListed DEF Rendered, Loop, More, IInv, AfterNames
<1>2. Prefix(n)' BY <1>1, PrefixKept
<1>3. (phase \in {"args", "render", "done"} => Prefix(Len(reg.endpoints)))' BY <1>0, <1>1, <1>2
<1>4. (phase \in {"render", "done"} => \A i \in 1 .. Len(reg.endpoints) : ResolvesArgs(E(i)))' BY <1>0, <1>1 DEF E
<1>5. DocIs(n) BY <1>1
<1>6. DocIs(n)' BY <1>1, <1>5 DEF DocIs, E
<1>7. (phase = "done" => DocIs(Len(reg.endpoints)))' BY <1>0, <1>1, <1>6
<1>names. NamesInv' BY <1>1, NamesKept DEF IInv, AfterNames
<1> QED BY <1>1, <1>3, <1>4, <1>7, <1>names, EndpointsAreListed DEF IInv, Phases, AfterNames

(* The arguments of one more endpoint resolve. *)
LEMMA ResolveArgsInv == IInv /\ ResolveArgs => IInv'
<1> SUFFICES ASSUME IInv, ResolveArgs PROVE IInv' OBVIOUS
<1>0. PICK n : n = next OBVIOUS
<1>1. /\ UNCHANGED <<reg, taken, paths, routes, catalog, doc, phase>> /\ phase = "args" /\ next' = n + 1
      /\ Lists(reg) /\ NoneTwice(Claims(reg)) /\ Prefix(Len(reg.endpoints))
      /\ n \in 1 .. Len(reg.endpoints) /\ ResolvesArgs(E(n)) /\ doc = << >>
      /\ \A i \in 1 .. n - 1 : ResolvesArgs(E(i))
  BY <1>0, EndpointsAreListed DEF ResolveArgs, More, IInv, E, Endpoint, AfterNames
<1>2. Prefix(Len(reg.endpoints))' BY <1>1, PrefixKept
<1>3. \A i \in 1 .. next' - 1 : ResolvesArgs(E(i))' BY <1>1 DEF E
<1>names. NamesInv' BY <1>1, NamesKept DEF IInv, AfterNames
<1> QED BY <1>1, <1>2, <1>3, <1>names, EndpointsAreListed DEF IInv, Phases, AfterNames

(* An operation joins the document beside those of other paths and methods. *)
LEMMA RenderPathInv == IInv /\ RenderPath => IInv'
<1> SUFFICES ASSUME IInv, RenderPath PROVE IInv' OBVIOUS
<1> DEFINE e == Endpoint
           item == IF e.path \in DOMAIN doc THEN doc[e.path] ELSE << >>
<1>0. PICK n : n = next OBVIOUS
<1>1. /\ UNCHANGED <<reg, taken, paths, routes, catalog, phase>> /\ phase = "render" /\ next' = n + 1
      /\ Lists(reg) /\ NoneTwice(Claims(reg)) /\ Prefix(Len(reg.endpoints))
      /\ n \in 1 .. Len(reg.endpoints) /\ e = E(n) /\ DocIs(n - 1)
      /\ \A i \in 1 .. Len(reg.endpoints) : ResolvesArgs(E(i))
  BY <1>0, EndpointsAreListed DEF RenderPath, More, IInv, E, Endpoint, AfterNames
<1>2. doc' = Put(doc, e.path, Put(item, e.method, Operation(e)))
  BY DEF RenderPath
<1> HIDE DEF e
<1>3. e.path \in paths BY <1>1 DEF Prefix, PathsAre
<1>4. \A p \in DOMAIN doc' : p \in paths' BY <1>1, <1>2, <1>3 DEF Put, DocIs
<1>4a. ASSUME NEW p \in DOMAIN doc', NEW m \in DOMAIN doc'[p]
       PROVE  \E i \in 1 .. n : p = E(i).path /\ m = E(i).method
  <2>1. p \in DOMAIN doc /\ m \in DOMAIN doc[p] => \E i \in 1 .. n : p = E(i).path /\ m = E(i).method
    <3>1. 1 .. n - 1 \subseteq 1 .. n BY <1>1
    <3> QED BY <1>1, <3>1 DEF DocIs
  <2>2. CASE p = e.path
    <3>1. doc'[p] = Put(item, e.method, Operation(e)) BY <1>2, <2>2 DEF Put
    <3>2. m = e.method \/ m \in DOMAIN item BY <3>1 DEF Put
    <3>3. CASE m = e.method BY <1>1, <2>2, <3>3
    <3>4. CASE m \in DOMAIN item
      <4>1. CASE p \in DOMAIN doc BY <2>1, <2>2, <3>4, <4>1
      <4>2. CASE p \notin DOMAIN doc
        <5>1. item = << >> BY <2>2, <4>2
        <5> QED BY <3>4, <5>1
      <4> QED BY <4>1, <4>2
    <3> QED BY <3>2, <3>3, <3>4
  <2>3. CASE p # e.path
    <3> HIDE DEF item
    <3>1. p \in DOMAIN doc /\ doc'[p] = doc[p] BY <1>2, <2>3 DEF Put
    <3> QED BY <2>1, <3>1
  <2> QED BY <2>2, <2>3
<1>5. e.path \in DOMAIN doc' /\ e.method \in DOMAIN doc'[e.path] /\ doc'[e.path][e.method] = Operation(e)
  BY <1>2 DEF Put
<1>6. ASSUME NEW i \in 1 .. n - 1
      PROVE  E(i).path \in DOMAIN doc' /\ E(i).method \in DOMAIN doc'[E(i).path]
             /\ doc'[E(i).path][E(i).method] = Operation(E(i))
  <2>1. PairSound(E(i), e)
    <3>1. i \in 1 .. Len(reg.endpoints) /\ i # n BY <1>1, EndpointsAreListed
    <3> QED BY <1>1, <3>1 DEF Prefix, PrefixSound
  <2>2. E(i).path \in DOMAIN doc /\ E(i).method \in DOMAIN doc[E(i).path]
        /\ doc[E(i).path][E(i).method] = Operation(E(i))
    BY <1>1 DEF DocIs
  <2>3. CASE E(i).path = e.path
    <3>1. E(i).method # e.method BY <2>1, <2>3 DEF PairSound
    <3>2. item = doc[e.path] BY <2>2, <2>3
    <3> HIDE DEF item
    <3>3. doc'[e.path] = Put(item, e.method, Operation(e)) BY <1>2 DEF Put
    <3> QED BY <1>5, <2>2, <2>3, <3>1, <3>2, <3>3 DEF Put
  <2>4. CASE E(i).path # e.path
    <3> HIDE DEF item
    <3>1. E(i).path \in DOMAIN doc' /\ doc'[E(i).path] = doc[E(i).path] BY <1>2, <2>2, <2>4 DEF Put
    <3> QED BY <2>2, <3>1
  <2> QED BY <2>3, <2>4
<1>7. \A i \in 1 .. n : i \in 1 .. n - 1 \/ i = n BY <1>1
<1>8. \A i : E(i)' = E(i) BY <1>1 DEF E
<1>9. DocIs(n)' BY <1>1, <1>4, <1>5, <1>6, <1>7, <1>8, <1>4a DEF DocIs
<1>10. (phase = "render" => DocIs(next - 1))'
  <2>1. next' - 1 = n BY <1>1, EndpointsAreListed
  <2> QED BY <1>9, <2>1
<1>11. Prefix(Len(reg.endpoints))' BY <1>1, PrefixKept
<1>names. NamesInv' BY <1>1, NamesKept DEF IInv, AfterNames
<1> QED BY <1>1, <1>8, <1>10, <1>11, <1>names, EndpointsAreListed DEF IInv, Phases, AfterNames

(* The invariant holds of every behaviour. *)
THEOREM Invariant == Spec => []IInv
<1>1. Init => IInv BY InitInv
<1>2. IInv /\ [Next]_vars => IInv'
  <2> SUFFICES ASSUME IInv, [Next]_vars PROVE IInv' OBVIOUS
  <2>1. CASE Next
    BY <2>1, RegisterNameInv, RefuseNameInv, NamesDoneInv, ValidateEventsInv, RefuseEventsInv, ClaimIdentsInv, RefuseClaimsInv, CheckEndpointInv, RefuseEndpointInv, TableDoneInv,
       ResolveArgsInv, RefuseArgsInv, ArgsDoneInv, RenderPathInv, RenderedInv DEF Next
  <2>2. CASE UNCHANGED vars
    <3>1. UNCHANGED <<reg, taken, paths, routes, catalog, next, doc, phase>> BY <2>2 DEF vars
    <3>2. \A i : E(i)' = E(i) BY <3>1 DEF E
    <3>3. Sound' = Sound BY <3>1 DEF Sound, All, CodesSound
    <3>4. PICK n : n = next OBVIOUS
    <3>5. PICK l : l = Len(reg.endpoints) OBVIOUS
    <3>6. Prefix(n - 1) => Prefix(n - 1)' BY <3>1, PrefixKept
    <3>7. Prefix(l) => Prefix(l)' BY <3>1, PrefixKept
    <3>8. (DocIs(n - 1) => DocIs(n - 1)') /\ (DocIs(l) => DocIs(l)') BY <3>1, <3>2 DEF DocIs
    <3>9. (phase = "table" => Prefix(next - 1))' /\ (phase = "render" => DocIs(next - 1))'
      BY <3>1, <3>4, <3>6, <3>8 DEF IInv
    <3>10. (phase \in {"args", "render", "done"} => Prefix(Len(reg.endpoints)))'
           /\ (phase = "done" => DocIs(Len(reg.endpoints)))'
      BY <3>1, <3>5, <3>7, <3>8 DEF IInv
    <3>11. (phase = "args" => \A i \in 1 .. next - 1 : ResolvesArgs(E(i)))'
           /\ (phase \in {"render", "done"} => \A i \in 1 .. Len(reg.endpoints) : ResolvesArgs(E(i)))'
      BY <3>1, <3>2 DEF IInv
    <3>12. NamesInv' BY <3>1 DEF IInv, NamesInv
    <3> QED BY <3>1, <3>3, <3>9, <3>10, <3>11, <3>12 DEF IInv
  <2> QED BY <2>1, <2>2
<1> QED BY <1>1, <1>2, PTL DEF Spec

-----------------------------------------------------------------------------
(* A registry is accepted exactly if it is sound, whatever its order. *)
THEOREM AcceptanceIsExact == Spec => []AcceptsExactlySound
<1>1. IInv => AcceptsExactlySound
  <2> SUFFICES ASSUME IInv, Done PROVE Sound BY DEF IInv, AcceptsExactlySound
  <2>1. Lists(reg) /\ Prefix(Len(reg.endpoints)) /\ NoneTwice(Claims(reg))
        /\ \A i \in 1 .. Len(reg.endpoints) : ResolvesArgs(E(i))
    BY DEF IInv, Done
  <2>2. NamesAre(reg, Len(Mentions(reg))) /\ EventsSound(reg)
    BY DEF IInv, NamesInv, Done, AfterNames
  <2> QED BY <2>1, <2>2, SoundByIndex, CatalogAgrees, NamesComplete DEF Prefix
<1> QED BY <1>1, Invariant, PTL

(* Once registered, a name means the same wherever the registry mentions it. *)
THEOREM NamesMeanOne == Spec => []NamesMeanOneType
<1>1. IInv => NamesMeanOneType
  <2> SUFFICES ASSUME IInv, phase \notin {"names", "refused"} PROVE NamesMean(reg) BY DEF NamesMeanOneType
  <2>1. NamesAre(reg, Len(Mentions(reg))) /\ Lists(reg) BY DEF IInv, NamesInv, Phases, AfterNames
  <2> QED BY <2>1, NamesComplete
<1> QED BY <1>1, Invariant, PTL

(* No operation is lost: each is in the document as its endpoint renders,  *)
(* at a path the templates tell apart from the others.                     *)
THEOREM NoOperationLost == Spec => []OperationsKept
<1>1. IInv => OperationsKept
  <2> SUFFICES ASSUME IInv, Done PROVE OperationsKept BY DEF OperationsKept
  <2>1. ASSUME NEW e \in All
        PROVE  /\ e.path \in DOMAIN doc /\ e.method \in DOMAIN doc[e.path]
               /\ doc[e.path][e.method] = Operation(e)
    <3>1. PICK i \in 1 .. Len(reg.endpoints) : e = E(i)
      BY EndpointsAreListed DEF All, Range, E, IInv
    <3> QED BY <3>1 DEF IInv, Done, DocIs
  <2>2. ASSUME NEW p \in DOMAIN doc, NEW q \in DOMAIN doc, PathTemplate(p) = PathTemplate(q)
        PROVE  p = q
    <3>1. PrefixSound(Len(reg.endpoints)) /\ PathsAre(Len(reg.endpoints)) /\ p \in paths /\ q \in paths
      BY DEF IInv, Done, DocIs, Prefix
    <3>2. PICK i \in 1 .. Len(reg.endpoints) : p = E(i).path BY <3>1 DEF PathsAre
    <3>3. PICK j \in 1 .. Len(reg.endpoints) : q = E(j).path BY <3>1 DEF PathsAre
    <3> QED BY <2>2, <3>1, <3>2, <3>3 DEF PrefixSound, PairSound
  <2> QED BY <2>1, <2>2 DEF OperationsKept
<1> QED BY <1>1, Invariant, PTL

(* A code of an operation's responses is one its endpoint lists. *)
LEMMA CodesAreListed ==
  ASSUME NEW e, NEW s \in DOMAIN Operation(e).responses, NEW x \in Operation(e).responses[s].codes
  PROVE  \E er \in Range(e.errors) : er.status = s /\ x.code = er.code /\ x.ext = NormExt(er.ext)
BY DEF Operation, ErrorResponses

(* A code means one thing in the whole document. *)
THEOREM CodesMeanOneThing == Spec => []CodeMeansOneThing
<1>1. IInv => CodeMeansOneThing
  <2> SUFFICES ASSUME IInv, Done, NEW p \in DOMAIN doc, NEW q \in DOMAIN doc,
                      NEW m \in DOMAIN doc[p], NEW n \in DOMAIN doc[q],
                      NEW s \in DOMAIN doc[p][m].responses, NEW t \in DOMAIN doc[q][n].responses,
                      NEW x \in doc[p][m].responses[s].codes, NEW y \in doc[q][n].responses[t].codes,
                      x.code = y.code
               PROVE s = t /\ x.ext = y.ext
    BY DEF CodeMeansOneThing
  <2>1. Lists(reg) /\ DocIs(Len(reg.endpoints)) /\ CatalogIs(Len(reg.endpoints))
    BY DEF IInv, Done, Prefix
  <2>2. PICK i \in 1 .. Len(reg.endpoints) : doc[p][m] = Operation(E(i)) BY <2>1 DEF DocIs
  <2>3. PICK j \in 1 .. Len(reg.endpoints) : doc[q][n] = Operation(E(j)) BY <2>1 DEF DocIs
  <2>4. PICK a \in Range(E(i).errors) : a.status = s /\ x.code = a.code /\ x.ext = NormExt(a.ext)
    BY <2>2, CodesAreListed
  <2>5. PICK b \in Range(E(j).errors) : b.status = t /\ y.code = b.code /\ y.ext = NormExt(b.ext)
    BY <2>3, CodesAreListed
  <2>6. E(i) \in All /\ E(j) \in All BY <2>1, EndpointsAreListed DEF All, Range, E
  <2>7. CodesSound BY <2>1, CatalogAgrees
  <2>8. a.code = b.code BY <2>4, <2>5
  <2>9. a.status = b.status /\ NormExt(a.ext) = NormExt(b.ext)
    BY <2>6, <2>7, <2>8 DEF CodesSound
  <2> QED BY <2>4, <2>5, <2>9
<1> QED BY <1>1, Invariant, PTL

(* What a module binds or imports is claimed, by the registry or by an      *)
(* endpoint.                                                                *)
LEMMA BindingsAreClaimed ==
  ASSUME NEW r, Lists(r), NamesMean(r), EventsSound(r), NEW b \in ImportingModules(r)
  PROVE  b \in Claims(r) \/ \E i \in DOMAIN r.endpoints : b \in EndpointClaims(r.endpoints[i])
<1>1. TypesModule(r) \subseteq Claims(r) BY DEF TypesModule, Claims
<1>2. DecodersModule(r) \subseteq Claims(r) BY <1>1 DEF DecodersModule, Claims
<1>3. EventsModule(r) \subseteq Claims(r)
  <2> SUFFICES ASSUME r.events # << >> PROVE EventsModule(r) \subseteq Claims(r) BY DEF EventsModule
  <2>1. Fixed(EventsIdents, "events") \subseteq Claims(r) BY DEF Claims
  <2>2. Fixed({"Decoder"}, "validators") \subseteq Claims(r) BY HelpersAssumption DEF Claims, Fixed
  <2>3. \A n \in EventTypes(r) : n \in DOMAIN r.typeNames
    <3>1. DOMAIN r.events = 1 .. Len(r.events) BY DEF Lists, IsSeq
    <3>2. \A i \in 1 .. Len(r.events) : r.events[i].data # NoType BY <3>1 DEF EventsSound
    <3> QED BY <3>1, <3>2, TypesAreKnown DEF EventTypes
  <2>4. \A n \in EventTypes(r) : TypeName(r, n) \in Claims(r) /\ DecoderName(r, n) \in Claims(r)
    BY <2>3 DEF Claims, Names
  <2> QED BY <2>1, <2>2, <2>4 DEF EventsModule
<1>4. ArbitrariesModule(r) \subseteq Claims(r) BY <1>1 DEF ArbitrariesModule, Claims
<1>5. ASSUME NEW i \in DOMAIN r.endpoints
      PROVE  EndpointBindings(r, r.endpoints[i]) \subseteq Claims(r) \cup EndpointClaims(r.endpoints[i])
  <2> DEFINE e == r.endpoints[i]
  <2>1. r.endpoints # << >> BY <1>5
  <2>2. Fixed(ClientReserved, "client") \subseteq Claims(r) BY <2>1 DEF Claims
  <2>3. ASSUME NEW S, S \subseteq ClientReserved PROVE Fixed(S, "client") \subseteq Claims(r)
    BY <2>2, <2>3 DEF Fixed
  <2>4. Fixed({"decodeArray"}, "validators") \subseteq Claims(r) BY HelpersAssumption DEF Claims, Fixed
  <2>5. (e.request # NoType => e.request.name \in DOMAIN r.typeNames)
        /\ (e.response # NoType => e.response.name \in DOMAIN r.typeNames)
    <3>1. i \in 1 .. Len(r.endpoints) BY EndpointsAreListed
    <3>2. EndpointTypes(e)[3] = e.request /\ EndpointTypes(e)[4] = e.response BY DEF EndpointTypes
    <3> QED BY <3>1, <3>2, TypesAreKnown
  <2>6. \A n \in DOMAIN r.typeNames : TypeName(r, n) \in Claims(r) /\ DecoderName(r, n) \in Claims(r)
    BY DEF Claims, Names
  <2>7. /\ Fixed({"EndpointSpec"}, "client") \subseteq Claims(r) /\ Fixed({"qs"}, "client") \subseteq Claims(r)
        /\ Fixed({"clientRequest", "ApiResult", "ClientOpts"}, "client") \subseteq Claims(r)
        /\ Fixed({"decodeBlob"}, "client") \subseteq Claims(r)
    BY <2>3 DEF ClientReserved
  <2> HIDE DEF e
  <2>8. EndpointBindings(r, e) \subseteq Claims(r) \cup EndpointClaims(e)
    BY <2>4, <2>5, <2>6, <2>7 DEF EndpointBindings, EndpointClaims
  <2> QED BY <2>8 DEF e
<1> QED BY <1>1, <1>2, <1>3, <1>4, <1>5 DEF ImportingModules, ClientModule

(* No identifier of the modules that import each other has two meanings. *)
THEOREM IdentifiersHaveOneMeaning == Spec => []OneMeaning
<1>1. IInv => OneMeaning
  <2> SUFFICES ASSUME IInv, Done, NEW b \in ImportingModules(reg), NEW c \in ImportingModules(reg), b.id = c.id
               PROVE b = c
    BY DEF OneMeaning, NoneTwice
  <2>1. Lists(reg) /\ NoneTwice(Claims(reg)) /\ PrefixSound(Len(reg.endpoints))
    BY DEF IInv, Done, Prefix
  <2>1a. NamesMean(reg) /\ EventsSound(reg)
    <3>1. NamesAre(reg, Len(Mentions(reg))) /\ EventsSound(reg) BY DEF IInv, NamesInv, Done, AfterNames
    <3> QED BY <2>1, <3>1, NamesComplete
  <2>2. DOMAIN reg.endpoints = 1 .. Len(reg.endpoints) BY <2>1, EndpointsAreListed
  <2>3. b \in Claims(reg) \/ \E i \in 1 .. Len(reg.endpoints) : b \in EndpointClaims(E(i))
    BY <2>1, <2>1a, <2>2, BindingsAreClaimed DEF E
  <2>4. c \in Claims(reg) \/ \E i \in 1 .. Len(reg.endpoints) : c \in EndpointClaims(E(i))
    BY <2>1, <2>1a, <2>2, BindingsAreClaimed DEF E
  <2>5. \A i \in 1 .. Len(reg.endpoints) :
          NoneTwice(EndpointClaims(E(i))) /\ Apart(EndpointClaims(E(i)), Claims(reg))
    BY <2>1 DEF PrefixSound, AloneSound
  <2>6. \A i, j \in 1 .. Len(reg.endpoints) : i # j => Apart(EndpointClaims(E(i)), EndpointClaims(E(j)))
    BY <2>1 DEF PrefixSound, PairSound
  <2> HIDE DEF E
  <2> QED BY <2>1, <2>3, <2>4, <2>5, <2>6 DEF NoneTwice, Apart
<1> QED BY <1>1, Invariant, PTL

-----------------------------------------------------------------------------
(* An endpoint of an accepted table, as the checks left it. *)
LEMMA EndpointIsChecked ==
  ASSUME IInv, phase \in {"render", "done"}, NEW e \in All
  PROVE  AloneSound(e) /\ ResolvesArgs(e)
<1>1. PICK i \in 1 .. Len(reg.endpoints) : e = E(i) BY EndpointsAreListed DEF All, Range, E, IInv
<1>2. PrefixSound(Len(reg.endpoints)) BY DEF IInv, Prefix
<1> QED BY <1>1, <1>2 DEF IInv, PrefixSound

(* The status of a success that carries a body is none of the errors'. *)
LEMMA SuccessIsNoError ==
  ASSUME NEW e, HasFunction(e), AloneSound(e)
  PROVE  /\ SuccessStatus(e) \notin DOMAIN ErrorResponses(e)
         /\ SuccessStatus(e) = 204 <=> e.kind = "json" /\ e.response = NoType
<1>1. ValidStatus(e) BY DEF AloneSound, ValidEndpoint, ValidKind
<1>2. e.kind # "redirect" BY DEF HasFunction
<1>3. SuccessStatus(e) \in 200 .. 299 /\ (SuccessStatus(e) = 204 <=> e.kind = "json" /\ e.response = NoType)
  BY <1>1, <1>2 DEF ValidStatus
<1>4. \A er \in Range(e.errors) : er.status \in 400 .. 599 BY Zenon DEF AloneSound
<1>5. SuccessStatus(e) \notin 400 .. 599 BY <1>3
<1>6. DOMAIN ErrorResponses(e) = {er.status : er \in Range(e.errors)} BY DEF ErrorResponses
<1> QED BY <1>3, <1>4, <1>5, <1>6

(* The type of a response has a name. *)
LEMMA ResponseIsNamed ==
  ASSUME IInv, Done, NEW e \in All, e.response # NoType
  PROVE  e.response.name # ""
<1>1. Lists(reg) /\ NamesSound(reg) BY NamesComplete DEF IInv, NamesInv, Done, AfterNames
<1>2. PICK i \in 1 .. Len(reg.endpoints) : e = reg.endpoints[i] BY <1>1, EndpointsAreListed DEF All, Range
<1>2a. 4 \in 1 .. 4 OBVIOUS
<1>3. EndpointTypes(e)[4] = e.response BY DEF EndpointTypes
<1>4. PICK k \in 1 .. Len(References(reg)) : References(reg)[k] = e.response
  <2>1. \E k \in 1 .. Len(References(reg)) : References(reg)[k] = EndpointTypes(reg.endpoints[i])[4]
    BY <1>1, <1>2, <1>2a, ReferencesAre, Zenon
  <2> QED BY <1>2, <1>3, <2>1
<1>5. PICK j \in 1 .. Len(Mentions(reg)) : Mentions(reg)[j] = [role |-> "reference", type |-> e.response]
  BY <1>1, <1>4, MentionsAre
<1>6. j \in DOMAIN Mentions(reg) BY <1>1, MentionsAre DEF IsSeq
<1>7. Named(Mentions(reg)[j]) BY <1>5 DEF Named
<1>8. WellFormed(Mentions(reg)[j].type) BY <1>1, <1>6, <1>7, Zenon DEF NamesSound
<1>9. Mentions(reg)[j].type = e.response BY <1>5
<1> QED BY <1>8, <1>9 DEF WellFormed

(* For every accepted table the client decodes the body the document       *)
(* declares for the status of its success, and none exactly with a 204.    *)
THEOREM BodiesAlwaysAgree == Spec => []BodiesAgree
<1>1. ASSUME IInv, Done, NEW e \in All, HasFunction(e)
      PROVE  LET r == doc[e.path][e.method].responses[SuccessStatus(e)]
             IN r.content = Decodes(e) /\ (Decodes(e) = "" <=> SuccessStatus(e) = 204)
  <2>1. doc[e.path][e.method] = Operation(e)
    <3>1. PICK i \in 1 .. Len(reg.endpoints) : e = E(i) BY <1>1, EndpointsAreListed DEF All, Range, E, IInv
    <3> QED BY <1>1, <3>1 DEF IInv, Done, DocIs
  <2>2. AloneSound(e) BY <1>1, EndpointIsChecked DEF Done
  <2>3. Operation(e).responses[SuccessStatus(e)] = [content |-> Content(e), codes |-> {}]
    BY <1>1, <2>2, SuccessIsNoError DEF Operation
  <2>4. Content(e) = Decodes(e) BY <1>1 DEF HasFunction, Content, Decodes
  <2>5. Decodes(e) = "" <=> e.kind = "json" /\ e.response = NoType
    <3>1. NoType.name = "" BY DEF NoType
    <3>2. e.kind = "raw" => Decodes(e) # "" BY DEF Decodes
    <3>3. e.kind = "json" => Decodes(e) = e.response.name BY DEF Decodes
    <3> QED BY <1>1, <3>1, <3>2, <3>3, ResponseIsNamed DEF HasFunction
  <2>6. doc[e.path][e.method].responses[SuccessStatus(e)].content = Content(e) BY <2>1, <2>3
  <2>7. SuccessStatus(e) = 204 <=> e.kind = "json" /\ e.response = NoType BY <1>1, <2>2, SuccessIsNoError
  <2> QED BY <2>4, <2>5, <2>6, <2>7
<1>2. IInv => BodiesAgree BY <1>1 DEF BodiesAgree
<1> QED BY <1>2, Invariant, PTL

(* The endpoints are never changed, so their fields stay those of structs. *)
LEMMA StructsHold == Spec => []FieldsOfStructs(reg)
<1>1. Init => FieldsOfStructs(reg) BY RegistriesAssumption DEF Init
<1>2. ASSUME IInv, [Next]_vars PROVE reg'.endpoints = reg.endpoints
  <2>1. CASE RegisterName
    <3>1. Lists(reg) /\ reg' = Registered(reg, Mention) BY <1>2, <2>1 DEF IInv, RegisterName
    <3>2. CASE Known(reg, Mention) BY <3>1, <3>2 DEF Registered
    <3>3. CASE ~Known(reg, Mention) BY <3>1, <3>3, RegisteredIs DEF Keeps
    <3> QED BY <3>2, <3>3
  <2>2. CASE ~RegisterName
    BY <1>2, <2>2 DEF Next, vars, RefuseName, NamesDone, ValidateEvents, RefuseEvents, ClaimIdents, RefuseClaims,
       CheckEndpoint, RefuseEndpoint, TableDone, ResolveArgs, RefuseArgs, ArgsDone, RenderPath, Rendered, Loop, Refuse
  <2> QED BY <2>1, <2>2
<1>3. IInv /\ FieldsOfStructs(reg) /\ [Next]_vars => FieldsOfStructs(reg)' BY <1>2 DEF FieldsOfStructs
<1> QED BY <1>1, <1>3, Invariant, PTL DEF Spec

(* Every member of an arguments object goes to one place of the request.   *)
THEOREM ArgumentsAlwaysReach == Spec => []ArgumentsReachRequest
<1>1. ASSUME IInv, FieldsOfStructs(reg), phase \in {"render", "done"}, NEW e \in All
      PROVE  /\ \A a \in Args(e) : Sent(e, a) # {} /\ \A p, q \in Sent(e, a) : p = q
             /\ PathParams(e.path) \subseteq FieldNames(e.params)
  <2>1. AloneSound(e) /\ ResolvesArgs(e) BY <1>1, EndpointIsChecked
  <2>2. (PathParams(e.path) # {} <=> e.paramsType # NoType) /\ ValidHeaders(e)
    BY <2>1 DEF AloneSound, ValidEndpoint
  <2>3. e.paramsType = NoType => e.params = {} BY <1>1 DEF FieldsOfStructs, All, Range
  <2>4. FieldNames(e.params) = PathParams(e.path)
    BY <2>1, <2>2, <2>3 DEF ResolvesArgs, FieldNames
  <2> DEFINE P == FieldNames(e.params)
             Q == FieldNames(e.query)
             H == {h.arg : h \in Range(e.headers)}
  <2>5. /\ P \cap Q = {} /\ H \cap (P \cup Q) = {}
        /\ e.request # NoType => "body" \notin P \cup Q \cup H
    BY <2>1 DEF ResolvesArgs, DistinctArgs
  <2>6. \A h, g \in Range(e.headers) : h.arg = g.arg => h = g
    BY <2>2 DEF ValidHeaders, NoRepeat, Range
  <2> DEFINE InPath(a) == {<<"path", n>> : n \in P \cap {a}}
             InQuery(a) == {<<"query", n>> : n \in Q \cap {a}}
             InHeader(a) == {<<"header", h.name>> : h \in {x \in Range(e.headers) : x.arg = a}}
             InBody(a) == IF e.request # NoType /\ a = "body" THEN {<<"body", "">>} ELSE {}
  <2>7. ASSUME NEW a
        PROVE  /\ Sent(e, a) = InPath(a) \cup InQuery(a) \cup InHeader(a) \cup InBody(a)
               /\ InPath(a) = IF a \in P THEN {<<"path", a>>} ELSE {}
               /\ InQuery(a) = IF a \in Q THEN {<<"query", a>>} ELSE {}
               /\ a \notin H => InHeader(a) = {}
    <3>1. Sent(e, a) = InPath(a) \cup InQuery(a) \cup InHeader(a) \cup InBody(a)
      BY <2>4 DEF Sent
    <3> HIDE DEF P, Q
    <3>2. InPath(a) = IF a \in P THEN {<<"path", a>>} ELSE {} OBVIOUS
    <3>3. InQuery(a) = IF a \in Q THEN {<<"query", a>>} ELSE {} OBVIOUS
    <3>4. a \notin H => InHeader(a) = {} OBVIOUS
    <3> QED BY <3>1, <3>2, <3>3, <3>4
  <2>8. ASSUME NEW a \in Args(e)
        PROVE  Sent(e, a) # {} /\ \A p, q \in Sent(e, a) : p = q
    <3>0. a \in P \/ a \in Q \/ a \in H \/ (e.request # NoType /\ a = "body") BY DEF Args
    <3>h. ASSUME NEW h \in Range(e.headers), h.arg = a PROVE InHeader(a) = {<<"header", h.name>>}
      <4>1. {x \in Range(e.headers) : x.arg = a} = {h} BY <2>6, <3>h
      <4> QED BY <4>1
    <3>i. a \in H => \E h \in Range(e.headers) : h.arg = a OBVIOUS
    <3>b. InBody(a) = IF e.request # NoType /\ a = "body" THEN {<<"body", "">>} ELSE {} OBVIOUS
    <3> HIDE DEF P, Q, H, InPath, InQuery, InHeader, InBody
    <3>1. CASE a \in P
      <4>1. a \notin Q /\ a \notin H /\ ~(e.request # NoType /\ a = "body") BY <2>5, <3>1
      <4>2. Sent(e, a) = {<<"path", a>>} BY <2>7, <3>1, <3>b, <4>1
      <4> QED BY <4>2
    <3>2. CASE a \in Q
      <4>1. a \notin P /\ a \notin H /\ ~(e.request # NoType /\ a = "body") BY <2>5, <3>2
      <4>2. Sent(e, a) = {<<"query", a>>} BY <2>7, <3>2, <3>b, <4>1
      <4> QED BY <4>2
    <3>3. CASE a \in H
      <4>1. a \notin P /\ a \notin Q /\ ~(e.request # NoType /\ a = "body") BY <2>5, <3>3
      <4>2. PICK h \in Range(e.headers) : h.arg = a BY <3>3, <3>i
      <4>3. Sent(e, a) = {<<"header", h.name>>} BY <2>7, <3>b, <3>h, <4>1, <4>2
      <4> QED BY <4>3
    <3>4. CASE e.request # NoType /\ a = "body"
      <4>1. a \notin P /\ a \notin Q /\ a \notin H BY <2>5, <3>4
      <4>2. Sent(e, a) = {<<"body", "">>} BY <2>7, <3>4, <3>b, <4>1
      <4> QED BY <4>2
    <3> QED BY <3>0, <3>1, <3>2, <3>3, <3>4
  <2> QED BY <2>4, <2>8
<1>2. IInv /\ FieldsOfStructs(reg) => ArgumentsReachRequest BY <1>1 DEF ArgumentsReachRequest
<1> QED BY <1>2, Invariant, StructsHold, PTL
=============================================================================
