--------------------------- MODULE Promotion_proofs ---------------------------
(***************************************************************************)
(* What the nested deduplication of embedded structs keeps, over every     *)
(* declaration.  The raw list of each call under way holds the fields of   *)
(* the members it has read, but for those that another field below the     *)
(* same embedded struct beats or ties with (ListsInv); the loops inside a  *)
(* call are DedupFields' (IInv).                                           *)
(***************************************************************************)
EXTENDS Promotion, DedupFields_proofs, FiniteSetTheorems, WellFoundedInduction

(* The members of a struct: they are told apart by their names. *)
LEMMA MemberFacts ==
  ASSUME decl \in Decls, NEW s \in Struct
  PROVE  /\ decl[s] \in Seq(Member) /\ DOMAIN decl[s] = 1 .. Len(decl[s]) /\ Len(decl[s]) \in Nat
         /\ \A l \in DOMAIN decl[s] : decl[s][l] \in Range(decl[s])
         /\ \A m \in Range(decl[s]) :
              /\ \E l \in DOMAIN decl[s] : m = decl[s][l]
              /\ m.name \in STRING /\ m.tag \in STRING /\ m.ptr \in BOOLEAN /\ m.exported \in BOOLEAN
              /\ Flattened(m) => m.name \in Struct /\ ~Skipped(m)
         /\ \A m, e \in Range(decl[s]) : m.name = e.name /\ ~Skipped(m) => m = e
<1>1. decl[s] \in Seq(Member)
  BY DeclsAssumption
<1>2. DOMAIN decl[s] = 1 .. Len(decl[s]) /\ Len(decl[s]) \in Nat
  BY <1>1, LenProperties
<1>3. \A l \in DOMAIN decl[s] : decl[s][l] \in Member
  BY <1>1, <1>2, ElementOfSeq
<1>4. \A m \in Range(decl[s]) : m \in Member /\ \E l \in DOMAIN decl[s] : m = decl[s][l]
  BY <1>3 DEF Range
<1>5. \A m \in Range(decl[s]) : Flattened(m) => m.name \in Struct /\ ~Skipped(m)
  BY DeclsAssumption DEF Flattened, Skipped
<1>6. \A m, e \in Range(decl[s]) : m.name = e.name /\ ~Skipped(m) => m = e
  BY <1>4, DeclsAssumption
<1>7. \A m \in Range(decl[s]) :
        m.name \in STRING /\ m.tag \in STRING /\ m.ptr \in BOOLEAN /\ m.exported \in BOOLEAN
  BY <1>4 DEF Member
<1> QED
  BY <1>1, <1>2, <1>4, <1>5, <1>6, <1>7 DEF Range

-----------------------------------------------------------------------------
(* An injective sequence of structs is no longer than there are structs. *)
LEMMA StackLength ==
  ASSUME NEW n \in Nat \ {0}, NEW p \in [1 .. n -> Struct], IsInjective(p)
  PROVE  p \in Stacks
<1>1. p \in Injection(1 .. n, Struct)
  BY DEF Injection
<1>2. Cardinality(1 .. n) <= Cardinality(Struct)
  BY <1>1, StructAssumption, FS_Injection
<1>3. Cardinality(1 .. n) = n
  BY FS_Interval
<1>4. Cardinality(Struct) \in Nat
  BY StructAssumption, FS_CardinalityType
<1>5. n \in 1 .. Cardinality(Struct)
  BY <1>2, <1>3, <1>4
<1> QED
  BY <1>5 DEF Stacks

(* What a path is. *)
LEMMA PathFacts ==
  ASSUME NEW s, NEW p \in Paths(s)
  PROVE  /\ Len(p) \in Nat \ {0} /\ DOMAIN p = 1 .. Len(p) /\ p \in [1 .. Len(p) -> Struct]
         /\ p \in Seq(Struct) /\ p[1] = s /\ Last(p) = p[Len(p)] /\ Last(p) \in Struct
         /\ \A a, b \in 1 .. Len(p) : p[a] = p[b] => a = b
         /\ \A l \in 1 .. Len(p) - 1 : Embeds(p, l) # {}
<1>1. p \in Stacks /\ p[1] = s /\ \A l \in 1 .. Len(p) - 1 : Embeds(p, l) # {}
  BY DEF Paths
<1>2. Cardinality(Struct) \in Nat
  BY StructAssumption, FS_CardinalityType
<1>3. PICK n \in 1 .. Cardinality(Struct) : p \in [1 .. n -> Struct]
  BY <1>1 DEF Stacks
<1>4. IsInjective(p)
  BY <1>1 DEF Stacks
<1>5. n \in Nat \ {0} /\ p \in Seq(Struct)
  BY <1>2, <1>3, SeqDef
<1>6. Len(p) = n /\ DOMAIN p = 1 .. n
  BY <1>3, <1>5, LenProperties
<1>7. p[n] \in Struct
  BY <1>3, <1>5
<1> QED
  BY <1>1, <1>3, <1>4, <1>5, <1>6, <1>7 DEF IsInjective, Last

(* And what makes one. *)
LEMMA MakesPath ==
  ASSUME NEW n \in Nat \ {0}, NEW p \in [1 .. n -> Struct],
         \A a, b \in 1 .. n : p[a] = p[b] => a = b,
         \A l \in 1 .. n - 1 : Embeds(p, l) # {}
  PROVE  p \in Paths(p[1]) /\ Len(p) = n
<1>1. IsInjective(p)
  BY DEF IsInjective
<1>2. p \in Stacks
  BY <1>1, StackLength
<1>3. p \in Seq(Struct)
  BY SeqDef
<1>4. Len(p) = n
  BY <1>3, LenProperties
<1> QED
  BY <1>2, <1>4 DEF Paths

(* A path cut short is one. *)
LEMMA PathPrefix ==
  ASSUME NEW s, NEW q \in Paths(s), NEW k \in 1 .. Len(q)
  PROVE  LET t == [l \in 1 .. k |-> q[l]] IN t \in Paths(s) /\ Len(t) = k /\ Last(t) = q[k]
<1> DEFINE t == [l \in 1 .. k |-> q[l]]
<1>1. /\ Len(q) \in Nat \ {0} /\ q \in [1 .. Len(q) -> Struct] /\ q[1] = s
      /\ \A a, b \in 1 .. Len(q) : q[a] = q[b] => a = b
      /\ \A l \in 1 .. Len(q) - 1 : Embeds(q, l) # {}
  BY PathFacts
<1>2. k \in Nat \ {0} /\ 1 \in 1 .. k /\ k \in 1 .. k /\ \A l \in 1 .. k : l \in 1 .. Len(q)
  BY <1>1
<1>3. t \in [1 .. k -> Struct] /\ \A l \in 1 .. k : t[l] = q[l]
  BY <1>1, <1>2
<1>4. \A a, b \in 1 .. k : t[a] = t[b] => a = b
  BY <1>1, <1>2
<1>5. \A l \in 1 .. k - 1 : Embeds(t, l) # {}
  <2> SUFFICES ASSUME NEW l \in 1 .. k - 1 PROVE Embeds(t, l) # {}
    OBVIOUS
  <2>1. l \in 1 .. Len(q) - 1 /\ l \in 1 .. k /\ l + 1 \in 1 .. k
    BY <1>1, <1>2
  <2>2. Embeds(t, l) = Embeds(q, l)
    BY <1>3, <2>1 DEF Embeds
  <2> QED
    BY <1>1, <2>1, <2>2
<1> HIDE DEF t
<1>6. t \in Paths(t[1]) /\ Len(t) = k
  BY <1>2, <1>3, <1>4, <1>5, MakesPath
<1>7. t[1] = s /\ Last(t) = q[k]
  BY <1>1, <1>2, <1>3, <1>6 DEF Last
<1> QED
  BY <1>6, <1>7 DEF t

(* Entering an embed of a struct that is not on the path extends the path. *)
LEMMA PathExtends ==
  ASSUME decl \in Decls, NEW s, NEW p \in Paths(s), NEW m \in Range(decl[Last(p)]),
         Flattened(m), m.name \notin Range(p)
  PROVE  /\ Append(p, m.name) \in Paths(s) /\ Len(Append(p, m.name)) = Len(p) + 1
         /\ \A l \in 1 .. Len(p) : Append(p, m.name)[l] = p[l]
         /\ Append(p, m.name)[Len(p) + 1] = m.name
<1> DEFINE q == Append(p, m.name)
           n == Len(p)
<1>1. /\ n \in Nat \ {0} /\ DOMAIN p = 1 .. n /\ p \in Seq(Struct) /\ p[1] = s
      /\ Last(p) = p[n] /\ Last(p) \in Struct
      /\ \A a, b \in 1 .. n : p[a] = p[b] => a = b
      /\ \A l \in 1 .. n - 1 : Embeds(p, l) # {}
  BY PathFacts
<1>2. m.name \in Struct
  BY <1>1, MemberFacts
<1>3. /\ q \in Seq(Struct) /\ Len(q) = n + 1 /\ q[n + 1] = m.name
      /\ \A l \in 1 .. n : q[l] = p[l]
  BY <1>1, <1>2, AppendProperties
<1>4. q \in [1 .. n + 1 -> Struct]
  BY <1>3, LenProperties
<1>5. \A l \in 1 .. n : q[l] # m.name
  BY <1>1, <1>3 DEF Range
<1>6. \A a, b \in 1 .. n + 1 : q[a] = q[b] => a = b
  <2> HIDE DEF q, n
  <2> QED
    BY <1>1, <1>3, <1>5
<1>7. \A l \in 1 .. n : Embeds(q, l) # {}
  <2>1. \A l \in 1 .. n - 1 : Embeds(q, l) = Embeds(p, l)
    <3> SUFFICES ASSUME NEW l \in 1 .. n - 1 PROVE q[l] = p[l] /\ q[l + 1] = p[l + 1]
      BY DEF Embeds
    <3> QED
      BY <1>1, <1>3
  <2>2. m \in Embeds(q, n)
    <3> HIDE DEF q, n
    <3>1. q[n] = Last(p) /\ q[n + 1] = m.name
      BY <1>1, <1>3
    <3> QED
      BY <3>1 DEF Embeds
  <2> QED
    BY <1>1, <2>1, <2>2
<1>8. n + 1 \in Nat \ {0} /\ (n + 1) - 1 = n /\ q[1] = s
  BY <1>1, <1>3
<1>9. q \in Paths(q[1])
  <2> HIDE DEF q, n
  <2> QED
    BY <1>4, <1>6, <1>7, <1>8, MakesPath
<1> QED
  BY <1>3, <1>8, <1>9
-----------------------------------------------------------------------------
(* A field as the call for the k-th struct of its path lists it is typed,  *)
(* and its rank does not depend on the call.                               *)
LEMMA FieldFacts ==
  ASSUME decl \in Decls, NEW s, NEW p \in Paths(s), NEW m \in OwnFields(Last(p)),
         NEW k \in 1 .. Len(p)
  PROVE  LET f == FieldAt(p, m, k) IN
         /\ f \in Field
         /\ f.wire = FieldAt(p, m, 1).wire /\ f.depth = Len(p) - 1
         /\ f.tagged = FieldAt(p, m, 1).tagged /\ f.tagged \in BOOLEAN /\ f.depth \in Nat
         /\ Len(f.go) = Len(p) - k + 1
         /\ \A l \in 1 .. Len(p) - k + 1 : f.go[l] = IF k + l <= Len(p) THEN p[k + l] ELSE m.name
<1> DEFINE n == Len(p) - k + 1
           G(l) == IF k + l <= Len(p) THEN p[k + l] ELSE m.name
           go == [l \in 1 .. n |-> G(l)]
           f == FieldAt(p, m, k)
<1>1. /\ Len(p) \in Nat \ {0} /\ p \in [1 .. Len(p) -> Struct] /\ Last(p) \in Struct
      /\ \A l \in 1 .. Len(p) - 1 : Embeds(p, l) # {}
  BY PathFacts
<1>2. m \in Range(decl[Last(p)]) /\ m.name \in STRING /\ m.tag \in STRING
  BY <1>1, MemberFacts DEF OwnFields
<1>3. \A l \in 2 .. Len(p) : p[l] \in STRING
  <2> SUFFICES ASSUME NEW l \in 2 .. Len(p) PROVE p[l] \in STRING
    OBVIOUS
  <2>1. l - 1 \in 1 .. Len(p) - 1 /\ l - 1 \in 1 .. Len(p) /\ (l - 1) + 1 = l
    BY <1>1
  <2>2. PICK e \in Range(decl[p[l - 1]]) : e.name = p[l]
    BY <1>1, <2>1 DEF Embeds
  <2>3. p[l - 1] \in Struct
    BY <1>1, <2>1
  <2> QED
    BY <2>2, <2>3, MemberFacts
<1>4. n \in Nat /\ \A l \in 1 .. n : G(l) \in STRING
  BY <1>1, <1>2, <1>3
<1>5. go \in Seq(STRING)
  <2> HIDE DEF n, G
  <2> QED
    BY <1>4, IsASeq
<1>6. Len(go) = n
  <2>1. DOMAIN go = 1 .. Len(go) /\ Len(go) \in Nat
    BY <1>5, LenProperties
  <2> QED
    BY <1>4, <2>1
<1>7. /\ f.go = go /\ f.depth = Len(p) - 1 /\ f.tagged = (m.tag # "")
      /\ f.wire = IF m.tag = "" THEN m.name ELSE m.tag
  BY DEF FieldAt
<1>8. Len(p) - 1 \in Nat /\ f.wire \in Wire
  <2>1. f.wire \in STRING
    BY <1>2, <1>7
  <2> QED
    BY <1>1, <2>1 DEF Wire
<1>9. f \in Field
  <2> HIDE DEF go
  <2> QED
    BY <1>5, <1>7, <1>8, Zenon DEF FieldAt, Field
<1>10. FieldAt(p, m, 1).wire = f.wire /\ FieldAt(p, m, 1).tagged = f.tagged
  BY DEF FieldAt
<1> QED
  BY <1>4, <1>6, <1>7, <1>8, <1>9, <1>10
(* The record that promotion makes. *)
LEMMA UpdatedField ==
  ASSUME NEW f, NEW w, NEW g, NEW d, NEW t, NEW v, NEW r, NEW gg, NEW vv, NEW rr,
         f = [wire |-> w, go |-> g, depth |-> d, tagged |-> t, viaEmbedPtr |-> v, inRefused |-> r]
  PROVE  [x \in DOMAIN f |-> IF x = "inRefused" THEN rr ELSE IF x = "viaEmbedPtr" THEN vv
                             ELSE IF x = "go" THEN gg ELSE f[x]]
           = [wire |-> w, go |-> gg, depth |-> d, tagged |-> t, viaEmbedPtr |-> vv, inRefused |-> rr]
OBVIOUS

LEMMA PromotedField ==
  ASSUME NEW e, NEW f
  PROVE  Promoted(e, f) =
           [x \in DOMAIN f |-> IF x = "inRefused" THEN f.inRefused \/ (e.ptr /\ ~e.exported)
                               ELSE IF x = "viaEmbedPtr" THEN f.viaEmbedPtr \/ e.ptr
                               ELSE IF x = "go" THEN <<e.name>> \o f.go ELSE f[x]]
BY Zenon DEF Promoted

(* Returning through the embed e is one step up the path.                  *)
LEMMA PromotedUp ==
  ASSUME decl \in Decls, NEW s, NEW p \in Paths(s), NEW m \in OwnFields(Last(p)),
         NEW k \in 1 .. Len(p) - 1, NEW e \in Embeds(p, k)
  PROVE  Promoted(e, FieldAt(p, m, k + 1)) = FieldAt(p, m, k)
<1> DEFINE f == FieldAt(p, m, k + 1)
           g == FieldAt(p, m, k)
           Ptr(l) == \E x \in Embeds(p, l) : x.ptr
           Refused(l) == \E x \in Embeds(p, l) : x.ptr /\ ~x.exported
<1>1. /\ Len(p) \in Nat \ {0} /\ p \in [1 .. Len(p) -> Struct]
      /\ k \in 1 .. Len(p) /\ k + 1 \in 1 .. Len(p) /\ p[k] \in Struct
  BY PathFacts
<1>2. /\ e \in Range(decl[p[k]]) /\ Flattened(e) /\ e.name = p[k + 1] /\ ~Skipped(e)
      /\ e.name \in STRING /\ e.ptr \in BOOLEAN /\ e.exported \in BOOLEAN
  BY <1>1, MemberFacts DEF Embeds
<1>3. \A x \in Embeds(p, k) : x = e
  <2> SUFFICES ASSUME NEW x \in Embeds(p, k) PROVE x = e
    OBVIOUS
  <2>1. x \in Range(decl[p[k]]) /\ x.name = e.name
    BY <1>2 DEF Embeds
  <2> QED
    BY <1>1, <1>2, <2>1, MemberFacts
<1>4. /\ f \in Field /\ g \in Field
      /\ f.wire = g.wire /\ f.depth = g.depth /\ f.tagged = g.tagged
      /\ Len(f.go) = Len(p) - k /\ Len(g.go) = Len(p) - k + 1
      /\ \A l \in 1 .. Len(p) - k : f.go[l] = IF k + 1 + l <= Len(p) THEN p[k + 1 + l] ELSE m.name
      /\ \A l \in 1 .. Len(p) - k + 1 : g.go[l] = IF k + l <= Len(p) THEN p[k + l] ELSE m.name
  <2>0. k \in 1 .. Len(p) /\ k + 1 \in 1 .. Len(p)
    BY <1>1
  <2>1. /\ g \in Field /\ g.wire = FieldAt(p, m, 1).wire /\ g.depth = Len(p) - 1
        /\ g.tagged = FieldAt(p, m, 1).tagged /\ Len(g.go) = Len(p) - k + 1
        /\ \A l \in 1 .. Len(p) - k + 1 : g.go[l] = IF k + l <= Len(p) THEN p[k + l] ELSE m.name
    BY <2>0, FieldFacts
  <2>2. /\ f \in Field /\ f.wire = FieldAt(p, m, 1).wire /\ f.depth = Len(p) - 1
        /\ f.tagged = FieldAt(p, m, 1).tagged /\ Len(f.go) = Len(p) - (k + 1) + 1
        /\ \A l \in 1 .. Len(p) - (k + 1) + 1 :
             f.go[l] = IF k + 1 + l <= Len(p) THEN p[k + 1 + l] ELSE m.name
    BY <2>0, FieldFacts
  <2>3. Len(p) - (k + 1) + 1 = Len(p) - k
    BY <1>1
  <2> QED
    BY <2>1, <2>2, <2>3
<1>5. <<e.name>> \o f.go = g.go
  <2>1. f.go \in Seq(STRING) /\ g.go \in Seq(STRING) /\ <<e.name>> \in Seq(STRING)
    BY <1>2, <1>4 DEF Field
  <2>2. Len(<<e.name>>) = 1 /\ <<e.name>>[1] = e.name
    OBVIOUS
  <2>3. /\ <<e.name>> \o f.go \in Seq(STRING)
        /\ Len(<<e.name>> \o f.go) = 1 + (Len(p) - k)
        /\ \A l \in 1 .. 1 + (Len(p) - k) :
             (<<e.name>> \o f.go)[l] = IF l <= 1 THEN <<e.name>>[l] ELSE f.go[l - 1]
    BY <1>4, <2>1, <2>2, ConcatProperties
  <2>4. ASSUME NEW l \in 1 .. Len(p) - k + 1 PROVE (<<e.name>> \o f.go)[l] = g.go[l]
    <3> HIDE DEF f, g
    <3>1. CASE l = 1
      <4>1. g.go[l] = p[k + 1]
        BY <1>1, <1>4, <3>1
      <4> QED
        BY <1>1, <1>2, <2>2, <2>3, <3>1, <4>1
    <3>2. CASE l # 1
      <4>1. l - 1 \in 1 .. Len(p) - k /\ k + 1 + (l - 1) = k + l /\ ~(l <= 1)
        BY <1>1, <3>2
      <4>2. f.go[l - 1] = g.go[l]
        BY <1>4, <4>1
      <4> QED
        BY <1>1, <2>3, <4>1, <4>2
    <3> QED
      BY <3>1, <3>2
  <2>5. Len(<<e.name>> \o f.go) = Len(g.go) /\ Len(g.go) = Len(p) - k + 1
    BY <1>1, <1>4, <2>3
  <2> QED
    <3> HIDE DEF f, g
    <3> QED
      BY <2>1, <2>3, <2>4, <2>5, SeqEqual
<1>6. \A l : l \in k .. Len(p) - 1 <=> l = k \/ l \in k + 1 .. Len(p) - 1
  BY <1>1
<1>7. /\ f.viaEmbedPtr = \E l \in k + 1 .. Len(p) - 1 : Ptr(l)
      /\ g.viaEmbedPtr = \E l \in k .. Len(p) - 1 : Ptr(l)
      /\ f.inRefused = \E l \in k + 1 .. Len(p) - 1 : Refused(l)
      /\ g.inRefused = \E l \in k .. Len(p) - 1 : Refused(l)
  BY DEF FieldAt
<1>8. (Ptr(k) <=> e.ptr) /\ (Refused(k) <=> e.ptr /\ ~e.exported)
  BY <1>3
<1>9. (f.viaEmbedPtr \/ e.ptr) = g.viaEmbedPtr
  <2> HIDE DEF f, g, Ptr, Refused
  <2>1. f.viaEmbedPtr \/ e.ptr <=> g.viaEmbedPtr
    BY <1>6, <1>7, <1>8, Zenon
  <2>2. g.viaEmbedPtr \in BOOLEAN
    BY <1>7
  <2> QED
    BY <2>1, <2>2
<1>10. (f.inRefused \/ (e.ptr /\ ~e.exported)) = g.inRefused
  <2> HIDE DEF f, g, Ptr, Refused
  <2>1. f.inRefused \/ (e.ptr /\ ~e.exported) <=> g.inRefused
    BY <1>6, <1>7, <1>8, Zenon
  <2>2. g.inRefused \in BOOLEAN
    BY <1>7
  <2> QED
    BY <2>1, <2>2
<1>11. Promoted(e, f) = [wire |-> f.wire, go |-> <<e.name>> \o f.go, depth |-> f.depth,
                         tagged |-> f.tagged, viaEmbedPtr |-> f.viaEmbedPtr \/ e.ptr,
                         inRefused |-> f.inRefused \/ (e.ptr /\ ~e.exported)]
  <2>1. f = [wire |-> f.wire, go |-> f.go, depth |-> f.depth, tagged |-> f.tagged,
             viaEmbedPtr |-> f.viaEmbedPtr, inRefused |-> f.inRefused]
    BY DEF FieldAt
  <2> HIDE DEF f
  <2> QED
    BY <2>1, PromotedField, UpdatedField, Zenon
<1>12. g = [wire |-> g.wire, go |-> g.go, depth |-> g.depth, tagged |-> g.tagged,
            viaEmbedPtr |-> g.viaEmbedPtr, inRefused |-> g.inRefused]
  BY DEF FieldAt
<1> HIDE DEF f, g
<1>13. Promoted(e, f) = g
  BY <1>4, <1>5, <1>9, <1>10, <1>11, <1>12
<1> QED
  BY <1>13 DEF f, g

(* A field of the innermost call's own struct. *)
LEMMA NamedHere ==
  ASSUME decl \in Decls, NEW s, NEW p \in Paths(s), NEW m \in OwnFields(Last(p))
  PROVE  NamedField(m, Len(p) - 1) = FieldAt(p, m, Len(p))
<1>1. Len(p) \in Nat \ {0}
  BY PathFacts
<1>2. Len(p) - Len(p) + 1 = 1 /\ Len(p) .. Len(p) - 1 = {} /\ ~(Len(p) + 1 <= Len(p))
  BY <1>1
<1>3. [l \in 1 .. 1 |-> IF Len(p) + l <= Len(p) THEN p[Len(p) + l] ELSE m.name] = <<m.name>>
  BY <1>2
<1> QED
  BY <1>2, <1>3 DEF NamedField, FieldAt

(* No two fields below a struct have one Go name. *)
LEMMA FieldsDiffer ==
  ASSUME decl \in Decls, NEW s, NEW p \in Paths(s), NEW m \in OwnFields(Last(p)),
         NEW q \in Paths(s), NEW x \in OwnFields(Last(q)), FieldAt(p, m, 1) = FieldAt(q, x, 1)
  PROVE  p = q /\ m = x
<1> DEFINE f == FieldAt(p, m, 1)
           g == FieldAt(q, x, 1)
<1>0. f = g
  OBVIOUS
<1>1. /\ Len(p) \in Nat \ {0} /\ p \in Seq(Struct) /\ p[1] = s /\ Last(p) \in Struct /\ Last(p) = p[Len(p)]
      /\ Len(q) \in Nat \ {0} /\ q \in Seq(Struct) /\ q[1] = s
  BY PathFacts
<1>2. 1 \in 1 .. Len(p) /\ 1 \in 1 .. Len(q)
  BY <1>1
<1>3. /\ Len(f.go) = Len(p) - 1 + 1
      /\ \A l \in 1 .. Len(p) - 1 + 1 : f.go[l] = IF 1 + l <= Len(p) THEN p[1 + l] ELSE m.name
  BY <1>2, FieldFacts, Zenon
<1>4. /\ Len(g.go) = Len(q) - 1 + 1
      /\ \A l \in 1 .. Len(q) - 1 + 1 : g.go[l] = IF 1 + l <= Len(q) THEN q[1 + l] ELSE x.name
  BY <1>2, FieldFacts, Zenon
<1> HIDE DEF f, g
<1>5. Len(p) = Len(q)
  BY <1>0, <1>1, <1>3, <1>4
<1>6. m.name = x.name
  <2>1. Len(p) \in 1 .. Len(p) - 1 + 1 /\ ~(1 + Len(p) <= Len(p))
    BY <1>1
  <2>2. f.go[Len(p)] = m.name /\ f.go[Len(p)] = x.name
    BY <1>0, <1>3, <1>4, <1>5, <2>1
  <2> QED
    BY <2>2
<1>7. ASSUME NEW l \in 1 .. Len(p) PROVE p[l] = q[l]
  <2>1. CASE l = 1
    BY <1>1, <2>1
  <2>2. CASE l # 1
    <3>1. l - 1 \in 1 .. Len(p) - 1 + 1 /\ 1 + (l - 1) = l /\ l <= Len(p)
      BY <1>1, <2>2
    <3> QED
      BY <1>0, <1>3, <1>4, <1>5, <3>1
  <2> QED
    BY <2>1, <2>2
<1>8. p = q
  BY <1>1, <1>5, <1>7, SeqEqual
<1> QED
  BY <1>1, <1>6, <1>8, MemberFacts DEF OwnFields
-----------------------------------------------------------------------------
(* The rule by comparison of two fields: those stand that are not weaker   *)
(* than any rival.                                                         *)
Ranked(F, S) == \A x \in S : F[x].depth \in Nat /\ F[x].tagged \in BOOLEAN

LEMMA StandingIff ==
  ASSUME NEW F, NEW S, NEW n, Ranked(F, S), NEW g \in S, F[g].wire = n
  PROVE  g \in Standing(F, S, n) <=> \A t \in S : F[t].wire = n => NotWeaker(F[g], F[t])
<1> DEFINE R == {j \in S : F[j].wire = n}
           L == {j \in R : \A m \in R : F[j].depth <= F[m].depth}
<1>1. Standing(F, S, n) = {j \in L : F[j].tagged \/ \A m \in L : ~F[m].tagged}
  BY DEF Standing, TaggedFirst, Shallowest, Rivals
<1>2. g \in R /\ R \subseteq S /\ \A t \in S : F[t].wire = n <=> t \in R
  OBVIOUS
<1>3. \A t \in R : F[t].depth \in Nat /\ F[t].tagged \in BOOLEAN
  BY DEF Ranked
<1>4. \A t \in R : NotWeaker(F[g], F[t]) <=>
        F[g].depth < F[t].depth \/ (F[g].depth = F[t].depth /\ (F[g].tagged \/ ~F[t].tagged))
  BY DEF NotWeaker
<1>5. ASSUME g \in Standing(F, S, n), NEW t \in R PROVE NotWeaker(F[g], F[t])
  <2>1. g \in L /\ (F[g].tagged \/ \A m \in L : ~F[m].tagged) /\ F[g].depth <= F[t].depth
    BY <1>1, <1>5
  <2>2. F[g].depth = F[t].depth => t \in L
    BY <2>1
  <2> HIDE DEF L, R
  <2> QED
    BY <1>2, <1>3, <1>4, <2>1, <2>2
<1>6. ASSUME \A t \in R : NotWeaker(F[g], F[t]) PROVE g \in Standing(F, S, n)
  <2>1. \A t \in R : F[g].depth <= F[t].depth /\ (F[g].depth = F[t].depth => F[g].tagged \/ ~F[t].tagged)
    <3> HIDE DEF R
    <3> QED
      BY <1>2, <1>3, <1>4, <1>6
  <2>2. g \in L
    BY <1>2, <2>1
  <2>3. \A m \in L : F[m].depth = F[g].depth
    <3> SUFFICES ASSUME NEW m \in L PROVE F[m].depth = F[g].depth
      OBVIOUS
    <3>1. m \in R /\ F[m].depth <= F[g].depth /\ F[g].depth <= F[m].depth
      BY <1>2, <2>1
    <3> HIDE DEF R, L
    <3> QED
      BY <1>2, <1>3, <3>1
  <2>4. F[g].tagged \/ \A m \in L : ~F[m].tagged
    BY <2>1, <2>3
  <2> QED
    BY <1>1, <2>2, <2>4
<1> QED
  <2> HIDE DEF R
  <2> QED
    BY <1>2, <1>5, <1>6

LEMMA Comparison ==
  ASSUME NEW f, NEW g, NEW h, f.wire = g.wire, g.wire = h.wire,
         f.depth \in Nat, g.depth \in Nat, h.depth \in Nat,
         f.tagged \in BOOLEAN, g.tagged \in BOOLEAN, h.tagged \in BOOLEAN
  PROVE  /\ NotWeaker(f, f)
         /\ NotWeaker(f, g) \/ NotWeaker(g, f)
         /\ NotWeaker(f, g) /\ NotWeaker(g, h) => NotWeaker(f, h)
BY DEF NotWeaker

(* A field that does not dominate has a rival that is not weaker. *)
LEMMA Rivalled ==
  ASSUME NEW F, NEW S, Ranked(F, S), NEW j \in S, j \notin Dominant(F, S)
  PROVE  \E x \in S : x # j /\ NotWeaker(F[x], F[j])
<1> DEFINE n == F[j].wire
<1>1. Standing(F, S, n) # {j}
  BY DEF Dominant
<1>2. CASE j \in Standing(F, S, n)
  <2>1. PICK x \in Standing(F, S, n) : x # j
    BY <1>1, <1>2
  <2>2. x \in S /\ F[x].wire = n
    BY DEF Standing, TaggedFirst, Shallowest, Rivals
  <2> QED
    BY <2>1, <2>2, StandingIff
<1>3. CASE j \notin Standing(F, S, n)
  <2>1. PICK t \in S : F[t].wire = n /\ ~NotWeaker(F[j], F[t])
    BY <1>3, StandingIff
  <2>2. NotWeaker(F[t], F[j]) /\ NotWeaker(F[j], F[j])
    BY <2>1, Comparison DEF Ranked
  <2> QED
    BY <2>1, <2>2
<1> QED
  BY <1>2, <1>3

(* A field that dominates has none. *)
LEMMA Unrivalled ==
  ASSUME NEW F, NEW S, Ranked(F, S), NEW j \in Dominant(F, S), NEW x \in S, NotWeaker(F[x], F[j])
  PROVE  x = j
<1>1. j \in S /\ Standing(F, S, F[j].wire) = {j} /\ F[x].wire = F[j].wire
  BY DEF Dominant, NotWeaker
<1>2. \A t \in S : F[t].wire = F[j].wire => NotWeaker(F[x], F[t])
  <2> SUFFICES ASSUME NEW t \in S, F[t].wire = F[j].wire PROVE NotWeaker(F[x], F[t])
    OBVIOUS
  <2>1. NotWeaker(F[j], F[t])
    BY <1>1, StandingIff
  <2> QED
    BY <1>1, <2>1, Comparison DEF Ranked
<1> QED
  BY <1>1, <1>2, StandingIff
-----------------------------------------------------------------------------
(* The calls under way. *)
CallType == [struct : Struct, member : Nat \ {0}, fields : Seq(Field)]

LEMMA CallFacts ==
  ASSUME CallsInv
  PROVE  /\ Len(calls) \in Nat \ {0} /\ DOMAIN calls = 1 .. Len(calls)
         /\ DOMAIN CallStack = 1 .. Len(calls) /\ Len(CallStack) = Len(calls)
         /\ Last(CallStack) = Innermost.struct
         /\ \A k \in 1 .. Len(calls) :
              /\ calls[k] \in CallType /\ CallStack[k] = calls[k].struct
              /\ calls[k].struct \in Struct /\ calls[k].member \in Nat \ {0}
              /\ calls[k].fields \in Seq(Field)
<1>1. calls \in Seq(CallType) /\ calls # << >>
  BY DEF CallsInv, CallType
<1>2. Len(calls) \in Nat \ {0} /\ DOMAIN calls = 1 .. Len(calls)
  BY <1>1, EmptySeq, LenProperties
<1>3. \A k \in 1 .. Len(calls) : calls[k] \in CallType
  BY <1>1, ElementOfSeq
<1>4. \A k \in 1 .. Len(calls) : CallStack[k] = calls[k].struct
  BY <1>2 DEF CallStack
<1>5. DOMAIN CallStack = 1 .. Len(calls)
  BY <1>2 DEF CallStack
<1>6. CallStack \in Paths(Root)
  BY DEF CallsInv
<1>7. Len(CallStack) \in Nat /\ DOMAIN CallStack = 1 .. Len(CallStack) /\ Last(CallStack) = CallStack[Len(CallStack)]
  BY <1>6, PathFacts
<1>8. Len(CallStack) = Len(calls)
  BY <1>2, <1>5, <1>7
<1>9. \A k \in 1 .. Len(calls) : /\ calls[k].struct \in Struct /\ calls[k].member \in Nat \ {0}
                                 /\ calls[k].fields \in Seq(Field)
  BY <1>3 DEF CallType
<1>10. Last(CallStack) = Innermost.struct
  BY <1>2, <1>4, <1>7, <1>8 DEF Innermost
<1> QED
  BY <1>2, <1>3, <1>4, <1>5, <1>8, <1>9, <1>10

(* A call that has passed one more member. *)
LEMMA PastMemberFacts ==
  ASSUME NEW c \in CallType, NEW A \in Seq(Field)
  PROVE  /\ PastMember(c, A) \in CallType
         /\ PastMember(c, A).struct = c.struct /\ PastMember(c, A).member = c.member + 1
         /\ PastMember(c, A).fields = c.fields \o A
<1>1. PastMember(c, A) = [x \in DOMAIN c |-> IF x = "fields" THEN c.fields \o A
                                             ELSE IF x = "member" THEN c.member + 1 ELSE c[x]]
  BY Zenon DEF PastMember
<1>2. c.struct \in Struct /\ c.member \in Nat \ {0} /\ c.fields \in Seq(Field)
      /\ c = [struct |-> c.struct, member |-> c.member, fields |-> c.fields]
  BY DEF CallType
<1>3. PastMember(c, A) = [struct |-> c.struct, member |-> c.member + 1, fields |-> c.fields \o A]
  <2>1. DOMAIN c = {"struct", "member", "fields"}
    BY <1>2
  <2> QED
    BY <1>1, <2>1
<1>4. c.fields \o A \in Seq(Field) /\ c.member + 1 \in Nat \ {0}
  BY <1>2, ConcatProperties
<1> QED
  BY <1>2, <1>3, <1>4 DEF CallType

(* What is below a struct depends on the declaration alone. *)
LEMMA SameDecl ==
  ASSUME decl' = decl
  PROVE  /\ \A s : Paths(s)' = Paths(s) /\ OwnFields(s)' = OwnFields(s)
         /\ \A p, m, k : FieldAt(p, m, k)' = FieldAt(p, m, k)
         /\ \A p, m : Lost(p, m)' <=> Lost(p, m)
<1>1. \A p, l : Embeds(p, l)' = Embeds(p, l)
  BY DEF Embeds
<1>2. \A s : Paths(s)' = Paths(s)
  BY <1>1 DEF Paths
<1>3. \A s : OwnFields(s)' = OwnFields(s)
  BY DEF OwnFields
<1>4. \A p, m, k : FieldAt(p, m, k)' = FieldAt(p, m, k)
  BY <1>1 DEF FieldAt
<1>5. \A p, m : Lost(p, m)' <=> Lost(p, m)
  BY <1>2, <1>3, <1>4 DEF Lost
<1> QED
  BY <1>2, <1>3, <1>4, <1>5

(* Nor do the lists of the other calls change with the innermost.          *)
LEMMA SameCall ==
  ASSUME decl' = decl, NEW k \in Nat \ {0}, \A l \in 1 .. k : CallStack'[l] = CallStack[l]
  PROVE  /\ Through(k)' = Through(k)
         /\ calls'[k] = calls[k] /\ ListInv(k) => ListInv(k)'
<1>1. Through(k)' = Through(k)
  BY SameDecl DEF Through
<1>2. k \in 1 .. k
  OBVIOUS
<1>3. ASSUME calls'[k] = calls[k] PROVE \A p, m : IsRead(k, p, m)' <=> IsRead(k, p, m)
  BY <1>2, <1>3 DEF IsRead
<1>4. ASSUME calls'[k] = calls[k], ListInv(k) PROVE ListInv(k)'
  <2>1. ListedOnce(k)'
    BY <1>4 DEF ListInv, ListedOnce
  <2>2. ListedIsRead(k)'
    BY <1>1, <1>3, <1>4, SameDecl DEF ListInv, ListedIsRead
  <2>3. ReadIsListed(k)'
    BY <1>1, <1>3, <1>4, SameDecl DEF ListInv, ReadIsListed
  <2> QED
    BY <2>1, <2>2, <2>3 DEF ListInv
<1> QED
  BY <1>1, <1>4
(* A is what the k-th call's member m0 adds to its list: the fields below  *)
(* the member, each once, but for those that are lost.                     *)
Adds(k, m0, A) ==
  /\ IsInjective(A) /\ (A # << >> => ~Skipped(m0))
  /\ \A f \in Range(A) : \E p \in Through(k) : \E m \in OwnFields(Last(p)) :
       After(k, p, m) = m0.name /\ f = FieldAt(p, m, k)
  /\ \A p \in Through(k) : \A m \in OwnFields(Last(p)) :
       After(k, p, m) = m0.name => FieldAt(p, m, k) \in Range(A) \/ Lost(p, m)

(* A call's list when it passes a member that adds what is below it.       *)
LEMMA MemberPassed ==
  ASSUME CallsInv, decl' = decl, NEW k \in 1 .. Len(calls), NEW A \in Seq(Field), NEW m0,
         calls[k].member \in DOMAIN decl[CallStack[k]],
         m0 = decl[CallStack[k]][calls[k].member],
         calls'[k] = PastMember(calls[k], A),
         \A l \in 1 .. k : CallStack'[l] = CallStack[l],
         ListInv(k), Adds(k, m0, A)
  PROVE  ListInv(k)'
<1> DEFINE F == calls[k].fields
           x == calls[k].member
           s == CallStack[k]
<1>1. /\ k \in Nat \ {0} /\ Len(calls) \in Nat \ {0} /\ calls[k] \in CallType
      /\ s \in Struct /\ x \in Nat \ {0} /\ F \in Seq(Field) /\ decl \in Decls
  <2>1. Len(calls) \in Nat \ {0} /\ k \in Nat \ {0}
    BY CallFacts
  <2>2. decl \in Decls
    BY DEF CallsInv
  <2> QED
    BY <2>1, <2>2, CallFacts
<1>2. /\ calls'[k].member = x + 1 /\ calls'[k].fields = F \o A /\ CallStack'[k] = s
  <2>1. k \in 1 .. k
    BY <1>1
  <2> QED
    <3>1. CallStack'[k] = CallStack[k]
      BY <2>1
    <3>2. /\ PastMember(calls[k], A).member = calls[k].member + 1
          /\ PastMember(calls[k], A).fields = calls[k].fields \o A
      BY <1>1, PastMemberFacts
    <3> QED
      BY <3>1, <3>2
<1>3. ASSUME NEW p, NEW m PROVE IsRead(k, p, m)' <=> IsRead(k, p, m) \/ After(k, p, m) = m0.name
  <2>1. \A l : l \in 1 .. (x + 1) - 1 <=> l \in 1 .. x - 1 \/ l = x
    BY <1>1
  <2>2. IsRead(k, p, m)' <=> \E l \in 1 .. (x + 1) - 1 : decl[s][l].name = After(k, p, m)
    BY <1>2 DEF IsRead, After
  <2>3. IsRead(k, p, m) <=> \E l \in 1 .. x - 1 : decl[s][l].name = After(k, p, m)
    BY DEF IsRead
  <2> HIDE DEF x, s
  <2>4. (\E l \in 1 .. (x + 1) - 1 : decl[s][l].name = After(k, p, m))
          <=> (\E l \in 1 .. x - 1 : decl[s][l].name = After(k, p, m)) \/ decl[s][x].name = After(k, p, m)
    BY <2>1, Zenon
  <2>5. decl[s][x] = m0
    BY DEF x, s
  <2> QED
    BY <2>2, <2>3, <2>4, <2>5, Zenon
<1>4. Range(F \o A) = Range(F) \cup Range(A)
  BY <1>1, RangeConcatenation
<1>5. /\ Len(F) \in Nat /\ Len(A) \in Nat /\ DOMAIN F = 1 .. Len(F) /\ DOMAIN A = 1 .. Len(A)
      /\ DOMAIN (F \o A) = 1 .. Len(F) + Len(A)
      /\ \A a \in 1 .. Len(F) + Len(A) : (F \o A)[a] = IF a <= Len(F) THEN F[a] ELSE A[a - Len(F)]
  <2> HIDE DEF F
  <2> QED
    BY <1>1, ConcatProperties, LenProperties
<1>6. ASSUME NEW a \in DOMAIN F, NEW b \in DOMAIN A PROVE F[a] # A[b]
  <2>1. PICK p \in Through(k) : \E m \in OwnFields(Last(p)) : IsRead(k, p, m) /\ F[a] = FieldAt(p, m, k)
    <3>1. F[a] \in Range(F)
      BY DEF Range
    <3> QED
      BY <3>1 DEF ListInv, ListedIsRead
  <2>1a. PICK m \in OwnFields(Last(p)) : IsRead(k, p, m) /\ F[a] = FieldAt(p, m, k)
    BY <2>1
  <2>2. PICK q \in Through(k) : \E y \in OwnFields(Last(q)) : After(k, q, y) = m0.name /\ A[b] = FieldAt(q, y, k)
    BY DEF Range, Adds
  <2>2a. PICK y \in OwnFields(Last(q)) : After(k, q, y) = m0.name /\ A[b] = FieldAt(q, y, k)
    BY <2>2
  <2>3. ~Skipped(m0)
    BY <1>5 DEF Adds
  <2>4. PICK l \in 1 .. x - 1 : decl[s][l].name = After(k, p, m)
    BY <2>1a DEF IsRead
  <2>5. l \in DOMAIN decl[s] /\ l # x
    <3>1. DOMAIN decl[s] = 1 .. Len(decl[s]) /\ Len(decl[s]) \in Nat /\ x \in DOMAIN decl[s]
      BY <1>1, MemberFacts
    <3> QED
      BY <1>1, <3>1
  <2>6. decl[s][l].name # m0.name
    BY <1>1, <2>3, <2>5, DeclsAssumption
  <2>7. ASSUME NEW r \in Through(k), NEW z \in OwnFields(Last(r))
        PROVE  FieldAt(r, z, k).go[1] = After(k, r, z)
    <3>1. r \in Paths(Root) /\ k <= Len(r) /\ Len(r) \in Nat
      BY PathFacts DEF Through
    <3>2. k \in 1 .. Len(r) /\ 1 \in 1 .. Len(r) - k + 1 /\ (k + 1 <= Len(r) <=> k < Len(r))
      BY <1>1, <3>1
    <3>3. FieldAt(r, z, k).go[1] = IF k + 1 <= Len(r) THEN r[k + 1] ELSE z.name
      BY <1>1, <3>1, <3>2, FieldFacts
    <3> QED
      BY <3>2, <3>3 DEF After
  <2> QED
    BY <2>1a, <2>2a, <2>4, <2>6, <2>7
<1>7. ListedOnce(k)'
  <2>1. \A a, b \in DOMAIN F : F[a] = F[b] => a = b
    BY DEF ListInv, ListedOnce, IsInjective
  <2>2. \A a, b \in DOMAIN A : A[a] = A[b] => a = b
    BY DEF IsInjective, Adds
  <2>3. \A a, b \in DOMAIN (F \o A) : (F \o A)[a] = (F \o A)[b] => a = b
    <3> HIDE DEF F
    <3> SUFFICES ASSUME NEW a \in DOMAIN (F \o A), NEW b \in DOMAIN (F \o A), (F \o A)[a] = (F \o A)[b]
                 PROVE  a = b
      OBVIOUS
    <3>1. CASE a <= Len(F) /\ b <= Len(F)
      BY <1>5, <2>1, <3>1
    <3>2. CASE a <= Len(F) /\ ~(b <= Len(F))
      <4>1. a \in DOMAIN F /\ b - Len(F) \in DOMAIN A
        BY <1>5, <3>2
      <4> QED
        BY <1>5, <1>6, <3>2, <4>1
    <3>3. CASE ~(a <= Len(F)) /\ b <= Len(F)
      <4>1. b \in DOMAIN F /\ a - Len(F) \in DOMAIN A
        BY <1>5, <3>3
      <4> QED
        BY <1>5, <1>6, <3>3, <4>1
    <3>4. CASE ~(a <= Len(F)) /\ ~(b <= Len(F))
      <4>1. a - Len(F) \in DOMAIN A /\ b - Len(F) \in DOMAIN A
        BY <1>5, <3>4
      <4>2. a - Len(F) = b - Len(F)
        BY <1>5, <2>2, <3>4, <4>1
      <4> QED
        BY <1>5, <4>2
    <3> QED
      BY <3>1, <3>2, <3>3, <3>4
  <2> QED
    BY <1>2, <2>3 DEF ListedOnce, IsInjective
<1>8. ListedIsRead(k)'
  <2>1. Through(k)' = Through(k)
    BY <1>1, SameCall
  <2>2. ASSUME NEW f \in Range(F \o A)
        PROVE  \E p \in Through(k) : \E m \in OwnFields(Last(p)) : IsRead(k, p, m)' /\ f = FieldAt(p, m, k)
    <3>1. CASE f \in Range(F)
      BY <1>3, <3>1 DEF ListInv, ListedIsRead
    <3>2. CASE f \in Range(A)
      BY <1>3, <3>2 DEF Adds
    <3> QED
      BY <1>4, <3>1, <3>2
  <2> QED
    BY <1>2, <2>1, <2>2, SameDecl DEF ListedIsRead
<1>9. ReadIsListed(k)'
  <2>1. Through(k)' = Through(k)
    BY <1>1, SameCall
  <2>2. ASSUME NEW p \in Through(k), NEW m \in OwnFields(Last(p)), IsRead(k, p, m)'
        PROVE  FieldAt(p, m, k) \in Range(F \o A) \/ Lost(p, m)
    BY <1>3, <1>4, <2>2 DEF ListInv, ReadIsListed, Adds
  <2> QED
    BY <1>2, <2>1, <2>2, SameDecl DEF ReadIsListed
<1> QED
  BY <1>7, <1>8, <1>9 DEF ListInv
(* The innermost call passes a member. *)
LEMMA InnermostPassed ==
  ASSUME FlattenInv, NEW m0, AtMember(m0), NEW A \in Seq(Field),
         calls' = [calls EXCEPT ![Len(calls)] = PastMember(@, A)],
         UNCHANGED <<vars, decl, visited>>, Adds(Len(calls), m0, A)
  PROVE  FlattenInv'
<1> DEFINE n == Len(calls)
<1>1. CallsInv /\ ListsInv /\ LoopsInv /\ loop = "members"
  BY DEF FlattenInv, AtMember
<1>2. /\ n \in Nat \ {0} /\ DOMAIN calls = 1 .. n /\ n \in 1 .. n
      /\ DOMAIN CallStack = 1 .. n
      /\ \A k \in 1 .. n : calls[k] \in CallType /\ CallStack[k] = calls[k].struct
      /\ calls \in Seq(CallType)
  BY <1>1, CallFacts DEF CallsInv, CallType
<1>3. decl' = decl /\ visited' = visited /\ raw' = raw /\ i' = i /\ best' = best /\ loop' = loop
      /\ seen' = seen /\ result' = result
  BY DEF vars
<1>4. /\ calls' \in Seq(CallType) /\ Len(calls') = n /\ DOMAIN calls' = 1 .. n
      /\ calls'[n] = PastMember(calls[n], A) /\ \A k \in 1 .. n : k # n => calls'[k] = calls[k]
  <2>1. PastMember(calls[n], A) \in CallType
    BY <1>2, PastMemberFacts
  <2>2. calls' = [calls EXCEPT ![n] = PastMember(calls[n], A)]
    OBVIOUS
  <2> HIDE DEF n
  <2>3. calls' \in Seq(CallType) /\ Len(calls') = n
        /\ \A k \in 1 .. n : calls'[k] = IF k = n THEN PastMember(calls[n], A) ELSE calls[k]
    BY <1>2, <2>1, <2>2, ExceptSeq DEF n
  <2> QED
    BY <1>2, <2>3, LenProperties
<1>5. CallStack' = CallStack
  <2>1. \A k \in 1 .. n : calls'[k].struct = calls[k].struct
    <3>1. PastMember(calls[n], A).struct = calls[n].struct
      BY <1>2, PastMemberFacts
    <3> QED
      BY <1>4, <3>1
  <2> HIDE DEF n
  <2> QED
    BY <1>2, <1>4, <2>1 DEF CallStack
<1>6. m0 = decl[CallStack[n]][calls[n].member] /\ calls[n].member \in DOMAIN decl[CallStack[n]]
  BY <1>2 DEF AtMember, Innermost, Members
<1>7. CallsInv'
  <2>1. calls' # << >>
    BY <1>2, <1>4
  <2>2. CallStack' \in Paths(Root)'
    BY <1>1, <1>3, <1>5, SameDecl DEF CallsInv
  <2>3. ASSUME NEW k \in 1 .. n - 1
        PROVE  /\ calls'[k].member \in DOMAIN decl[CallStack[k]]
               /\ LET m == decl[CallStack[k]][calls'[k].member]
                  IN  Flattened(m) /\ m.name = CallStack[k + 1]
    <3>1. k \in 1 .. n /\ k # n
      <4> HIDE DEF n
      <4> QED
        BY <1>2
    <3>2. calls'[k] = calls[k]
      BY <1>4, <3>1
    <3> QED
      BY <1>1, <3>2 DEF CallsInv
  <2> QED
    BY <1>1, <1>3, <1>4, <1>5, <2>1, <2>2, <2>3 DEF CallsInv, CallType
<1>8. ASSUME NEW k \in 1 .. n PROVE ListInv(k)'
  <2>1. ListInv(k) /\ k \in Nat \ {0}
    BY <1>1, <1>2 DEF ListsInv
  <2>2. CASE k # n
    BY <1>3, <1>4, <1>5, <2>1, <2>2, SameCall
  <2>3. CASE k = n
    <3>1. ListInv(k) /\ \A l \in 1 .. k : CallStack'[l] = CallStack[l]
      BY <1>5, <2>1
    <3>2. /\ calls'[k] = PastMember(calls[k], A) /\ decl' = decl /\ k \in 1 .. Len(calls)
          /\ m0 = decl[CallStack[k]][calls[k].member]
          /\ calls[k].member \in DOMAIN decl[CallStack[k]] /\ Adds(k, m0, A)
      BY <1>3, <1>4, <1>6, <2>3
    <3> QED
      BY <1>1, <3>1, <3>2, MemberPassed
  <2> QED
    BY <2>2, <2>3
<1>9. LoopsInv'
  BY <1>1, <1>3 DEF LoopsInv
<1> QED
  BY <1>4, <1>7, <1>8, <1>9 DEF FlattenInv, ListsInv

(* Which fields are below the member a call is at.                         *)
LEMMA BelowMember ==
  ASSUME CallsInv, NEW k \in 1 .. Len(calls), NEW m0,
         m0 \in Range(decl[CallStack[k]]),
         NEW p \in Through(k), NEW m \in OwnFields(Last(p)), After(k, p, m) = m0.name
  PROVE  /\ p \in Paths(Root) /\ k <= Len(p) /\ Len(p) \in Nat \ {0}
         /\ \A l \in 1 .. k : p[l] = CallStack[l]
         /\ k = Len(p) => m = m0
         /\ k < Len(p) => Flattened(m0) /\ p[k + 1] = m0.name /\ m0 \in Embeds(p, k)
                          /\ \A l \in 1 .. k : CallStack[l] # m0.name
<1>1. /\ p \in Paths(Root) /\ k <= Len(p) /\ \A l \in 1 .. k : p[l] = CallStack[l]
  BY DEF Through
<1>2. /\ Len(p) \in Nat \ {0} /\ Last(p) = p[Len(p)] /\ decl \in Decls
      /\ \A a, b \in 1 .. Len(p) : p[a] = p[b] => a = b
      /\ \A l \in 1 .. Len(p) - 1 : Embeds(p, l) # {}
  BY <1>1, PathFacts DEF CallsInv
<1>3. k \in Nat \ {0} /\ k \in 1 .. k /\ CallStack[k] \in Struct
  BY CallFacts
<1>4. ASSUME k = Len(p) PROVE m = m0
  <2>1. After(k, p, m) = m.name /\ m \in Range(decl[CallStack[k]]) /\ ~Skipped(m)
    BY <1>1, <1>2, <1>3, <1>4 DEF OwnFields, After
  <2> QED
    BY <1>2, <1>3, <2>1, MemberFacts
<1>5. ASSUME k < Len(p)
      PROVE  Flattened(m0) /\ p[k + 1] = m0.name /\ m0 \in Embeds(p, k)
             /\ \A l \in 1 .. k : CallStack[l] # m0.name
  <2>1. k \in 1 .. Len(p) - 1 /\ k + 1 \in 1 .. Len(p) /\ p[k] = CallStack[k]
    BY <1>1, <1>2, <1>3, <1>5
  <2>2. p[k + 1] = m0.name
    BY <1>5 DEF After
  <2>3. PICK e \in Embeds(p, k) : TRUE
    BY <1>2, <2>1
  <2>4. e \in Range(decl[CallStack[k]]) /\ Flattened(e) /\ e.name = m0.name
    BY <2>1, <2>2, <2>3 DEF Embeds
  <2>5. ~Skipped(e)
    BY <1>2, <1>3, <2>4, MemberFacts
  <2>6. e = m0
    BY <1>2, <1>3, <2>4, <2>5, MemberFacts
  <2>7. \A l \in 1 .. k : p[l] # p[k + 1]
    BY <1>2, <1>3, <2>1
  <2> QED
    BY <1>1, <2>2, <2>3, <2>4, <2>6, <2>7
<1> QED
  BY <1>1, <1>2, <1>4, <1>5

LEMMA TakeFieldInv ==
  ASSUME FlattenInv, NEW m0 \in Range(Members), TakeField(m0)
  PROVE  FlattenInv'
<1> DEFINE n == Len(calls)
           A == <<NamedField(m0, n - 1)>>
<1>1. CallsInv /\ decl \in Decls /\ AtMember(m0) /\ ~Skipped(m0) /\ ~Flattened(m0)
  BY DEF FlattenInv, CallsInv, TakeField
<1>2. /\ n \in Nat \ {0} /\ n \in 1 .. n /\ Len(CallStack) = n
      /\ CallStack[n] = Innermost.struct /\ Last(CallStack) = Innermost.struct
      /\ CallStack \in Paths(Root)
  BY <1>1, CallFacts DEF CallsInv, Innermost
<1>3. m0 \in Range(decl[CallStack[n]]) /\ m0 \in OwnFields(Last(CallStack))
  BY <1>1, <1>2 DEF Members, OwnFields
<1>4. NamedField(m0, n - 1) = FieldAt(CallStack, m0, n)
  BY <1>1, <1>2, <1>3, NamedHere
<1>5. FieldAt(CallStack, m0, n) \in Field
  BY <1>1, <1>2, <1>3, FieldFacts
<1>6. A \in Seq(Field) /\ DOMAIN A = {1} /\ A[1] = FieldAt(CallStack, m0, n)
  BY <1>4, <1>5
<1>7. Range(A) = {FieldAt(CallStack, m0, n)} /\ IsInjective(A)
  <2> HIDE DEF A
  <2> QED
    BY <1>6 DEF Range, IsInjective
<1>8. CallStack \in Through(n) /\ After(n, CallStack, m0) = m0.name
  BY <1>2 DEF Through, After
<1>9. ASSUME NEW p \in Through(n), NEW m \in OwnFields(Last(p)), After(n, p, m) = m0.name
      PROVE  FieldAt(p, m, n) \in Range(A)
  <2>1. /\ p \in Paths(Root) /\ n <= Len(p) /\ Len(p) \in Nat \ {0}
        /\ \A l \in 1 .. n : p[l] = CallStack[l]
        /\ n = Len(p) => m = m0
        /\ n < Len(p) => Flattened(m0)
    BY <1>1, <1>2, <1>3, <1>9, BelowMember
  <2>2. n = Len(p) /\ m = m0
    BY <1>1, <1>2, <2>1
  <2>3. p \in Seq(Struct) /\ CallStack \in Seq(Struct)
    BY <1>2, <2>1, PathFacts
  <2>4. p = CallStack
    BY <1>2, <2>1, <2>2, <2>3, SeqEqual
  <2> QED
    BY <1>7, <2>2, <2>4
<1>10. /\ calls' = [calls EXCEPT ![n] = PastMember(@, A)]
       /\ UNCHANGED <<vars, decl, visited>>
  BY DEF TakeField
<1> HIDE DEF A
<1>11. \A f \in Range(A) : \E p \in Through(n) : \E m \in OwnFields(Last(p)) :
         After(n, p, m) = m0.name /\ f = FieldAt(p, m, n)
  BY <1>3, <1>7, <1>8
<1>12. Adds(n, m0, A)
  BY <1>1, <1>7, <1>9, <1>11 DEF Adds
<1> QED
  BY <1>1, <1>6, <1>10, <1>12, InnermostPassed

LEMMA PassMemberInv ==
  ASSUME FlattenInv, NEW m0 \in Range(Members), PassMember(m0)
  PROVE  FlattenInv'
<1> DEFINE n == Len(calls)
<1>1. CallsInv /\ AtMember(m0) /\ (Skipped(m0) \/ (Flattened(m0) /\ m0.name \in visited))
  BY DEF FlattenInv, PassMember
<1>2. /\ n \in 1 .. n /\ m0 \in Range(decl[CallStack[n]])
      /\ DOMAIN CallStack = 1 .. n /\ visited = Range(CallStack) /\ n \in Nat \ {0}
  BY <1>1, CallFacts DEF CallsInv, Innermost, Members
<1>3. ASSUME NEW p \in Through(n), NEW m \in OwnFields(Last(p)), After(n, p, m) = m0.name
      PROVE  FALSE
  <2>1. /\ n <= Len(p) /\ Len(p) \in Nat
        /\ n = Len(p) => m = m0
        /\ n < Len(p) => Flattened(m0) /\ \A l \in 1 .. n : CallStack[l] # m0.name
    BY <1>1, <1>2, <1>3, BelowMember
  <2>2. Flattened(m0) => ~Skipped(m0)
    BY DEF Flattened, Skipped
  <2>3. m = m0 => ~Skipped(m0) /\ ~Flattened(m0)
    BY DEF OwnFields
  <2> QED
    BY <1>1, <1>2, <2>1, <2>2, <2>3 DEF Range
<1>4. << >> \in Seq(Field) /\ IsInjective(<< >>) /\ Range(<< >>) = {}
  BY EmptySeq DEF IsInjective, Range
<1>5. /\ calls' = [calls EXCEPT ![n] = PastMember(@, << >>)]
      /\ UNCHANGED <<vars, decl, visited>>
  BY DEF PassMember
<1>6. Adds(n, m0, << >>)
  BY <1>3, <1>4 DEF Adds
<1> QED
  BY <1>1, <1>4, <1>5, <1>6, InnermostPassed
(* A call that has read nothing lists nothing. *)
LEMMA EmptyRange == Range(<< >>) = {} /\ IsInjective(<< >>)
BY DEF Range, IsInjective

LEMMA EnterEmbedInv ==
  ASSUME FlattenInv, NEW m0 \in Range(Members), EnterEmbed(m0)
  PROVE  FlattenInv'
<1> DEFINE new == Call(m0.name)
<1>1. /\ CallsInv /\ ListsInv /\ LoopsInv /\ AtMember(m0) /\ loop = "members"
      /\ Flattened(m0) /\ m0.name \notin visited /\ decl \in Decls
  BY DEF FlattenInv, EnterEmbed, AtMember, CallsInv
<1>2. /\ calls' = Append(calls, new) /\ visited' = visited \cup {m0.name} /\ decl' = decl
      /\ raw' = raw /\ i' = i /\ best' = best /\ loop' = loop /\ seen' = seen /\ result' = result
  BY DEF EnterEmbed, vars
<1>3. PICK n \in Nat \ {0} : n = Len(calls)
  BY <1>1, CallFacts
<1>4. /\ DOMAIN calls = 1 .. n /\ DOMAIN CallStack = 1 .. n /\ Len(CallStack) = n /\ n \in 1 .. n
      /\ \A k \in 1 .. n : CallStack[k] = calls[k].struct
      /\ Last(CallStack) = Innermost.struct /\ Innermost = calls[n] /\ CallStack[n] = Innermost.struct
      /\ Innermost.struct \in Struct
  BY <1>1, <1>3, CallFacts DEF Innermost
<1>5. CallStack \in Paths(Root) /\ visited = Range(CallStack) /\ calls \in Seq(CallType)
  BY <1>1 DEF CallsInv, CallType
<1>6. m0 \in Range(decl[Last(CallStack)]) /\ m0.name \in Struct
  BY <1>1, <1>4, MemberFacts DEF Members
<1>7. new \in CallType /\ new.struct = m0.name /\ new.member = 1 /\ new.fields = << >>
  BY <1>6, EmptySeq DEF Call, CallType
<1>8. /\ calls' \in Seq(CallType) /\ calls' # << >> /\ DOMAIN calls' = 1 .. n + 1
      /\ \A k \in 1 .. n : calls'[k] = calls[k]
      /\ calls'[n + 1] = new
  <2> HIDE DEF new
  <2>1. /\ calls' \in Seq(CallType) /\ calls' # << >> /\ Len(calls') = n + 1
        /\ \A k \in 1 .. n : calls'[k] = calls[k]
        /\ calls'[n + 1] = new
    BY <1>2, <1>3, <1>5, <1>7, AppendProperties
  <2> QED
    BY <2>1, LenProperties
<1> HIDE DEF new
<1>9. /\ CallStack' = [k \in 1 .. n + 1 |-> calls'[k].struct]
      /\ \A k \in 1 .. n : CallStack'[k] = CallStack[k]
      /\ CallStack'[n + 1] = m0.name
  <2>1. CallStack' = [k \in 1 .. n + 1 |-> calls'[k].struct]
    BY <1>8 DEF CallStack
  <2>2. \A k \in 1 .. n + 1 : CallStack'[k] = calls'[k].struct
    BY <2>1
  <2>3. n + 1 \in 1 .. n + 1 /\ \A k \in 1 .. n : k \in 1 .. n + 1
    OBVIOUS
  <2> QED
    BY <1>4, <1>7, <1>8, <2>1, <2>2, <2>3
<1>10. CallStack' = Append(CallStack, m0.name) /\ Append(CallStack, m0.name) \in Paths(Root)
  <2> DEFINE q == Append(CallStack, m0.name)
  <2>1. /\ q \in Paths(Root) /\ Len(q) = n + 1 /\ \A l \in 1 .. n : q[l] = CallStack[l]
        /\ q[n + 1] = m0.name
    <3>1. m0.name \notin Range(CallStack)
      BY <1>1, <1>5
    <3> QED
      BY <1>1, <1>4, <1>5, <1>6, <3>1, PathExtends
  <2> HIDE DEF q
  <2>2. q = [k \in 1 .. n + 1 |-> q[k]]
    <3>1. q \in [1 .. Len(q) -> Struct]
      BY <2>1, PathFacts
    <3> QED
      BY <2>1, <3>1
  <2>3. \A k \in 1 .. n + 1 : q[k] = calls'[k].struct
    BY <1>4, <1>7, <1>8, <2>1
  <2>4. CallStack' = q
    BY <1>9, <2>2, <2>3
  <2> QED
    BY <2>1, <2>4 DEF q
<1>11. CallsInv'
  <2>1. CallStack' \in Paths(Root)'
    BY <1>2, <1>10, SameDecl
  <2>2. visited' = Range(CallStack')
    <3>1. Range(CallStack') = {CallStack'[k] : k \in 1 .. n + 1}
      BY <1>9 DEF Range
    <3>2. Range(CallStack) = {CallStack[k] : k \in 1 .. n}
      BY <1>4 DEF Range
    <3>3. Range(CallStack') = Range(CallStack) \cup {m0.name}
      <4>1. 1 .. n + 1 = (1 .. n) \cup {n + 1}
        OBVIOUS
      <4>2. {CallStack'[k] : k \in 1 .. n} = {CallStack[k] : k \in 1 .. n}
        BY <1>9
      <4>3. {CallStack'[k] : k \in (1 .. n) \cup {n + 1}}
              = {CallStack'[k] : k \in 1 .. n} \cup {CallStack'[n + 1]}
        OBVIOUS
      <4> QED
        BY <1>9, <3>1, <3>2, <4>1, <4>2, <4>3, Zenon
    <3> QED
      BY <1>2, <1>5, <3>3
  <2>3. ASSUME NEW k \in 1 .. n
        PROVE  /\ calls'[k].member \in DOMAIN decl[CallStack'[k]]
               /\ LET m == decl[CallStack'[k]][calls'[k].member]
                  IN  Flattened(m) /\ m.name = CallStack'[k + 1]
    <3>1. CASE k = n
      <4>1. calls[n].member \in DOMAIN decl[CallStack[n]] /\ m0 = decl[CallStack[n]][calls[n].member]
        BY <1>1, <1>4 DEF AtMember, Members
      <4> QED
        BY <1>1, <1>8, <1>9, <3>1, <4>1
    <3>2. CASE k # n
      <4>1. k \in 1 .. n - 1 /\ k + 1 \in 1 .. n
        BY <3>2
      <4>2. /\ calls[k].member \in DOMAIN decl[CallStack[k]]
            /\ LET m == decl[CallStack[k]][calls[k].member]
               IN  Flattened(m) /\ m.name = CallStack[k + 1]
        BY <1>1, <1>3, <4>1 DEF CallsInv
      <4> QED
        BY <1>8, <1>9, <4>1, <4>2
    <3> QED
      BY <3>1, <3>2
  <2>4. Len(calls') - 1 = n
    <3>1. Len(calls') \in Nat /\ DOMAIN calls' = 1 .. Len(calls')
      BY <1>8, LenProperties
    <3> QED
      BY <1>8, <3>1
  <2> QED
    BY <1>1, <1>2, <1>8, <2>1, <2>2, <2>3, <2>4 DEF CallType, CallsInv
<1>12. ASSUME NEW k \in 1 .. n + 1 PROVE ListInv(k)'
  <2>1. CASE k \in 1 .. n
    <3>1. ListInv(k) /\ calls'[k] = calls[k] /\ k \in Nat \ {0}
      BY <1>1, <1>4, <1>8, <2>1 DEF ListsInv
    <3>2. \A l \in 1 .. k : CallStack'[l] = CallStack[l]
      <4>1. \A l \in 1 .. k : l \in 1 .. n
        BY <2>1
      <4> QED
        BY <1>9, <4>1
    <3> QED
      BY <1>2, <3>1, <3>2, SameCall
  <2>2. CASE k = n + 1
    <3>1. calls'[k].fields = << >> /\ calls'[k].member = 1
      BY <1>7, <1>8, <2>2
    <3>2. \A p, m : ~IsRead(k, p, m)'
      BY <3>1 DEF IsRead
    <3> QED
      BY <3>1, <3>2, EmptyRange DEF ListInv, ListedOnce, ListedIsRead, ReadIsListed
  <2> QED
    BY <2>1, <2>2
<1>13. LoopsInv'
  BY <1>1, <1>2 DEF LoopsInv
<1> QED
  BY <1>8, <1>11, <1>12, <1>13 DEF FlattenInv, ListsInv
-----------------------------------------------------------------------------
(* The loops of dedupJSONFields leave the calls alone. *)
LEMMA SameCalls ==
  ASSUME CallsInv, ListsInv, UNCHANGED <<decl, calls, visited>>
  PROVE  CallsInv' /\ ListsInv' /\ Innermost' = Innermost /\ Members' = Members
<1>1. decl' = decl /\ calls' = calls /\ visited' = visited /\ CallStack' = CallStack
  BY DEF CallStack
<1>2. CallsInv'
  BY <1>1, SameDecl DEF CallsInv
<1>3. ASSUME NEW k \in DOMAIN calls PROVE ListInv(k)'
  <2>1. k \in Nat \ {0} /\ ListInv(k)
    BY CallFacts DEF ListsInv
  <2> QED
    BY <1>1, <2>1, SameCall
<1> QED
  BY <1>1, <1>2, <1>3 DEF ListsInv, Innermost, Members

LEMMA DeduplicateInv ==
  ASSUME FlattenInv, Deduplicate
  PROVE  FlattenInv'
<1>1. CallsInv /\ ListsInv /\ LoopsInv /\ loop = "members"
  BY DEF FlattenInv, Deduplicate
<1>2. /\ raw' = Innermost.fields /\ loop' = "best" /\ i' = 1 /\ best' = NoEntries
      /\ seen' = {} /\ result' = << >> /\ UNCHANGED <<decl, calls, visited>>
      /\ Innermost.member > Len(Members)
  BY <1>1 DEF Deduplicate, LoopsInv
<1>3. CallsInv' /\ ListsInv' /\ Innermost' = Innermost /\ Members' = Members
  BY <1>1, <1>2, SameCalls
<1>4. raw' \in Seq(Field) /\ Len(raw') \in Nat
  <2>1. Innermost.fields \in Seq(Field)
    BY <1>1, CallFacts DEF Innermost
  <2> QED
    BY <1>2, <2>1, LenProperties
<1>5. DOMAIN NoEntries = {} /\ << >> \in Seq(Field) /\ DOMAIN << >> = {} /\ 1 .. 1 - 1 = {}
  BY EmptySeq DEF NoEntries
<1>6. TypeOK'
  BY <1>2, <1>4, <1>5 DEF TypeOK
<1>7. BestInv' /\ EmitInv'
  BY <1>2, <1>5 DEF BestInv, EmitInv, Compared, Met
<1> QED
  BY <1>2, <1>3, <1>6, <1>7 DEF FlattenInv, LoopsInv, IInv

LEMMA DedupInv ==
  ASSUME FlattenInv, Dedup
  PROVE  FlattenInv'
<1>1. CallsInv /\ ListsInv /\ LoopsInv /\ Next /\ UNCHANGED <<decl, calls, visited>>
  BY DEF FlattenInv, Dedup
<1>2. loop # "members" /\ loop' # "members" /\ raw' = raw
  BY <1>1 DEF Next, Compare, StartEmit, Emit, Finish
<1>3. IInv /\ raw = Innermost.fields /\ Innermost.member > Len(Members)
  BY <1>1, <1>2 DEF LoopsInv
<1>4. IInv'
  BY <1>1, <1>3, CompareInv, StartEmitInv, EmitStepInv, FinishInv DEF Next
<1>5. CallsInv' /\ ListsInv' /\ Innermost' = Innermost /\ Members' = Members
  BY <1>1, SameCalls
<1> QED
  BY <1>2, <1>3, <1>4, <1>5 DEF FlattenInv, LoopsInv

(* A call that has passed its last member has read all that is below it.   *)
LEMMA AllRead ==
  ASSUME CallsInv, Innermost.member > Len(Members),
         NEW k, k = Len(calls), NEW p \in Through(k), NEW m \in OwnFields(Last(p))
  PROVE  IsRead(k, p, m)
<1>1. /\ k \in Nat \ {0} /\ k \in 1 .. k /\ CallStack[k] = Innermost.struct /\ Innermost = calls[k]
      /\ CallStack[k] \in Struct /\ decl \in Decls
  <2>1. decl \in Decls
    BY DEF CallsInv
  <2> QED
    BY <2>1, CallFacts DEF Innermost
<1>2. /\ p \in Paths(Root) /\ k <= Len(p) /\ p[k] = CallStack[k] /\ Len(p) \in Nat
      /\ Last(p) = p[Len(p)] /\ \A l \in 1 .. Len(p) - 1 : Embeds(p, l) # {}
  BY <1>1, PathFacts DEF Through
<1>3. PICK e \in Range(decl[CallStack[k]]) : e.name = After(k, p, m)
  <2>1. CASE k = Len(p)
    BY <1>2, <2>1 DEF After, OwnFields
  <2>2. CASE k < Len(p)
    <3>1. PICK e \in Embeds(p, k) : TRUE
      BY <1>1, <1>2, <2>2
    <3> QED
      BY <1>2, <2>2, <3>1 DEF Embeds, After
  <2> QED
    BY <1>1, <1>2, <2>1, <2>2
<1>4. PICK l \in DOMAIN decl[CallStack[k]] : e = decl[CallStack[k]][l]
  BY DEF Range
<1>5. l \in 1 .. calls[k].member - 1
  <2>1. /\ DOMAIN decl[CallStack[k]] = 1 .. Len(decl[CallStack[k]]) /\ Len(decl[CallStack[k]]) \in Nat
    BY <1>1, MemberFacts
  <2>2. calls[k].member > Len(decl[CallStack[k]]) /\ calls[k].member \in Nat
    BY <1>1, CallFacts DEF Members
  <2> QED
    BY <2>1, <2>2
<1> QED
  BY <1>3, <1>4, <1>5 DEF IsRead

(* What the loops leave of a call's list: each of its fields, or a rival   *)
(* that is not weaker.                                                     *)
LEMMA Deduplicated ==
  ASSUME IInv, loop = "done"
  PROVE  /\ result \in Seq(Field) /\ raw \in Seq(Field) /\ Ranked(raw, DOMAIN raw)
         /\ \A l \in DOMAIN result : \E j \in Dominant(raw, DOMAIN raw) : result[l] = raw[j]
         /\ \A m, l \in DOMAIN result : result[m].wire = result[l].wire => m = l
         /\ \A j \in DOMAIN raw :
              \/ \E l \in DOMAIN result : result[l] = raw[j]
              \/ \E x \in DOMAIN raw : x # j /\ NotWeaker(raw[x], raw[j])
<1>1. ResultIsDominant
  BY DominanceFromInv
<1>2. raw \in Seq(Field) /\ result \in Seq(Field) /\ Ranked(raw, DOMAIN raw)
  BY RawTypes DEF IInv, TypeOK, Ranked
<1>3. {result[m] : m \in DOMAIN result} = {raw[j] : j \in Dominant(raw, DOMAIN raw)}
  BY <1>1 DEF ResultIsDominant
<1>4. \A l \in DOMAIN result : \E j \in Dominant(raw, DOMAIN raw) : result[l] = raw[j]
  BY <1>3
<1>5. ASSUME NEW j \in DOMAIN raw, j \notin Dominant(raw, DOMAIN raw)
      PROVE  \E x \in DOMAIN raw : x # j /\ NotWeaker(raw[x], raw[j])
  BY <1>2, <1>5, Rivalled
<1>6. ASSUME NEW j \in Dominant(raw, DOMAIN raw) PROVE \E l \in DOMAIN result : result[l] = raw[j]
  BY <1>3
<1> QED
  BY <1>1, <1>2, <1>4, <1>5, <1>6 DEF ResultIsDominant
(* What a call returns through the embed it was made for.                  *)
ReturnedFields(m) == [l \in DOMAIN result |-> Promoted(m, result[l])]

LEMMA ReturnAdds ==
  ASSUME FlattenInv, loop = "done", NEW n \in Nat \ {0}, n + 1 = Len(calls),
         NEW m0, m0 = decl[CallStack[n]][calls[n].member]
  PROVE  ReturnedFields(m0) \in Seq(Field) /\ Adds(n, m0, ReturnedFields(m0))
<1> DEFINE A == ReturnedFields(m0)
           k == n + 1
<1>1. CallsInv /\ ListsInv /\ IInv /\ raw = Innermost.fields /\ Innermost.member > Len(Members)
  BY DEF FlattenInv, LoopsInv
<1>2. /\ n \in 1 .. n /\ k \in 1 .. k /\ n \in 1 .. Len(calls) - 1 /\ n \in 1 .. Len(calls)
      /\ k \in DOMAIN calls /\ Innermost = calls[k] /\ decl \in Decls
      /\ CallStack[n] \in Struct
  <2>1. n \in 1 .. n /\ k \in 1 .. k /\ n \in 1 .. Len(calls) - 1 /\ n \in 1 .. Len(calls) /\ k \in 1 .. Len(calls)
    OBVIOUS
  <2>2. decl \in Decls
    BY <1>1 DEF CallsInv
  <2>3. CallStack[n] \in Struct /\ DOMAIN calls = 1 .. Len(calls)
    BY <1>1, <2>1, CallFacts
  <2> QED
    BY <2>1, <2>2, <2>3 DEF Innermost
<1>3. /\ m0 \in Range(decl[CallStack[n]]) /\ Flattened(m0) /\ ~Skipped(m0)
      /\ m0.name = CallStack[k]
  <2>1. /\ calls[n].member \in DOMAIN decl[CallStack[n]]
        /\ Flattened(m0) /\ m0.name = CallStack[k]
    BY <1>1, <1>2 DEF CallsInv
  <2> QED
    BY <2>1 DEF Range, Flattened, Skipped
<1>4. /\ result \in Seq(Field) /\ raw \in Seq(Field)
      /\ \A l \in DOMAIN result : \E j \in Dominant(raw, DOMAIN raw) : result[l] = raw[j]
      /\ \A m, l \in DOMAIN result : result[m].wire = result[l].wire => m = l
      /\ \A j \in DOMAIN raw :
           \/ \E l \in DOMAIN result : result[l] = raw[j]
           \/ \E x \in DOMAIN raw : x # j /\ NotWeaker(raw[x], raw[j])
  BY <1>1, Deduplicated
<1>5. ListInv(k) /\ raw = calls[k].fields
  BY <1>1, <1>2 DEF ListsInv
<1>6. ASSUME NEW j \in DOMAIN raw
      PROVE  \E p \in Through(k) : \E m \in OwnFields(Last(p)) : raw[j] = FieldAt(p, m, k)
  BY <1>5 DEF ListInv, ListedIsRead, Range
<1>7. ASSUME NEW p \in Through(k), NEW m \in OwnFields(Last(p))
      PROVE  /\ p \in Through(n) /\ After(n, p, m) = m0.name
             /\ Promoted(m0, FieldAt(p, m, k)) = FieldAt(p, m, n)
  <2>1. /\ p \in Paths(Root) /\ k <= Len(p) /\ Len(p) \in Nat /\ \A l \in 1 .. k : p[l] = CallStack[l]
    BY PathFacts DEF Through
  <2>2. n \in 1 .. Len(p) - 1 /\ n < Len(p) /\ n \in 1 .. k /\ \A l \in 1 .. n : l \in 1 .. k
    BY <2>1
  <2>3. p[n] = CallStack[n] /\ p[k] = m0.name
    BY <1>2, <1>3, <2>1, <2>2
  <2>4. m0 \in Embeds(p, n)
    BY <1>3, <2>3 DEF Embeds
  <2>5. p \in Through(n)
    BY <2>1, <2>2 DEF Through
  <2>6. After(n, p, m) = m0.name
    BY <2>2, <2>3 DEF After
  <2>7. Promoted(m0, FieldAt(p, m, n + 1)) = FieldAt(p, m, n)
    BY <1>2, <2>1, <2>2, <2>4, PromotedUp
  <2> QED
    BY <2>5, <2>6, <2>7
<1>8. ASSUME NEW l \in DOMAIN result
      PROVE  /\ A[l] \in Field /\ A[l].wire = result[l].wire
             /\ \E p \in Through(n) : \E m \in OwnFields(Last(p)) :
                  After(n, p, m) = m0.name /\ A[l] = FieldAt(p, m, n)
  <2>1. PICK j \in DOMAIN raw : result[l] = raw[j]
    BY <1>4 DEF Dominant
  <2>2. PICK p \in Through(k) : \E m \in OwnFields(Last(p)) : raw[j] = FieldAt(p, m, k)
    BY <1>6
  <2>3. PICK m \in OwnFields(Last(p)) : raw[j] = FieldAt(p, m, k)
    BY <2>2
  <2>4. A[l] = FieldAt(p, m, n)
    BY <1>7, <2>1, <2>3 DEF ReturnedFields
  <2>5. p \in Paths(Root) /\ n \in 1 .. Len(p) /\ k \in 1 .. Len(p)
    BY PathFacts DEF Through
  <2>6. FieldAt(p, m, n) \in Field /\ FieldAt(p, m, n).wire = FieldAt(p, m, 1).wire
    BY <1>2, <2>5, FieldFacts
  <2>7. FieldAt(p, m, k).wire = FieldAt(p, m, 1).wire
    BY <1>2, <2>5, FieldFacts
  <2> QED
    BY <1>7, <2>1, <2>3, <2>4, <2>6, <2>7
<1>9. DOMAIN A = DOMAIN result
  BY DEF ReturnedFields
<1>10. A \in Seq(Field)
  <2>1. Len(result) \in Nat /\ DOMAIN result = 1 .. Len(result)
    BY <1>4, LenProperties
  <2>2. \A l \in 1 .. Len(result) : Promoted(m0, result[l]) \in Field
    BY <1>8, <2>1 DEF ReturnedFields
  <2>3. [l \in 1 .. Len(result) |-> Promoted(m0, result[l])] \in Seq(Field)
    BY <2>1, <2>2, IsASeq
  <2> QED
    BY <2>1, <2>3 DEF ReturnedFields
<1>11. IsInjective(A)
  <2> HIDE DEF A
  <2> QED
    BY <1>4, <1>8, <1>9 DEF IsInjective
<1>12. ASSUME NEW p \in Through(n), NEW m \in OwnFields(Last(p)), After(n, p, m) = m0.name
       PROVE  FieldAt(p, m, n) \in Range(A) \/ Lost(p, m)
  <2>1. /\ p \in Paths(Root) /\ n <= Len(p) /\ Len(p) \in Nat
        /\ \A l \in 1 .. n : p[l] = CallStack[l]
        /\ n = Len(p) => m = m0
        /\ n < Len(p) => p[k] = m0.name
    BY <1>1, <1>2, <1>3, <1>12, BelowMember
  <2>2. m # m0
    BY <1>3 DEF OwnFields
  <2>3. n < Len(p) /\ k <= Len(p)
    BY <2>1, <2>2
  <2>4. p \in Through(k)
    <3>1. ASSUME NEW l \in 1 .. k PROVE p[l] = CallStack[l]
      <4>1. CASE l = k
        BY <1>3, <2>1, <2>3, <4>1
      <4>2. CASE l # k
        <5>1. l \in 1 .. n
          BY <4>2
        <5> QED
          BY <2>1, <5>1
      <4> QED
        BY <4>1, <4>2
    <3> QED
      BY <2>1, <2>3, <3>1 DEF Through
  <2>5. IsRead(k, p, m)
    BY <1>1, <2>4, AllRead
  <2>6. FieldAt(p, m, k) \in Range(raw) \/ Lost(p, m)
    BY <1>5, <2>4, <2>5 DEF ListInv, ReadIsListed
  <2>7. CASE FieldAt(p, m, k) \in Range(raw)
    <3>1. PICK j \in DOMAIN raw : raw[j] = FieldAt(p, m, k)
      BY <2>7 DEF Range
    <3>2. CASE \E l \in DOMAIN result : result[l] = raw[j]
      <4>1. PICK l \in DOMAIN result : result[l] = raw[j]
        BY <3>2
      <4>2. A[l] = FieldAt(p, m, n)
        BY <1>7, <2>4, <3>1, <4>1 DEF ReturnedFields
      <4> HIDE DEF A
      <4> QED
        BY <1>9, <4>2 DEF Range
    <3>3. CASE \E x \in DOMAIN raw : x # j /\ NotWeaker(raw[x], raw[j])
      <4>1. PICK x \in DOMAIN raw : x # j /\ NotWeaker(raw[x], raw[j])
        BY <3>3
      <4>2. PICK q \in Through(k) : \E y \in OwnFields(Last(q)) : raw[x] = FieldAt(q, y, k)
        BY <1>6
      <4>3. PICK y \in OwnFields(Last(q)) : raw[x] = FieldAt(q, y, k)
        BY <4>2
      <4>4. raw[x] # raw[j]
        BY <1>5, <4>1 DEF ListInv, ListedOnce, IsInjective
      <4>5. <<q, y>> # <<p, m>>
        BY <3>1, <4>3, <4>4
      <4>6. /\ q \in Paths(Root) /\ k <= Len(q) /\ Len(q) \in Nat
            /\ \A l \in 1 .. k : q[l] = p[l]
        BY <2>4, PathFacts DEF Through
      <4>7. NotWeaker(FieldAt(q, y, 1), FieldAt(p, m, 1))
        <5>1. k \in 1 .. Len(q) /\ k \in 1 .. Len(p) /\ 1 \in 1 .. Len(q) /\ 1 \in 1 .. Len(p)
          BY <2>1, <2>3, <4>6
        <5>2. /\ FieldAt(q, y, k).wire = FieldAt(q, y, 1).wire
              /\ FieldAt(q, y, k).tagged = FieldAt(q, y, 1).tagged
              /\ FieldAt(q, y, k).depth = Len(q) - 1
          BY <1>2, <4>6, <5>1, FieldFacts
        <5>3. FieldAt(q, y, 1).depth = Len(q) - 1
          BY <1>2, <4>6, <5>1, FieldFacts
        <5>4. /\ FieldAt(p, m, k).wire = FieldAt(p, m, 1).wire
              /\ FieldAt(p, m, k).tagged = FieldAt(p, m, 1).tagged
              /\ FieldAt(p, m, k).depth = Len(p) - 1
          BY <1>2, <2>1, <5>1, FieldFacts
        <5>5. FieldAt(p, m, 1).depth = Len(p) - 1
          BY <1>2, <2>1, <5>1, FieldFacts
        <5> QED
          BY <3>1, <4>1, <4>3, <5>2, <5>3, <5>4, <5>5 DEF NotWeaker
      <4>8. k \in 2 .. Len(p)
        BY <2>1, <2>3
      <4>9. Lost(p, m)
        BY <4>5, <4>6, <4>7, <4>8 DEF Lost
      <4> QED
        BY <4>9
    <3> QED
      BY <1>4, <3>2, <3>3
  <2> QED
    BY <2>6, <2>7
<1>13. \A f \in Range(A) : \E p \in Through(n) : \E m \in OwnFields(Last(p)) :
         After(n, p, m) = m0.name /\ f = FieldAt(p, m, n)
  <2> HIDE DEF A
  <2> QED
    BY <1>8, <1>9 DEF Range
<1>14. Adds(n, m0, A)
  <2> HIDE DEF A
  <2> QED
    BY <1>3, <1>11, <1>12, <1>13 DEF Adds
<1> QED
  BY <1>10, <1>14

LEMMA ReturnInv ==
  ASSUME FlattenInv, Return
  PROVE  FlattenInv'
<1>1. /\ CallsInv /\ ListsInv /\ LoopsInv /\ loop = "done" /\ Len(calls) > 1 /\ decl' = decl
      /\ visited' = visited \ {Innermost.struct} /\ loop' = "members"
      /\ raw' = << >> /\ i' = 1 /\ best' = NoEntries /\ seen' = {} /\ result' = << >>
  BY DEF FlattenInv, Return
<1>2. PICK n \in Nat \ {0} : n + 1 = Len(calls)
  <2>1. Len(calls) - 1 \in Nat \ {0} /\ (Len(calls) - 1) + 1 = Len(calls)
    BY <1>1, CallFacts
  <2> QED
    BY <2>1
<1>3. /\ Len(calls) - 1 = n /\ n \in 1 .. n /\ n \in 1 .. n + 1 /\ n + 1 \in 1 .. n + 1
      /\ \A k \in 1 .. n : k \in 1 .. n + 1 /\ k \in DOMAIN calls
      /\ DOMAIN CallStack = 1 .. n + 1 /\ Len(CallStack) = n + 1
      /\ \A k \in 1 .. n + 1 : /\ calls[k] \in CallType /\ CallStack[k] = calls[k].struct
                               /\ CallStack[k] \in Struct
      /\ Innermost.struct = CallStack[n + 1]
  BY <1>1, <1>2, CallFacts DEF Innermost
<1> DEFINE m0 == decl[CallStack[n]][calls[n].member]
           A == ReturnedFields(m0)
<1>4. A \in Seq(Field) /\ Adds(n, m0, A)
  BY <1>1, <1>2, ReturnAdds
<1>5. calls' = [k \in 1 .. n |-> IF k = n THEN PastMember(calls[k], A) ELSE calls[k]]
  BY <1>3 DEF Return, ReturnedFields
<1> HIDE DEF A
<1>6. /\ DOMAIN calls' = 1 .. n /\ calls'[n] = PastMember(calls[n], A)
      /\ \A k \in 1 .. n : k # n => calls'[k] = calls[k]
  BY <1>3, <1>5
<1>7. \A k \in 1 .. n : calls'[k] \in CallType /\ calls'[k].struct = CallStack[k]
  <2>1. PastMember(calls[n], A) \in CallType /\ PastMember(calls[n], A).struct = calls[n].struct
    BY <1>3, <1>4, PastMemberFacts
  <2> QED
    BY <1>3, <1>6, <2>1
<1>8. calls' \in Seq(CallType) /\ Len(calls') = n /\ calls' # << >>
  <2>1. calls' \in [1 .. n -> CallType]
    BY <1>5, <1>6, <1>7
  <2>2. calls' \in Seq(CallType)
    BY <2>1, SeqDef
  <2> QED
    BY <1>6, <2>2, LenProperties, EmptySeq
<1>9. CallStack' = [k \in 1 .. n |-> CallStack[k]]
  BY <1>6, <1>7 DEF CallStack
<1>10. \A k \in 1 .. n : CallStack'[k] = CallStack[k]
  BY <1>9
<1>11. /\ CallStack \in Paths(Root) /\ visited = Range(CallStack)
       /\ CallStack[1] = Root /\ Len(CallStack) = n + 1
       /\ \A a, b \in 1 .. n + 1 : CallStack[a] = CallStack[b] => a = b
       /\ \A l \in 1 .. n : Embeds(CallStack, l) # {}
  <2>1. CallStack \in Paths(Root) /\ visited = Range(CallStack)
    BY <1>1 DEF CallsInv
  <2>2. /\ CallStack[1] = Root
        /\ \A a, b \in 1 .. Len(CallStack) : CallStack[a] = CallStack[b] => a = b
        /\ \A l \in 1 .. Len(CallStack) - 1 : Embeds(CallStack, l) # {}
    BY <2>1, PathFacts, Zenon
  <2>3. Len(CallStack) = n + 1 /\ Len(CallStack) - 1 = n
    BY <1>3
  <2> QED
    BY <2>1, <2>2, <2>3
<1>12. CallStack' \in Paths(Root)
  BY <1>3, <1>9, <1>11, PathPrefix
<1>13. visited' = Range(CallStack')
  <2>1. Range(CallStack) = {CallStack[k] : k \in 1 .. n + 1} /\ Range(CallStack') = {CallStack[k] : k \in 1 .. n}
    BY <1>3, <1>9 DEF Range
  <2>2. \A k \in 1 .. n + 1 : k \in 1 .. n \/ k = n + 1
    OBVIOUS
  <2>3. \A k \in 1 .. n : CallStack[k] # CallStack[n + 1]
    BY <1>3, <1>11
  <2> DEFINE Called == {CallStack[k] : k \in 1 .. n + 1}
             Callers == {CallStack[k] : k \in 1 .. n}
  <2>4. Called \ {CallStack[n + 1]} = Callers
    <3>1. \A k \in 1 .. n : k \in 1 .. n + 1
      OBVIOUS
    <3> HIDE DEF CallStack
    <3> QED
      BY <2>2, <2>3, <3>1, Zenon
  <2>5. visited' = visited \ {CallStack[n + 1]}
    BY <1>1, <1>3
  <2> QED
    BY <1>11, <2>1, <2>4, <2>5, Zenon
<1>14. CallsInv'
  <2>1. CallStack' \in Paths(Root)'
    BY <1>1, <1>12, SameDecl
  <2>2. ASSUME NEW k \in 1 .. n - 1
        PROVE  /\ calls'[k].member \in DOMAIN decl[CallStack'[k]]
               /\ LET m == decl[CallStack'[k]][calls'[k].member]
                  IN  Flattened(m) /\ m.name = CallStack'[k + 1]
    <3>1. k \in 1 .. Len(calls) - 1 /\ k \in 1 .. n /\ k + 1 \in 1 .. n /\ k # n
      BY <1>2
    <3> QED
      BY <1>1, <1>6, <1>10, <3>1 DEF CallsInv
  <2>3. decl \in Decls
    BY <1>1 DEF CallsInv
  <2> QED
    BY <1>1, <1>8, <1>13, <2>1, <2>2, <2>3 DEF CallsInv, CallType
<1>15. ASSUME NEW k \in 1 .. n PROVE ListInv(k)'
  <2>1. ListInv(k) /\ k \in Nat \ {0}
    BY <1>1, <1>3 DEF ListsInv
  <2>2. \A l \in 1 .. k : CallStack'[l] = CallStack[l]
    <3>1. \A l \in 1 .. k : l \in 1 .. n
      OBVIOUS
    <3> QED
      BY <1>10, <3>1
  <2>3. CASE k # n
    BY <1>1, <1>6, <2>1, <2>2, <2>3, SameCall
  <2>4. CASE k = n
    <3>1. n \in 1 .. Len(calls) /\ n \in 1 .. Len(calls) - 1
      BY <1>2
    <3>2. calls[n].member \in DOMAIN decl[CallStack[n]]
      BY <1>1, <3>1 DEF CallsInv
    <3>3. ListInv(n) /\ \A l \in 1 .. n : CallStack'[l] = CallStack[l]
      BY <2>1, <2>2, <2>4
    <3> HIDE DEF m0
    <3>4. ListInv(n)'
      BY <1>1, <1>4, <1>6, <3>1, <3>2, <3>3, MemberPassed DEF m0
    <3> QED
      BY <2>4, <3>4
  <2> QED
    BY <2>3, <2>4
<1>16. LoopsInv'
  BY <1>1 DEF LoopsInv
<1> QED
  BY <1>6, <1>14, <1>15, <1>16 DEF FlattenInv, ListsInv

(* At the first call nothing is read, and the path is the root alone. *)
LEMMA DeclaredInv == Declared => FlattenInv
<1> SUFFICES ASSUME Declared PROVE FlattenInv
  OBVIOUS
<1> DEFINE new == Call(Root)
<1>1. /\ decl \in Decls /\ calls = <<new>> /\ visited = {Root} /\ loop = "members" /\ Root \in Struct
      /\ raw = << >> /\ i = 1 /\ best = NoEntries /\ seen = {} /\ result = << >>
  BY StructAssumption DEF Declared
<1>2. new \in CallType /\ new.struct = Root /\ new.member = 1 /\ new.fields = << >>
  BY <1>1, EmptySeq DEF Call, CallType
<1> HIDE DEF new
<1>3. /\ calls \in Seq(CallType) /\ calls # << >> /\ Len(calls) = 1 /\ DOMAIN calls = 1 .. 1
      /\ calls[1] = new /\ 1 .. Len(calls) - 1 = {}
  BY <1>1, <1>2
<1>4. CallStack = [k \in 1 .. 1 |-> Root]
  BY <1>2, <1>3 DEF CallStack
<1>5. CallStack \in Paths(Root) /\ Range(CallStack) = {Root}
  <2> DEFINE q == [k \in 1 .. 1 |-> Root]
  <2>1. q \in [1 .. 1 -> Struct] /\ 1 \in Nat \ {0} /\ q[1] = Root /\ 1 .. 1 - 1 = {}
    BY <1>1
  <2>2. \A a, b \in 1 .. 1 : q[a] = q[b] => a = b
    OBVIOUS
  <2>3. Range(q) = {Root}
    BY DEF Range
  <2> HIDE DEF q
  <2>4. q \in Paths(Root)
    BY <2>1, <2>2, MakesPath
  <2> QED
    BY <1>4, <2>3, <2>4 DEF q
<1>6. CallsInv
  BY <1>1, <1>3, <1>5 DEF CallsInv, CallType
<1>7. ListInv(1)
  <2>1. \A p, m : ~IsRead(1, p, m)
    BY <1>2, <1>3 DEF IsRead
  <2> QED
    BY <1>2, <1>3, <2>1, EmptyRange DEF ListInv, ListedOnce, ListedIsRead, ReadIsListed
<1>8. ListsInv
  BY <1>3, <1>7 DEF ListsInv
<1>9. LoopsInv
  BY <1>1 DEF LoopsInv
<1> QED
  BY <1>6, <1>8, <1>9 DEF FlattenInv

LEMMA ResolveInv ==
  ASSUME FlattenInv, [Resolve]_allVars
  PROVE  FlattenInv'
<1>1. CASE ReadMember
  BY <1>1, TakeFieldInv, PassMemberInv, EnterEmbedInv DEF ReadMember
<1>2. CASE Deduplicate
  BY <1>2, DeduplicateInv
<1>3. CASE Dedup
  BY <1>3, DedupInv
<1>4. CASE Return
  BY <1>4, ReturnInv
<1>5. CASE UNCHANGED allVars
  <2>1. CallsInv /\ ListsInv /\ LoopsInv /\ UNCHANGED <<decl, calls, visited>>
        /\ UNCHANGED vars
    BY <1>5 DEF FlattenInv, allVars
  <2>2. CallsInv' /\ ListsInv' /\ Innermost' = Innermost /\ Members' = Members
    BY <2>1, SameCalls
  <2>3. IInv' <=> IInv
    BY <2>1 DEF vars, IInv, TypeOK, BestInv, EmitInv, Compared, Met
  <2>4. LoopsInv'
    BY <2>1, <2>2, <2>3 DEF LoopsInv, vars
  <2> QED
    BY <2>2, <2>4 DEF FlattenInv
<1> QED
  BY <1>1, <1>2, <1>3, <1>4, <1>5 DEF Resolve

(* The inductive invariant of resolveStructFields: what each call under    *)
(* way has listed, against the fields below its struct.                    *)
THEOREM FlattenInvariance == ResolveSpec => []FlattenInv
<1>1. FlattenInv /\ [Resolve]_allVars => FlattenInv'
  BY ResolveInv
<1> QED
  BY DeclaredInv, <1>1, PTL DEF ResolveSpec

(* Every call of dedupJSONFields, at every embedded struct and at the      *)
(* root, keeps exactly the fields that dominate its raw list.              *)
THEOREM EveryCallDominant == ResolveSpec => []ResultIsDominant
<1>1. FlattenInv => ResultIsDominant
  <2>1. FlattenInv /\ loop = "done" => IInv
    BY DEF FlattenInv, LoopsInv
  <2> QED
    BY <2>1, DominanceFromInv DEF ResultIsDominant
<1> QED
  BY FlattenInvariance, <1>1, PTL
-----------------------------------------------------------------------------
(* The fields below a struct, ranked for the rule. *)
LEMMA BelowFacts ==
  ASSUME decl \in Decls, NEW s
  PROVE  LET S == AllFields(s) IN
         /\ Ranked(Self(S), S) /\ \A f \in S : Self(S)[f] = f /\ f \in Field
         /\ \A f \in S : \E p \in Paths(s) : \E m \in OwnFields(Last(p)) : f = FieldAt(p, m, 1)
         /\ \A p \in Paths(s) : \A m \in OwnFields(Last(p)) : FieldAt(p, m, 1) \in S
<1>1. \A f \in AllFields(s) : \E p \in Paths(s) : \E m \in OwnFields(Last(p)) : f = FieldAt(p, m, 1)
  BY DEF AllFields
<1>2. \A p \in Paths(s) : \A m \in OwnFields(Last(p)) : FieldAt(p, m, 1) \in AllFields(s)
  BY DEF AllFields
<1>3. \A p \in Paths(s) : \A m \in OwnFields(Last(p)) : FieldAt(p, m, 1) \in Field
  <2> SUFFICES ASSUME NEW p \in Paths(s), NEW m \in OwnFields(Last(p)) PROVE FieldAt(p, m, 1) \in Field
    OBVIOUS
  <2>1. 1 \in 1 .. Len(p)
    BY PathFacts
  <2> QED
    BY <2>1, FieldFacts
<1>4. \A f \in AllFields(s) : f \in Field
  BY <1>1, <1>3
<1>5. \A f \in AllFields(s) : Self(AllFields(s))[f] = f
  BY DEF Self
<1>6. \A f \in AllFields(s) : f.depth \in Nat /\ f.tagged \in BOOLEAN
  BY <1>4 DEF Field
<1>7. Ranked(Self(AllFields(s)), AllFields(s))
  BY <1>5, <1>6 DEF Ranked
<1> QED
  BY <1>1, <1>2, <1>4, <1>5, <1>7

(* The root's call when it is done: its list, and what it has resolved.    *)
LEMMA AtDone ==
  ASSUME FlattenInv, Done
  PROVE  /\ decl \in Decls /\ IInv /\ loop = "done"
         /\ \A a, b \in DOMAIN raw : raw[a] = raw[b] => a = b
         /\ \A j \in DOMAIN raw : raw[j] \in AllFields(Root)
         /\ \A p \in Paths(Root) : \A m \in OwnFields(Last(p)) :
              (\E j \in DOMAIN raw : raw[j] = FieldAt(p, m, 1)) \/ Lost(p, m)
<1>1. /\ CallsInv /\ ListsInv /\ IInv /\ raw = Innermost.fields /\ Innermost.member > Len(Members)
      /\ loop = "done" /\ Len(calls) = 1 /\ decl \in Decls
  BY DEF FlattenInv, LoopsInv, Done, CallsInv
<1>2. 1 \in DOMAIN calls /\ Innermost = calls[1] /\ CallStack \in Paths(Root)
  BY <1>1, CallFacts DEF Innermost, CallsInv
<1>3. ListInv(1) /\ raw = calls[1].fields /\ CallStack[1] = Root
  BY <1>1, <1>2, PathFacts DEF ListsInv
<1>4. \A p \in Through(1) : p \in Paths(Root)
  BY DEF Through
<1>5. \A p \in Paths(Root) : p \in Through(1)
  <2> SUFFICES ASSUME NEW p \in Paths(Root) PROVE p \in Through(1)
    OBVIOUS
  <2>1. p[1] = Root /\ 1 <= Len(p) /\ \A l \in 1 .. 1 : l = 1
    BY PathFacts
  <2> QED
    BY <1>3, <2>1 DEF Through
<1>6. \A a, b \in DOMAIN raw : raw[a] = raw[b] => a = b
  BY <1>3 DEF ListInv, ListedOnce, IsInjective
<1>7. ASSUME NEW j \in DOMAIN raw PROVE raw[j] \in AllFields(Root)
  <2>1. raw[j] \in Range(raw)
    BY DEF Range
  <2>2. PICK p \in Through(1) : \E m \in OwnFields(Last(p)) : raw[j] = FieldAt(p, m, 1)
    BY <1>3, <2>1 DEF ListInv, ListedIsRead
  <2> QED
    BY <1>4, <2>2 DEF AllFields
<1>8. ASSUME NEW p \in Paths(Root), NEW m \in OwnFields(Last(p))
      PROVE  (\E j \in DOMAIN raw : raw[j] = FieldAt(p, m, 1)) \/ Lost(p, m)
  <2>1. IsRead(1, p, m)
    BY <1>1, <1>5, AllRead
  <2> QED
    BY <1>3, <1>5, <2>1 DEF ListInv, ReadIsListed, Range
<1> QED
  BY <1>1, <1>6, <1>7, <1>8

(* What the invariant of the calls gives at the end. *)
LEMMA DominantFromInv ==
  ASSUME FlattenInv
  PROVE  NoDominantFieldLost
<1> SUFFICES ASSUME Done, NEW f \in DominantFields(Root) PROVE f \in Range(result)
  BY DEF NoDominantFieldLost, Resolved
<1> DEFINE S == AllFields(Root)
           F == Self(S)
<1>1. /\ decl \in Decls /\ IInv /\ loop = "done"
      /\ \A a, b \in DOMAIN raw : raw[a] = raw[b] => a = b
      /\ \A j \in DOMAIN raw : raw[j] \in S
      /\ \A p \in Paths(Root) : \A m \in OwnFields(Last(p)) :
           (\E j \in DOMAIN raw : raw[j] = FieldAt(p, m, 1)) \/ Lost(p, m)
  BY AtDone
<1>2. /\ Ranked(F, S) /\ \A h \in S : F[h] = h
      /\ \A p \in Paths(Root) : \A m \in OwnFields(Last(p)) : FieldAt(p, m, 1) \in S
      /\ \A h \in S : \E p \in Paths(Root) : \E m \in OwnFields(Last(p)) : h = FieldAt(p, m, 1)
  BY <1>1, BelowFacts
<1>3. f \in Dominant(F, S) /\ f \in S
  BY DEF DominantFields, Dominant
<1>4. \A h \in S : NotWeaker(h, f) => h = f
  BY <1>2, <1>3, Unrivalled
<1>5. PICK p \in Paths(Root) : \E m \in OwnFields(Last(p)) : f = FieldAt(p, m, 1)
  BY <1>2, <1>3
<1>6. PICK m \in OwnFields(Last(p)) : f = FieldAt(p, m, 1)
  BY <1>5
<1>7. ~Lost(p, m)
  <2> SUFFICES ASSUME Lost(p, m) PROVE FALSE
    OBVIOUS
  <2>1. PICK q \in Paths(Root) : \E x \in OwnFields(Last(q)) :
          <<q, x>> # <<p, m>> /\ NotWeaker(FieldAt(q, x, 1), FieldAt(p, m, 1))
    BY DEF Lost
  <2>2. PICK x \in OwnFields(Last(q)) :
          <<q, x>> # <<p, m>> /\ NotWeaker(FieldAt(q, x, 1), FieldAt(p, m, 1))
    BY <2>1
  <2>3. FieldAt(q, x, 1) = FieldAt(p, m, 1)
    BY <1>2, <1>4, <1>6, <2>2
  <2> QED
    BY <1>1, <2>2, <2>3, FieldsDiffer
<1>8. PICK j \in DOMAIN raw : raw[j] = f
  BY <1>1, <1>6, <1>7
<1>9. \/ \E l \in DOMAIN result : result[l] = raw[j]
      \/ \E x \in DOMAIN raw : x # j /\ NotWeaker(raw[x], raw[j])
  BY <1>1, Deduplicated
<1>10. ~ \E x \in DOMAIN raw : x # j /\ NotWeaker(raw[x], raw[j])
  BY <1>1, <1>4, <1>8
<1> QED
  BY <1>8, <1>9, <1>10 DEF Range

(* No field encoding/json writes is missing from the generated interface,  *)
(* and none is optional or refused but as the pointers on its chain of     *)
(* embeds make it: a field dropped at an embedded struct has a rival there *)
(* that is not weaker, so it does not dominate over the whole either.      *)
THEOREM DominantResolved == ResolveSpec => []NoDominantFieldLost
<1>1. FlattenInv => NoDominantFieldLost
  BY DominantFromInv
<1> QED
  BY FlattenInvariance, <1>1, PTL
-----------------------------------------------------------------------------
LEMMA Smallest ==
  ASSUME NEW T \in SUBSET Nat, T # {}
  PROVE  \E c \in T : \A d \in T : c <= d
<1>1. PICK c \in T : \A d \in T : ~(<<d, c>> \in OpToRel(<, Nat))
  <2>1. T \subseteq Nat
    OBVIOUS
  <2> QED
    BY <2>1, NatLessThanWellFounded, WFMin, Zenon
<1>2. \A d \in T : (<<d, c>> \in OpToRel(<, Nat)) <=> d < c
  BY DEF OpToRel
<1>3. \A d \in T : ~(d < c)
  BY <1>1, <1>2, Zenon
<1>4. c \in Nat /\ \A d \in T : d \in Nat
  OBVIOUS
<1>5. \A d \in T : c <= d
  BY <1>3, <1>4
<1> QED
  BY <1>5

(* Some field of a wire name is weaker than no other. *)
LEMMA SomeStands ==
  ASSUME NEW F, NEW S, Ranked(F, S), NEW j \in S
  PROVE  \E g \in S : /\ F[g].wire = F[j].wire
                      /\ \A t \in S : F[t].wire = F[j].wire => NotWeaker(F[g], F[t])
<1> DEFINE R == {t \in S : F[t].wire = F[j].wire}
           D == {F[t].depth : t \in R}
<1>1. j \in R /\ \A t \in R : t \in S /\ F[t].wire = F[j].wire /\ F[t].depth \in Nat /\ F[t].tagged \in BOOLEAN
  BY DEF Ranked
<1>2. D \in SUBSET Nat /\ D # {} /\ \A t \in R : F[t].depth \in D
  <2> HIDE DEF R
  <2> QED
    BY <1>1
<1>3. PICK d \in D : \A c \in D : d <= c
  <2> HIDE DEF D
  <2> QED
    BY <1>2, Smallest
<1>4. PICK g \in R : F[g].depth = d
  OBVIOUS
<1>5. \A t \in R : F[g].depth <= F[t].depth
  BY <1>2, <1>3, <1>4
<1> HIDE DEF R, D
<1>6. CASE \E x \in R : F[x].depth = F[g].depth /\ F[x].tagged
  <2>1. PICK x \in R : F[x].depth = F[g].depth /\ F[x].tagged
    BY <1>6
  <2>2. \A t \in R : NotWeaker(F[x], F[t])
    BY <1>1, <1>5, <2>1 DEF NotWeaker
  <2> QED
    BY <1>1, <2>1, <2>2 DEF R
<1>7. CASE ~ \E x \in R : F[x].depth = F[g].depth /\ F[x].tagged
  <2>1. \A t \in R : NotWeaker(F[g], F[t])
    BY <1>1, <1>4, <1>5, <1>7 DEF NotWeaker
  <2> QED
    BY <1>1, <1>4, <2>1 DEF R
<1> QED
  BY <1>6, <1>7

(* A field that does not dominate has another of its name that is weaker   *)
(* than none.                                                              *)
LEMMA StandingRival ==
  ASSUME NEW F, NEW S, Ranked(F, S), NEW j \in S, j \notin Dominant(F, S)
  PROVE  \E g \in S : /\ g # j /\ F[g].wire = F[j].wire
                      /\ \A t \in S : F[t].wire = F[j].wire => NotWeaker(F[g], F[t])
<1>1. PICK g \in S : /\ F[g].wire = F[j].wire
                     /\ \A t \in S : F[t].wire = F[j].wire => NotWeaker(F[g], F[t])
  BY SomeStands
<1>2. PICK x \in S : x # j /\ NotWeaker(F[x], F[j])
  BY Rivalled
<1>3. CASE g = j
  <2>1. F[x].wire = F[j].wire
    BY <1>2 DEF NotWeaker
  <2>2. ASSUME NEW t \in S, F[t].wire = F[j].wire PROVE NotWeaker(F[x], F[t])
    <3>1. NotWeaker(F[j], F[t])
      BY <1>1, <1>3, <2>2
    <3> QED
      BY <1>2, <2>1, <2>2, <3>1, Comparison DEF Ranked
  <2> QED
    BY <1>2, <2>1, <2>2
<1> QED
  BY <1>1, <1>3
-----------------------------------------------------------------------------
(* Paths cut and joined. *)
Suffix(q, k) == [l \in 1 .. Len(q) - k + 1 |-> q[k + l - 1]]

LEMMA PathSuffix ==
  ASSUME NEW s, NEW q \in Paths(s), NEW k \in 1 .. Len(q)
  PROVE  /\ Suffix(q, k) \in Paths(q[k]) /\ Len(Suffix(q, k)) = Len(q) - k + 1
         /\ Last(Suffix(q, k)) = Last(q)
<1>1. /\ Len(q) \in Nat \ {0} /\ q \in [1 .. Len(q) -> Struct] /\ Last(q) = q[Len(q)]
      /\ \A a, b \in 1 .. Len(q) : q[a] = q[b] => a = b
      /\ \A l \in 1 .. Len(q) - 1 : Embeds(q, l) # {}
  BY PathFacts
<1> DEFINE n == Len(q) - k + 1
           t == [l \in 1 .. n |-> q[k + l - 1]]
<1>2. /\ n \in Nat \ {0} /\ 1 \in 1 .. n /\ n \in 1 .. n /\ k + 1 - 1 = k /\ k + n - 1 = Len(q)
      /\ \A l \in 1 .. n : k + l - 1 \in 1 .. Len(q)
      /\ \A l \in 1 .. n - 1 : /\ l \in 1 .. n /\ l + 1 \in 1 .. n /\ k + l - 1 \in 1 .. Len(q) - 1
                               /\ k + (l + 1) - 1 = (k + l - 1) + 1
  BY <1>1
<1>3. \A a, b \in 1 .. n : k + a - 1 = k + b - 1 => a = b
  BY <1>1
<1> HIDE DEF n
<1>4. t \in [1 .. n -> Struct] /\ \A l \in 1 .. n : t[l] = q[k + l - 1]
  BY <1>1, <1>2
<1>5. t[1] = q[k] /\ t[n] = q[Len(q)]
  BY <1>2
<1>6. \A a, b \in 1 .. n : t[a] = t[b] => a = b
  BY <1>1, <1>2, <1>3
<1>7. \A l \in 1 .. n - 1 : Embeds(t, l) # {}
  <2> SUFFICES ASSUME NEW l \in 1 .. n - 1 PROVE Embeds(t, l) = Embeds(q, k + l - 1)
    BY <1>1, <1>2
  <2>1. t[l] = q[k + l - 1] /\ t[l + 1] = q[(k + l - 1) + 1]
    BY <1>2, <1>4
  <2> QED
    BY <2>1 DEF Embeds
<1> HIDE DEF t
<1>8. t \in Paths(t[1]) /\ Len(t) = n
  BY <1>2, <1>4, <1>6, <1>7, MakesPath
<1>9. Last(t) = t[n]
  BY <1>8 DEF Last
<1> QED
  BY <1>1, <1>5, <1>8, <1>9 DEF n, t, Suffix

(* After b, u leaves what q has passed at a. *)
LeavesAt(q, a, u, b) ==
  u[b] = q[a] /\ \A c \in 1 .. a : \A d \in b + 1 .. Len(u) : q[c] # u[d]

LEMMA PathJoin ==
  ASSUME NEW s, NEW q \in Paths(s), NEW r, NEW u \in Paths(r),
         NEW a \in 1 .. Len(q), NEW b \in 1 .. Len(u), LeavesAt(q, a, u, b)
  PROVE  \E v \in Paths(s) : Len(v) = a + (Len(u) - b) /\ Last(v) = Last(u)
<1>1. /\ Len(q) \in Nat \ {0} /\ q \in [1 .. Len(q) -> Struct] /\ q[1] = s
      /\ \A c, d \in 1 .. Len(q) : q[c] = q[d] => c = d
      /\ \A l \in 1 .. Len(q) - 1 : Embeds(q, l) # {}
  BY PathFacts
<1>2. /\ Len(u) \in Nat \ {0} /\ u \in [1 .. Len(u) -> Struct] /\ Last(u) = u[Len(u)]
      /\ \A c, d \in 1 .. Len(u) : u[c] = u[d] => c = d
      /\ \A l \in 1 .. Len(u) - 1 : Embeds(u, l) # {}
  BY PathFacts
<1>2a. u[b] = q[a] /\ \A c \in 1 .. a : \A d \in b + 1 .. Len(u) : q[c] # u[d]
  BY DEF LeavesAt
<1> DEFINE n == a + (Len(u) - b)
           v == [l \in 1 .. n |-> IF l <= a THEN q[l] ELSE u[b + (l - a)]]
<1>3. /\ n \in Nat \ {0} /\ a \in Nat \ {0} /\ 1 <= a /\ 1 \in 1 .. n /\ n \in 1 .. n
      /\ \A l \in 1 .. n : IF l <= a THEN l \in 1 .. a /\ l \in 1 .. Len(q)
                                     ELSE b + (l - a) \in b + 1 .. Len(u) /\ b + (l - a) \in 1 .. Len(u)
      /\ \A c, d \in 1 .. n : b + (c - a) = b + (d - a) => c = d
      /\ n <= a => n = a /\ b = Len(u)
      /\ ~(n <= a) => b + (n - a) = Len(u)
  <2>1. n \in Nat \ {0} /\ a \in Nat \ {0} /\ 1 <= a /\ 1 \in 1 .. n /\ n \in 1 .. n
    BY <1>1, <1>2
  <2>2. \A l \in 1 .. n : l <= a => l \in 1 .. a /\ l \in 1 .. Len(q)
    BY <1>1, <1>2
  <2>3. \A l \in 1 .. n : ~(l <= a) => b + (l - a) \in b + 1 .. Len(u) /\ b + (l - a) \in 1 .. Len(u)
    BY <1>1, <1>2
  <2>4. \A c, d \in 1 .. n : b + (c - a) = b + (d - a) => c = d
    BY <1>1, <1>2
  <2>5. b + (n - a) = Len(u)
    BY <1>1, <1>2
  <2>6. ASSUME n <= a PROVE n = a /\ b = Len(u)
    <3>1. a \in Int /\ b \in Int /\ Len(u) \in Int /\ b <= Len(u)
      BY <1>1, <1>2
    <3>2. a + (Len(u) - b) <= a
      BY <2>6
    <3>3. b = Len(u)
      BY <3>1, <3>2
    <3> QED
      BY <3>1, <3>3
  <2> HIDE DEF n
  <2> QED
    BY <2>1, <2>2, <2>3, <2>4, <2>5, <2>6
<1>4. ASSUME NEW l \in 1 .. n - 1
      PROVE  /\ l \in 1 .. n /\ l + 1 \in 1 .. n
             /\ l < a => l <= a /\ l + 1 <= a /\ l \in 1 .. Len(q) - 1
             /\ l = a => l <= a /\ ~(l + 1 <= a) /\ b + ((l + 1) - a) = b + 1 /\ b \in 1 .. Len(u) - 1
             /\ l > a => /\ ~(l <= a) /\ ~(l + 1 <= a) /\ b + ((l + 1) - a) = (b + (l - a)) + 1
                         /\ b + (l - a) \in 1 .. Len(u) - 1
             /\ l < a \/ l = a \/ l > a
  <2>1. l \in 1 .. n /\ l + 1 \in 1 .. n /\ (l < a \/ l = a \/ l > a)
    <3> HIDE DEF n
    <3> QED
      BY <1>3
  <2>2. l < a => l <= a /\ l + 1 <= a /\ l \in 1 .. Len(q) - 1
    BY <1>1, <1>2
  <2>3. l = a => l <= a /\ ~(l + 1 <= a) /\ b + ((l + 1) - a) = b + 1 /\ b \in 1 .. Len(u) - 1
    BY <1>1, <1>2
  <2>4. l > a => /\ ~(l <= a) /\ ~(l + 1 <= a) /\ b + ((l + 1) - a) = (b + (l - a)) + 1
                 /\ b + (l - a) \in 1 .. Len(u) - 1
    BY <1>1, <1>2
  <2> QED
    BY <2>1, <2>2, <2>3, <2>4
<1> HIDE DEF n
<1>5. /\ v \in [1 .. n -> Struct]
      /\ \A l \in 1 .. n : v[l] = IF l <= a THEN q[l] ELSE u[b + (l - a)]
  BY <1>1, <1>2, <1>3
<1>6. v[1] = s
  BY <1>1, <1>3
<1>7. v[n] = u[Len(u)]
  BY <1>2a, <1>3
<1>8. \A c, d \in 1 .. n : v[c] = v[d] => c = d
  BY <1>1, <1>2, <1>2a, <1>3, <1>5
<1>9. \A l \in 1 .. n - 1 : Embeds(v, l) # {}
  <2> SUFFICES ASSUME NEW l \in 1 .. n - 1 PROVE Embeds(v, l) # {}
    OBVIOUS
  <2> HIDE DEF v
  <2>1. CASE l < a
    <3>1. v[l] = q[l] /\ v[l + 1] = q[l + 1]
      BY <1>4, <1>5, <2>1
    <3> QED
      BY <1>1, <1>4, <2>1, <3>1 DEF Embeds
  <2>2. CASE l = a
    <3>1. v[l] = u[b] /\ v[l + 1] = u[b + 1]
      BY <1>2a, <1>4, <1>5, <2>2
    <3> QED
      BY <1>2, <1>4, <2>2, <3>1 DEF Embeds
  <2>3. CASE l > a
    <3>1. v[l] = u[b + (l - a)] /\ v[l + 1] = u[(b + (l - a)) + 1]
      BY <1>4, <1>5, <2>3
    <3>2. Embeds(v, l) = Embeds(u, b + (l - a))
      BY <3>1 DEF Embeds
    <3> QED
      BY <1>2, <1>4, <2>3, <3>2
  <2> QED
    BY <1>4, <2>1, <2>2, <2>3
<1> HIDE DEF v
<1>10. v \in Paths(v[1]) /\ Len(v) = n
  BY <1>3, <1>5, <1>8, <1>9, MakesPath
<1>11. Last(v) = v[n]
  BY <1>10 DEF Last
<1> QED
  BY <1>2, <1>6, <1>7, <1>10, <1>11 DEF n

(* What is below a struct on a path is below the path's first, no deeper   *)
(* than through it: the two paths are joined where they last meet.         *)
LEMMA Shortcut ==
  ASSUME NEW s, NEW q \in Paths(s), NEW k \in 1 .. Len(q), NEW u \in Paths(q[k])
  PROVE  \E v \in Paths(s) : Last(v) = Last(u) /\ Len(v) <= (k - 1) + Len(u)
<1> DEFINE T == {c \in Nat : c < Len(u) /\ \E a \in 1 .. k : u[Len(u) - c] = q[a]}
<1>1. Len(q) \in Nat \ {0} /\ Len(u) \in Nat \ {0} /\ u[1] = q[k]
  BY PathFacts
<1>2. Len(u) - 1 \in T
  <2>1. Len(u) - 1 \in Nat /\ Len(u) - 1 < Len(u) /\ Len(u) - (Len(u) - 1) = 1 /\ k \in 1 .. k
    BY <1>1
  <2>2. u[Len(u) - (Len(u) - 1)] = q[k]
    BY <1>1, <2>1
  <2> QED
    BY <2>1, <2>2
<1>3. PICK c \in T : \A d \in T : c <= d
  <2>1. T \in SUBSET Nat /\ T # {}
    BY <1>2
  <2> HIDE DEF T
  <2> QED
    BY <2>1, Smallest
<1>4. c \in Nat /\ c < Len(u)
  OBVIOUS
<1>5. PICK a \in 1 .. k : u[Len(u) - c] = q[a]
  OBVIOUS
<1>6a. PICK b \in 1 .. Len(u) : b = Len(u) - c
  BY <1>1, <1>4
<1>6. /\ a \in 1 .. Len(q) /\ Len(u) - b = c
      /\ a + c <= (k - 1) + Len(u) /\ \A e \in 1 .. a : e \in 1 .. k
  BY <1>1, <1>4, <1>6a
<1>7. ASSUME NEW e \in 1 .. a, NEW d \in b + 1 .. Len(u) PROVE q[e] # u[d]
  <2>1. Len(u) - d \in Nat /\ Len(u) - d < Len(u) /\ Len(u) - (Len(u) - d) = d /\ ~(c <= Len(u) - d)
    BY <1>1, <1>4, <1>6a
  <2>2. Len(u) - d \notin T
    <3> HIDE DEF T
    <3> QED
      BY <1>3, <2>1
  <2> QED
    BY <1>6, <2>1, <2>2
<1> HIDE DEF T
<1>8. PICK v \in Paths(s) : Len(v) = a + (Len(u) - b) /\ Last(v) = Last(u)
  <2>1. LeavesAt(q, a, u, b)
    BY <1>5, <1>6a, <1>7 DEF LeavesAt
  <2> QED
    <3>1. \A r : \A w \in Paths(r) : \A x \in 1 .. Len(q) : \A y \in 1 .. Len(w) :
            LeavesAt(q, x, w, y) => \E v \in Paths(s) : Len(v) = x + (Len(w) - y) /\ Last(v) = Last(w)
      BY PathJoin
    <3>2. a \in 1 .. Len(q)
      BY <1>6
    <3>3. \A w \in Paths(q[k]) : \A x \in 1 .. Len(q) : \A y \in 1 .. Len(w) :
            LeavesAt(q, x, w, y) => \E v \in Paths(s) : Len(v) = x + (Len(w) - y) /\ Last(v) = Last(w)
      BY <3>1
    <3>4. \A x \in 1 .. Len(q) : \A y \in 1 .. Len(u) :
            LeavesAt(q, x, u, y) => \E v \in Paths(s) : Len(v) = x + (Len(u) - y) /\ Last(v) = Last(u)
      BY <3>3
    <3> QED
      BY <2>1, <3>2, <3>4
<1> QED
  BY <1>6, <1>8
-----------------------------------------------------------------------------
(* f is weaker than no field of its name. *)
Unbeaten(f, S) == \A t \in S : t.wire = f.wire => NotWeaker(f, t)

(* A field unbeaten over the whole is so below each struct on its path.    *)
LEMMA StandsBelow ==
  ASSUME decl \in Decls, NEW s, NEW q \in Paths(s), NEW x \in OwnFields(Last(q)), NEW k \in 1 .. Len(q),
         Unbeaten(FieldAt(q, x, 1), AllFields(s))
  PROVE  LET u == Suffix(q, k)
             S == AllFields(q[k])
         IN /\ u \in Paths(q[k]) /\ x \in OwnFields(Last(u))
            /\ FieldAt(u, x, 1).wire = FieldAt(q, x, 1).wire
            /\ FieldAt(u, x, 1) \in Standing(Self(S), S, FieldAt(q, x, 1).wire)
<1> DEFINE u == Suffix(q, k)
           S == AllFields(q[k])
           g == FieldAt(q, x, 1)
           h == FieldAt(u, x, 1)
<1>1. u \in Paths(q[k]) /\ Len(u) = Len(q) - k + 1 /\ Last(u) = Last(q)
  BY PathSuffix
<1>2. x \in OwnFields(Last(u)) /\ Len(q) \in Nat \ {0} /\ Len(u) \in Nat \ {0}
  BY <1>1, PathFacts
<1> HIDE DEF u
<1>3. h \in S /\ Ranked(Self(S), S) /\ \A f \in S : Self(S)[f] = f
  BY <1>1, <1>2, BelowFacts
<1>4. h.wire = g.wire /\ h.tagged = g.tagged /\ h.tagged \in BOOLEAN
  BY <1>2 DEF FieldAt
<1>5. g.depth = Len(q) - 1 /\ h.depth = Len(q) - k
  <2>1. g.depth = Len(q) - 1 /\ h.depth = Len(u) - 1
    BY DEF FieldAt
  <2> HIDE DEF g, h
  <2> QED
    BY <1>1, <1>2, <2>1
<1>6. ASSUME NEW f \in S, f.wire = g.wire PROVE NotWeaker(h, f)
  <2>1. PICK w \in Paths(q[k]) : \E m \in OwnFields(Last(w)) : f = FieldAt(w, m, 1)
    BY BelowFacts
  <2>2. PICK m \in OwnFields(Last(w)) : f = FieldAt(w, m, 1)
    BY <2>1
  <2>3. PICK v \in Paths(s) : Last(v) = Last(w) /\ Len(v) <= (k - 1) + Len(w)
    BY Shortcut
  <2>4. Len(v) \in Nat /\ Len(w) \in Nat
    BY PathFacts
  <2> DEFINE t == FieldAt(v, m, 1)
  <2>5. t \in AllFields(s)
    BY <2>2, <2>3 DEF AllFields
  <2>6. t.wire = f.wire /\ t.tagged = f.tagged /\ t.depth = Len(v) - 1 /\ f.depth = Len(w) - 1
    BY <2>2 DEF FieldAt
  <2> HIDE DEF t, g, h
  <2>7. NotWeaker(g, t)
    BY <1>6, <2>5, <2>6 DEF g, Unbeaten
  <2>8. /\ g.depth < t.depth => h.depth < f.depth
        /\ g.depth = t.depth => h.depth <= f.depth
        /\ g.depth < t.depth \/ (g.depth = t.depth /\ (h.tagged \/ ~f.tagged))
        /\ h.depth \in Int /\ f.depth \in Int
    <3>1. g.depth < t.depth \/ (g.depth = t.depth /\ (h.tagged \/ ~f.tagged))
      BY <1>4, <2>6, <2>7 DEF NotWeaker
    <3>2. /\ Len(q) - 1 < Len(v) - 1 => Len(q) - k < Len(w) - 1
          /\ Len(q) - 1 = Len(v) - 1 => Len(q) - k <= Len(w) - 1
          /\ Len(q) - k \in Int /\ Len(w) - 1 \in Int
      BY <1>2, <2>3, <2>4
    <3> QED
      BY <1>5, <2>6, <3>1, <3>2
  <2>9. h.wire = f.wire
    BY <1>4, <1>6
  <2> QED
    BY <2>8, <2>9 DEF NotWeaker
<1>7. h \in Standing(Self(S), S, g.wire)
  <2> HIDE DEF h, g, S
  <2> QED
    BY <1>3, <1>4, <1>6, StandingIff
<1> QED
  BY <1>1, <1>2, <1>4, <1>7 DEF u

(* A field that stands over the whole and is lost on the way up leaves a   *)
(* tie at an embedded struct.                                              *)
LEMMA LostToATie ==
  ASSUME decl \in Decls, NEW q \in Paths(Root), NEW x \in OwnFields(Last(q)), Lost(q, x),
         Unbeaten(FieldAt(q, x, 1), AllFields(Root))
  PROVE  \E s \in Embedded : Ambiguous(s)
<1> DEFINE g == FieldAt(q, x, 1)
           n == g.wire
<1>1. PICK k \in 2 .. Len(q) : \E r \in Paths(Root) : \E y \in OwnFields(Last(r)) :
        /\ k <= Len(r) /\ \A l \in 1 .. k : r[l] = q[l]
        /\ <<r, y>> # <<q, x>> /\ NotWeaker(FieldAt(r, y, 1), g)
  BY DEF Lost
<1>2. PICK r \in Paths(Root) : \E y \in OwnFields(Last(r)) :
        /\ k <= Len(r) /\ \A l \in 1 .. k : r[l] = q[l]
        /\ <<r, y>> # <<q, x>> /\ NotWeaker(FieldAt(r, y, 1), g)
  BY <1>1
<1>3. PICK y \in OwnFields(Last(r)) :
        /\ k <= Len(r) /\ \A l \in 1 .. k : r[l] = q[l]
        /\ <<r, y>> # <<q, x>> /\ NotWeaker(FieldAt(r, y, 1), g)
  BY <1>2
<1> DEFINE h == FieldAt(r, y, 1)
           s == q[k]
           u == Suffix(q, k)
           v == Suffix(r, k)
           S == AllFields(s)
<1>4. /\ Len(q) \in Nat \ {0} /\ Len(r) \in Nat \ {0} /\ k \in 1 .. Len(q) /\ k \in 1 .. Len(r)
      /\ k \in 1 .. k /\ k > 1
  BY <1>3, PathFacts
<1>5. s \in Embedded /\ r[k] = s
  <2> DEFINE t == [l \in 1 .. k |-> q[l]]
  <2>1. t \in Paths(Root) /\ Len(t) = k /\ Last(t) = s
    BY <1>4, PathPrefix
  <2> HIDE DEF t
  <2>2. s \in Embedded
    BY <1>4, <2>1 DEF Embedded
  <2> QED
    BY <1>3, <1>4, <2>2
<1>6. h.wire = n /\ Unbeaten(h, AllFields(Root))
  <2>1. /\ \A f \in AllFields(Root) : f \in Field
        /\ g \in AllFields(Root) /\ h \in AllFields(Root)
    BY BelowFacts
  <2> HIDE DEF g, h
  <2>2. h.wire = n /\ NotWeaker(h, g)
    BY <1>3 DEF NotWeaker, h
  <2> SUFFICES ASSUME NEW t \in AllFields(Root), t.wire = n PROVE NotWeaker(h, t)
    BY <2>2 DEF Unbeaten
  <2>3. NotWeaker(g, t)
    BY DEF g, Unbeaten
  <2>4. /\ g.depth \in Nat /\ h.depth \in Nat /\ t.depth \in Nat
        /\ g.tagged \in BOOLEAN /\ h.tagged \in BOOLEAN /\ t.tagged \in BOOLEAN
    BY <2>1 DEF Field
  <2> QED
    BY <2>2, <2>3, <2>4, Comparison
<1>7. /\ u \in Paths(s) /\ x \in OwnFields(Last(u)) /\ FieldAt(u, x, 1).wire = n
      /\ FieldAt(u, x, 1) \in Standing(Self(S), S, n)
  <2> HIDE DEF n, s
  <2>1. /\ u \in Paths(q[k]) /\ x \in OwnFields(Last(u)) /\ FieldAt(u, x, 1).wire = g.wire
        /\ FieldAt(u, x, 1) \in Standing(Self(AllFields(q[k])), AllFields(q[k]), g.wire)
    BY <1>4, StandsBelow
  <2> HIDE DEF u, g
  <2> QED
    BY <2>1 DEF s, n
<1>8. /\ v \in Paths(s) /\ y \in OwnFields(Last(v)) /\ FieldAt(v, y, 1).wire = n
      /\ FieldAt(v, y, 1) \in Standing(Self(S), S, n)
  <2>1. /\ v \in Paths(r[k]) /\ y \in OwnFields(Last(v)) /\ FieldAt(v, y, 1).wire = h.wire
        /\ FieldAt(v, y, 1) \in Standing(Self(AllFields(r[k])), AllFields(r[k]), h.wire)
    BY <1>4, <1>6, StandsBelow
  <2> HIDE DEF v, h
  <2> QED
    BY <1>5, <1>6, <2>1
<1>9. FieldAt(u, x, 1) # FieldAt(v, y, 1)
  <2> SUFFICES ASSUME FieldAt(u, x, 1) = FieldAt(v, y, 1) PROVE FALSE
    OBVIOUS
  <2>1. u = v /\ x = y
    <3> HIDE DEF u, v
    <3> QED
      BY <1>7, <1>8, FieldsDiffer
  <2>2. Len(u) = Len(q) - k + 1 /\ Len(v) = Len(r) - k + 1
    BY <1>4, PathSuffix
  <2>3. Len(q) = Len(r)
    <3> HIDE DEF u, v
    <3> QED
      BY <1>4, <2>1, <2>2
  <2>4. ASSUME NEW l \in 1 .. Len(q) PROVE q[l] = r[l]
    <3>1. CASE l <= k
      <4>1. l \in 1 .. k
        BY <1>4, <3>1
      <4> QED
        BY <1>3, <4>1
    <3>2. CASE ~(l <= k)
      <4>1. /\ l - k + 1 \in 1 .. Len(q) - k + 1 /\ l - k + 1 \in 1 .. Len(r) - k + 1
            /\ k + (l - k + 1) - 1 = l
        BY <1>4, <2>3, <3>2
      <4>2. u[l - k + 1] = q[l] /\ v[l - k + 1] = r[l]
        BY <4>1 DEF Suffix
      <4> HIDE DEF u, v
      <4> QED
        BY <2>1, <4>2
    <3> QED
      BY <3>1, <3>2
  <2>5. q \in Seq(Struct) /\ r \in Seq(Struct)
    BY PathFacts
  <2>6. q = r
    BY <1>4, <2>3, <2>4, <2>5, SeqEqual
  <2> QED
    BY <1>3, <2>1, <2>6
<1>10. n \in {f.wire : f \in S}
  <2>1. FieldAt(u, x, 1) \in S
    <3> HIDE DEF u, n
    <3> QED
      BY <1>7 DEF AllFields
  <2> HIDE DEF u, n, S
  <2> QED
    BY <1>7, <2>1
<1>11. Ambiguous(s)
  <2> HIDE DEF u, v, n, s
  <2> QED
    BY <1>7, <1>8, <1>9, <1>10 DEF Ambiguous
<1> QED
  BY <1>5, <1>11

(* Where no embedded struct has a tie of its own, wiregen keeps exactly    *)
(* the fields the documented rule keeps: a field it keeps that the rule    *)
(* drops has a rival that was lost on the way up, to a tie.                *)
THEOREM ExactResolved == ResolveSpec => []ExactWithoutNestedTies
<1>1. FlattenInv => NoDominantFieldLost
  BY DominantFromInv
<1>2. ASSUME FlattenInv PROVE ExactWithoutNestedTies
  <2> SUFFICES ASSUME Done, ~(\E s \in Embedded : Ambiguous(s)),
                      NEW f \in Range(result), f \notin DominantFields(Root)
               PROVE  FALSE
    BY <1>1, <1>2 DEF ExactWithoutNestedTies, NoDominantFieldLost, Resolved
  <2> DEFINE S == AllFields(Root)
             F == Self(S)
  <2>1. /\ decl \in Decls /\ IInv /\ loop = "done"
        /\ \A a, b \in DOMAIN raw : raw[a] = raw[b] => a = b
        /\ \A j \in DOMAIN raw : raw[j] \in S
        /\ \A p \in Paths(Root) : \A m \in OwnFields(Last(p)) :
             (\E j \in DOMAIN raw : raw[j] = FieldAt(p, m, 1)) \/ Lost(p, m)
    BY <1>2, AtDone
  <2>2. /\ Ranked(F, S) /\ \A h \in S : F[h] = h
        /\ \A h \in S : \E p \in Paths(Root) : \E m \in OwnFields(Last(p)) : h = FieldAt(p, m, 1)
    BY <2>1, BelowFacts
  <2>3. Ranked(raw, DOMAIN raw) /\ \A l \in DOMAIN result : \E j \in Dominant(raw, DOMAIN raw) : result[l] = raw[j]
    BY <2>1, Deduplicated
  <2>4. PICK j \in Dominant(raw, DOMAIN raw) : f = raw[j]
    BY <2>3 DEF Range
  <2>5. j \in DOMAIN raw /\ f \in S /\ f \notin Dominant(F, S)
    BY <2>1, <2>4 DEF Dominant, DominantFields
  <2>6. PICK g \in S : g # f /\ g.wire = f.wire /\ \A t \in S : t.wire = f.wire => NotWeaker(g, t)
    <3>1. \E g \in S : /\ g # f /\ F[g].wire = F[f].wire
                       /\ \A t \in S : F[t].wire = F[f].wire => NotWeaker(F[g], F[t])
      <4> HIDE DEF S, F
      <4> QED
        BY <2>2, <2>5, StandingRival
    <3> HIDE DEF S, F
    <3> QED
      BY <2>2, <2>5, <3>1
  <2>7. NotWeaker(g, f)
    BY <2>5, <2>6
  <2>8. ~ \E y \in DOMAIN raw : raw[y] = g
    <3> SUFFICES ASSUME NEW y \in DOMAIN raw, raw[y] = g PROVE FALSE
      OBVIOUS
    <3>1. y = j
      BY <2>3, <2>4, <2>7, Unrivalled
    <3> QED
      BY <2>4, <2>6, <3>1
  <2>9. PICK q \in Paths(Root) : \E x \in OwnFields(Last(q)) : g = FieldAt(q, x, 1)
    BY <2>2
  <2>10. PICK x \in OwnFields(Last(q)) : g = FieldAt(q, x, 1)
    BY <2>9
  <2>11. Lost(q, x)
    BY <2>1, <2>8, <2>10
  <2>12. Unbeaten(FieldAt(q, x, 1), AllFields(Root))
    BY <2>6, <2>10 DEF Unbeaten
  <2> QED
    BY <2>1, <2>11, <2>12, LostToATie
<1> QED
  BY FlattenInvariance, <1>2, PTL
=============================================================================
