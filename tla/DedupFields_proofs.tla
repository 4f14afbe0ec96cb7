------------------------- MODULE DedupFields_proofs -------------------------
(***************************************************************************)
(* dedupJSONFields computes encoding/json's dominance rule for every list  *)
(* of promoted fields.  The induction over the list is the induction over  *)
(* the loop: BestInv says that after the indices compared so far each wire *)
(* name's entry holds a standing field of those, and counts 1 exactly when *)
(* that field stands alone.                                                *)
(***************************************************************************)
EXTENDS DedupFields, SequenceTheorems, TLAPS

(* How one more field changes what stands of a wire name.                  *)
LEMMA StandingOther ==
  ASSUME NEW F, NEW S, NEW x, NEW n, F[x].wire # n
  PROVE  Standing(F, S \cup {x}, n) = Standing(F, S, n)
<1>1. Rivals(F, S \cup {x}, n) = Rivals(F, S, n)
  BY DEF Rivals
<1> QED
  BY <1>1 DEF Standing

(* The first field of a wire name stands alone. *)
LEMMA StandingFirst ==
  ASSUME NEW F, NEW S, NEW x, F[x].depth \in Nat, \A j \in S : F[j].wire # F[x].wire
  PROVE  Standing(F, S \cup {x}, F[x].wire) = {x}
<1>1. Rivals(F, S \cup {x}, F[x].wire) = {x}
  BY DEF Rivals
<1>2. Shallowest(F, {x}) = {x}
  BY DEF Shallowest
<1>3. TaggedFirst(F, {x}) = {x}
  BY DEF TaggedFirst
<1> QED
  BY <1>1, <1>2, <1>3 DEF Standing

-----------------------------------------------------------------------------
(* The list the loops read is a list of fields. *)
LEMMA RawTypes ==
  ASSUME TypeOK
  PROVE  /\ DOMAIN raw = 1 .. Len(raw) /\ Len(raw) \in Nat
         /\ \A j \in 1 .. Len(raw) : raw[j] \in Field /\ raw[j].wire \in Wire
                                    /\ raw[j].depth \in Nat /\ raw[j].tagged \in BOOLEAN
<1>1. raw \in Seq(Field)
  BY DEF TypeOK
<1>2. DOMAIN raw = 1 .. Len(raw) /\ Len(raw) \in Nat
  BY <1>1, LenProperties
<1>3. \A j \in 1 .. Len(raw) : raw[j] \in Field
  BY <1>1, ElementOfSeq
<1> QED
  BY <1>2, <1>3 DEF Field

(* The field that stands after one more index, by depth and by tag. *)
LEMMA StandingNext ==
  ASSUME TypeOK, NEW x \in 1 .. Len(raw),
         NEW c, c \in Standing(raw, 1 .. x - 1, raw[x].wire)
  PROVE  /\ raw[x].depth < raw[c].depth => Standing(raw, 1 .. x, raw[x].wire) = {x}
         /\ raw[x].depth > raw[c].depth =>
              Standing(raw, 1 .. x, raw[x].wire) = Standing(raw, 1 .. x - 1, raw[x].wire)
         /\ raw[x].depth = raw[c].depth =>
              /\ raw[x].tagged /\ ~raw[c].tagged => Standing(raw, 1 .. x, raw[x].wire) = {x}
              /\ ~raw[x].tagged /\ raw[c].tagged =>
                   Standing(raw, 1 .. x, raw[x].wire) = Standing(raw, 1 .. x - 1, raw[x].wire)
              /\ (raw[x].tagged <=> raw[c].tagged) =>
                   Standing(raw, 1 .. x, raw[x].wire)
                     = Standing(raw, 1 .. x - 1, raw[x].wire) \cup {x}
<1> DEFINE S == 1 .. x - 1
           n == raw[x].wire
           old == Standing(raw, S, n)
           new == Standing(raw, 1 .. x, n)
           R == Rivals(raw, S, n)
           L == Shallowest(raw, R)
           RR == Rivals(raw, 1 .. x, n)
           LL == Shallowest(raw, RR)
<1>0. /\ x \notin S /\ 1 .. x = S \cup {x}
      /\ \A j \in S \cup {x} : raw[j].depth \in Nat /\ raw[j].tagged \in BOOLEAN
  BY RawTypes
<1>1. RR = R \cup {x} /\ x \notin R /\ R \subseteq S
  BY <1>0 DEF Rivals
<1>2. \A j \in R \cup {x} : raw[j].depth \in Nat /\ raw[j].tagged \in BOOLEAN
  BY <1>0, <1>1
<1>3. c \in L /\ L \subseteq R /\ \A m \in R : raw[c].depth <= raw[m].depth
  BY DEF Standing, TaggedFirst, Shallowest
<1>4. /\ raw[x].depth < raw[c].depth => LL = {x}
      /\ raw[x].depth > raw[c].depth => LL = L
      /\ raw[x].depth = raw[c].depth => LL = L \cup {x}
  <2>1. L = {j \in R : \A m \in R : raw[j].depth <= raw[m].depth}
    BY DEF Shallowest
  <2>2. LL = {j \in R \cup {x} : \A m \in R \cup {x} : raw[j].depth <= raw[m].depth}
    BY <1>1 DEF Shallowest
  <2> HIDE DEF R, RR, L, LL, S, n
  <2>3. c \in R /\ c \in R \cup {x}
    BY <1>3
  <2>4. CASE raw[x].depth < raw[c].depth
    BY <1>2, <1>3, <2>2, <2>3, <2>4
  <2>5. CASE raw[x].depth > raw[c].depth
    BY <1>1, <1>2, <1>3, <2>1, <2>2, <2>3, <2>5
  <2>6. CASE raw[x].depth = raw[c].depth
    BY <1>1, <1>2, <1>3, <2>1, <2>2, <2>3, <2>6
  <2> QED
    BY <1>2, <2>3, <2>4, <2>5, <2>6
<1>5. raw[c].tagged \/ \A m \in L : ~raw[m].tagged
  BY DEF Standing, TaggedFirst
<1>6. old = TaggedFirst(raw, L) /\ new = TaggedFirst(raw, LL)
  BY DEF Standing
<1>7. TaggedFirst(raw, {x}) = {x}
  BY DEF TaggedFirst
<1>8. x \notin L
  BY <1>1, <1>3
<1>9. /\ raw[x].tagged /\ ~raw[c].tagged => TaggedFirst(raw, L \cup {x}) = {x}
      /\ ~raw[x].tagged /\ raw[c].tagged => TaggedFirst(raw, L \cup {x}) = TaggedFirst(raw, L)
      /\ (raw[x].tagged <=> raw[c].tagged) =>
           TaggedFirst(raw, L \cup {x}) = TaggedFirst(raw, L) \cup {x}
  <2> HIDE DEF L
  <2> QED
    BY <1>3, <1>5, <1>8, ZenonT(60) DEF TaggedFirst
<1> SUFFICES /\ raw[x].depth < raw[c].depth => new = {x}
             /\ raw[x].depth > raw[c].depth => new = old
             /\ raw[x].depth = raw[c].depth =>
                  /\ raw[x].tagged /\ ~raw[c].tagged => new = {x}
                  /\ ~raw[x].tagged /\ raw[c].tagged => new = old
                  /\ (raw[x].tagged <=> raw[c].tagged) => new = old \cup {x}
  OBVIOUS
<1> QED
  <2> HIDE DEF L, LL, R, RR, old, new
  <2> QED
    BY <1>4, <1>6, <1>7, <1>9

(* The loop invariant holds before the first iteration. *)
LEMMA InitInv == Init => IInv
<1> SUFFICES ASSUME Init PROVE IInv
  OBVIOUS
<1>1. /\ raw \in Seq(Field) /\ Len(raw) \in Nat /\ << >> \in Seq(Field)
      /\ DOMAIN NoEntries = {} /\ DOMAIN << >> = {}
  BY EmptySeq, LenProperties DEF Init, NoEntries
<1>2. TypeOK
  BY <1>1 DEF Init, TypeOK
<1>3. BestInv /\ EmitInv
  BY <1>1 DEF Init, BestInv, EmitInv, Compared, Met
<1> QED
  BY <1>2, <1>3 DEF IInv

(* The entry Consider leaves for the wire name of the compared field. *)
LEMMA CompareEntry ==
  ASSUME IInv, Compare
  PROVE  LET n == raw[i].wire IN
         /\ best'[n] \in [field : Field, count : Nat \ {0}]
         /\ \E j \in Standing(raw, 1 .. i, n) :
              /\ best'[n].field = raw[j]
              /\ best'[n].count = 1 <=> Standing(raw, 1 .. i, n) = {j}
<1> DEFINE f == raw[i]
           n == f.wire
           old == Standing(raw, 1 .. i - 1, n)
           new == Standing(raw, 1 .. i, n)
<1>0. TypeOK /\ BestInv /\ loop = "best" /\ i \in 1 .. Len(raw) /\ best' = Consider(best, f)
  BY RawTypes DEF IInv, Compare, TypeOK
<1>1. /\ f \in Field /\ i \notin 1 .. i - 1 /\ 1 .. i = (1 .. i - 1) \cup {i}
      /\ \A j \in (1 .. i - 1) \cup {i} :
           raw[j] \in Field /\ raw[j].depth \in Nat /\ raw[j].tagged \in BOOLEAN
  BY <1>0, RawTypes
<1>2. best'[n] = IF n \in DOMAIN best THEN Better(best[n], f) ELSE Entry(f, 1)
  BY <1>0 DEF Consider
<1>3. DOMAIN best = {raw[j].wire : j \in 1 .. i - 1}
  BY <1>0 DEF BestInv, Compared
<1>4. CASE n \notin DOMAIN best
  <2>1. new = {i}
    <3>1. \A j \in 1 .. i - 1 : raw[j].wire # raw[i].wire
      BY <1>3, <1>4
    <3>2. Standing(raw, (1 .. i - 1) \cup {i}, raw[i].wire) = {i}
      BY <1>1, <3>1, StandingFirst
    <3> QED
      BY <1>1, <3>2
  <2> QED
    BY <1>1, <1>2, <1>4, <2>1 DEF Entry
<1>5. CASE n \in DOMAIN best
  <2>1. PICK c \in old : best[n].field = raw[c] /\ (best[n].count = 1 <=> old = {c})
    BY <1>0, <1>5 DEF BestInv, Compared
  <2>2. c \in 1 .. i - 1
    BY <2>1 DEF Standing, TaggedFirst, Shallowest, Rivals
  <2>3. best[n] \in [field : Field, count : Nat \ {0}] /\ best'[n] = Better(best[n], f)
    BY <1>0, <1>2, <1>5 DEF TypeOK
  <2>4. /\ f.depth < raw[c].depth => new = {i}
        /\ f.depth > raw[c].depth => new = old
        /\ f.depth = raw[c].depth =>
             /\ f.tagged /\ ~raw[c].tagged => new = {i}
             /\ ~f.tagged /\ raw[c].tagged => new = old
             /\ (f.tagged <=> raw[c].tagged) => new = old \cup {i}
    <3>1. 1 .. i = (1 .. i - 1) \cup {i}
      BY <1>1
    <3>2. c \in Standing(raw, 1 .. i - 1, raw[i].wire)
      BY <2>1
    <3> HIDE DEF f, n, old, new
    <3>3. /\ raw[i].depth < raw[c].depth => Standing(raw, 1 .. i, raw[i].wire) = {i}
          /\ raw[i].depth > raw[c].depth => Standing(raw, 1 .. i, raw[i].wire) = Standing(raw, 1 .. i - 1, raw[i].wire)
      BY <1>0, <3>2, StandingNext
    <3>4. /\ raw[i].depth = raw[c].depth =>
              /\ raw[i].tagged /\ ~raw[c].tagged => Standing(raw, 1 .. i, raw[i].wire) = {i}
              /\ ~raw[i].tagged /\ raw[c].tagged => Standing(raw, 1 .. i, raw[i].wire) = Standing(raw, 1 .. i - 1, raw[i].wire)
              /\ (raw[i].tagged <=> raw[c].tagged) => Standing(raw, 1 .. i, raw[i].wire) = Standing(raw, 1 .. i - 1, raw[i].wire) \cup {i}
      BY <1>0, <3>2, StandingNext
    <3> QED
      BY <3>3, <3>4 DEF f, n, old, new
  <2>5. CASE f.depth < raw[c].depth
    BY <1>1, <2>1, <2>3, <2>4, <2>5 DEF Better, Entry
  <2>6. CASE f.depth > raw[c].depth
    <3>1. best'[n] = best[n] /\ new = old
      BY <1>1, <2>1, <2>2, <2>3, <2>4, <2>6 DEF Better
    <3> QED
      BY <2>1, <2>3, <3>1
  <2>7. CASE f.depth = raw[c].depth
    <3>0. best'[n] = EqualDepthWinner(best[n], f)
      BY <1>1, <2>1, <2>2, <2>3, <2>7 DEF Better
    <3>1. CASE f.tagged /\ ~raw[c].tagged
      <4>1. best'[n] = Entry(f, 1) /\ new = {i}
        BY <2>1, <2>4, <2>7, <3>0, <3>1 DEF EqualDepthWinner
      <4> QED
        BY <1>1, <4>1 DEF Entry
    <3>2. CASE ~f.tagged /\ raw[c].tagged
      <4>1. best'[n] = best[n] /\ new = old
        BY <2>1, <2>4, <2>7, <3>0, <3>2 DEF EqualDepthWinner
      <4> QED
        BY <2>1, <2>3, <4>1
    <3>3. CASE f.tagged <=> raw[c].tagged
      <4>1. best'[n] = Entry(best[n].field, best[n].count + 1) /\ new = old \cup {i}
        BY <2>1, <2>4, <2>7, <3>0, <3>3 DEF EqualDepthWinner
      <4>2. c \in new /\ new # {c}
        BY <1>1, <2>1, <2>2, <4>1
      <4>3. best'[n].count # 1 /\ best'[n].field = raw[c]
        BY <2>1, <2>3, <4>1 DEF Entry
      <4>4. best'[n] \in [field : Field, count : Nat \ {0}]
        BY <2>3, <4>1 DEF Entry
      <4> QED
        BY <4>2, <4>3, <4>4
    <3> QED
      BY <1>1, <2>2, <3>1, <3>2, <3>3
  <2> QED
    BY <1>1, <2>2, <2>5, <2>6, <2>7
<1> QED
  BY <1>4, <1>5

(* An iteration of the first loop keeps the invariant. *)
LEMMA CompareInv ==
  ASSUME IInv, Compare
  PROVE  IInv'
<1>0. /\ TypeOK /\ BestInv /\ EmitInv /\ loop = "best" /\ i \in 1 .. Len(raw)
      /\ best' = Consider(best, raw[i]) /\ i' = i + 1 /\ loop' = "best"
      /\ raw' = raw /\ seen' = seen /\ result' = result
  BY RawTypes DEF IInv, Compare, TypeOK
<1>1. raw[i] \in Field /\ raw[i].wire \in Wire /\ 1 .. i = (1 .. i - 1) \cup {i}
      /\ 1 .. i' - 1 = 1 .. i
  BY <1>0, RawTypes
<1>2. DOMAIN best' = DOMAIN best \cup {raw[i].wire}
      /\ \A n \in DOMAIN best : n # raw[i].wire => best'[n] = best[n]
  BY <1>0 DEF Consider
<1>3. TypeOK'
  BY <1>0, <1>1, <1>2, CompareEntry, RawTypes DEF TypeOK
<1>4. DOMAIN best' = {raw[j].wire : j \in 1 .. i}
  BY <1>0, <1>1, <1>2 DEF BestInv, Compared
<1>5. ASSUME NEW n \in DOMAIN best'
      PROVE  \E j \in Standing(raw, 1 .. i, n) :
               /\ best'[n].field = raw[j]
               /\ best'[n].count = 1 <=> Standing(raw, 1 .. i, n) = {j}
  <2>1. CASE n = raw[i].wire
    BY <2>1, CompareEntry
  <2>2. CASE n # raw[i].wire
    <3>1. n \in DOMAIN best /\ best'[n] = best[n]
      BY <1>2, <1>5, <2>2
    <3>2. Standing(raw, 1 .. i, n) = Standing(raw, 1 .. i - 1, n)
      <4>1. Standing(raw, (1 .. i - 1) \cup {i}, n) = Standing(raw, 1 .. i - 1, n)
        BY <2>2, StandingOther
      <4> QED
        BY <1>1, <4>1
    <3> QED
      BY <1>0, <3>1, <3>2 DEF BestInv, Compared
  <2> QED
    BY <2>1, <2>2
<1>6. BestInv'
  BY <1>0, <1>1, <1>4, <1>5 DEF BestInv, Compared
<1>7. seen = {}
  BY <1>0 DEF EmitInv, Met
<1>8. EmitInv'
  BY <1>0, <1>7 DEF EmitInv, Met
<1> QED
  BY <1>3, <1>6, <1>8 DEF IInv

(* Leaving the first loop keeps it: every field has been compared. *)
LEMMA StartEmitInv ==
  ASSUME IInv, StartEmit
  PROVE  IInv'
<1>0. TypeOK /\ BestInv /\ EmitInv /\ DOMAIN raw = 1 .. Len(raw) /\ Len(raw) \in Nat
  BY RawTypes DEF IInv
<1>1. 1 .. i - 1 = DOMAIN raw
  BY <1>0 DEF StartEmit, TypeOK
<1>2. TypeOK'
  BY <1>0 DEF StartEmit, TypeOK
<1>3. BestInv'
  BY <1>0, <1>1 DEF StartEmit, BestInv, Compared
<1>4. EmitInv'
  BY <1>0 DEF StartEmit, EmitInv, Met
<1> QED
  BY <1>2, <1>3, <1>4 DEF IInv

(* An iteration of the second loop keeps it. *)
LEMMA EmitStepInv ==
  ASSUME IInv, Emit
  PROVE  IInv'
<1> DEFINE n == raw[i].wire
<1>0. /\ TypeOK /\ BestInv /\ EmitInv /\ loop = "emit" /\ i \in 1 .. Len(raw)
      /\ i' = i + 1 /\ loop' = "emit" /\ raw' = raw /\ best' = best
      /\ seen' = seen \cup {n} /\ result \in Seq(Field)
      /\ DOMAIN raw = 1 .. Len(raw) /\ n \in Wire
  BY RawTypes DEF IInv, Emit, TypeOK
<1>1. n \in DOMAIN best /\ best[n].field \in Field /\ best[n].count \in Nat
      /\ best[n].field.wire = n /\ best[n] = Entry(best[n].field, best[n].count)
  <2>1. n \in DOMAIN best
    BY <1>0 DEF BestInv, Compared
  <2>2. best[n] \in [field : Field, count : Nat \ {0}]
    BY <1>0, <2>1 DEF TypeOK
  <2>3. best[n].field.wire = n
    BY <1>0, <2>1 DEF BestInv, Standing, TaggedFirst, Shallowest, Rivals
  <2> QED
    BY <2>1, <2>2, <2>3 DEF Entry
<1>2. seen' = {raw[j].wire : j \in 1 .. i' - 1}
  <2>1. seen = {raw[j].wire : j \in 1 .. i - 1}
    BY <1>0 DEF EmitInv, Met
  <2>2. 1 .. i' - 1 = (1 .. i - 1) \cup {i}
    BY <1>0
  <2> QED
    BY <1>0, <2>1, <2>2
<1>3. BestInv'
  BY <1>0 DEF BestInv, Compared
<1>4. CASE n \notin seen /\ best[n].count = 1
  <2>1. result' = Append(result, best[n].field)
    BY <1>4 DEF Emit
  <2>2. /\ result' \in Seq(Field) /\ DOMAIN result = 1 .. Len(result)
        /\ DOMAIN result' = 1 .. Len(result) + 1 /\ Len(result) \in Nat
        /\ \A m \in 1 .. Len(result) : result'[m] = result[m]
        /\ result'[Len(result) + 1] = best[n].field
    BY <1>0, <1>1, <2>1, AppendProperties, LenProperties
  <2>3. TypeOK'
    BY <1>0, <2>2 DEF TypeOK
  <2>4. EmitInv'
    <3>1. seen' = {raw'[j].wire : j \in Met'}
      BY <1>0, <1>2 DEF Met
    <3>2. \A m \in DOMAIN result' : m \in DOMAIN result \/ m = Len(result) + 1
      BY <2>2
    <3>3. result'[Len(result) + 1].wire = n
      BY <1>1, <2>2
    <3>4. \A m \in DOMAIN result : result'[m] = result[m] /\ result[m].wire \in seen
                                  /\ best[result[m].wire] = Entry(result[m], 1)
      BY <1>0, <2>2 DEF EmitInv
    <3>5. best[n] = Entry(result'[Len(result) + 1], 1)
      BY <1>1, <1>4, <2>2
    <3>6. \A m \in DOMAIN result' : /\ result'[m].wire \in seen'
                                   /\ best'[result'[m].wire] = Entry(result'[m], 1)
      BY <1>0, <3>2, <3>3, <3>4, <3>5
    <3>7. \A l \in seen' : best'[l].count = 1 =>
                          \E m \in DOMAIN result' : result'[m] = best'[l].field
      <4> SUFFICES ASSUME NEW l \in seen', best[l].count = 1
                   PROVE  \E m \in DOMAIN result' : result'[m] = best[l].field
        BY <1>0
      <4>1. CASE l = n
        BY <2>2, <4>1
      <4>2. CASE l # n
        <5>1. PICK m \in DOMAIN result : result[m] = best[l].field
          BY <1>0, <4>2 DEF EmitInv
        <5> QED
          BY <2>2, <5>1
      <4> QED
        BY <4>1, <4>2
    <3>8. \A m, l \in DOMAIN result' : result'[m].wire = result'[l].wire => m = l
      BY <1>0, <1>4, <3>2, <3>3, <3>4 DEF EmitInv
    <3> QED
      BY <3>1, <3>6, <3>7, <3>8 DEF EmitInv
  <2> QED
    BY <1>3, <2>3, <2>4 DEF IInv
<1>5. CASE ~(n \notin seen /\ best[n].count = 1)
  <2>1. result' = result
    BY <1>5 DEF Emit
  <2>2. TypeOK'
    BY <1>0, <2>1 DEF TypeOK
  <2>3. EmitInv'
    BY <1>0, <1>1, <1>2, <1>5, <2>1 DEF EmitInv, Met
  <2> QED
    BY <1>3, <2>2, <2>3 DEF IInv
<1> QED
  BY <1>4, <1>5

(* Returning keeps it: every field has been met. *)
LEMMA FinishInv ==
  ASSUME IInv, Finish
  PROVE  IInv'
<1>0. TypeOK /\ BestInv /\ EmitInv /\ DOMAIN raw = 1 .. Len(raw) /\ Len(raw) \in Nat
  BY RawTypes DEF IInv
<1>1. 1 .. i - 1 = DOMAIN raw
  BY <1>0 DEF Finish, TypeOK
<1>2. TypeOK'
  BY <1>0 DEF Finish, TypeOK
<1>3. BestInv' /\ EmitInv'
  BY <1>0, <1>1 DEF Finish, BestInv, EmitInv, Compared, Met
<1> QED
  BY <1>2, <1>3 DEF IInv

(* The loop invariant, for every list of fields. *)
THEOREM Invariance == Spec => []IInv
<1>1. IInv /\ UNCHANGED vars => IInv'
  <2> SUFFICES ASSUME IInv, UNCHANGED vars PROVE IInv'
    OBVIOUS
  <2>1. TypeOK'
    BY DEF vars, IInv, TypeOK
  <2>2. BestInv'
    BY DEF vars, IInv, BestInv, Compared
  <2>3. EmitInv'
    BY DEF vars, IInv, EmitInv, Met
  <2> QED
    BY <2>1, <2>2, <2>3 DEF IInv
<1>2. IInv /\ [Next]_vars => IInv'
  BY <1>1, CompareInv, StartEmitInv, EmitStepInv, FinishInv DEF Next
<1> QED
  BY InitInv, <1>2, PTL DEF Spec

(* The invariant of the loops at their end. *)
LEMMA DominanceFromInv == IInv => ResultIsDominant
<1> SUFFICES ASSUME IInv, loop = "done"
             PROVE  /\ {result[m] : m \in DOMAIN result} =
                         {raw[j] : j \in Dominant(raw, DOMAIN raw)}
                    /\ \A m, l \in DOMAIN result : result[m].wire = result[l].wire => m = l
  BY DEF ResultIsDominant
<1>0. /\ TypeOK /\ EmitInv /\ DOMAIN best = seen /\ seen = {raw[j].wire : j \in DOMAIN raw}
      /\ \A n \in DOMAIN best : \E j \in Standing(raw, DOMAIN raw, n) :
           /\ best[n].field = raw[j]
           /\ best[n].count = 1 <=> Standing(raw, DOMAIN raw, n) = {j}
  BY DEF IInv, BestInv, EmitInv, Compared, Met
<1>1. ASSUME NEW m \in DOMAIN result
      PROVE  \E j \in Dominant(raw, DOMAIN raw) : result[m] = raw[j]
  <2> DEFINE n == result[m].wire
  <2>1. n \in DOMAIN best /\ best[n].field = result[m] /\ best[n].count = 1
    <3>1. n \in seen /\ best[n] = Entry(result[m], 1)
      BY <1>0, <1>1 DEF EmitInv
    <3> QED
      BY <1>0, <3>1 DEF Entry
  <2>2. PICK j \in Standing(raw, DOMAIN raw, n) :
           best[n].field = raw[j] /\ Standing(raw, DOMAIN raw, n) = {j}
    BY <1>0, <2>1
  <2>3. j \in DOMAIN raw /\ raw[j].wire = n
    BY <2>2 DEF Standing, TaggedFirst, Shallowest, Rivals
  <2> QED
    BY <2>1, <2>2, <2>3 DEF Dominant
<1>2. ASSUME NEW j \in Dominant(raw, DOMAIN raw)
      PROVE  \E m \in DOMAIN result : result[m] = raw[j]
  <2> DEFINE n == raw[j].wire
  <2>1. j \in DOMAIN raw /\ Standing(raw, DOMAIN raw, n) = {j} /\ n \in DOMAIN best
    BY <1>0 DEF Dominant
  <2>2. best[n].field = raw[j] /\ best[n].count = 1
    BY <1>0, <2>1
  <2> QED
    BY <1>0, <2>1, <2>2 DEF EmitInv
<1> QED
  BY <1>0, <1>1, <1>2 DEF EmitInv

(* dedupJSONFields applies encoding/json's dominance rule to the fields it *)
(* is given, whatever their number, order, depths, tags and names.         *)
THEOREM DedupIsDominance == Spec => []ResultIsDominant
BY Invariance, DominanceFromInv, PTL
=============================================================================
