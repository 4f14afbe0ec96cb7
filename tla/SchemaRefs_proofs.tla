-------------------------- MODULE SchemaRefs_proofs --------------------------
(***************************************************************************)
(* Over every registry, cyclic references included: the walks of reach are *)
(* complete and stay inside what their roots reach, the marking of         *)
(* differing types stops exactly at the types whose schemas differ, and so *)
(* every $ref wiregen writes names the component it means.  The stack      *)
(* carries the argument: a use whose call is not on it has passed all its  *)
(* references (ReturnedInv), so an empty stack leaves a closed set.        *)
(***************************************************************************)
EXTENDS SchemaRefs, SequenceTheorems, TLAPS

(* What every registry is, from the assumption on Registries. *)
LEMMA RegistryFacts ==
  ASSUME TypeOK
  PROVE  /\ \A t \in Type : reg.refs[t] \in Seq(Type) /\ References(t) \subseteq Type
                         /\ DOMAIN reg.refs[t] = 1 .. Len(reg.refs[t]) /\ Len(reg.refs[t]) \in Nat
         /\ reg.inbound \in Seq(Type) /\ reg.bodies \in Seq(Use) /\ reg.order \in Seq(Type)
         /\ Requested \subseteq Type /\ Bodies \subseteq Use
         /\ reg.own \subseteq Type /\ reg.undecodable \subseteq Type
         /\ \A d : BodyTypes(d) \subseteq Type
<1>1. reg \in Registry
  BY DEF TypeOK
<1>2. \A t \in Type : reg.refs[t] \in Seq(Type)
  BY <1>1 DEF Registry
<1>3. \A t \in Type : DOMAIN reg.refs[t] = 1 .. Len(reg.refs[t]) /\ Len(reg.refs[t]) \in Nat
  BY <1>2, LenProperties
<1>4. \A t \in Type : References(t) \subseteq Type
  BY <1>2, <1>3, ElementOfSeq DEF References
<1>5. reg.inbound \in Seq(Type) /\ reg.bodies \in Seq(Use) /\ reg.order \in Seq(Type)
  BY <1>1 DEF Registry
<1>6. Requested \subseteq Type
  BY <1>5, ElementOfSeq, LenProperties DEF Requested
<1>7. Bodies \subseteq Use
  BY <1>5, ElementOfSeq, LenProperties DEF Bodies
<1>8. \A d : BodyTypes(d) \subseteq Type
  BY <1>7 DEF BodyTypes, Use
<1>9. reg.own \subseteq Type /\ reg.undecodable \subseteq Type
  BY <1>1 DEF Registry
<1> QED
  BY <1>2, <1>3, <1>4, <1>5, <1>6, <1>7, <1>8, <1>9

(* Reachable is the least closed set that holds its roots. *)
LEMMA ReachableIsLeast ==
  ASSUME TypeOK, NEW R \in SUBSET Type
  PROVE  /\ R \subseteq Reachable(R) /\ Reachable(R) \subseteq Type /\ Closed(Reachable(R))
         /\ \A S \in SUBSET Type : R \subseteq S /\ Closed(S) => Reachable(R) \subseteq S
<1>1. R \subseteq Reachable(R) /\ Reachable(R) \subseteq Type
  BY DEF Reachable
<1>2. \A S \in SUBSET Type : R \subseteq S /\ Closed(S) => Reachable(R) \subseteq S
  BY DEF Reachable
<1>3. ASSUME NEW t \in Reachable(R), NEW u \in References(t) PROVE u \in Reachable(R)
  <2>1. u \in Type /\ t \in Type
    BY <1>1, <1>3, RegistryFacts
  <2>2. ASSUME NEW S \in SUBSET Type, R \subseteq S, Closed(S) PROVE u \in S
    <3>1. t \in S
      BY <1>2, <2>2
    <3> QED
      BY <3>1, <2>2 DEF Closed
  <2> QED
    BY <2>1, <2>2 DEF Reachable
<1>4. Closed(Reachable(R))
  BY <1>3 DEF Closed
<1> QED
  BY <1>1, <1>2, <1>4

(* What a type reaches, a type that references it reaches. *)
LEMMA ReachableThrough ==
  ASSUME TypeOK, NEW t \in Type, NEW u \in References(t)
  PROVE  Reachable({u}) \subseteq Reachable({t})
<1>1. u \in Type
  BY RegistryFacts
<1>2. t \in Reachable({t}) /\ Closed(Reachable({t})) /\ Reachable({t}) \subseteq Type
  BY ReachableIsLeast
<1>3. u \in Reachable({t})
  BY <1>2 DEF Closed
<1> QED
  BY <1>1, <1>2, <1>3, ReachableIsLeast

-----------------------------------------------------------------------------
(* What a step that leaves the registry alone leaves alone. *)
LEMMA Frozen ==
  ASSUME reg' = reg
  PROVE  /\ \A t : References(t)' = References(t)
         /\ Requested' = Requested /\ Bodies' = Bodies
         /\ \A d : BodyTypes(d)' = BodyTypes(d)
         /\ \A R : Reachable(R)' = Reachable(R)
<1>1. \A t : References(t)' = References(t)
  BY DEF References
<1>2. \A S : Closed(S)' <=> Closed(S)
  BY <1>1 DEF Closed
<1>3. \A R : Reachable(R)' = Reachable(R)
  BY <1>2 DEF Reachable
<1>4. Requested' = Requested /\ Bodies' = Bodies
  BY DEF Requested, Bodies
<1>5. \A d : BodyTypes(d)' = BodyTypes(d)
  BY <1>4 DEF BodyTypes
<1> QED
  BY <1>1, <1>3, <1>4, <1>5

(* The call on top of a stack, and the stack below it. *)
LEMMA StackFacts ==
  ASSUME TypeOK
  PROVE  /\ DOMAIN stack = 1 .. Len(stack) /\ Len(stack) \in Nat
         /\ \A l \in DOMAIN stack : stack[l] \in Frame
         /\ stack # << >> => /\ Len(stack) \in DOMAIN stack /\ Top \in Frame
                             /\ Popped \in Seq(Frame) /\ Len(Popped) = Len(stack) - 1
                             /\ DOMAIN Popped = 1 .. Len(stack) - 1
                             /\ \A l \in 1 .. Len(stack) - 1 : Popped[l] = stack[l]
<1>1. stack \in Seq(Frame)
  BY DEF TypeOK
<1>2. DOMAIN stack = 1 .. Len(stack) /\ Len(stack) \in Nat
  BY <1>1, LenProperties
<1>3. \A l \in DOMAIN stack : stack[l] \in Frame
  BY <1>1, <1>2, ElementOfSeq
<1>4. ASSUME stack # << >>
      PROVE  /\ Len(stack) \in DOMAIN stack /\ Top \in Frame
             /\ Popped \in Seq(Frame) /\ Len(Popped) = Len(stack) - 1
             /\ DOMAIN Popped = 1 .. Len(stack) - 1
             /\ \A l \in 1 .. Len(stack) - 1 : Popped[l] = stack[l]
  <2>1. Len(stack) >= 1
    BY <1>1, <1>2, <1>4, EmptySeq
  <2>2. Len(stack) \in DOMAIN stack /\ Top \in Frame
    BY <2>1, <1>2, <1>3 DEF Top
  <2>3. Popped \in Seq(Frame) /\ Len(Popped) = Len(stack) - 1
        /\ \A l \in 1 .. Len(stack) - 1 : Popped[l] = stack[l]
    BY <1>1, <1>2, <2>1, SubSeqProperties DEF Popped
  <2> QED
    BY <2>2, <2>3, LenProperties
<1> QED
  BY <1>2, <1>3, <1>4

(* A call of reach from a loop records its use and no other. *)
LEMMA ReachStep ==
  ASSUME TypeOK, FramesInv, ReturnedInv, stack = << >>, reg' = reg,
         NEW t \in Type, NEW d \in Dir, Reach(t, d)
  PROVE  /\ used' \in [Type -> SUBSET Dir] /\ stack' \in Seq(Frame)
         /\ FramesInv' /\ ReturnedInv'
         /\ used'[t] = used[t] \cup {d}
         /\ \A x \in Type \ {t} : used'[x] = used[x]
<1> USE Frozen
<1>0. used \in [Type -> SUBSET Dir]
  BY DEF TypeOK
<1>1. CASE d \in used[t]
  <2>1. UNCHANGED <<used, stack>>
    BY <1>1 DEF Reach
  <2>2. FramesInv'
    BY <2>1 DEF FramesInv
  <2>3. ReturnedInv'
    BY <2>1 DEF ReturnedInv, Calls
  <2> QED
    BY <2>1, <2>2, <2>3, <1>0, <1>1 DEF TypeOK
<1>2. CASE d \notin used[t]
  <2> DEFINE f == [type |-> t, dir |-> d, next |-> 1]
  <2>1. used' = [used EXCEPT ![t] = @ \cup {d}] /\ stack' = Append(stack, f)
    BY <1>2 DEF Reach
  <2>2. stack' = <<f>>
    BY <2>1
  <2>3. f \in Frame
    BY DEF Frame
  <2>4. stack' \in Seq(Frame) /\ DOMAIN stack' = {1} /\ stack'[1] = f
    BY <2>2, <2>3
  <2>5. /\ used' \in [Type -> SUBSET Dir] /\ used'[t] = used[t] \cup {d}
        /\ \A x \in Type \ {t} : used'[x] = used[x]
    BY <2>1, <1>0
  <2>6. FramesInv'
    <3>1. \A m \in DOMAIN reg.refs[t] : ~(m < 1)
      BY RegistryFacts
    <3> QED
      BY <2>4, <2>5, <3>1 DEF FramesInv
  <2>7. ReturnedInv'
    <3> SUFFICES ASSUME NEW x \in Type, NEW e \in used'[x],
                        [type |-> x, dir |-> e] \notin Calls'
                 PROVE  \A u \in References(x) : e \in used'[u]
      BY DEF ReturnedInv
    <3>1. [type |-> t, dir |-> d] \in Calls'
      BY <2>4 DEF Calls
    <3>2. e \in used[x]
      BY <3>1, <2>5
    <3>3. Calls = {}
      BY DEF Calls
    <3>4. \A u \in References(x) : e \in used[u] /\ u \in Type
      BY <3>2, <3>3, RegistryFacts DEF ReturnedInv
    <3> QED
      BY <3>4, <2>5
  <2> QED
    BY <2>4, <2>5, <2>6, <2>7
<1> QED
  BY <1>1, <1>2

(* With no call running, what is used in a direction is closed. *)
LEMMA IdleIsClosed ==
  ASSUME TypeOK, ReturnedInv, stack = << >>, NEW d
  PROVE  Closed({t \in Type : d \in used[t]})
<1>1. Calls = {}
  BY DEF Calls
<1>2. \A t \in Type : d \in used[t] => \A u \in References(t) : d \in used[u] /\ u \in Type
  BY <1>1, RegistryFacts DEF ReturnedInv
<1> QED
  BY <1>2 DEF Closed

(* A longer stack holds its new top and what it held. *)
LEMMA AppendTo ==
  ASSUME NEW s \in Seq(Frame), NEW f \in Frame, NEW n \in Nat, Len(s) = n - 1
  PROVE  /\ Append(s, f) \in Seq(Frame) /\ Len(Append(s, f)) = n /\ Append(s, f)[n] = f
         /\ \A l \in 1 .. n - 1 : Append(s, f)[l] = s[l]
BY AppendProperties

(* One step of the walk keeps the stack's promises: a use it adds is of a  *)
(* type that one used already references.                                  *)
LEMMA WalkStep ==
  ASSUME TypeOK, FramesInv, ReturnedInv, Walk
  PROVE  /\ used' \in [Type -> SUBSET Dir] /\ stack' \in Seq(Frame)
         /\ FramesInv' /\ ReturnedInv'
         /\ \A x \in Type : used[x] \subseteq used'[x]
         /\ \A x \in Type : \A e \in used'[x] \ used[x] :
              \E y \in Type : x \in References(y) /\ e \in used[y]
<1> DEFINE t == Top.type
           d == Top.dir
           n == Len(stack)
           next == [Top EXCEPT !.next = @ + 1]
           onward == Append(Popped, next)
           u == reg.refs[t][Top.next]
           fresh == [type |-> u, dir |-> d, next |-> 1]
<1>0. /\ stack # << >> /\ reg' = reg /\ used \in [Type -> SUBSET Dir]
      /\ \A x : References(x)' = References(x)
  BY Frozen DEF Walk, TypeOK
<1>1. /\ n \in DOMAIN stack /\ DOMAIN stack = 1 .. n /\ n \in Nat /\ n >= 1 /\ stack[n] = Top
      /\ Top \in Frame /\ Popped \in Seq(Frame) /\ Len(Popped) = n - 1
      /\ DOMAIN Popped = 1 .. n - 1
      /\ \A l \in 1 .. n - 1 : Popped[l] = stack[l]
  <2>1. n \in DOMAIN stack /\ DOMAIN stack = 1 .. n /\ n \in Nat
    BY <1>0, StackFacts
  <2>2. Top \in Frame /\ Popped \in Seq(Frame) /\ Len(Popped) = n - 1
        /\ DOMAIN Popped = 1 .. n - 1
        /\ \A l \in 1 .. n - 1 : Popped[l] = stack[l]
    BY <1>0, StackFacts
  <2>3. stack[n] = Top
    BY DEF Top
  <2> HIDE DEF n
  <2> QED
    BY <2>1, <2>2, <2>3
<1>2. t \in Type /\ d \in Dir /\ Top.next \in Nat \ {0}
  BY <1>1 DEF Frame
<1>3. /\ DOMAIN reg.refs[t] = 1 .. Len(reg.refs[t]) /\ Len(reg.refs[t]) \in Nat
      /\ \A m \in DOMAIN reg.refs[t] : reg.refs[t][m] \in References(t)
      /\ References(t) \subseteq Type
      /\ \A x \in References(t) : \E m \in DOMAIN reg.refs[t] : x = reg.refs[t][m]
  BY <1>2, RegistryFacts DEF References
<1>4. d \in used[t] /\ \A m \in DOMAIN reg.refs[t] : m < Top.next => d \in used[reg.refs[t][m]]
  BY <1>1 DEF FramesInv
<1>5. CASE Top.next > Len(reg.refs[t])
  <2>1. stack' = Popped /\ used' = used
    BY <1>5 DEF Walk
  <2>2. FramesInv'
    BY <2>1, <1>0, <1>1 DEF FramesInv
  <2>3. ReturnedInv'
    <3> SUFFICES ASSUME NEW x \in Type, NEW e \in used[x],
                        [type |-> x, dir |-> e] \notin Calls'
                 PROVE  \A y \in References(x) : e \in used[y]
      BY <2>1, <1>0 DEF ReturnedInv
    <3>1. CASE [type |-> x, dir |-> e] \notin Calls
      BY <3>1 DEF ReturnedInv
    <3>2. CASE [type |-> x, dir |-> e] \in Calls
      <4>1. PICK l \in DOMAIN stack :
              [type |-> x, dir |-> e] = [type |-> stack[l].type, dir |-> stack[l].dir]
        BY <3>2 DEF Calls
      <4>2. x = stack[l].type /\ e = stack[l].dir
        BY <4>1
      <4>3. ASSUME l # n PROVE FALSE
        <5>1. l \in DOMAIN stack' /\ stack'[l] = stack[l]
          BY <4>3, <2>1, <1>1
        <5> QED
          BY <5>1, <4>1 DEF Calls
      <4>4. x = t /\ e = d
        BY <4>2, <4>3, <1>1
      <4>5. \A m \in DOMAIN reg.refs[t] : d \in used[reg.refs[t][m]]
        BY <1>2, <1>3, <1>4, <1>5
      <4> QED
        BY <4>4, <4>5, <1>3
    <3> QED
      BY <3>1, <3>2
  <2> QED
    BY <2>1, <2>2, <2>3, <1>0, <1>1
<1>6. CASE ~(Top.next > Len(reg.refs[t]))
  <2>1. Top.next \in DOMAIN reg.refs[t] /\ u \in References(t) /\ u \in Type
    BY <1>2, <1>3, <1>6
  <2>2. next \in Frame /\ next.type = t /\ next.dir = d /\ next.next = Top.next + 1
    BY <1>1, <1>2 DEF Frame
  <2>3. /\ onward \in Seq(Frame) /\ Len(onward) = n /\ onward[n] = next
        /\ DOMAIN onward = 1 .. n
        /\ \A l \in 1 .. n - 1 : onward[l] = stack[l]
    <3>1. onward \in Seq(Frame) /\ Len(onward) = n /\ onward[n] = next
          /\ \A l \in 1 .. n - 1 : onward[l] = Popped[l]
      <4>1. next \in Frame /\ Popped \in Seq(Frame) /\ Len(Popped) = n - 1 /\ n \in Nat
        BY <1>1, <2>2
      <4> HIDE DEF next, n
      <4> QED
        BY <4>1, AppendTo
    <3> QED
      BY <3>1, <1>1, LenProperties
  <2>4. /\ used' \in [Type -> SUBSET Dir] /\ stack' \in Seq(Frame)
        /\ used'[u] = used[u] \cup {d} /\ \A x \in Type \ {u} : used'[x] = used[x]
        /\ \A l \in 1 .. n : l \in DOMAIN stack' /\ stack'[l] = onward[l]
        /\ \A l \in DOMAIN stack' : l \notin 1 .. n => stack'[l] = fresh
        /\ d \notin used[u] => \E l \in DOMAIN stack' : stack'[l] = fresh
    <3>1. CASE d \in used[u]
      <4>1. stack' = onward /\ used' = used
        BY <1>6, <3>1 DEF Walk
      <4> QED
        BY <4>1, <2>3, <3>1, <1>0, <2>1
    <3>2. CASE d \notin used[u]
      <4>1. used' = [used EXCEPT ![u] = @ \cup {d}] /\ stack' = Append(onward, fresh)
        BY <1>6, <3>2 DEF Walk
      <4>2. fresh \in Frame
        BY <1>2, <2>1 DEF Frame
      <4>3. /\ stack' \in Seq(Frame) /\ Len(stack') = n + 1 /\ stack'[n + 1] = fresh
            /\ \A l \in 1 .. n : stack'[l] = onward[l]
        BY <4>1, <4>2, <2>3, AppendProperties
      <4>4. DOMAIN stack' = 1 .. n + 1
        BY <4>3, LenProperties
      <4>5. used' \in [Type -> SUBSET Dir] /\ used'[u] = used[u] \cup {d}
            /\ \A x \in Type \ {u} : used'[x] = used[x]
        BY <4>1, <1>0, <1>2, <2>1
      <4>6. n + 1 \in 1 .. n + 1 /\ (\A l \in 1 .. n + 1 : l \notin 1 .. n => l = n + 1)
            /\ 1 .. n \subseteq 1 .. n + 1
        BY <1>1
      <4> HIDE DEF n, onward, fresh, u, d
      <4> QED
        BY <4>3, <4>4, <4>5, <4>6
    <3> QED
      BY <3>1, <3>2
  <2>5. \A x \in Type : used[x] \subseteq used'[x]
    BY <2>4
  <2>6. FramesInv'
    <3> SUFFICES ASSUME NEW l \in DOMAIN stack'
                 PROVE  /\ stack'[l].dir \in used'[stack'[l].type]
                        /\ \A m \in DOMAIN reg.refs[stack'[l].type] :
                             m < stack'[l].next =>
                               stack'[l].dir \in used'[reg.refs[stack'[l].type][m]]
      BY <1>0 DEF FramesInv
    <3>1. CASE l \in 1 .. n - 1
      <4>1. stack'[l] = stack[l] /\ l \in DOMAIN stack /\ stack[l] \in Frame
        BY <3>1, <2>3, <2>4, <1>1, StackFacts
      <4>2. \A m \in DOMAIN reg.refs[stack[l].type] : reg.refs[stack[l].type][m] \in Type
        BY <4>1, RegistryFacts DEF References, Frame
      <4>3. stack[l].type \in Type
        BY <4>1 DEF Frame
      <4> QED
        BY <4>1, <4>2, <4>3, <2>5 DEF FramesInv
    <3>2. CASE l = n
      <4>1. stack'[l] = next
        BY <3>2, <2>3, <2>4, <1>1
      <4>2. \A m \in DOMAIN reg.refs[t] : m < Top.next + 1 => m < Top.next \/ m = Top.next
        BY <1>2, <1>3
      <4>3. \A m \in DOMAIN reg.refs[t] : m < Top.next + 1 => d \in used'[reg.refs[t][m]]
        BY <4>2, <1>3, <1>4, <2>4, <2>5
      <4> QED
        BY <4>1, <4>3, <2>2, <2>5, <1>2, <1>4
    <3>3. CASE l \notin 1 .. n
      <4>1. stack'[l] = fresh
        BY <3>3, <2>4
      <4>2. \A m \in DOMAIN reg.refs[u] : ~(m < 1)
        BY <2>1, RegistryFacts
      <4> QED
        BY <4>1, <4>2, <2>4
    <3>4. l \in 1 .. n - 1 \/ l = n \/ l \notin 1 .. n
      BY <1>1
    <3> QED
      BY <3>1, <3>2, <3>3, <3>4
  <2>7. ReturnedInv'
    <3> SUFFICES ASSUME NEW x \in Type, NEW e \in used'[x],
                        [type |-> x, dir |-> e] \notin Calls'
                 PROVE  \A y \in References(x) : e \in used'[y]
      BY <1>0 DEF ReturnedInv
    <3>1. e \in used[x]
      <4> SUFFICES ASSUME e \notin used[x] PROVE FALSE
        OBVIOUS
      <4>1. x = u /\ e = d /\ d \notin used[u]
        BY <2>4
      <4>2. PICK l \in DOMAIN stack' : stack'[l] = fresh
        BY <4>1, <2>4
      <4>3. stack'[l].type = u /\ stack'[l].dir = d
        BY <4>2
      <4> QED
        BY <4>1, <4>2, <4>3 DEF Calls
    <3>2. \A l \in DOMAIN stack : [type |-> stack[l].type, dir |-> stack[l].dir] \in Calls'
      <4> SUFFICES ASSUME NEW l \in DOMAIN stack
                   PROVE  [type |-> stack[l].type, dir |-> stack[l].dir] \in Calls'
        OBVIOUS
      <4>1. l \in DOMAIN stack' /\ stack'[l].type = stack[l].type /\ stack'[l].dir = stack[l].dir
        <5>1. l \in 1 .. n /\ (l = n \/ l \in 1 .. n - 1)
          BY <1>1
        <5>2. CASE l = n
          BY <5>1, <5>2, <2>2, <2>3, <2>4, <1>1
        <5>3. CASE l \in 1 .. n - 1
          BY <5>1, <5>3, <2>3, <2>4
        <5> QED
          BY <5>1, <5>2, <5>3
      <4> QED
        BY <4>1 DEF Calls
    <3>3. [type |-> x, dir |-> e] \notin Calls
      BY <3>2 DEF Calls
    <3>4. \A y \in References(x) : e \in used[y] /\ y \in Type
      BY <3>1, <3>3, RegistryFacts DEF ReturnedInv
    <3> QED
      BY <3>4, <2>5
  <2>8. \A x \in Type : \A e \in used'[x] \ used[x] :
          \E y \in Type : x \in References(y) /\ e \in used[y]
    BY <2>1, <2>4, <1>2, <1>4
  <2> QED
    BY <2>4, <2>5, <2>6, <2>7, <2>8
<1> QED
  BY <1>5, <1>6

-----------------------------------------------------------------------------
(* The invariant holds at the first step. *)
LEMMA InitInv == Init => IInv
<1> SUFFICES ASSUME Init PROVE IInv
  OBVIOUS
<1>1. /\ reg \in Registry /\ phase = "decode" /\ i = 1 /\ used = Unused /\ stack = << >>
      /\ differs = reg.own /\ changed = FALSE
      /\ \A t \in Type : \E l \in DOMAIN reg.order : reg.order[l] = t
  BY RegistriesAssumption DEF Init
<1>2. TypeOK
  <2>1. reg.own \subseteq Type
    BY <1>1 DEF Registry
  <2>2. Unused \in [Type -> SUBSET Dir]
    BY DEF Unused
  <2>3. stack \in Seq(Frame)
    BY <1>1
  <2>4. phase \in Phases /\ i \in Nat \ {0}
    BY <1>1 DEF Phases
  <2>5. changed \in BOOLEAN
    BY <1>1, Zenon
  <2> QED
    BY <1>1, <2>1, <2>2, <2>3, <2>4, <2>5 DEF TypeOK
<1>3. FramesInv
  BY <1>1 DEF FramesInv
<1>4. ReturnedInv
  BY <1>1 DEF ReturnedInv, Unused
<1>5. IdleInv
  BY <1>1 DEF IdleInv
<1>6. RootsInv
  <2>1. DOMAIN reg.inbound = 1 .. Len(reg.inbound) /\ Len(reg.inbound) \in Nat
    BY <1>2, RegistryFacts, LenProperties
  <2> QED
    BY <1>1, <2>1 DEF RootsInv
<1>7. SpreadInv
  <2>1. \A t \in Type : t \in Reachable({t})
    BY <1>2, ReachableIsLeast
  <2> QED
    BY <1>1, <1>2, <2>1, RegistryFacts DEF SpreadInv, Differing
<1>8. RequestsDecodable
  BY <1>1 DEF RequestsDecodable
<1>9. ClashInv
  BY <1>1 DEF ClashInv
<1> QED
  BY <1>2, <1>3, <1>4, <1>5, <1>6, <1>7, <1>8, <1>9 DEF IInv

(* The calls of reach the loops make, and that nothing else changes.       *)
LEMMA LoopCalls ==
  ASSUME IInv
  PROVE  /\ DecodeNext => /\ i \in DOMAIN reg.inbound /\ reg.inbound[i] \in Requested
                          /\ Reach(reg.inbound[i], "request")
                          /\ stack = << >> /\ phase = "decode"
         /\ UseBody => /\ i \in DOMAIN reg.bodies /\ reg.bodies[i] \in Bodies
                       /\ Reach(reg.bodies[i].type, reg.bodies[i].dir)
                       /\ stack = << >> /\ phase = "bodies"
         /\ UseOther => /\ i \in DOMAIN reg.order /\ reg.order[i] \in Type
                        /\ Reach(reg.order[i], "response") \/ UNCHANGED <<used, stack>>
                        /\ stack = << >> /\ phase = "others"
         /\ DecodeNext \/ UseBody \/ UseOther =>
              i' = i + 1 /\ UNCHANGED <<reg, phase, differs, changed>>
<1>1. TypeOK
  BY DEF IInv
<1>2. i \in Nat \ {0}
  BY <1>1 DEF TypeOK
<1>3. ASSUME NEW S, NEW q \in Seq(S), i <= Len(q) PROVE i \in DOMAIN q /\ q[i] \in S
  BY <1>2, <1>3, LenProperties, ElementOfSeq
<1>4. DecodeNext => /\ i \in DOMAIN reg.inbound /\ reg.inbound[i] \in Requested
                    /\ Reach(reg.inbound[i], "request")
                    /\ stack = << >> /\ phase = "decode"
  BY <1>1, <1>3, RegistryFacts DEF DecodeNext, CallNext, Requested
<1>5. UseBody => /\ i \in DOMAIN reg.bodies /\ reg.bodies[i] \in Bodies
                 /\ Reach(reg.bodies[i].type, reg.bodies[i].dir)
                 /\ stack = << >> /\ phase = "bodies"
  BY <1>1, <1>3, RegistryFacts DEF UseBody, CallNext, Bodies
<1>6. UseOther => /\ i \in DOMAIN reg.order /\ reg.order[i] \in Type
                  /\ Reach(reg.order[i], "response") \/ UNCHANGED <<used, stack>>
                  /\ stack = << >> /\ phase = "others"
  BY <1>1, <1>3, RegistryFacts DEF UseOther
<1>7. DecodeNext \/ UseBody \/ UseOther =>
        i' = i + 1 /\ UNCHANGED <<reg, phase, differs, changed>>
  BY DEF DecodeNext, UseBody, UseOther, CallNext
<1> QED
  BY <1>4, <1>5, <1>6, <1>7

(* What each step does to used and stack. *)
LEMMA UsesStep ==
  ASSUME IInv, [Next]_vars
  PROVE  /\ reg' = reg
         /\ used' \in [Type -> SUBSET Dir] /\ stack' \in Seq(Frame)
         /\ FramesInv' /\ ReturnedInv'
         /\ ~DecodeDone => \A t \in Type : used[t] \subseteq used'[t]
<1>0. TypeOK /\ FramesInv /\ ReturnedInv /\ IdleInv
  BY DEF IInv
<1>1. CASE DecodeNext \/ UseBody \/ UseOther
  <2>1. reg' = reg /\ stack = << >>
    BY <1>1, LoopCalls
  <2>2. CASE UNCHANGED <<used, stack>>
    BY <1>0, <2>1, <2>2, Frozen DEF FramesInv, ReturnedInv, Calls, TypeOK
  <2>3. CASE \E t \in Type, d \in Dir : Reach(t, d)
    <3>1. PICK t \in Type, d \in Dir : Reach(t, d)
      BY <2>3
    <3>2. /\ used' \in [Type -> SUBSET Dir] /\ stack' \in Seq(Frame)
          /\ FramesInv' /\ ReturnedInv'
          /\ used'[t] = used[t] \cup {d}
          /\ \A x \in Type \ {t} : used'[x] = used[x]
      BY <1>0, <2>1, <3>1, ReachStep
    <3> QED
      BY <2>1, <3>2
  <2>4. UNCHANGED <<used, stack>> \/ \E t \in Type, d \in Dir : Reach(t, d)
    <3>1. Requested \subseteq Type /\ Bodies \subseteq Use
      BY <1>0, RegistryFacts
    <3> QED
      BY <1>1, <3>1, LoopCalls DEF Use, Dir
  <2> QED
    BY <2>2, <2>3, <2>4
<1>2. CASE Walk
  <2>1. reg' = reg
    BY <1>2 DEF Walk
  <2> QED
    BY <1>0, <1>2, <2>1, WalkStep
<1>3. CASE DecodeDone
  <2>1. reg' = reg /\ used' = Unused /\ stack' = stack /\ stack = << >>
    BY <1>3 DEF DecodeDone, LoopEnds
  <2>2. used' \in [Type -> SUBSET Dir] /\ stack' \in Seq(Frame)
    BY <2>1, <1>0 DEF Unused, TypeOK
  <2>3. FramesInv'
    BY <2>1 DEF FramesInv
  <2>4. ReturnedInv'
    BY <2>1 DEF ReturnedInv, Unused
  <2> QED
    BY <1>3, <2>1, <2>2, <2>3, <2>4
<1>4. CASE Spread \/ SpreadAgain \/ BodiesDone \/ OthersDone \/ Render \/ UNCHANGED vars
  <2>1. reg' = reg /\ UNCHANGED <<used, stack>>
    BY <1>4 DEF Spread, SpreadAgain, BodiesDone, OthersDone, Render, vars
  <2> QED
    BY <1>0, <2>1, Frozen DEF FramesInv, ReturnedInv, Calls, TypeOK
<1> QED
  BY <1>1, <1>2, <1>3, <1>4 DEF Next

(* Every step keeps the types. *)
LEMMA StepTypeOK == ASSUME IInv, [Next]_vars PROVE TypeOK'
<1>0. TypeOK
  BY DEF IInv
<1>1. reg' \in Registry /\ used' \in [Type -> SUBSET Dir] /\ stack' \in Seq(Frame)
  BY <1>0, UsesStep DEF TypeOK
<1>2. phase' \in Phases /\ i' \in Nat \ {0} /\ differs' \subseteq Type /\ changed' \in BOOLEAN
  <2>1. CASE DecodeNext \/ UseBody \/ UseOther
    BY <1>0, <2>1, LoopCalls DEF TypeOK
  <2>2. CASE Walk \/ BodiesDone \/ OthersDone \/ DecodeDone \/ Render \/ SpreadAgain \/ UNCHANGED vars
    <3>1. phase \in Phases /\ i \in Nat \ {0} /\ differs \subseteq Type /\ changed \in BOOLEAN
      BY <1>0 DEF TypeOK
    <3>2. CASE Walk
      BY <3>1, <3>2 DEF Walk
    <3>3. CASE BodiesDone \/ OthersDone \/ DecodeDone
      BY <3>1, <3>3 DEF BodiesDone, OthersDone, DecodeDone, Phases
    <3>4. CASE Render \/ UNCHANGED vars
      BY <3>1, <3>4 DEF Render, Phases, vars
    <3>5. CASE SpreadAgain
      <4>1. phase' \in Phases /\ i' = 1 /\ differs' = differs
        BY <3>5 DEF SpreadAgain, Phases
      <4>2. changed' \in BOOLEAN
        BY <3>5, Zenon DEF SpreadAgain
      <4> QED
        BY <3>1, <4>1, <4>2
    <3> QED
      BY <2>2, <3>2, <3>3, <3>4, <3>5
  <2>3. CASE Spread
    <3>1. reg.order[i] \in Type
      <4>1. reg.order \in Seq(Type) /\ i \in Nat \ {0} /\ i <= Len(reg.order)
        BY <1>0, <2>3, RegistryFacts DEF TypeOK, Spread
      <4> QED
        BY <4>1, ElementOfSeq
    <3> QED
      <4>1. phase \in Phases /\ i \in Nat \ {0} /\ differs \subseteq Type /\ changed \in BOOLEAN
        BY <1>0 DEF TypeOK
      <4>2. phase' = phase /\ i' = i + 1
        BY <2>3 DEF Spread
      <4>3. differs' \in {differs, differs \cup {reg.order[i]}}
        BY <2>3 DEF Spread
      <4>4. changed' = changed \/ changed' = TRUE
        BY <2>3 DEF Spread
      <4>5. changed' \in BOOLEAN
        BY <4>1, <4>4, Zenon
      <4> QED
        BY <3>1, <4>1, <4>2, <4>3, <4>5
  <2> QED
    BY <2>1, <2>2, <2>3 DEF Next
<1> QED
  BY <1>1, <1>2 DEF TypeOK

(* No call of reach outlives the loop that made it. *)
LEMMA StepIdleInv == ASSUME IInv, [Next]_vars PROVE IdleInv'
<1>0. IdleInv
  BY DEF IInv
<1>1. CASE DecodeNext \/ UseBody \/ UseOther
  <2>1. phase' = phase /\ phase \in {"decode", "bodies", "others"}
    BY <1>1, LoopCalls
  <2> QED
    BY <2>1 DEF IdleInv
<1>2. CASE Walk
  BY <1>0, <1>2 DEF IdleInv, Walk
<1>3. CASE ~(DecodeNext \/ UseBody \/ UseOther \/ Walk)
  BY <1>0, <1>3 DEF IdleInv, Next, DecodeDone, Spread, SpreadAgain, BodiesDone, OthersDone,
                    Render, LoopEnds, vars
<1> QED
  BY <1>1, <1>2, <1>3

(* After the last call of a loop every root of it is used and the walk is  *)
(* over, so what is used holds all that the roots reach.                   *)
LEMMA StepRequestsDecodable == ASSUME IInv, [Next]_vars PROVE RequestsDecodable'
<1>0. TypeOK /\ RequestsDecodable /\ reg' = reg
  BY UsesStep DEF IInv
<1> USE Frozen
<1>1. CASE DecodeDone
  <2> DEFINE U == {t \in Type : "request" \in used[t]}
  <2>1. stack = << >> /\ phase = "decode" /\ i > Len(reg.inbound)
    BY <1>1 DEF DecodeDone, LoopEnds
  <2>2. Closed(U)
    BY <1>0, <2>1, IdleIsClosed DEF IInv
  <2>3. Requested \subseteq U
    <3>1. Requested \subseteq Type /\ DOMAIN reg.inbound = 1 .. Len(reg.inbound)
          /\ Len(reg.inbound) \in Nat
      BY <1>0, RegistryFacts, LenProperties
    <3>2. \A l \in DOMAIN reg.inbound : l < i => "request" \in used[reg.inbound[l]]
      BY <2>1 DEF IInv, RootsInv
    <3>3. \A l \in DOMAIN reg.inbound : l < i
      BY <1>0, <2>1, <3>1 DEF TypeOK
    <3> QED
      BY <3>1, <3>2, <3>3 DEF Requested
  <2>4. Reachable(Requested) \subseteq U
    BY <1>0, <2>2, <2>3, RegistryFacts, ReachableIsLeast
  <2>5. phase' # "refused" => U \cap reg.undecodable = {}
    BY <1>1 DEF DecodeDone, Undecodable
  <2> QED
    BY <1>0, <2>4, <2>5 DEF RequestsDecodable
<1>2. CASE ~DecodeDone
  <2>1. phase \in {"decode", "refused"} => phase' \in {"decode", "refused"}
    BY <1>2 DEF Next, DecodeNext, UseBody, UseOther, CallNext, Walk, Spread, SpreadAgain,
                BodiesDone, OthersDone, Render, LoopEnds, vars
  <2> QED
    BY <1>0, <2>1 DEF RequestsDecodable
<1> QED
  BY <1>1, <1>2

(* Each loop leaves its roots used, and no request form comes from elsewhere. *)
LEMMA StepRootsInv == ASSUME IInv, [Next]_vars PROVE RootsInv'
<1> USE Frozen
<1>0. /\ TypeOK /\ FramesInv /\ ReturnedInv /\ IdleInv /\ RootsInv /\ reg' = reg
      /\ used \in [Type -> SUBSET Dir] /\ i \in Nat \ {0}
  BY UsesStep DEF IInv, TypeOK
<1> DEFINE R == Reachable(BodyTypes("request"))
<1>1. /\ Requested \subseteq Type /\ Bodies \subseteq Use /\ BodyTypes("request") \subseteq Type
      /\ \A t \in Type : References(t) \subseteq Type
  BY <1>0, RegistryFacts
<1>2. BodyTypes("request") \subseteq R /\ Closed(R) /\ R \subseteq Type
  BY <1>0, <1>1, ReachableIsLeast
<1>3. DOMAIN reg.bodies = 1 .. Len(reg.bodies) /\ Len(reg.bodies) \in Nat
      /\ DOMAIN reg.inbound = 1 .. Len(reg.inbound) /\ Len(reg.inbound) \in Nat
  BY <1>0, RegistryFacts, LenProperties
<1>4. CASE DecodeNext
  <2> DEFINE t == reg.inbound[i]
  <2>1. t \in Type /\ Reach(t, "request") /\ stack = << >> /\ phase' = "decode" /\ i' = i + 1
        /\ phase = "decode"
    BY <1>1, <1>4, LoopCalls
  <2>2. used'[t] = used[t] \cup {"request"} /\ \A x \in Type \ {t} : used'[x] = used[x]
    BY <1>0, <2>1, ReachStep DEF Dir
  <2>3. \A l \in DOMAIN reg.inbound : l < i + 1 => l < i \/ l = i
    BY <1>0, <1>3
  <2>4. \A l \in DOMAIN reg.inbound : reg.inbound[l] \in Type
    BY <1>1 DEF Requested
  <2>5. \A l \in DOMAIN reg.inbound : l < i + 1 => "request" \in used'[reg.inbound[l]]
    BY <1>0, <2>1, <2>2, <2>3, <2>4 DEF RootsInv
  <2> QED
    BY <1>0, <2>1, <2>5 DEF RootsInv
<1>5. CASE UseBody
  <2> DEFINE b == reg.bodies[i]
  <2>1. b \in Bodies /\ Reach(b.type, b.dir) /\ stack = << >> /\ phase' = "bodies" /\ i' = i + 1
        /\ phase = "bodies"
    BY <1>5, LoopCalls
  <2>2. b.type \in Type /\ b.dir \in Dir
    BY <1>1, <2>1 DEF Use
  <2>3. used'[b.type] = used[b.type] \cup {b.dir} /\ \A x \in Type \ {b.type} : used'[x] = used[x]
    BY <1>0, <2>1, <2>2, ReachStep
  <2>4. \A l \in DOMAIN reg.bodies : l < i + 1 => l < i \/ l = i
    BY <1>0, <1>3
  <2>5. \A l \in DOMAIN reg.bodies : reg.bodies[l].type \in Type
    BY <1>1 DEF Bodies, Use
  <2>6. \A l \in DOMAIN reg.bodies : l < i + 1 => reg.bodies[l].dir \in used'[reg.bodies[l].type]
    BY <1>0, <2>1, <2>3, <2>4, <2>5 DEF RootsInv
  <2>7. b.dir = "request" => b.type \in R
    BY <1>2, <2>1 DEF BodyTypes
  <2>8. {t \in Type : "request" \in used[t]} \subseteq R
    BY <1>0, <2>1 DEF RootsInv
  <2>9. {t \in Type : "request" \in used'[t]} \subseteq R
    BY <2>2, <2>3, <2>7, <2>8
  <2> QED
    BY <1>0, <2>1, <2>6, <2>9 DEF RootsInv
<1>6. CASE UseOther
  <2> DEFINE t == reg.order[i]
  <2>1. t \in Type /\ stack = << >> /\ phase' = "others" /\ phase = "others"
        /\ (Reach(t, "response") \/ UNCHANGED <<used, stack>>)
    BY <1>6, LoopCalls
  <2>2. \A x \in Type : used[x] \subseteq used'[x] /\ used'[x] \subseteq used[x] \cup {"response"}
    <3>1. CASE Reach(t, "response")
      BY <1>0, <2>1, <3>1, ReachStep DEF Dir
    <3>2. CASE UNCHANGED <<used, stack>>
      BY <3>2
    <3> QED
      BY <2>1, <3>1, <3>2
  <2>3. \A b \in Bodies : b.dir \in used'[b.type]
    BY <1>0, <1>1, <2>1, <2>2 DEF RootsInv, Use
  <2>4. {x \in Type : "request" \in used'[x]} \subseteq R
    BY <1>0, <2>1, <2>2 DEF RootsInv
  <2> QED
    BY <1>0, <2>1, <2>3, <2>4 DEF RootsInv
<1>7. CASE Walk
  <2>1. UNCHANGED <<phase, i>>
    BY <1>7 DEF Walk
  <2>2. \A x \in Type : used[x] \subseteq used'[x]
    BY <1>0, <1>7, WalkStep
  <2>3. \A x \in Type : \A e \in used'[x] \ used[x] :
          \E y \in Type : x \in References(y) /\ e \in used[y]
    BY <1>0, <1>7, WalkStep
  <2>4. ASSUME {t \in Type : "request" \in used[t]} \subseteq R
        PROVE  {t \in Type : "request" \in used'[t]} \subseteq R
    <3> SUFFICES ASSUME NEW x \in Type, "request" \in used'[x], "request" \notin used[x]
                 PROVE  x \in R
      BY <2>4
    <3>1. PICK y \in Type : x \in References(y) /\ "request" \in used[y]
      BY <2>3
    <3>2. y \in R
      BY <2>4, <3>1
    <3> QED
      BY <1>2, <3>1, <3>2 DEF Closed
  <2>5. \A l \in DOMAIN reg.inbound : reg.inbound[l] \in Type
    BY <1>1 DEF Requested
  <2>6. \A l \in DOMAIN reg.bodies : reg.bodies[l].type \in Type
    BY <1>1 DEF Bodies, Use
  <2>7. phase = "decode" =>
          \A l \in DOMAIN reg.inbound : l < i => "request" \in used'[reg.inbound[l]]
    BY <1>0, <2>2, <2>5 DEF RootsInv
  <2>8. phase = "bodies" =>
          \A l \in DOMAIN reg.bodies : l < i => reg.bodies[l].dir \in used'[reg.bodies[l].type]
    BY <1>0, <2>2, <2>6 DEF RootsInv
  <2>9. phase \in {"others", "render", "written"} => \A b \in Bodies : b.dir \in used'[b.type]
    BY <1>0, <1>1, <2>2 DEF RootsInv, Use
  <2>10. phase \in {"bodies", "others", "render", "written"} =>
           {t \in Type : "request" \in used'[t]} \subseteq R
    BY <1>0, <2>4 DEF RootsInv
  <2> QED
    BY <1>0, <2>1, <2>7, <2>8, <2>9, <2>10 DEF RootsInv
<1>8. CASE DecodeDone \/ Spread
  BY <1>0, <1>8 DEF RootsInv, DecodeDone, Spread
<1>9. CASE SpreadAgain
  <2>1. phase' \in {"spread", "bodies"} /\ i' = 1 /\ used' = Unused
    BY <1>0, <1>9 DEF SpreadAgain, IdleInv
  <2>2. \A l \in DOMAIN reg.bodies : ~(l < 1)
    BY <1>3
  <2>3. {t \in Type : "request" \in used'[t]} = {}
    BY <2>1 DEF Unused
  <2> QED
    BY <1>0, <2>1, <2>2, <2>3 DEF RootsInv
<1>10. CASE BodiesDone
  <2>1. phase = "bodies" /\ phase' = "others" /\ used' = used /\ i > Len(reg.bodies)
    BY <1>10 DEF BodiesDone, LoopEnds
  <2>2. \A l \in DOMAIN reg.bodies : reg.bodies[l].dir \in used[reg.bodies[l].type]
    BY <1>0, <1>3, <2>1 DEF RootsInv
  <2>3. \A b \in Bodies : b.dir \in used[b.type]
    BY <2>2 DEF Bodies
  <2> QED
    BY <1>0, <2>1, <2>3 DEF RootsInv
<1>11. CASE OthersDone \/ Render
  BY <1>0, <1>11 DEF RootsInv, OthersDone, Render, LoopEnds
<1>12. CASE UNCHANGED vars
  BY <1>0, <1>12 DEF RootsInv, vars
<1> QED
  BY <1>4, <1>5, <1>6, <1>7, <1>8, <1>9, <1>10, <1>11, <1>12 DEF Next

(* Marking stays sound, and a pass that marks nothing leaves nothing to mark. *)
LEMMA StepSpreadInv == ASSUME IInv, [Next]_vars PROVE SpreadInv'
<1> USE Frozen
<1>0. TypeOK /\ SpreadInv /\ reg' = reg /\ i \in Nat \ {0} /\ differs \subseteq Type
  BY UsesStep DEF IInv, TypeOK
<1>1. DOMAIN reg.order = 1 .. Len(reg.order) /\ Len(reg.order) \in Nat
  BY <1>0, RegistryFacts, LenProperties
<1>2. CASE Spread
  <2> DEFINE t == reg.order[i]
  <2>1. phase' = "spread" /\ phase = "spread" /\ i \in DOMAIN reg.order /\ i' = i + 1
    BY <1>0, <1>1, <1>2 DEF Spread
  <2>2. t \in Type
    BY <1>0, <1>1, <2>1, RegistryFacts, ElementOfSeq
  <2>3. CASE t \notin differs /\ RefsAny(t, differs)
    <3>1. differs' = differs \cup {t} /\ changed' = TRUE
      BY <1>2, <2>3 DEF Spread
    <3>2. PICK u \in References(t) : u \in differs
      BY <2>3 DEF RefsAny
    <3>3. Reachable({u}) \subseteq Reachable({t})
      BY <1>0, <2>2, <3>2, ReachableThrough
    <3>4. Reachable({t}) \cap reg.own # {}
      BY <1>0, <3>2, <3>3 DEF SpreadInv
    <3> QED
      BY <1>0, <2>1, <3>1, <3>4 DEF SpreadInv, Differing
  <2>4. CASE ~(t \notin differs /\ RefsAny(t, differs))
    <3>1. differs' = differs /\ changed' = changed
      BY <1>2, <2>4 DEF Spread
    <3>2. Settled(t)
      BY <2>4 DEF Settled
    <3>3. \A x : Settled(x)' <=> Settled(x)
      BY <1>0, <3>1 DEF Settled, RefsAny
    <3>4. \A l \in DOMAIN reg.order : l < i + 1 => l < i \/ l = i
      BY <1>0, <1>1
    <3>5. ~changed => \A l \in DOMAIN reg.order : l < i + 1 => Settled(reg.order[l])
      BY <1>0, <2>1, <3>2, <3>4 DEF SpreadInv
    <3> QED
      BY <1>0, <2>1, <3>1, <3>3, <3>5 DEF SpreadInv, Differing
  <2> QED
    BY <2>3, <2>4
<1>3. ASSUME differs' = differs
      PROVE  \A x : Settled(x)' <=> Settled(x)
  BY <1>0, <1>3 DEF Settled, RefsAny
<1>4. CASE SpreadAgain
  <2>1. phase = "spread" /\ i > Len(reg.order) /\ i' = 1 /\ differs' = differs
        /\ phase' = IF changed THEN "spread" ELSE "bodies"
    BY <1>4 DEF SpreadAgain
  <2>2. \A l \in DOMAIN reg.order : l < i /\ ~(l < 1)
    BY <1>0, <1>1, <2>1
  <2>3. ~changed => \A x \in Type : Settled(x)
    BY <1>0, <2>1, <2>2 DEF SpreadInv
  <2>4. phase' # "spread" => ~changed
    BY <2>1
  <2>5. Differing' => \A x \in Type : Settled(x)'
    BY <1>3, <2>1, <2>3 DEF Differing
  <2> QED
    BY <1>0, <2>1, <2>2, <2>5 DEF SpreadInv
<1>5. CASE DecodeDone
  <2>1. phase' \in {"spread", "refused"} /\ i' = 1 /\ differs' = differs
    BY <1>5 DEF DecodeDone
  <2>2. \A l \in DOMAIN reg.order : ~(l < 1)
    BY <1>1
  <2> QED
    BY <1>0, <2>1, <2>2 DEF SpreadInv, Differing
<1>6. CASE ~(Spread \/ SpreadAgain \/ DecodeDone)
  <2>1. differs' = differs /\ changed' = changed
    BY <1>6, LoopCalls DEF Next, Walk, BodiesDone, OthersDone, Render, vars
  <2>2. phase' = "spread" => phase = "spread" /\ i' = i
    BY <1>6, LoopCalls DEF Next, Walk, BodiesDone, OthersDone, Render, vars
  <2>3. Differing' => Differing
    BY <1>6, LoopCalls DEF Next, Walk, BodiesDone, OthersDone, Render, vars, Differing, LoopEnds
  <2> QED
    BY <1>0, <1>3, <2>1, <2>2, <2>3 DEF SpreadInv
<1> QED
  BY <1>2, <1>4, <1>5, <1>6

(* A document is written only if no two components share a name, and then  *)
(* nothing moves.                                                          *)
LEMMA StepClashInv == ASSUME IInv, [Next]_vars PROVE ClashInv'
<1> SUFFICES ASSUME phase' = "written" PROVE ~Clash'
  BY DEF ClashInv
<1>1. CASE Render
  <2>1. ~Clash /\ UNCHANGED <<reg, used, differs>>
    BY <1>1 DEF Render
  <2> QED
    BY <2>1 DEF Clash, Components, ComponentDirections, NameOf, ComponentName
<1>2. CASE ~Render
  <2>1. phase = "written" /\ UNCHANGED <<reg, used, differs>>
    BY <1>2, LoopCalls DEF Next, Walk, Spread, SpreadAgain, DecodeDone, BodiesDone, OthersDone,
                           LoopEnds, vars, IInv, IdleInv
  <2>2. ~Clash
    BY <2>1 DEF IInv, ClashInv
  <2> QED
    BY <2>1, <2>2 DEF Clash, Components, ComponentDirections, NameOf, ComponentName
<1> QED
  BY <1>1, <1>2

-----------------------------------------------------------------------------
(* The invariant the results below follow from. *)
THEOREM Invariance == Spec => []IInv
<1>1. Init => IInv
  BY InitInv
<1>2. IInv /\ [Next]_vars => IInv'
  <2> SUFFICES ASSUME IInv, [Next]_vars PROVE IInv'
    OBVIOUS
  <2>1. FramesInv' /\ ReturnedInv'
    BY UsesStep
  <2> QED
    BY <2>1, StepTypeOK, StepIdleInv, StepRootsInv, StepSpreadInv, StepClashInv,
       StepRequestsDecodable DEF IInv
<1> QED
  BY <1>1, <1>2, PTL DEF Spec

(* The state of the walks and of the marking keeps its types. *)
THEOREM TypeCorrect == Spec => []TypeOK
<1>1. IInv => TypeOK
  BY DEF IInv
<1> QED
  BY <1>1, Invariance, PTL

(* refuseUndecodable sees every type a request carries, through any        *)
(* references: past it none has a field encoding/json cannot decode.       *)
THEOREM RequestsAreDecodable == Spec => []RequestsDecodable
<1>1. IInv => RequestsDecodable
  BY DEF IInv
<1> QED
  BY <1>1, Invariance, PTL

(* spreadDiffers marks the types that reach a type whose two schemas       *)
(* differ by themselves, and no others.                                    *)
THEOREM DifferingIsExact == Spec => []DiffersIsExact
<1>1. IInv => DiffersIsExact
  <2> SUFFICES ASSUME IInv, Differing, NEW t \in Type, t \notin differs
               PROVE  Reachable({t}) \cap reg.own = {}
    BY DEF DiffersIsExact, IInv, SpreadInv, TypeOK
  <2> DEFINE S == Type \ differs
  <2>1. TypeOK /\ reg.own \subseteq differs /\ \A x \in Type : Settled(x)
    BY DEF IInv, SpreadInv
  <2>2. Closed(S)
    BY <2>1, RegistryFacts DEF Closed, Settled, RefsAny
  <2>3. Reachable({t}) \subseteq S
    BY <2>1, <2>2, ReachableIsLeast
  <2> QED
    BY <2>1, <2>3
<1> QED
  BY <1>1, Invariance, PTL

(* usedDirections gives a request form to the types request bodies reach,  *)
(* and to no others.                                                       *)
THEOREM RequestFormsExact == Spec => []RequestFormsAreRequested
<1>1. IInv => RequestFormsAreRequested
  <2> SUFFICES ASSUME IInv, phase \in {"render", "written"}
               PROVE  {t \in Type : "request" \in used[t]} = Reachable(BodyTypes("request"))
    BY DEF RequestFormsAreRequested
  <2> DEFINE U == {t \in Type : "request" \in used[t]}
  <2>1. TypeOK /\ ReturnedInv /\ stack = << >>
    BY DEF IInv, IdleInv
  <2>2. Closed(U)
    BY <2>1, IdleIsClosed
  <2>3. BodyTypes("request") \subseteq U
    <3>1. \A b \in Bodies : b.dir \in used[b.type] /\ b.type \in Type
      BY <2>1, RegistryFacts DEF IInv, RootsInv, Use
    <3> QED
      BY <3>1 DEF BodyTypes
  <2>4. Reachable(BodyTypes("request")) \subseteq U
    BY <2>1, <2>2, <2>3, RegistryFacts, ReachableIsLeast
  <2>5. U \subseteq Reachable(BodyTypes("request"))
    BY DEF IInv, RootsInv
  <2> QED
    BY <2>4, <2>5
<1> QED
  BY <1>1, Invariance, PTL

(* A type in use resolves in each direction it is used in, and in both if  *)
(* its schemas agree.                                                      *)
LEMMA UsedResolves ==
  ASSUME TypeOK, ~Clash, NEW t \in Type, NEW d \in Dir, used[t] # {},
         d \in used[t] \/ t \notin differs
  PROVE  Resolves(t, d)
<1> DEFINE c == [type |-> t, dir |-> IF t \in differs THEN d ELSE "response"]
<1>1. c \in Use /\ c.type = t
  BY DEF Use, Dir
<1>2. c \in Components
  BY <1>1 DEF Components, ComponentDirections
<1>3. NameOf(c) = ComponentName(t, d)
  BY DEF NameOf, ComponentName
<1>4. c.dir = d \/ t \notin differs
  OBVIOUS
<1>5. NameOf(c) \notin reg.enums /\ \A e \in Components : NameOf(e) = NameOf(c) => e = c
  BY <1>2 DEF Clash
<1> HIDE DEF c
<1> QED
  BY <1>1, <1>2, <1>3, <1>4, <1>5 DEF Resolves

(* Every $ref wiregen writes into a document names the component it means. *)
THEOREM WrittenRefsResolve == Spec => []RefsResolve
<1>1. IInv => RefsResolve
  <2> SUFFICES ASSUME IInv, phase = "written"
               PROVE  /\ \A b \in Bodies : Resolves(b.type, b.dir)
                      /\ \A c \in Components : \A t \in References(c.type) : Resolves(t, c.dir)
    BY DEF RefsResolve
  <2>1. TypeOK /\ ReturnedInv /\ stack = << >> /\ ~Clash
    BY DEF IInv, IdleInv, ClashInv
  <2>2. \A x \in Type : Settled(x)
    BY DEF IInv, SpreadInv, Differing
  <2>3. ASSUME NEW b \in Bodies PROVE Resolves(b.type, b.dir)
    <3>1. b.type \in Type /\ b.dir \in Dir
      BY <2>1, RegistryFacts DEF Use
    <3>2. b.dir \in used[b.type]
      BY DEF IInv, RootsInv
    <3> QED
      BY <2>1, <3>1, <3>2, UsedResolves
  <2>4. ASSUME NEW c \in Components, NEW t \in References(c.type) PROVE Resolves(t, c.dir)
    <3>1. c.type \in Type /\ c.dir \in Dir /\ c.dir \in ComponentDirections(c.type)
      BY DEF Components, Use
    <3>2. t \in Type
      BY <2>1, <3>1, RegistryFacts
    <3>3. \A d \in used[c.type] : d \in used[t]
      <4>1. Calls = {}
        BY <2>1 DEF Calls
      <4> QED
        BY <2>1, <3>1, <4>1 DEF ReturnedInv
    <3>4. used[c.type] # {}
      BY <3>1 DEF ComponentDirections
    <3>5. c.dir \in used[c.type] \/ c.type \notin differs
      BY <3>1 DEF ComponentDirections
    <3>6. c.dir \in used[t] \/ t \notin differs
      BY <2>2, <3>1, <3>3, <3>5 DEF Settled, RefsAny
    <3> QED
      BY <2>1, <3>1, <3>2, <3>3, <3>4, <3>6, UsedResolves
  <2> QED
    BY <2>3, <2>4
<1> QED
  BY <1>1, Invariance, PTL
=============================================================================
