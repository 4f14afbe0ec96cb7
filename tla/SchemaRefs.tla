----------------------------- MODULE SchemaRefs -----------------------------
(***************************************************************************)
(* Which component schemas an OpenAPI document carries, and what its $refs *)
(* name (openapi.go), with the walk over the types a request carries       *)
(* (refuseUndecodable and reach in ast_engine.go) that runs before it.     *)
(* reach recurses; here its calls are the frames of a stack.               *)
(*                                                                         *)
(* A schema is left out but for the types it references and whether its    *)
(* two directions differ by themselves.  The components of a union's cases *)
(* are one with the union's: a case's name is its type's and a dot, which  *)
(* no TypeScript name holds.                                               *)
(***************************************************************************)
EXTENDS Integers, Sequences

CONSTANTS
  Type,        \* Go names of the registered types
  Name,        \* component names
  WithInput,   \* WithInput[n] is n suffixed Input
  Registries   \* what Generate is given, once resolved

Dir == {"response", "request"}
Use == [type : Type, dir : Dir]

(* order    the registered types, as engine.types and Registry.Types list  *)
(*          them (sorting changes the order of the loops, no result)       *)
(* refs     the registered types a type's fields name, in field order      *)
(* own      the types whose two schemas differ before references count     *)
(* undecodable  the types with a field encoding/json cannot decode         *)
(* inbound  each endpoint's Request, Params and Query type, in order       *)
(* bodies   each endpoint's Request and Response, each event's Data, the   *)
(*          ErrorEnvelope, in order, with the direction each crosses in    *)
(* params   the Params and Query types                                     *)
(* name     the TypeScript name of each type; enums, those of the enums    *)
Registry ==
  [order : Seq(Type), refs : [Type -> Seq(Type)], own : SUBSET Type,
   undecodable : SUBSET Type, inbound : Seq(Type), bodies : Seq(Use),
   params : SUBSET Type, name : [Type -> Name], enums : SUBSET Name]

ASSUME RegistriesAssumption ==
  \A r \in Registries :
    /\ r \in Registry
    /\ \A t \in Type : \E l \in DOMAIN r.order : r.order[l] = t

VARIABLES
  reg,      \* the registry
  phase,    \* the function running: see Phases
  i,        \* the index of its loop
  used,     \* the directions each type is used in
  stack,    \* the calls of reach that have not returned
  differs,  \* the types known to have two schemas
  changed   \* the flag of spreadDiffers

vars == <<reg, phase, i, used, stack, differs, changed>>

(* refuseUndecodable, spreadDiffers, the two loops of usedDirections,      *)
(* componentSchemas, and what Generate ends with.                          *)
Phases == {"decode", "spread", "bodies", "others", "render", "written", "refused"}

Frame == [type : Type, dir : Dir, next : Nat \ {0}]

Unused == [t \in Type |-> {}]
References(t) == {reg.refs[t][l] : l \in DOMAIN reg.refs[t]}

Init ==
  /\ reg \in Registries
  /\ phase = "decode" /\ i = 1
  /\ used = Unused /\ stack = << >>
  /\ differs = reg.own /\ changed = FALSE

(* A call of reach: it returns at once if the use is recorded already. *)
Reach(t, d) ==
  IF d \in used[t] THEN UNCHANGED <<used, stack>>
  ELSE /\ used' = [used EXCEPT ![t] = @ \cup {d}]
       /\ stack' = Append(stack, [type |-> t, dir |-> d, next |-> 1])

Top == stack[Len(stack)]
Popped == SubSeq(stack, 1, Len(stack) - 1)

(* Mutant: a walk misses the last field. *)
WalkAllButLast ==
  /\ stack # << >>
  /\ LET t == Top.type
         onward == Append(Popped, [Top EXCEPT !.next = @ + 1])
     IN IF Top.next >= Len(reg.refs[t]) THEN stack' = Popped /\ UNCHANGED used
        ELSE LET u == reg.refs[t][Top.next] IN
             IF Top.dir \in used[u] THEN stack' = onward /\ UNCHANGED used
             ELSE /\ used' = [used EXCEPT ![u] = @ \cup {Top.dir}]
                  /\ stack' = Append(onward, [type |-> u, dir |-> Top.dir, next |-> 1])
  /\ UNCHANGED <<reg, phase, i, differs, changed>>

(* The walk over the fields of the call on top: one call of reach per      *)
(* reference to a registered type, then the return.                        *)
Walk ==
  /\ stack # << >>
  /\ LET t == Top.type
         onward == Append(Popped, [Top EXCEPT !.next = @ + 1])
     IN IF Top.next > Len(reg.refs[t]) THEN stack' = Popped /\ UNCHANGED used
        ELSE LET u == reg.refs[t][Top.next] IN
             IF Top.dir \in used[u] THEN stack' = onward /\ UNCHANGED used
             ELSE /\ used' = [used EXCEPT ![u] = @ \cup {Top.dir}]
                  /\ stack' = Append(onward, [type |-> u, dir |-> Top.dir, next |-> 1])
  /\ UNCHANGED <<reg, phase, i, differs, changed>>

(* The next call from the loop of phase p over the uses in s. *)
CallNext(p, s, use) ==
  /\ phase = p /\ stack = << >> /\ i <= Len(s)
  /\ i' = i + 1
  /\ Reach(use.type, use.dir)
  /\ UNCHANGED <<reg, phase, differs, changed>>

LoopEnds(p, s) == phase = p /\ stack = << >> /\ i > Len(s)

DecodeNext == CallNext("decode", reg.inbound, [type |-> reg.inbound[i], dir |-> "request"])
UseBody == CallNext("bodies", reg.bodies, reg.bodies[i])

Undecodable == {t \in reg.undecodable : "request" \in used[t]}

(* Mutant: usedDirections starts from the uses of the first walk. *)
DecodeDoneKeepingUsed ==
  /\ LoopEnds("decode", reg.inbound)
  /\ phase' = IF Undecodable # {} THEN "refused" ELSE "spread"
  /\ i' = 1
  /\ UNCHANGED <<reg, used, stack, differs, changed>>

(* The engine refuses what a request cannot carry, then renderOpenAPI      *)
(* starts with the types that differ on their own.                         *)
DecodeDone ==
  /\ LoopEnds("decode", reg.inbound)
  /\ phase' = IF Undecodable # {} THEN "refused" ELSE "spread"
  /\ i' = 1
  /\ used' = Unused
  /\ UNCHANGED <<reg, stack, differs, changed>>

RefsAny(t, set) == References(t) \cap set # {}

(* Mutant: a type marked already counts as a change. *)
SpreadMarked ==
  /\ phase = "spread" /\ i <= Len(reg.order)
  /\ i' = i + 1
  /\ LET t == reg.order[i] IN
     IF RefsAny(t, differs)
     THEN differs' = differs \cup {t} /\ changed' = TRUE
     ELSE UNCHANGED <<differs, changed>>
  /\ UNCHANGED <<reg, phase, used, stack>>

Spread ==
  /\ phase = "spread" /\ i <= Len(reg.order)
  /\ i' = i + 1
  /\ LET t == reg.order[i] IN
     IF t \notin differs /\ RefsAny(t, differs)
     THEN differs' = differs \cup {t} /\ changed' = TRUE
     ELSE UNCHANGED <<differs, changed>>
  /\ UNCHANGED <<reg, phase, used, stack>>

(* Mutant: one pass over the types. *)
SpreadOnce ==
  /\ phase = "spread" /\ i > Len(reg.order)
  /\ i' = 1
  /\ changed' = FALSE
  /\ phase' = "bodies"
  /\ UNCHANGED <<reg, used, stack, differs>>

SpreadAgain ==
  /\ phase = "spread" /\ i > Len(reg.order)
  /\ i' = 1
  /\ changed' = FALSE
  /\ phase' = IF changed THEN "spread" ELSE "bodies"
  /\ UNCHANGED <<reg, used, stack, differs>>

BodiesDone ==
  /\ LoopEnds("bodies", reg.bodies)
  /\ phase' = "others"
  /\ i' = 1
  /\ UNCHANGED <<reg, used, stack, differs, changed>>

(* The response form of a type nothing has used, unless it is parameters. *)
UseOther ==
  /\ phase = "others" /\ stack = << >> /\ i <= Len(reg.order)
  /\ i' = i + 1
  /\ LET t == reg.order[i] IN
     IF used[t] = {} /\ t \notin reg.params THEN Reach(t, "response")
     ELSE UNCHANGED <<used, stack>>
  /\ UNCHANGED <<reg, phase, differs, changed>>

OthersDone ==
  /\ LoopEnds("others", reg.order)
  /\ phase' = "render"
  /\ UNCHANGED <<reg, i, used, stack, differs, changed>>

-----------------------------------------------------------------------------
ComponentDirections(t) ==
  CASE used[t] = {} -> {}
    [] used[t] # {} /\ t \notin differs -> {"response"}
    [] OTHER -> used[t]

(* Mutant: every request form is suffixed. *)
ComponentNameAlwaysSuffixed(t, d) ==
  IF d = "request" THEN WithInput[reg.name[t]] ELSE reg.name[t]

ComponentName(t, d) ==
  IF d = "request" /\ t \in differs THEN WithInput[reg.name[t]] ELSE reg.name[t]

Components == {c \in Use : c.dir \in ComponentDirections(c.type)}
NameOf(c) == ComponentName(c.type, c.dir)

Clash ==
  \/ \E c \in Components : NameOf(c) \in reg.enums
  \/ \E b, c \in Components : b # c /\ NameOf(b) = NameOf(c)

(* componentSchemas refuses two components of one name; otherwise the      *)
(* document is written with every component and every operation.           *)
Render ==
  /\ phase = "render"
  /\ phase' = IF Clash THEN "refused" ELSE "written"
  /\ UNCHANGED <<reg, i, used, stack, differs, changed>>

Next ==
  \/ DecodeNext \/ DecodeDone \/ Spread \/ SpreadAgain \/ UseBody \/ BodiesDone
  \/ UseOther \/ OthersDone \/ Walk \/ Render

Spec == Init /\ [][Next]_vars

(* Generate is one goroutine that runs until it returns. *)
FairSpec == Spec /\ WF_vars(Next)

-----------------------------------------------------------------------------
TypeOK ==
  /\ reg \in Registry
  /\ phase \in Phases
  /\ i \in Nat \ {0}
  /\ used \in [Type -> SUBSET Dir]
  /\ stack \in Seq(Frame)
  /\ differs \subseteq Type
  /\ changed \in BOOLEAN

Closed(S) == \A t \in S : References(t) \subseteq S

(* The types of R and all they reference, through any number of fields. *)
Reachable(R) == {t \in Type : \A S \in SUBSET Type : R \subseteq S /\ Closed(S) => t \in S}

Requested == {reg.inbound[l] : l \in DOMAIN reg.inbound}
Bodies == {reg.bodies[l] : l \in DOMAIN reg.bodies}
BodyTypes(d) == {b.type : b \in {b \in Bodies : b.dir = d}}

Differing == phase \in {"bodies", "others", "render", "written"}

(* No field encoding/json cannot decode is generated into a type that an   *)
(* endpoint's body or arguments carry, however deep below them it lies.    *)
RequestsDecodable ==
  phase \notin {"decode", "refused"} => Reachable(Requested) \cap reg.undecodable = {}

(* A type has an Input form of its own exactly when its request schema     *)
(* differs, by its own fields or through any type below it.                *)
DiffersIsExact ==
  Differing => differs = {t \in Type : Reachable({t}) \cap reg.own # {}}

(* A type is used as a request exactly when a request body reaches it:     *)
(* documenting the types no endpoint reaches adds no request form.         *)
RequestFormsAreRequested ==
  phase \in {"render", "written"} =>
    {t \in Type : "request" \in used[t]} = Reachable(BodyTypes("request"))

(* A $ref wiregen writes names one component: that of the type it is for,  *)
(* in the direction it stands in or with the schema both directions share. *)
Resolves(t, d) ==
  \E c \in Components :
    /\ c.type = t /\ NameOf(c) = ComponentName(t, d)
    /\ c.dir = d \/ t \notin differs
    /\ NameOf(c) \notin reg.enums
    /\ \A e \in Components : NameOf(e) = NameOf(c) => e = c

(* In a written document every $ref of an operation or a component         *)
(* resolves, so checkRefs never blames a Mappings Schema for one.          *)
RefsResolve ==
  phase = "written" =>
    /\ \A b \in Bodies : Resolves(b.type, b.dir)
    /\ \A c \in Components : \A t \in References(c.type) : Resolves(t, c.dir)

(* Over any references, cyclic ones too, the walks and the marking end. *)
AlwaysReturns == <>(phase \in {"written", "refused"})

-----------------------------------------------------------------------------
(* Every call of reach has recorded its use, and the uses of the           *)
(* references it has passed; one that has returned, of all of them.        *)
Calls == {[type |-> stack[l].type, dir |-> stack[l].dir] : l \in DOMAIN stack}

FramesInv ==
  \A l \in DOMAIN stack :
    LET f == stack[l] IN
    /\ f.dir \in used[f.type]
    /\ \A m \in DOMAIN reg.refs[f.type] : m < f.next => f.dir \in used[reg.refs[f.type][m]]

ReturnedInv ==
  \A t \in Type : \A d \in used[t] :
    [type |-> t, dir |-> d] \in Calls \/ \A u \in References(t) : d \in used[u]

IdleInv ==
  /\ phase \notin {"decode", "bodies", "others"} => stack = << >>
  /\ phase = "spread" => used = Unused

(* The roots the loops have passed are used, and nothing is as a request   *)
(* that no root of the loops reaches.                                      *)
RootsInv ==
  /\ phase = "decode" =>
       \A l \in DOMAIN reg.inbound : l < i => "request" \in used[reg.inbound[l]]
  /\ phase = "bodies" =>
       \A l \in DOMAIN reg.bodies : l < i => reg.bodies[l].dir \in used[reg.bodies[l].type]
  /\ phase \in {"others", "render", "written"} =>
       \A b \in Bodies : b.dir \in used[b.type]
  /\ phase \in {"bodies", "others", "render", "written"} =>
       {t \in Type : "request" \in used[t]} \subseteq Reachable(BodyTypes("request"))

(* What is marked differs; a pass that has marked nothing has met nothing  *)
(* left to mark, and the last one has met every type.                      *)
Settled(t) == t \in differs \/ ~RefsAny(t, differs)

SpreadInv ==
  /\ \A t \in Type : \E l \in DOMAIN reg.order : reg.order[l] = t
  /\ reg.own \subseteq differs
  /\ \A t \in differs : Reachable({t}) \cap reg.own # {}
  /\ phase = "spread" /\ ~changed =>
       \A l \in DOMAIN reg.order : l < i => Settled(reg.order[l])
  /\ Differing => \A t \in Type : Settled(t)

ClashInv == phase = "written" => ~Clash

IInv ==
  /\ TypeOK /\ FramesInv /\ ReturnedInv /\ IdleInv
  /\ RootsInv /\ SpreadInv /\ ClashInv /\ RequestsDecodable
=============================================================================
