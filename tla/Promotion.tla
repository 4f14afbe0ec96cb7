------------------------------ MODULE Promotion ------------------------------
(***************************************************************************)
(* How wiregen flattens embedded structs (resolveStructFields and          *)
(* resolveEmbeddedField in ast_engine.go), against the promotion rule      *)
(* docs/type-mapping.md states for it.  wiregen runs dedupJSONFields at    *)
(* every struct on the way up; the rule is stated once, over all the       *)
(* fields below the root.  What a field's type resolves to plays no part   *)
(* and is left out.                                                        *)
(***************************************************************************)
EXTENDS DedupFields, FiniteSets, SequencesExt

CONSTANTS
  Struct,  \* names of struct types
  Root,    \* the registered struct
  Decls    \* declarations to resolve: functions from Struct to member lists

VARIABLES
  decl,     \* the members of each struct, in declaration order
  calls,    \* the calls of resolveStructFields under way, the innermost last
  visited   \* the structs on the path, which no embed enters again

(* A member is a plain field, or embeds a struct or another named type; an *)
(* embed's Go name is its type's.  tag is the json name, "-" or "".        *)
Member == [kind : {"field", "struct", "scalar"}, name : STRING, tag : STRING,
           ptr : BOOLEAN, exported : BOOLEAN]

Flattened(m) == m.kind = "struct" /\ m.tag = ""
Skipped(m) == m.tag = "-" \/ (~m.exported /\ m.kind # "struct")

(* resolveNamedField: the tag names the field, else its Go name does. *)
NamedField(m, depth) ==
  [wire |-> IF m.tag = "" THEN m.name ELSE m.tag, go |-> <<m.name>>, depth |-> depth,
   tagged |-> m.tag # "", viaEmbedPtr |-> FALSE, inRefused |-> FALSE]

(* Mutant: only the outermost embed decides whether it may be absent. *)
PromotedByOutermost(m, f) ==
  [f EXCEPT !.go = <<m.name>> \o @,
            !.viaEmbedPtr = m.ptr,
            !.inRefused = @ \/ (m.ptr /\ ~m.exported)]

(* What resolveEmbeddedField adds to a field promoted through the embed m. *)
Promoted(m, f) ==
  [f EXCEPT !.go = <<m.name>> \o @,
            !.viaEmbedPtr = @ \/ m.ptr,
            !.inRefused = @ \/ (m.ptr /\ ~m.exported)]

(* Go refuses two members of one name, blank ones aside, so an embed is    *)
(* known by its name.                                                      *)
ASSUME StructAssumption == IsFiniteSet(Struct) /\ Root \in Struct
ASSUME DeclsAssumption ==
  \A d \in Decls : \A s \in Struct :
    /\ d[s] \in Seq(Member)
    /\ \A l, k \in DOMAIN d[s] : d[s][l].name = d[s][k].name => l = k \/ Skipped(d[s][l])
    /\ \A m \in Range(d[s]) : Flattened(m) => m.name \in Struct

allVars == <<vars, decl, calls, visited>>

(* A call has a struct, the index of its next member and its raw fields. *)
Call(s) == [struct |-> s, member |-> 1, fields |-> << >>]
PastMember(c, added) == [c EXCEPT !.member = @ + 1, !.fields = @ \o added]

Declared ==
  /\ decl \in Decls
  /\ calls = <<Call(Root)>> /\ visited = {Root} /\ loop = "members"
  /\ raw = << >> /\ i = 1 /\ best = NoEntries /\ seen = {} /\ result = << >>

Innermost == calls[Len(calls)]
Members == decl[Innermost.struct]
AtMember(m) ==
  loop = "members" /\ Innermost.member \in DOMAIN Members /\ m = Members[Innermost.member]

TakeField(m) ==
  /\ AtMember(m) /\ ~Skipped(m) /\ ~Flattened(m)
  /\ calls' = [calls EXCEPT ![Len(calls)] = PastMember(@, <<NamedField(m, Len(calls) - 1)>>)]
  /\ UNCHANGED <<vars, decl, visited>>

(* A member encoding/json ignores, or an embed of a struct on the path. *)
PassMember(m) ==
  /\ AtMember(m) /\ (Skipped(m) \/ (Flattened(m) /\ m.name \in visited))
  /\ calls' = [calls EXCEPT ![Len(calls)] = PastMember(@, << >>)]
  /\ UNCHANGED <<vars, decl, visited>>

EnterEmbed(m) ==
  /\ AtMember(m) /\ Flattened(m) /\ m.name \notin visited
  /\ calls' = Append(calls, Call(m.name))
  /\ visited' = visited \cup {m.name}
  /\ UNCHANGED <<vars, decl>>

(* Every member is read: the call ends in dedupJSONFields(raw). *)
Deduplicate ==
  /\ loop = "members" /\ Innermost.member > Len(Members)
  /\ raw' = Innermost.fields
  /\ loop' = "best"
  /\ UNCHANGED <<i, best, seen, result, decl, calls, visited>>

(* The call returns to the embed it was made for; its locals are gone and  *)
(* the deferred delete takes its struct off the path.                      *)
Return ==
  /\ loop = "done" /\ Len(calls) > 1
  /\ LET caller == calls[Len(calls) - 1]
         m == decl[caller.struct][caller.member]
         promoted == [l \in DOMAIN result |-> Promoted(m, result[l])]
     IN calls' = [k \in 1 .. Len(calls) - 1 |->
                    IF k = Len(calls) - 1 THEN PastMember(calls[k], promoted) ELSE calls[k]]
  /\ visited' = visited \ {Innermost.struct}
  /\ loop' = "members"
  /\ raw' = << >> /\ i' = 1 /\ best' = NoEntries /\ seen' = {} /\ result' = << >>
  /\ UNCHANGED decl

ReadMember == \E m \in Range(Members) : TakeField(m) \/ PassMember(m) \/ EnterEmbed(m)
Dedup == Next /\ UNCHANGED <<decl, calls, visited>>

Resolve == ReadMember \/ Deduplicate \/ Dedup \/ Return
ResolveSpec == Declared /\ [][Resolve]_allVars

-----------------------------------------------------------------------------
(* The stated rule.  An occurrence of a field below a struct is a path of  *)
(* embeds that flatten, through no struct twice, and a field of its last   *)
(* struct; its flags are read off the whole path.                          *)
Stacks == {p \in UNION {[1 .. n -> Struct] : n \in 1 .. Cardinality(Struct)} : IsInjective(p)}
Embeds(p, l) == {m \in Range(decl[p[l]]) : Flattened(m) /\ m.name = p[l + 1]}
Paths(s) == {p \in Stacks : p[1] = s /\ \A l \in 1 .. Len(p) - 1 : Embeds(p, l) # {}}
OwnFields(s) == {m \in Range(decl[s]) : ~Skipped(m) /\ ~Flattened(m)}

(* The field m of p's last struct as the call for p[k] lists it. *)
FieldAt(p, m, k) ==
  [wire |-> IF m.tag = "" THEN m.name ELSE m.tag,
   go |-> [l \in 1 .. Len(p) - k + 1 |-> IF k + l <= Len(p) THEN p[k + l] ELSE m.name],
   depth |-> Len(p) - 1,
   tagged |-> m.tag # "",
   viaEmbedPtr |-> \E l \in k .. Len(p) - 1 : \E e \in Embeds(p, l) : e.ptr,
   inRefused |-> \E l \in k .. Len(p) - 1 : \E e \in Embeds(p, l) : e.ptr /\ ~e.exported]

AllFields(s) == UNION {{FieldAt(p, m, 1) : m \in OwnFields(Last(p))} : p \in Paths(s)}
Self(S) == [f \in S |-> f]
DominantFields(s) == LET S == AllFields(s) IN Dominant(Self(S), S)
Ambiguous(s) ==
  LET S == AllFields(s) IN \E n \in {f.wire : f \in S} : \E g, h \in Standing(Self(S), S, n) : g # h

Embedded == {Last(p) : p \in {q \in Paths(Root) : Len(q) > 1}}
Done == loop = "done" /\ Len(calls) = 1
Resolved == Range(result)

(* No field encoding/json writes is missing from the generated interface,  *)
(* and each is optional, and refused in a request, exactly when a pointer  *)
(* on its chain of embeds makes it so.                                     *)
NoDominantFieldLost == Done => DominantFields(Root) \subseteq Resolved

(* Where no embedded struct has a tie of its own, deduplicating at every   *)
(* struct keeps exactly the fields the rule keeps over the whole.          *)
ExactWithoutNestedTies ==
  Done /\ ~(\E s \in Embedded : Ambiguous(s)) =>
    Resolved = DominantFields(Root)

(* docs/type-mapping.md: an embedded struct "is flattened with the         *)
(* promotion rules of encoding/json: the shallowest field wins, a tagged   *)
(* field beats an untagged one at the same depth, and a field reached      *)
(* through two sibling embeds at the same depth is dropped as ambiguous".  *)
FollowsPromotionRules == Done => Resolved = DominantFields(Root)

-----------------------------------------------------------------------------
(* What the calls under way have established.  f beats or ties with g.     *)
NotWeaker(f, g) ==
  /\ f.wire = g.wire
  /\ f.depth < g.depth \/ (f.depth = g.depth /\ (f.tagged \/ ~g.tagged))

(* Some other field below a struct that p embeds is not weaker than m, so  *)
(* that the call for that struct, or one it makes, may drop m.             *)
Lost(p, m) ==
  \E k \in 2 .. Len(p) : \E q \in Paths(Root) : \E x \in OwnFields(Last(q)) :
    /\ k <= Len(q) /\ \A l \in 1 .. k : q[l] = p[l]
    /\ <<q, x>> # <<p, m>>
    /\ NotWeaker(FieldAt(q, x, 1), FieldAt(p, m, 1))

CallStack == [k \in DOMAIN calls |-> calls[k].struct]
Through(k) == {p \in Paths(Root) : k <= Len(p) /\ \A l \in 1 .. k : p[l] = CallStack[l]}

(* The name of the k-th struct's member that leads to the field m of p;   *)
(* the k-th call has passed it.                                            *)
After(k, p, m) == IF k < Len(p) THEN p[k + 1] ELSE m.name
IsRead(k, p, m) ==
  \E l \in 1 .. calls[k].member - 1 : decl[CallStack[k]][l].name = After(k, p, m)

ListedOnce(k) == IsInjective(calls[k].fields)
ListedIsRead(k) ==
  \A f \in Range(calls[k].fields) :
    \E p \in Through(k) : \E m \in OwnFields(Last(p)) : IsRead(k, p, m) /\ f = FieldAt(p, m, k)
ReadIsListed(k) ==
  \A p \in Through(k) : \A m \in OwnFields(Last(p)) :
    IsRead(k, p, m) => FieldAt(p, m, k) \in Range(calls[k].fields) \/ Lost(p, m)

CallsInv ==
  /\ decl \in Decls
  /\ calls \in Seq([struct : Struct, member : Nat \ {0}, fields : Seq(Field)])
  /\ calls # << >> /\ CallStack \in Paths(Root)
  /\ visited = Range(CallStack)
  /\ \A k \in 1 .. Len(calls) - 1 :
       /\ calls[k].member \in DOMAIN decl[CallStack[k]]
       /\ LET m == decl[CallStack[k]][calls[k].member] IN Flattened(m) /\ m.name = CallStack[k + 1]

ListInv(k) == ListedOnce(k) /\ ListedIsRead(k) /\ ReadIsListed(k)
ListsInv == \A k \in DOMAIN calls : ListInv(k)

LoopsInv ==
  IF loop = "members"
  THEN raw = << >> /\ i = 1 /\ best = NoEntries /\ seen = {} /\ result = << >>
  ELSE IInv /\ raw = Innermost.fields /\ Innermost.member > Len(Members)

FlattenInv == CallsInv /\ ListsInv /\ LoopsInv
=============================================================================
