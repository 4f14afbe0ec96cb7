----------------------------- MODULE FieldRules -----------------------------
(***************************************************************************)
(* The selection rules for the JSON fields of a struct: the loop bodies of *)
(* dedupJSONFields and equalDepthWinner (ast_engine.go), and the rule they *)
(* are meant to compute, encoding/json's dominance among fields of one     *)
(* wire name.  A field is a record with at least its wire name, its depth  *)
(* below the struct and whether a json tag names it.                       *)
(***************************************************************************)
EXTENDS Integers, Sequences

Entry(f, n) == [field |-> f, count |-> n]

(* Mutant: a tag decides nothing between two fields of one depth. *)
EqualDepthTies(ent, cand) == Entry(ent.field, ent.count + 1)

(* The winner of two fields at one depth, and how many fields tie with it. *)
EqualDepthWinner(ent, cand) ==
  CASE cand.tagged /\ ~ent.field.tagged -> Entry(cand, 1)
    [] ~cand.tagged /\ ent.field.tagged -> ent
    [] OTHER -> Entry(ent.field, ent.count + 1)

Better(ent, cand) ==
  CASE cand.depth < ent.field.depth -> Entry(cand, 1)
    [] cand.depth = ent.field.depth -> EqualDepthWinner(ent, cand)
    [] OTHER -> ent

(* One iteration of the first loop: best maps a wire name to its entry. *)
Consider(best, f) ==
  [n \in DOMAIN best \cup {f.wire} |->
     IF n # f.wire THEN best[n]
     ELSE IF n \in DOMAIN best THEN Better(best[n], f) ELSE Entry(f, 1)]

NoEntries == [n \in {} |-> Entry(n, 0)]

-----------------------------------------------------------------------------
(* The rule of encoding/json (typeFields and dominantField): of the fields *)
(* of one wire name the shallowest stand, of those the tagged ones if any  *)
(* is tagged, and a name is kept only if one field is left.  S is a set of *)
(* indices and F a function from them to fields.                           *)
Rivals(F, S, n) == {j \in S : F[j].wire = n}
Shallowest(F, R) == {j \in R : \A m \in R : F[j].depth <= F[m].depth}
TaggedFirst(F, R) == {j \in R : F[j].tagged \/ \A m \in R : ~F[m].tagged}
Standing(F, S, n) == TaggedFirst(F, Shallowest(F, Rivals(F, S, n)))
Dominant(F, S) == {j \in S : Standing(F, S, F[j].wire) = {j}}
=============================================================================
