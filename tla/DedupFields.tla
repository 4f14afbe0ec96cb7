----------------------------- MODULE DedupFields -----------------------------
(***************************************************************************)
(* dedupJSONFields (ast_engine.go) as the two loops it is: the first keeps *)
(* the best field of each wire name and counts its ties, the second emits, *)
(* at the first field of each name, the winner of a name without a tie.    *)
(***************************************************************************)
EXTENDS FieldRules

Wire == STRING  \* wire names

(* fieldInfo, without what a field's type resolves to.  go is the Go name  *)
(* as a path: the loops copy it with the flags and look at neither.        *)
Field == [wire : Wire, go : Seq(STRING), depth : Nat, tagged : BOOLEAN,
          viaEmbedPtr : BOOLEAN, inRefused : BOOLEAN]

VARIABLES
  raw,     \* the promoted fields, in declaration order
  i,       \* the index of the running loop
  best,    \* the best field and its tie count, by wire name
  loop,    \* "best", "emit" or "done"
  seen,    \* the wire names the second loop has met
  result   \* the fields it has emitted

vars == <<raw, i, best, loop, seen, result>>

Init ==
  /\ raw \in Seq(Field)
  /\ i = 1
  /\ best = NoEntries
  /\ loop = "best"
  /\ seen = {}
  /\ result = << >>

Compare ==
  /\ loop = "best" /\ i <= Len(raw)
  /\ best' = Consider(best, raw[i])
  /\ i' = i + 1
  /\ UNCHANGED <<raw, loop, seen, result>>

StartEmit ==
  /\ loop = "best" /\ i > Len(raw)
  /\ loop' = "emit"
  /\ i' = 1
  /\ UNCHANGED <<raw, best, seen, result>>

(* Mutant: the first field of a name is emitted, not the winner. *)
EmitFirst ==
  /\ loop = "emit" /\ i <= Len(raw)
  /\ LET n == raw[i].wire IN
     /\ seen' = seen \cup {n}
     /\ result' = IF n \notin seen /\ best[n].count = 1 THEN Append(result, raw[i]) ELSE result
  /\ i' = i + 1
  /\ UNCHANGED <<raw, best, loop>>

Emit ==
  /\ loop = "emit" /\ i <= Len(raw)
  /\ LET n == raw[i].wire IN
     /\ seen' = seen \cup {n}
     /\ result' = IF n \notin seen /\ best[n].count = 1
                  THEN Append(result, best[n].field) ELSE result
  /\ i' = i + 1
  /\ UNCHANGED <<raw, best, loop>>

Finish ==
  /\ loop = "emit" /\ i > Len(raw)
  /\ loop' = "done"
  /\ UNCHANGED <<raw, i, best, seen, result>>

Next == Compare \/ StartEmit \/ Emit \/ Finish

Spec == Init /\ [][Next]_vars

-----------------------------------------------------------------------------
(* Every variable has its type and the index stays on the list. *)
TypeOK ==
  /\ raw \in Seq(Field)
  /\ i \in 1 .. Len(raw) + 1
  /\ DOMAIN best \subseteq Wire
  /\ \A n \in DOMAIN best : best[n] \in [field : Field, count : Nat \ {0}]
  /\ loop \in {"best", "emit", "done"}
  /\ seen \subseteq Wire
  /\ result \in Seq(Field)

(* dedupJSONFields keeps exactly the fields encoding/json lets dominate,   *)
(* each once: the shallowest of its wire name, a tagged one before the     *)
(* untagged ones beside it, and none of a name that ties.                  *)
ResultIsDominant ==
  loop = "done" =>
    /\ {result[m] : m \in DOMAIN result} = {raw[j] : j \in Dominant(raw, DOMAIN raw)}
    /\ \A m, l \in DOMAIN result : result[m].wire = result[l].wire => m = l

-----------------------------------------------------------------------------
(* What the loops have established over the indices they have passed. *)
Compared == IF loop = "best" THEN 1 .. i - 1 ELSE DOMAIN raw
Met == CASE loop = "best" -> {} [] loop = "emit" -> 1 .. i - 1 [] OTHER -> DOMAIN raw

BestInv ==
  /\ DOMAIN best = {raw[j].wire : j \in Compared}
  /\ \A n \in DOMAIN best : \E j \in Standing(raw, Compared, n) :
       /\ best[n].field = raw[j]
       /\ best[n].count = 1 <=> Standing(raw, Compared, n) = {j}

EmitInv ==
  /\ seen = {raw[j].wire : j \in Met}
  /\ \A m \in DOMAIN result :
       /\ result[m].wire \in seen
       /\ best[result[m].wire] = Entry(result[m], 1)
  /\ \A n \in seen : best[n].count = 1 => \E m \in DOMAIN result : result[m] = best[n].field
  /\ \A m, l \in DOMAIN result : result[m].wire = result[l].wire => m = l

IInv == TypeOK /\ BestInv /\ EmitInv
=============================================================================
