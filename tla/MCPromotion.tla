----------------------------- MODULE MCPromotion -----------------------------
(* Declarations of a root T and structs A, B and the unexported c that     *)
(* fight over the wire name X: every choice of at most two members each.   *)
EXTENDS Promotion, TLC

Plain(n, t) == [kind |-> "field", name |-> n, tag |-> t, ptr |-> FALSE, exported |-> TRUE]
Embed(s, t, p) == [kind |-> "struct", name |-> s, tag |-> t, ptr |-> p, exported |-> s # "c"]
Scalar(n, e) == [kind |-> "scalar", name |-> n, tag |-> "", ptr |-> FALSE, exported |-> e]

Lists(P) == {<< >>} \cup {<<m>> : m \in P} \cup
            {l \in P \X P : l[1].name # l[2].name}

ListsOfT == Lists({Plain("X", ""), Embed("A", "", FALSE), Embed("A", "", TRUE),
                   Embed("B", "", FALSE), Embed("c", "", FALSE)})
ListsOfA == Lists({Plain("X", ""), Plain("Y", "X"), Plain("Z", "X"),
                   Embed("B", "", FALSE), Embed("c", "", TRUE)})
ListsOfB == Lists({Scalar("X", TRUE), Embed("A", "", TRUE),
                   Embed("c", "", FALSE), Embed("c", "X", FALSE)})
ListsOfc == Lists({Plain("X", ""), Plain("Y", "X"), Scalar("x", FALSE)})

(* Three members: a tie that a shallower field undoes, and a tie of three. *)
Triples == {<<a, Embed("B", "", FALSE), m>> :
              a \in {Embed("A", "", FALSE), Embed("A", "", TRUE)},
              m \in {Plain("X", ""), Plain("Y", ""), Embed("c", "", FALSE)}}

(* A struct that nothing embeds has no members: it is in no other field list. *)
EmbeddedIn(l) == {l[n].name : n \in DOMAIN l}
Reached(t, a, b) ==
  LET fromT == EmbeddedIn(t)
      fromA == IF "A" \in fromT THEN EmbeddedIn(a) ELSE {}
      fromB == IF "B" \in fromT \cup fromA THEN EmbeddedIn(b) ELSE {}
      again == IF "A" \in fromB THEN EmbeddedIn(a) ELSE {}
  IN fromT \cup fromA \cup fromB \cup again

AllDecls == {("T" :> t) @@ ("A" :> a) @@ ("B" :> b) @@ ("c" :> c) :
             <<t, a, b, c>> \in {q \in (ListsOfT \cup Triples) \X ListsOfA \X ListsOfB \X ListsOfc :
               /\ q[2] = << >> \/ "A" \in Reached(q[1], q[2], q[3])
               /\ q[3] = << >> \/ "B" \in Reached(q[1], q[2], q[3])
               /\ q[4] = << >> \/ "c" \in Reached(q[1], q[2], q[3])}}

StructDef == {"T", "A", "B", "c"}
=============================================================================
