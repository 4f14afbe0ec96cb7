------------------------------ MODULE MCLocate ------------------------------
(* A tree of the base directory 1, a directory 2 in it, a directory 3 in   *)
(* that, and files 4 and 5, with every choice of what the names lead to: a *)
(* second name for a directory is a symlink, one for a file a hard link or *)
(* a symlink.  "a" and "A" differ in case only.                            *)
EXTENDS Locate, TLC

IdDef == 1 .. 12
NameDef == {"a", "A", "b", ".."}
FoldDef == [n \in NameDef |-> IF n = "A" THEN "a" ELSE n]

Nothing == 0
Up == <<1, "..">> :> 1 @@ <<2, "..">> :> 1 @@ <<3, "..">> :> 2

(* r, s and t: what the names of each directory lead to. *)
Entries(r, s, t) ==
  LET E == [e \in {1} \X DOMAIN r \cup {2} \X DOMAIN s \cup {3} \X DOMAIN t |->
              CASE e[1] = 1 -> r[e[2]] [] e[1] = 2 -> s[e[2]] [] OTHER -> t[e[2]]]
  IN Up @@ [e \in {x \in DOMAIN E : E[x] # Nothing} |-> E[e]]

Roots(anyCase) ==
  {r \in [{"a", "A", "b"} -> {Nothing, 2, 3, 4}] : anyCase => r["a"] = r["A"]}
Subs(anyCase) ==
  {s \in [{"a", "A", "b"} -> {Nothing, 2, 3, 4, 5}] :
     /\ s["A"] \in IF anyCase THEN {s["a"]} ELSE {Nothing}
     /\ s["b"] \in {Nothing, 3, 5} /\ s["a"] \in {Nothing, 2, 3, 4}}

Trees ==
  UNION {{[look |-> Entries(r, s, t), anyCase |-> c, files |-> {4, 5}] :
            r \in Roots(c), s \in Subs(c), t \in {<< >>, [n \in {"b"} |-> 5]}} : c \in BOOLEAN}

(* Of those the trees in which every file and directory is reached, a      *)
(* directory inside the other's parent.                                    *)
Reached(w) ==
  /\ \E e \in DOMAIN w.look : e[1] = 1 /\ e[2] # ".." /\ w.look[e] = 2
  /\ \E e \in DOMAIN w.look : e[1] = 2 /\ e[2] # ".." /\ w.look[e] = 3

TS(p) == [role |-> "ts", path |-> p]
API(p) == [role |-> "openapi", path |-> p]

TSDirs == {<< >>, <<"a">>, <<"b", "a">>, <<"b", "..", "A">>}
Options ==
  {[tsDir |-> d, outs |-> o] :
     d \in TSDirs,
     o \in {<<TS(x), API(y)>> : x \in {<<"a">>, <<"a", "b">>},
                                 y \in {<<"a">>, <<"b">>, <<"A", "a">>, <<"b", "a">>, <<"a", "b">>,
                                        <<"b", "..", "a">>, <<"A", "..", "b">>, <<"a", "a", "b">>,
                                        <<"b", "a", "b">>, <<"A", "A", "b">>}}
           \cup {<<TS(x), TS(y)>> : x \in {<<"a">>}, y \in {<<"A">>, <<"b">>, <<"b", "A">>}}}
  \cup {[tsDir |-> <<"b">>, outs |-> <<API(x), API(y)>>] :
          x \in {<<"a", "b">>, <<"a">>}, y \in {<<"A", "b">>, <<"b", "b">>, <<"b", "..", "a">>}}

(* A symlink out of the TS directory: of the entries below it, those that  *)
(* lead above it.                                                          *)
Leaves(w, d) ==
  IF d = <<"a">> /\ <<1, "a">> \in DOMAIN w.look
  THEN LET t == w.look[<<1, "a">>]
       IN {e \in DOMAIN w.look : e[1] >= t /\ e[2] # ".." /\ w.look[e] < t}
  ELSE {}

WorldsDef ==
  {[look |-> w.look, files |-> w.files, anyCase |-> w.anyCase,
    tsDir |-> o.tsDir, outs |-> o.outs, leaves |-> Leaves(w, o.tsDir)] :
     w \in {x \in Trees : Reached(x)}, o \in Options}
=============================================================================
