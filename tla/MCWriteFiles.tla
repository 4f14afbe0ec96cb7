---------------------------- MODULE MCWriteFiles ----------------------------
(* Instances of WriteFiles for TLC.  The tree is a TS directory "gen" that *)
(* may hold a subdirectory "gen/sub", and a path "api" outside it.         *)
EXTENDS WriteFiles, TLC

CONSTANTS p1, p2

Tree == {"gen", "gen/t", "gen/sub", "gen/sub/v", "api"}
TreeAbove == [x \in Tree |-> CASE x \in {"gen/t", "gen/sub"} -> {"gen"}
                               [] x = "gen/sub/v" -> {"gen", "gen/sub"}
                               [] OTHER -> {}]

(* Two passes that share a target, of which one needs as a directory what *)
(* the other writes.                                                       *)
BothTargets == p1 :> <<"gen/t", "gen/sub/v">> @@ p2 :> <<"gen/t", "gen/sub">>

(* WithFilenames{Decoders: "sub"} and WithValidatorsFile("sub/v"). *)
NestedTargets == p1 :> <<"gen/t", "gen/sub", "gen/sub/v">>
=============================================================================
