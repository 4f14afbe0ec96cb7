------------------------------- MODULE Locate -------------------------------
(***************************************************************************)
(* Which outputs are one file (outputs, locate, walk, below and same in    *)
(* outputs.go), and where the writes of an accepted set of outputs land.   *)
(*                                                                         *)
(* The tree is seen as the program sees it, through Stat: look maps a      *)
(* directory and a name in it to the file or directory found there once    *)
(* its symlinks are followed, compared by device and inode.  A symlink to  *)
(* a directory, a hard link and, where the file system ignores case, two   *)
(* spellings are two entries that lead to one id.  No symlink dangles.     *)
(***************************************************************************)
EXTENDS Integers, Sequences, FiniteSets, SequencesExt

CONSTANTS
  Id,      \* files and directories, those that are there and those to come
  Base,    \* the directory relative paths start from
  Name,    \* names in a path, among them Dots
  Dots,    \* ".."
  Fold,    \* the letter case of a name taken away
  Worlds   \* the trees and options to run on

ASSUME NamesAssumption ==
  /\ Base \in Id /\ Dots \in Name /\ Fold \in [Name -> Name]
  /\ \A n \in Name : Fold[n] = Fold[Dots] => n = Dots

(* A file has no entries, and a tree that ignores case has none twice.  A  *)
(* TS output is local and clean (filepath.IsLocal), so it holds no "..".   *)
IsWorld(w) ==
  /\ w.look \in [DOMAIN w.look -> Id] /\ DOMAIN w.look \subseteq Id \X Name
  /\ w.files \subseteq Id /\ Base \notin w.files /\ w.anyCase \in BOOLEAN
  /\ w.tsDir \in Seq(Name)
  /\ w.outs \in Seq([role : {"ts", "openapi"}, path : Seq(Name)])
  /\ \A i \in DOMAIN w.outs : w.outs[i].role = "ts" => Dots \notin Range(w.outs[i].path)
  /\ \A e \in DOMAIN w.look : e[1] \notin w.files
  /\ w.anyCase => \A e \in DOMAIN w.look : \A n \in Name :
       Fold[n] = Fold[e[2]] => <<e[1], n>> \in DOMAIN w.look /\ w.look[<<e[1], n>>] = w.look[e]
ASSUME WorldsAssumption == \A w \in Worlds : IsWorld(w)

VARIABLES
  look,    \* the entries of the tree: what a directory and a name lead to
  files,   \* the ids that are files
  conf,    \* the TS directory, the outputs and whether the tree ignores case
  fis,     \* for the TS directory (0) and each output: what its path leads through
  phase,   \* "check", "refused", "stage", "commit", "written" or "failed"
  k,       \* the index of the running loop
  wrote    \* history: the file each output was renamed to

vars == <<look, files, conf, fis, phase, k, wrote>>

Outs == 1 .. Len(conf.outs)
Paths == 0 .. Len(conf.outs)
IsTS(i) == i \in Outs /\ conf.outs[i].role = "ts"
PathOf(i) ==
  CASE i = 0 -> conf.tsDir
    [] IsTS(i) -> conf.tsDir \o conf.outs[i].path
    [] OTHER -> conf.outs[i].path

Known(i) == Len(fis[i]) - 1
Here(i) == fis[i][Len(fis[i])]
Walking(i) == Known(i) < Len(PathOf(i))
NextName(i) == PathOf(i)[Len(fis[i])]
Entry(i) == <<Here(i), NextName(i)>>
Found(i) == Walking(i) /\ Entry(i) \in DOMAIN look

(* The part of a path that does not exist. *)
Missing(i) == SubSeq(PathOf(i), Len(fis[i]), Len(PathOf(i)))
HasTSDir == Known(0) = Len(conf.tsDir)

-----------------------------------------------------------------------------
(* target.same *)

(* filepath.Clean's view of a path: each ".." takes the name before it away. *)
Clean(p) ==
  IF Dots \notin Range(p) THEN p
  ELSE FoldLeft(LAMBDA c, n : IF n = Dots /\ c # << >> /\ Last(c) # Dots
                              THEN Front(c) ELSE Append(c, n), << >>, p)

(* A TS output is located from the TS directory where there is one.        *)
Anchored(i) == IF IsTS(i) /\ HasTSDir THEN Len(conf.tsDir) + 1 ELSE 1

(* The names from the j-th anchor of a path to its end.  below() joins      *)
(* those of a TS output to the TS directory's, which cleans them.          *)
Rest(i, j) ==
  LET names == SubSeq(PathOf(i), j, Len(PathOf(i)))
  IN IF IsTS(i) /\ ~HasTSDir THEN Clean(names) ELSE names

(* Mutant: only the last names are compared. *)
EqualFoldLast(p, q) == (p = << >> <=> q = << >>) /\ (p # << >> => Fold[Last(p)] = Fold[Last(q)])

EqualFold(p, q) == DOMAIN p = DOMAIN q /\ \A n \in DOMAIN p : Fold[p[n]] = Fold[q[n]]

(* Mutant: names are compared as they are spelled. *)
SameAsSpelled(i, j) ==
  \E a \in Anchored(i) .. Len(fis[i]), b \in Anchored(j) .. Len(fis[j]) :
    fis[i][a] = fis[j][b] /\ Rest(i, a) = Rest(j, b)

(* Mutant: only what exists of the two targets is compared. *)
SameDeepest(i, j) == Here(i) = Here(j) /\ EqualFold(Missing(i), Missing(j)) /\ ~Walking(i)

Same(i, j) ==
  \E a \in Anchored(i) .. Len(fis[i]), b \in Anchored(j) .. Len(fis[j]) :
    fis[i][a] = fis[j][b] /\ EqualFold(Rest(i, a), Rest(j, b))

-----------------------------------------------------------------------------
(* outputs(): each path in turn, the TS directory first.                   *)

Init ==
  /\ \E w \in Worlds :
       /\ look = w.look /\ files = w.files
       /\ conf = [tsDir |-> w.tsDir, outs |-> w.outs, anyCase |-> w.anyCase, leaves |-> w.leaves]
       /\ fis = [i \in 0 .. Len(w.outs) |-> <<Base>>]
       /\ wrote = [i \in 1 .. Len(w.outs) |-> Base]
  /\ phase = "check" /\ k = 0

(* os.Root refuses a symlink that leaves it. *)
Escapes(i) == IsTS(i) /\ HasTSDir /\ Entry(i) \in conf.leaves

(* walk: Stat the next prefix. *)
Stat ==
  /\ phase = "check" /\ Found(k) /\ ~Escapes(k)
  /\ fis' = [fis EXCEPT ![k] = Append(@, look[Entry(k)])]
  /\ UNCHANGED <<look, files, conf, phase, k, wrote>>

Walked == phase = "check" /\ ~Found(k) /\ (Walking(k) => Here(k) \notin files)
Climbs(i) == Dots \in Range(Missing(i))

(* Each way outputs() refuses: a Stat that fails, a symlink out of the TS  *)
(* directory, a ".." past what exists, a TS directory that is a file, and  *)
(* two outputs that are one file.                                          *)
Refuse ==
  /\ phase = "check"
  /\ \/ Walking(k) /\ Here(k) \in files
     \/ Found(k) /\ Escapes(k)
     \/ Walked /\ (Climbs(k) \/ (k = 0 /\ Here(0) \in files))
     \/ Walked /\ \E j \in 1 .. k - 1 : Same(j, k)
  /\ phase' = "refused"
  /\ UNCHANGED <<look, files, conf, fis, k, wrote>>

(* The target of k is claimed, and the next path's walk starts. *)
Claim ==
  /\ Walked /\ ~Climbs(k) /\ (k = 0 => Here(0) \notin files)
  /\ \A j \in 1 .. k - 1 : ~Same(j, k)
  /\ IF k < Len(conf.outs)
     THEN /\ k' = k + 1
          /\ fis' = [fis EXCEPT ![k + 1] = IF IsTS(k + 1) THEN fis[0] ELSE @]
          /\ UNCHANGED phase
     ELSE /\ k' = 0 /\ phase' = "stage"
          /\ UNCHANGED fis
  /\ UNCHANGED <<look, files, conf, wrote>>

-----------------------------------------------------------------------------
(* writeFiles, and the pending files of package atomicfile.                *)

(* The spellings under which an entry of that name is found. *)
Spellings(n) == IF conf.anyCase THEN {m \in Name : Fold[m] = Fold[n]} ELSE {n}

Used == {Base} \cup files \cup {e[1] : e \in DOMAIN look} \cup {look[e] : e \in DOMAIN look}
Fresh == CHOOSE x \in Id \ Used : TRUE

(* What a path leads through once the entries in E lead to x: one that     *)
(* ended before E goes on to x, one that ended in E ends at x.             *)
Led(i, E, x) ==
  CASE Walking(i) /\ Entry(i) \in E -> Append(fis[i], x)
    [] ~Walking(i) /\ Known(i) > 0 /\ <<fis[i][Known(i)], PathOf(i)[Known(i)]>> \in E ->
         [fis[i] EXCEPT ![Len(fis[i])] = x]
    [] OTHER -> fis[i]

Lead(E, x) ==
  /\ look' = [e \in DOMAIN look \cup E |-> IF e \in E THEN x ELSE look[e]]
  /\ fis' = [i \in Paths |-> Led(i, E, x)]

(* MkdirAll, one directory at a time: every name of the TS directory, and  *)
(* of an output all but its last.                                          *)
Short(i) == Len(PathOf(i)) - (IF i = 0 THEN 0 ELSE 1)

MakeDir ==
  /\ phase = "stage" /\ Known(k) < Short(k) /\ Here(k) \notin files
  /\ Used # Id
  /\ LET d == Here(k)
         E == {<<d, n>> : n \in Spellings(NextName(k))}
     IN /\ look' = [e \in DOMAIN look \cup E \cup {<<Fresh, Dots>>} |->
                      CASE e \in E -> Fresh [] e = <<Fresh, Dots>> -> d [] OTHER -> look[e]]
        /\ fis' = [i \in Paths |-> Led(i, E, Fresh)]
  /\ UNCHANGED <<files, conf, phase, k, wrote>>

(* NewPendingFile beside a target that is missing or a file. *)
Stage ==
  /\ phase = "stage" /\ Known(k) >= Short(k)
  /\ k > 0 /\ ~Walking(k) => Here(k) \in files
  /\ IF k < Len(conf.outs) THEN k' = k + 1 /\ UNCHANGED phase ELSE k' = 1 /\ phase' = "commit"
  /\ UNCHANGED <<look, files, conf, fis, wrote>>

(* The rename puts a new file at the target.  A symlink to the file that   *)
(* was there leads to the new one, a hard link still to the old.           *)
Commit ==
  /\ phase = "commit" /\ k <= Len(conf.outs)
  /\ ~Walking(k) => Here(k) \in files
  /\ Used # Id
  /\ LET at == <<fis[k][Len(PathOf(k))], Last(PathOf(k))>>
         target == {<<at[1], n>> : n \in Spellings(at[2])}
         others == {e \in DOMAIN look : ~Walking(k) /\ look[e] = Here(k)}
     IN \E S \in SUBSET others :
          /\ \A e \in S : \A n \in Spellings(e[2]) : <<e[1], n>> \in S
          /\ Lead(target \cup S, Fresh)
  /\ files' = files \cup {Fresh}
  /\ wrote' = [wrote EXCEPT ![k] = Fresh]
  /\ k' = k + 1
  /\ UNCHANGED <<conf, phase>>

(* A file in the way of a directory, or a directory at a target. *)
Fail ==
  /\ \/ phase = "stage" /\ Known(k) < Short(k) /\ Here(k) \in files
     \/ phase \in {"stage", "commit"} /\ k \in Outs /\ ~Walking(k) /\ Here(k) \notin files
  /\ phase' = "failed"
  /\ UNCHANGED <<look, files, conf, fis, k, wrote>>

Written ==
  /\ phase = "commit" /\ k > Len(conf.outs)
  /\ phase' = "written"
  /\ UNCHANGED <<look, files, conf, fis, k, wrote>>

Next == Stat \/ Refuse \/ Claim \/ MakeDir \/ Stage \/ Commit \/ Fail \/ Written
Spec == Init /\ [][Next]_vars

-----------------------------------------------------------------------------
(* fis is what a walk of the path finds in the tree. *)
Leads(i) ==
  /\ fis[i][1] = Base
  /\ \A j \in 1 .. Known(i) :
       <<fis[i][j], PathOf(i)[j]>> \in DOMAIN look /\ look[<<fis[i][j], PathOf(i)[j]>>] = fis[i][j + 1]

(* Two outputs that are one file are refused before anything is written,   *)
(* through symlinks, hard links and letter case, whether or not they exist *)
(* yet (docs/configuration.md): once an accepted set is written, the path  *)
(* of each output leads to the file written for it, and none replaced      *)
(* another's.                                                              *)
EachReadsItsOwn ==
  phase = "written" =>
    \A i \in Outs : Leads(i) /\ ~Walking(i) /\ Here(i) = wrote[i]

(* An accepted set of outputs stays accepted while its own directories and *)
(* files come into being, so the next Generate in that tree accepts it.    *)
StaysAccepted ==
  phase \in {"stage", "commit", "written"} => \A i, j \in Outs : i # j => ~Same(i, j)

(* Nothing else is refused as one file: where no two of the names differ   *)
(* in case alone, or the tree ignores case, and the TS directory does not  *)
(* climb, the two targets are one name in one directory, or one file.      *)
CaseMatters == ~conf.anyCase /\ \E i, j \in Paths : \E a \in Range(PathOf(i)), b \in Range(PathOf(j)) :
                                 a # b /\ Fold[a] = Fold[b]
RefusedIsOneFile ==
  Walked /\ ~CaseMatters /\ Dots \notin Range(conf.tsDir) =>
    \A j \in 1 .. k - 1 : Same(j, k) => Here(j) = Here(k) /\ EqualFold(Missing(j), Missing(k))

-----------------------------------------------------------------------------
(* What makes the two promises inductive: fis is what the paths lead       *)
(* through, as far as they lead (Traced), and what is missing of one can   *)
(* only come to be by making it (Ended).                                   *)
Finished(i) == phase # "check" \/ i < k
Settled == phase \in {"stage", "commit", "written"}

TreeInv ==
  /\ look \in [DOMAIN look -> Id] /\ DOMAIN look \subseteq Id \X Name
  /\ files \subseteq Id /\ Base \notin files
  /\ conf.anyCase \in BOOLEAN /\ conf.tsDir \in Seq(Name)
  /\ conf.outs \in Seq([role : {"ts", "openapi"}, path : Seq(Name)])
  /\ \A i \in DOMAIN conf.outs : conf.outs[i].role = "ts" => Dots \notin Range(conf.outs[i].path)
  /\ \A e \in DOMAIN look : e[1] \notin files
  /\ conf.anyCase => \A e \in DOMAIN look : \A n \in Name :
       Fold[n] = Fold[e[2]] => <<e[1], n>> \in DOMAIN look /\ look[<<e[1], n>>] = look[e]
  /\ phase \in {"check", "refused", "stage", "commit", "written", "failed"}
  /\ k \in Nat /\ (phase \in {"check", "stage"} => k \in Paths) /\ (phase = "commit" => k \in Nat \ {0})

Traced(i) ==
  /\ fis[i] \in Seq(Id) /\ Len(fis[i]) \in 1 .. Len(PathOf(i)) + 1
  /\ Leads(i)

Ended(i) == ~Found(i) /\ ~Climbs(i) /\ (Walking(i) => Here(i) \notin files)
Below0(i) == IsTS(i) => \A j \in 1 .. Len(fis[0]) : j <= Len(fis[i]) /\ fis[i][j] = fis[0][j]

PathsInv ==
  /\ fis \in [Paths -> Seq(Id)] /\ wrote \in [Outs -> Id]
  /\ \A i \in Paths : Traced(i)
  /\ phase = "check" => \A i \in Paths : i > k => fis[i] = <<Base>>
  /\ Settled \/ phase = "check" =>
       /\ \A i \in Paths : Finished(i) => Ended(i)
       /\ \A i \in Outs : Finished(i) \/ i = k => Below0(i)
       /\ Finished(0) => Here(0) \notin files
       /\ \A i, j \in Outs : Finished(i) /\ Finished(j) /\ i # j => ~Same(i, j)

WritesInv ==
  /\ phase = "stage" => \A i \in Paths : i < k => Known(i) >= Short(i)
  /\ phase \in {"commit", "written"} => \A i \in Paths : Known(i) >= Short(i)
  /\ phase = "commit" => \A i \in Outs : i < k => ~Walking(i) /\ Here(i) = wrote[i]
  /\ phase = "written" => \A i \in Outs : ~Walking(i) /\ Here(i) = wrote[i]

IInv == TreeInv /\ PathsInv /\ WritesInv
=============================================================================
