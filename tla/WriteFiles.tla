----------------------------- MODULE WriteFiles -----------------------------
(***************************************************************************)
(* How Generate writes its outputs (outputs.go): outputs() refuses a       *)
(* colliding or unreachable set of targets, writeFiles creates the TS      *)
(* directory, stages every output as a pending file beside its target,     *)
(* commits them one after another, and a deferred loop cleans up.  Passes  *)
(* of several processes run on one directory tree, a user edits it between *)
(* any two steps, every call on the disk may fail and a pass may be killed.*)
(*                                                                         *)
(* The pending file is package atomicfile, outside the repository, modelled*)
(* from its use here: NewPendingFile creates the parents, refuses a target *)
(* that is not a regular file and creates an empty temporary file;         *)
(* WriteString fills it; Commit renames it over the target; Cleanup        *)
(* removes it unless it was committed.                                     *)
(***************************************************************************)
EXTENDS Naturals, Sequences, FiniteSets

CONSTANTS
  Pass,      \* the calls of Generate that run, possibly at once
  Path,      \* every target, and every directory above one
  User,      \* whoever edits the tree besides the passes
  Targets,   \* Targets[p]: the outputs of p in the order outputs() lists them
  Above,     \* Above[x]: the directories a target x lies below, of those in Path
  TSDir,     \* the TS directory
  MaxEdits,  \* bound: edits of the user in one behaviour
  Faults     \* whether calls on the disk fail and passes are killed

ASSUME PassAssumption == User \notin Pass
ASSUME TargetsAssumption ==
  /\ Targets \in [Pass -> Seq(Path)]
  /\ \A p \in Pass : Targets[p] # << >>
ASSUME TreeAssumption ==
  /\ Above \in [Path -> SUBSET Path]
  /\ \A x \in Path : x \notin Above[x] /\ \A y \in Above[x] : Above[y] \subseteq Above[x]
  /\ TSDir \in Path
ASSUME BoundAssumption == MaxEdits \in Nat /\ Faults \in BOOLEAN

VARIABLES
  disk,       \* what each path names
  pc,         \* the step of Generate each pass is at
  k,          \* the loop index of that step, over the outputs
  pending,    \* each pass's pending files, by what became of the temporary file
  err,        \* whether writeFiles is returning an error
  committed,  \* history: how many outputs each pass has renamed into place
  edits       \* how many edits the user has made

vars == <<disk, pc, k, pending, err, committed, edits>>

-----------------------------------------------------------------------------
Absent == [kind |-> "absent"]
Dir == [kind |-> "dir"]
File(w, i, full) == [kind |-> "file", by |-> w, out |-> i, whole |-> full]

Node == {Absent, Dir} \cup
        [kind : {"file"}, by : Pass \cup {User}, out : Nat, whole : BOOLEAN]

Count(p) == Len(Targets[p])
Outs(p) == 1 .. Count(p)
Target(p) == Targets[p][k[p]]

IsDir(x) == disk[x] = Dir
IsFile(x) == disk[x].kind = "file"

(* os.MkdirAll: a file on the way is an error, a missing directory is made. *)
Climbable(x) == \A d \in Above[x] : ~IsFile(d)
MissingAbove(x) == {d \in Above[x] : disk[d] = Absent /\ Climbable(d)}
WithDirs(D) == [x \in Path |-> IF x \in D THEN Dir ELSE disk[x]]

(* The disks a failed MkdirAll leaves: it makes directories outermost first. *)
PartlyMade(D) == {E \in SUBSET D : \A d \in E : Above[d] \cap D \subseteq E}

(* target.same: no two outputs of a pass are one file. *)
Distinct(p) == \A i, j \in Outs(p) : Targets[p][i] = Targets[p][j] => i = j

(* outputs() walks every target: a file where a directory is needed is an  *)
(* error, and so are two targets that are one file.  A target above another *)
(* one is not, nor is one that names a directory.                          *)
Accepted(p) ==
  /\ ~IsFile(TSDir)
  /\ Climbable(TSDir)
  /\ \A i \in Outs(p) : Climbable(Targets[p][i])
  /\ Distinct(p)

Running(p) == pc[p] \notin {"returned", "killed"}

-----------------------------------------------------------------------------
Init ==
  /\ disk \in {d \in [Path -> {Absent, Dir, File(User, 0, TRUE)}] :
                 \A x \in Path : d[x] # Absent => \A y \in Above[x] : d[y] = Dir}
  /\ pc = [p \in Pass |-> "check"]
  /\ k = [p \in Pass |-> 1]
  /\ pending = [p \in Pass |-> << >>]
  /\ err = [p \in Pass |-> FALSE]
  /\ committed = [p \in Pass |-> 0]
  /\ edits = 0

Goto(p, step, i) ==
  /\ pc' = [pc EXCEPT ![p] = step]
  /\ k' = [k EXCEPT ![p] = i]

(* Mutant: the cleanup is not deferred. *)
AbortUncleaned(p) ==
  /\ Goto(p, "returned", 1)
  /\ err' = [err EXCEPT ![p] = TRUE]

(* Return err from inside writeFiles: the deferred cleanup runs first. *)
Abort(p) ==
  /\ Goto(p, "cleanup", 1)
  /\ err' = [err EXCEPT ![p] = TRUE]

(* An error before the cleanup is deferred returns at once. *)
ReturnError(p) ==
  /\ Goto(p, "returned", 1)
  /\ err' = [err EXCEPT ![p] = TRUE]

(* What became of the k-th pending file. *)
Mark(p, s) == pending' = [pending EXCEPT ![p][k[p]] = s]

(* Validation and the build in memory: outputs() reads the disk, and the   *)
(* rest of Generate touches nothing.  Any other refusal or build error is  *)
(* a fault here.                                                           *)
Check(p) ==
  /\ pc[p] = "check"
  /\ \/ Accepted(p) /\ Goto(p, "mkdir", 1) /\ UNCHANGED err
     \/ (~Accepted(p) \/ Faults) /\ ReturnError(p)
  /\ UNCHANGED <<disk, pending, committed, edits>>

(* os.MkdirAll(tsDir) and os.OpenRoot. *)
MakeTSDir(p) ==
  /\ pc[p] = "mkdir"
  /\ \/ /\ Climbable(TSDir) /\ ~IsFile(TSDir)
        /\ disk' = WithDirs(Above[TSDir] \cup {TSDir})
        /\ Goto(p, "stage", 1) /\ UNCHANGED err
     \/ /\ ~Climbable(TSDir) \/ IsFile(TSDir) \/ Faults
        /\ \E D \in PartlyMade(MissingAbove(TSDir)) : disk' = WithDirs(D)
        /\ ReturnError(p)
  /\ UNCHANGED <<pending, committed, edits>>

(* Mutant: the output is opened in place instead of beside its target. *)
StageInPlace(p) ==
  /\ pc[p] = "stage"
  /\ Climbable(Target(p)) /\ ~IsDir(Target(p))
  /\ disk' = [WithDirs(Above[Target(p)]) EXCEPT ![Target(p)] = File(p, k[p], FALSE)]
  /\ pending' = [pending EXCEPT ![p] = Append(@, "partial")]
  /\ Goto(p, "write", k[p])
  /\ UNCHANGED <<err, committed, edits>>

(* NewPendingFile for the next output. A failure leaves the directories it *)
(* made, and adds no pending file.                                         *)
Stage(p) ==
  /\ pc[p] = "stage"
  /\ LET ok == Climbable(Target(p)) /\ ~IsDir(Target(p)) IN
     \/ /\ ok
        /\ disk' = WithDirs(Above[Target(p)])
        /\ pending' = [pending EXCEPT ![p] = Append(@, "partial")]
        /\ Goto(p, "write", k[p]) /\ UNCHANGED err
     \/ /\ ~ok \/ Faults
        /\ \E D \in PartlyMade(MissingAbove(Target(p))) : disk' = WithDirs(D)
        /\ Abort(p)
        /\ UNCHANGED pending
  /\ UNCHANGED <<committed, edits>>

(* Mutant: an output is committed as soon as it is written. *)
WriteThenCommit(p) ==
  /\ pc[p] = "write"
  /\ Mark(p, "whole")
  /\ Goto(p, "commit", k[p])
  /\ UNCHANGED <<err, disk, committed, edits>>

(* Mutant: the error of WriteString is dropped. *)
WriteUnchecked(p) ==
  /\ pc[p] = "write"
  /\ Mark(p, "whole") \/ (Faults /\ UNCHANGED pending)
  /\ IF k[p] < Count(p) THEN Goto(p, "stage", k[p] + 1) ELSE Goto(p, "commit", 1)
  /\ UNCHANGED <<err, disk, committed, edits>>

(* WriteString, then the next iteration of the staging loop. *)
Write(p) ==
  /\ pc[p] = "write"
  /\ \/ /\ Mark(p, "whole")
        /\ IF k[p] < Count(p) THEN Goto(p, "stage", k[p] + 1) ELSE Goto(p, "commit", 1)
        /\ UNCHANGED err
     \/ Faults /\ Abort(p) /\ UNCHANGED pending
  /\ UNCHANGED <<disk, committed, edits>>

(* The rename of the k-th temporary file over its target. *)
Rename(p) ==
  /\ ~IsDir(Target(p))
  /\ disk' = [disk EXCEPT ![Target(p)] = File(p, k[p], pending[p][k[p]] = "whole")]
  /\ Mark(p, "committed")
  /\ committed' = [committed EXCEPT ![p] = @ + 1]

(* Mutant: a commit that fails does not stop the loop. *)
CommitUnchecked(p) ==
  /\ pc[p] = "commit"
  /\ Rename(p) \/ (Faults /\ UNCHANGED <<disk, pending, committed>>)
  /\ IF k[p] < Count(p) THEN Goto(p, "commit", k[p] + 1) ELSE Goto(p, "cleanup", 1)
  /\ UNCHANGED <<err, edits>>

(* Commit: sync, rename, sync the directory. It fails with the target      *)
(* untouched when the rename cannot happen, and after the rename when the  *)
(* directory cannot be synced.                                             *)
Commit(p) ==
  /\ pc[p] = "commit"
  /\ \/ /\ Rename(p)
        /\ IF k[p] < Count(p) THEN Goto(p, "commit", k[p] + 1) ELSE Goto(p, "cleanup", 1)
        /\ UNCHANGED err
     \/ Faults /\ Rename(p) /\ Abort(p)
     \/ /\ Faults \/ IsDir(Target(p))
        /\ Abort(p)
        /\ UNCHANGED <<disk, pending, committed>>
  /\ UNCHANGED edits

(* Mutant: the loop does not move past a committed file. *)
CleanupAgain(p) ==
  /\ pc[p] = "cleanup"
  /\ k[p] <= Len(pending[p])
  /\ pending[p][k[p]] # "committed"
  /\ Mark(p, "removed") \/ (Faults /\ Mark(p, "stuck"))
  /\ Goto(p, "cleanup", k[p] + 1)
  /\ UNCHANGED <<disk, err, committed, edits>>

(* One iteration of the deferred loop; a failing removal is ignored. *)
Cleanup(p) ==
  /\ pc[p] = "cleanup"
  /\ k[p] <= Len(pending[p])
  /\ \/ pending[p][k[p]] = "committed" /\ UNCHANGED pending
     \/ /\ pending[p][k[p]] # "committed"
        /\ Mark(p, "removed") \/ (Faults /\ Mark(p, "stuck"))
  /\ Goto(p, "cleanup", k[p] + 1)
  /\ UNCHANGED <<disk, err, committed, edits>>

Return(p) ==
  /\ pc[p] = "cleanup"
  /\ k[p] > Len(pending[p])
  /\ Goto(p, "returned", 1)
  /\ UNCHANGED <<disk, pending, err, committed, edits>>

Kill(p) ==
  /\ Faults /\ Running(p)
  /\ Goto(p, "killed", 1)
  /\ UNCHANGED <<disk, pending, err, committed, edits>>

(* The user saves or deletes a file or makes a directory; no directory is  *)
(* removed, by the user or a pass.                                         *)
Edit(x) ==
  /\ edits < MaxEdits
  /\ \A d \in Above[x] : IsDir(d)
  /\ ~IsDir(x)
  /\ \E n \in {Absent, Dir, File(User, 0, TRUE)} :
       /\ n = Dir => ~IsFile(x)
       /\ disk' = [disk EXCEPT ![x] = n]
  /\ edits' = edits + 1
  /\ UNCHANGED <<pc, k, pending, err, committed>>

Step(p) ==
  \/ Check(p) \/ MakeTSDir(p) \/ Stage(p) \/ Write(p)
  \/ Commit(p) \/ Cleanup(p) \/ Return(p)

Next ==
  \/ \E p \in Pass : Step(p) \/ Kill(p)
  \/ \E x \in Path : Edit(x)

Spec == Init /\ [][Next]_vars

(* Generate is a sequential call that waits for nobody: while its process  *)
(* lives, it takes its next step.                                          *)
FairSpec == Spec /\ \A p \in Pass : WF_vars(Step(p))

-----------------------------------------------------------------------------
Steps == {"check", "mkdir", "stage", "write", "commit", "cleanup", "returned", "killed"}
TempStates == {"partial", "whole", "committed", "removed", "stuck"}

(* Every variable has its type, and each loop index stays in its loop. *)
TypeOK ==
  /\ disk \in [Path -> Node]
  /\ pc \in [Pass -> Steps]
  /\ k \in [Pass -> Nat \ {0}]
  /\ pending \in [Pass -> Seq(TempStates)]
  /\ err \in [Pass -> BOOLEAN]
  /\ committed \in [Pass -> Nat]
  /\ edits \in 0 .. MaxEdits
  /\ \A p \in Pass : pc[p] \in {"stage", "write", "commit"} => k[p] <= Count(p)

(* A staging failure leaves every target untouched (docs/generated-files.md): *)
(* nothing of a pass is readable at any path unless every output of it was  *)
(* staged with its whole content first.                                     *)
StagedBeforePublished ==
  \A x \in Path, p \in Pass :
    IsFile(x) /\ disk[x].by = p =>
      /\ Len(pending[p]) = Count(p)
      /\ \A i \in Outs(p) : pending[p][i] # "partial"

(* Each commit is atomic: whatever happens to the passes, a file holds the *)
(* whole content of one output, written for that very path, never a        *)
(* truncated file and never the content of another output.                 *)
WholeFiles ==
  \A x \in Path : IsFile(x) =>
    /\ disk[x].whole
    /\ disk[x].by # User => /\ disk[x].out \in 1 .. committed[disk[x].by]
                            /\ Targets[disk[x].by][disk[x].out] = x

(* The deferred cleanup: a pass that returned, with an error or without,   *)
(* leaves no temporary file behind except one whose removal failed.        *)
NoTempOutlivesReturn ==
  \A p \in Pass : pc[p] = "returned" =>
    \A i \in DOMAIN pending[p] : pending[p][i] \notin {"partial", "whole"}

(* A pass that returns no error has written everything it lists: when no   *)
(* one else touched the tree, every one of its targets holds its own       *)
(* output, so no two outputs of it replaced each other.                    *)
SuccessIsComplete ==
  \A p \in Pass :
    /\ pc[p] = "returned" /\ ~err[p]
    /\ edits = 0
    /\ \A q \in Pass \ {p} : committed[q] = 0
    => \A i \in Outs(p) : disk[Targets[p][i]] = File(p, i, TRUE)

(* "A configuration error stops it before any file is written" (README.md): *)
(* checked where no call on the disk fails and nobody else is running, so   *)
(* that every error is the configuration's, met on that tree.               *)
ConfigErrorWritesNothing ==
  \A p \in Pass : pc[p] = "returned" /\ err[p] => committed[p] = 0

(* A pass whose process lives returns: no step of it waits. *)
EveryPassReturns == \A p \in Pass : <>~Running(p)

(* What a reader of the targets sees: the files, and what each pass came to. *)
View == [x \in Path |-> IF IsFile(x) THEN disk[x] ELSE Absent]
Outcome == [p \in Pass |-> CASE Running(p) -> "running"
                             [] pc[p] = "killed" -> "killed"
                             [] pc[p] = "returned" /\ err[p] -> "failed"
                             [] OTHER -> "ok"]

Promise == INSTANCE Publish WITH content <- View, published <- committed, outcome <- Outcome

(* The passes publish as Publish promises, one whole output after another. *)
ImplementsPublish == Promise!Spec

-----------------------------------------------------------------------------
(* How the pending files, the committed prefix and the error of a pass     *)
(* follow from the step it is at: the strengthening the proofs induct on.  *)
PassInv(p) ==
  /\ pc[p] \in {"check", "mkdir"} => pending[p] = << >> /\ committed[p] = 0
  /\ pc[p] = "stage" =>
       /\ committed[p] = 0 /\ k[p] = Len(pending[p]) + 1
       /\ \A i \in DOMAIN pending[p] : pending[p][i] = "whole"
  /\ pc[p] = "write" =>
       /\ committed[p] = 0 /\ k[p] = Len(pending[p])
       /\ \A i \in DOMAIN pending[p] : i < k[p] => pending[p][i] = "whole"
  /\ pc[p] = "commit" =>
       /\ committed[p] = k[p] - 1 /\ Len(pending[p]) = Count(p)
       /\ \A i \in DOMAIN pending[p] :
            pending[p][i] = IF i < k[p] THEN "committed" ELSE "whole"
  /\ pc[p] = "cleanup" =>
       \A i \in DOMAIN pending[p] : i < k[p] => pending[p][i] \notin {"partial", "whole"}
  /\ pc[p] = "returned" =>
       \A i \in DOMAIN pending[p] : pending[p][i] \notin {"partial", "whole"}
  /\ committed[p] > 0 =>
       /\ Len(pending[p]) = Count(p)
       /\ \A i \in DOMAIN pending[p] : pending[p][i] # "partial"
  /\ pc[p] \in {"cleanup", "returned"} /\ ~err[p] => committed[p] = Count(p)
  /\ Running(p) /\ pc[p] # "cleanup" => ~err[p]
  /\ pc[p] \in {"mkdir", "stage", "write", "commit"} \/ committed[p] > 0 => Distinct(p)

(* Until the user or another pass writes, the committed outputs are on disk. *)
SoloInv(p) ==
  edits = 0 /\ (\A q \in Pass \ {p} : committed[q] = 0) =>
    \A i \in 1 .. committed[p] : disk[Targets[p][i]] = File(p, i, TRUE)

IInv ==
  /\ TypeOK
  /\ WholeFiles
  /\ \A p \in Pass : PassInv(p) /\ committed[p] <= Count(p) /\ SoloInv(p)
=============================================================================
