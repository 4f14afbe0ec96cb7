------------------------------- MODULE Publish -------------------------------
(***************************************************************************)
(* What one call of Generate promises about the files it writes, seen by a *)
(* reader of the target paths: a pass replaces its outputs one at a time,  *)
(* each in a single step and with its whole content, in the order it lists *)
(* them.  It succeeds only once it has replaced all of them, and whatever  *)
(* stops it earlier (an error, a kill) leaves a prefix of them new.        *)
(* Directories and temporary files do not show at this level.              *)
(***************************************************************************)
EXTENDS Naturals, Sequences

CONSTANTS
  Pass,     \* the calls of Generate, possibly concurrent
  Path,     \* the paths the passes and the user name
  User,     \* whoever else edits the same directory
  Targets   \* the outputs each pass lists, in its order

VARIABLES
  content,    \* what a reader finds at each path
  published,  \* how many outputs each pass has replaced
  outcome     \* what each pass has come to

vars == <<content, published, outcome>>

NoFile == [kind |-> "absent"]
FileOf(w, i) == [kind |-> "file", by |-> w, out |-> i, whole |-> TRUE]

Init ==
  /\ content \in [Path -> {NoFile, FileOf(User, 0)}]
  /\ published = [p \in Pass |-> 0]
  /\ outcome = [p \in Pass |-> "running"]

(* A pass replaces its next output, in one step and with its whole content. *)
Put(p) ==
  /\ outcome[p] = "running"
  /\ published[p] < Len(Targets[p])
  /\ content' = [content EXCEPT ![Targets[p][published[p] + 1]] =
                                   FileOf(p, published[p] + 1)]
  /\ published' = [published EXCEPT ![p] = @ + 1]
  /\ UNCHANGED outcome

Succeed(p) ==
  /\ outcome[p] = "running"
  /\ published[p] = Len(Targets[p])
  /\ outcome' = [outcome EXCEPT ![p] = "ok"]
  /\ UNCHANGED <<content, published>>

(* An error may end a pass after any of its outputs, the last included. *)
Fail(p) ==
  /\ outcome[p] = "running"
  /\ outcome' = [outcome EXCEPT ![p] = "failed"]
  /\ UNCHANGED <<content, published>>

Die(p) ==
  /\ outcome[p] = "running"
  /\ outcome' = [outcome EXCEPT ![p] = "killed"]
  /\ UNCHANGED <<content, published>>

UserWrites(x) ==
  /\ \E c \in {NoFile, FileOf(User, 0)} : content' = [content EXCEPT ![x] = c]
  /\ UNCHANGED <<published, outcome>>

Next ==
  \/ \E p \in Pass : Put(p) \/ Succeed(p) \/ Fail(p) \/ Die(p)
  \/ \E x \in Path : UserWrites(x)

Spec == Init /\ [][Next]_vars
=============================================================================
