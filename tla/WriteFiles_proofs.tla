-------------------------- MODULE WriteFiles_proofs --------------------------
(***************************************************************************)
(* Proofs about the write protocol for every set of passes, every tree of  *)
(* paths, every list of outputs and every fault.  The invariants that the  *)
(* runs check are not inductive: what is readable at a path depends on how *)
(* far its pass has come, so IInv ties the pending files and the committed *)
(* prefix of a pass to the step it is at.                                  *)
(***************************************************************************)
EXTENDS WriteFiles, SequenceTheorems, TLAPS

(* The target of an index in range is a path. *)
LEMMA Targeted ==
  ASSUME NEW p \in Pass
  PROVE  /\ Count(p) \in Nat \ {0}
         /\ Outs(p) = 1 .. Count(p)
         /\ \A i \in Outs(p) : Targets[p][i] \in Path
  BY TargetsAssumption DEF Count, Outs

-----------------------------------------------------------------------------
(* What the helpers of the actions do to the pending list and to the disk. *)

(* What marking the k-th pending file changes and keeps. *)
LEMMA MarkProperties ==
  ASSUME TypeOK, NEW p \in Pass, k[p] \in 1 .. Len(pending[p]),
         NEW s \in TempStates, Mark(p, s)
  PROVE  /\ pending' \in [Pass -> Seq(TempStates)]
         /\ Len(pending'[p]) = Len(pending[p])
         /\ DOMAIN pending'[p] = DOMAIN pending[p]
         /\ \A i \in DOMAIN pending[p] :
              pending'[p][i] = IF i = k[p] THEN s ELSE pending[p][i]
         /\ \A q \in Pass \ {p} : pending'[q] = pending[q]
<1>1. pending \in [Pass -> Seq(TempStates)] /\ pending[p] \in Seq(TempStates)
  BY DEF TypeOK
<1>2. /\ [pending[p] EXCEPT ![k[p]] = s] \in Seq(TempStates)
      /\ Len([pending[p] EXCEPT ![k[p]] = s]) = Len(pending[p])
      /\ \A j \in 1 .. Len(pending[p]) :
           [pending[p] EXCEPT ![k[p]] = s][j] = IF j = k[p] THEN s ELSE pending[p][j]
  BY <1>1, ExceptSeq
<1>3. pending' = [pending EXCEPT ![p] = [pending[p] EXCEPT ![k[p]] = s]]
  BY DEF Mark
<1>4. pending'[p] = [pending[p] EXCEPT ![k[p]] = s]
  BY <1>1, <1>3
<1>5. DOMAIN pending[p] = 1 .. Len(pending[p])
  BY <1>1, LenProperties
<1>6. DOMAIN pending'[p] = DOMAIN pending[p]
  BY <1>4
<1> QED
  BY <1>1, <1>2, <1>3, <1>4, <1>5, <1>6

(* What a new pending file adds to the list. *)
LEMMA AppendPending ==
  ASSUME TypeOK, NEW p \in Pass,
         pending' = [pending EXCEPT ![p] = Append(@, "partial")]
  PROVE  /\ pending' \in [Pass -> Seq(TempStates)]
         /\ Len(pending'[p]) = Len(pending[p]) + 1
         /\ \A i \in DOMAIN pending'[p] :
              pending'[p][i] = IF i <= Len(pending[p]) THEN pending[p][i] ELSE "partial"
         /\ \A q \in Pass \ {p} : pending'[q] = pending[q]
<1>1. pending \in [Pass -> Seq(TempStates)] /\ pending[p] \in Seq(TempStates)
  BY DEF TypeOK
<1>2. "partial" \in TempStates
  BY DEF TempStates
<1>3. pending'[p] = Append(pending[p], "partial")
  BY <1>1
<1>4. /\ pending'[p] \in Seq(TempStates)
      /\ Len(pending'[p]) = Len(pending[p]) + 1
      /\ \A i \in 1 .. Len(pending[p]) : pending'[p][i] = pending[p][i]
      /\ pending'[p][Len(pending[p]) + 1] = "partial"
  BY <1>1, <1>2, <1>3, AppendProperties
<1>5. DOMAIN pending'[p] = 1 .. Len(pending[p]) + 1 /\ Len(pending[p]) \in Nat
  BY <1>1, <1>4, LenProperties
<1>6. \A i \in DOMAIN pending'[p] :
         pending'[p][i] = IF i <= Len(pending[p]) THEN pending[p][i] ELSE "partial"
  BY <1>4, <1>5
<1> QED
  BY <1>1, <1>3, <1>4, <1>6

(* Making directories changes no file and makes none. *)
LEMMA MakingDirs ==
  ASSUME TypeOK, NEW D, \A d \in D : d \in Path => ~IsFile(d),
         disk' = WithDirs(D)
  PROVE  /\ disk' \in [Path -> Node]
         /\ \A x \in Path : IsFile(x)' <=> IsFile(x)
         /\ \A x \in Path : IsFile(x) => disk'[x] = disk[x]
<1>1. disk \in [Path -> Node] /\ Dir \in Node
  BY DEF TypeOK, Node
<1>2. \A x \in Path : disk'[x] = IF x \in D THEN Dir ELSE disk[x]
  BY DEF WithDirs
<1>3. disk' \in [Path -> Node]
  BY <1>1, <1>2 DEF WithDirs
<1>4. Dir.kind # "file"
  BY DEF Dir
<1> QED
  BY <1>2, <1>3, <1>4 DEF IsFile

(* A step of one pass leaves the control of every other one alone. *)
LEMMA Frame ==
  ASSUME TypeOK, NEW p \in Pass, Step(p) \/ Kill(p), NEW q \in Pass, q # p
  PROVE  /\ pc'[q] = pc[q] /\ k'[q] = k[q] /\ err'[q] = err[q]
         /\ pending'[q] = pending[q] /\ committed'[q] = committed[q]
         /\ edits' = edits
<1> USE DEF TypeOK, Goto, Abort, ReturnError, Mark
<1>1. CASE Check(p)     BY <1>1 DEF Check
<1>2. CASE MakeTSDir(p) BY <1>2 DEF MakeTSDir
<1>3. CASE Stage(p)     BY <1>3 DEF Stage
<1>4. CASE Write(p)     BY <1>4 DEF Write
<1>5. CASE Commit(p)    BY <1>5 DEF Commit, Rename
<1>6. CASE Cleanup(p)   BY <1>6 DEF Cleanup
<1>7. CASE Return(p)    BY <1>7 DEF Return
<1>8. CASE Kill(p)      BY <1>8 DEF Kill
<1> QED
  BY <1>1, <1>2, <1>3, <1>4, <1>5, <1>6, <1>7, <1>8 DEF Step

(* A step to a later index keeps the control typed. *)
LEMMA GotoType ==
  ASSUME TypeOK, NEW p \in Pass, NEW s \in Steps, NEW i \in Nat \ {0}, Goto(p, s, i)
  PROVE  /\ pc' \in [Pass -> Steps] /\ k' \in [Pass -> Nat \ {0}]
         /\ pc'[p] = s /\ k'[p] = i
  BY DEF TypeOK, Goto

(* An error keeps the control typed. *)
LEMMA ErrType ==
  ASSUME TypeOK, NEW p \in Pass, err' = err \/ err' = [err EXCEPT ![p] = TRUE]
  PROVE  err' \in [Pass -> BOOLEAN]
  BY DEF TypeOK

(* The step, the loop index and the error stay in their types. *)
LEMMA ControlType ==
  ASSUME TypeOK, NEW p \in Pass, Step(p) \/ Kill(p)
  PROVE  /\ pc' \in [Pass -> Steps] /\ k' \in [Pass -> Nat \ {0}]
         /\ err' \in [Pass -> BOOLEAN]
         /\ pc'[p] \in {"stage", "write", "commit"} => k'[p] <= Count(p)
<1>1. \E s \in Steps, i \in Nat \ {0} :
        /\ Goto(p, s, i)
        /\ s \in {"stage", "write", "commit"} => i <= Count(p)
  <2> USE Targeted DEF Steps, Abort, ReturnError
  <2>0. k[p] \in Nat \ {0} /\ (pc[p] \in {"stage", "write", "commit"} => k[p] <= Count(p))
    BY DEF TypeOK
  <2>1. CASE Check(p)     BY <2>1 DEF Check
  <2>2. CASE MakeTSDir(p) BY <2>2 DEF MakeTSDir
  <2>3. CASE Stage(p)     BY <2>0, <2>3 DEF Stage
  <2>4. CASE Write(p)     BY <2>0, <2>4 DEF Write
  <2>5. CASE Commit(p)    BY <2>0, <2>5 DEF Commit
  <2>6. CASE Cleanup(p)   BY <2>0, <2>6 DEF Cleanup
  <2>7. CASE Return(p)    BY <2>7 DEF Return
  <2>8. CASE Kill(p)      BY <2>8 DEF Kill
  <2> QED
    BY <2>1, <2>2, <2>3, <2>4, <2>5, <2>6, <2>7, <2>8 DEF Step
<1>2. err' = err \/ err' = [err EXCEPT ![p] = TRUE]
  BY DEF Step, Kill, Check, MakeTSDir, Stage, Write, Commit, Cleanup, Return,
         Abort, ReturnError
<1> QED
  BY <1>1, <1>2, GotoType, ErrType

(* The invariant holds at the first step. *)
LEMMA InitInv == Init => IInv
<1> SUFFICES ASSUME Init PROVE IInv
  OBVIOUS
<1>1. TypeOK
  <2>1. disk \in [Path -> Node]
    <3>1. Absent \in Node /\ Dir \in Node /\ File(User, 0, TRUE) \in Node
      BY DEF Node, File
    <3> QED
      BY <3>1 DEF Init
  <2>2. << >> \in Seq(TempStates)
    BY EmptySeq
  <2> QED
    BY <2>1, <2>2, BoundAssumption DEF Init, TypeOK, Steps
<1>2. WholeFiles
  BY DEF Init, WholeFiles, IsFile, File, Absent, Dir
<1>3. ASSUME NEW p \in Pass PROVE PassInv(p) /\ committed[p] <= Count(p) /\ SoloInv(p)
  BY Targeted DEF Init, PassInv, SoloInv, Running
<1> QED
  BY <1>1, <1>2, <1>3 DEF IInv

(* What each action does to its own pass: the facts the invariant needs. *)
LEMMA StepPassInv ==
  ASSUME IInv, NEW p \in Pass, Step(p) \/ Kill(p)
  PROVE  /\ pending' \in [Pass -> Seq(TempStates)]
         /\ committed' \in [Pass -> Nat]
         /\ committed'[p] <= Count(p)
         /\ PassInv(p)'
<1> DEFINE Typed == /\ pending' \in [Pass -> Seq(TempStates)]
                    /\ committed' \in [Pass -> Nat]
<1>0. /\ TypeOK /\ PassInv(p) /\ committed[p] <= Count(p)
      /\ Count(p) \in Nat \ {0}
      /\ pending[p] \in Seq(TempStates)
      /\ Len(pending[p]) \in Nat /\ DOMAIN pending[p] = 1 .. Len(pending[p])
  BY Targeted, LenProperties DEF IInv, TypeOK
<1> USE DEF Goto, Abort, ReturnError
<1>1. CASE Check(p)
  <2>1. /\ pc[p] = "check" /\ pending' = pending /\ committed' = committed
        /\ \/ Distinct(p) /\ pc'[p] = "mkdir" /\ k'[p] = 1 /\ err' = err
           \/ pc'[p] = "returned" /\ k'[p] = 1 /\ err'[p] = TRUE
    BY <1>0, <1>1 DEF Check, Accepted, TypeOK
  <2>2. Typed
    BY <1>0, <1>1, <2>1 DEF Check, TypeOK
  <2>3. PassInv(p)'
    BY <1>0, <2>1 DEF PassInv, Distinct, Running
  <2> QED
    BY <1>0, <2>1, <2>2, <2>3
<1>2. CASE MakeTSDir(p)
  <2>1. /\ pc[p] = "mkdir" /\ pending' = pending /\ committed' = committed
        /\ \/ pc'[p] = "stage" /\ k'[p] = 1 /\ err' = err
           \/ pc'[p] = "returned" /\ k'[p] = 1 /\ err'[p] = TRUE
    BY <1>0, <1>2 DEF MakeTSDir, TypeOK
  <2>2. Typed
    BY <1>0, <1>2, <2>1 DEF MakeTSDir, TypeOK
  <2>3. PassInv(p)'
    BY <1>0, <2>1 DEF PassInv, Distinct, Running
  <2> QED
    BY <1>0, <2>1, <2>2, <2>3
<1>3. CASE Stage(p)
  <2>1. /\ pc[p] = "stage" /\ committed' = committed
        /\ \/ /\ pending' = [pending EXCEPT ![p] = Append(@, "partial")]
              /\ pc'[p] = "write" /\ k'[p] = k[p] /\ err' = err
           \/ pc'[p] = "cleanup" /\ k'[p] = 1 /\ err'[p] = TRUE /\ pending' = pending
    BY <1>0, <1>3 DEF Stage, TypeOK
  <2>2. Typed
    BY <1>0, <1>3, <2>1, AppendPending DEF Stage, TypeOK
  <2>3. CASE pending' = pending /\ pc'[p] = "cleanup" /\ k'[p] = 1 /\ err'[p] = TRUE
    BY <1>0, <2>1, <2>3, <2>2 DEF PassInv, Distinct, Running
  <2>4. CASE /\ pending' = [pending EXCEPT ![p] = Append(@, "partial")]
             /\ pc'[p] = "write" /\ k'[p] = k[p] /\ err' = err
    <3>1. /\ Len(pending'[p]) = Len(pending[p]) + 1
          /\ \A i \in DOMAIN pending'[p] :
               pending'[p][i] = IF i <= Len(pending[p]) THEN pending[p][i] ELSE "partial"
          /\ DOMAIN pending'[p] = 1 .. Len(pending[p]) + 1
      BY <1>0, <2>2, <2>4, AppendPending, LenProperties
    <3>2. PassInv(p)'
      BY <1>0, <2>1, <2>4, <3>1 DEF PassInv, Distinct, Running
    <3> QED
      BY <1>0, <2>1, <2>2, <2>4, <3>2 DEF TypeOK
  <2> QED
    BY <2>1, <2>3, <2>4
<1>4. CASE Write(p)
  <2>0. k[p] \in 1 .. Len(pending[p])
    BY <1>0, <1>4 DEF Write, PassInv, TypeOK
  <2>1. /\ pc[p] = "write" /\ committed' = committed
        /\ \/ /\ Mark(p, "whole") /\ err' = err
              /\ \/ k[p] < Count(p) /\ pc'[p] = "stage" /\ k'[p] = k[p] + 1
                 \/ ~(k[p] < Count(p)) /\ pc'[p] = "commit" /\ k'[p] = 1
           \/ pc'[p] = "cleanup" /\ k'[p] = 1 /\ err'[p] = TRUE /\ pending' = pending
    BY <1>0, <1>4 DEF Write, TypeOK
  <2>2. Typed
    BY <1>0, <1>4, <2>0, <2>1, MarkProperties DEF Write, TypeOK, TempStates
  <2>3. CASE pending' = pending /\ pc'[p] = "cleanup" /\ k'[p] = 1 /\ err'[p] = TRUE
    BY <1>0, <2>1, <2>2, <2>3 DEF PassInv, Distinct, Running
  <2>4. CASE Mark(p, "whole") /\ err' = err
    <3>1. /\ Len(pending'[p]) = Len(pending[p])
          /\ DOMAIN pending'[p] = DOMAIN pending[p]
          /\ \A i \in DOMAIN pending[p] :
               pending'[p][i] = IF i = k[p] THEN "whole" ELSE pending[p][i]
      BY <1>0, <2>0, <2>4, MarkProperties DEF TempStates
    <3>2. PassInv(p)'
      BY <1>0, <2>1, <2>4, <3>1 DEF PassInv, Distinct, Running, TypeOK
    <3> QED
      BY <1>0, <2>1, <2>2, <2>4, <3>2 DEF TypeOK
  <2> QED
    BY <2>1, <2>3, <2>4
<1>5. CASE Commit(p)
  <2>0. /\ k[p] \in 1 .. Len(pending[p]) /\ Len(pending[p]) = Count(p)
        /\ pc[p] = "commit" /\ committed[p] = k[p] - 1 /\ Distinct(p)
        /\ \A i \in DOMAIN pending[p] :
             pending[p][i] = IF i < k[p] THEN "committed" ELSE "whole"
        /\ ~err[p]
    BY <1>0, <1>5 DEF Commit, PassInv, TypeOK, Running
  <2>1. \/ /\ Mark(p, "committed") /\ committed'[p] = committed[p] + 1
           /\ \/ /\ err' = err
                 /\ \/ k[p] < Count(p) /\ pc'[p] = "commit" /\ k'[p] = k[p] + 1
                    \/ ~(k[p] < Count(p)) /\ pc'[p] = "cleanup" /\ k'[p] = 1
              \/ pc'[p] = "cleanup" /\ k'[p] = 1 /\ err'[p] = TRUE
        \/ /\ pending' = pending /\ committed' = committed
           /\ pc'[p] = "cleanup" /\ k'[p] = 1 /\ err'[p] = TRUE
    BY <1>0, <1>5 DEF Commit, Rename, TypeOK
  <2>2. Typed
    BY <1>0, <1>5, <2>0, <2>1, MarkProperties DEF Commit, Rename, TypeOK, TempStates
  <2>3. CASE /\ pending' = pending /\ committed' = committed
             /\ pc'[p] = "cleanup" /\ k'[p] = 1 /\ err'[p] = TRUE
    BY <1>0, <2>0, <2>2, <2>3 DEF PassInv, Distinct, Running
  <2>4. CASE Mark(p, "committed") /\ committed'[p] = committed[p] + 1
    <3>1. /\ Len(pending'[p]) = Len(pending[p])
          /\ DOMAIN pending'[p] = DOMAIN pending[p]
          /\ \A i \in DOMAIN pending[p] :
               pending'[p][i] = IF i = k[p] THEN "committed" ELSE pending[p][i]
      BY <1>0, <2>0, <2>4, MarkProperties DEF TempStates
    <3>2. pc'[p] = "commit" => k[p] < Count(p) /\ k'[p] = k[p] + 1
      BY <2>0, <2>1, <2>4
    <3>3. pc'[p] \in {"commit", "cleanup"} /\ (pc'[p] = "cleanup" => k'[p] = 1)
      BY <2>0, <2>1, <2>4
    <3>4. ~err'[p] => committed'[p] = Count(p) \/ pc'[p] = "commit"
      BY <1>0, <2>0, <2>1, <2>4
    <3>5. pc'[p] = "commit" => ~err'[p]
      BY <1>0, <2>0, <2>1, <2>4
    <3>6. PassInv(p)'
      <4>1. pc'[p] = "commit" =>
              /\ committed'[p] = k'[p] - 1
              /\ \A i \in DOMAIN pending'[p] :
                   pending'[p][i] = IF i < k'[p] THEN "committed" ELSE "whole"
        BY <1>0, <2>0, <2>4, <3>1, <3>2
      <4>2. \A i \in DOMAIN pending'[p] : pending'[p][i] # "partial"
        BY <2>0, <3>1
      <4>3. pc'[p] = "cleanup" => \A i \in DOMAIN pending'[p] : ~(i < k'[p])
        BY <1>0, <3>1, <3>3
      <4>4. Distinct(p)' /\ Len(pending'[p]) = Count(p)
        BY <2>0, <3>1 DEF Distinct
      <4> QED
        BY <3>3, <3>4, <3>5, <4>1, <4>2, <4>3, <4>4 DEF PassInv, Running
    <3> QED
      BY <1>0, <2>0, <2>2, <2>4, <3>2, <3>3, <3>6
  <2> QED
    BY <2>1, <2>3, <2>4
<1>6. CASE Cleanup(p)
  <2>0. k[p] \in 1 .. Len(pending[p])
    BY <1>0, <1>6 DEF Cleanup, TypeOK
  <2>1. /\ pc[p] = "cleanup" /\ pc'[p] = "cleanup" /\ k'[p] = k[p] + 1
        /\ err' = err /\ committed' = committed
        /\ \/ pending[p][k[p]] = "committed" /\ pending' = pending
           \/ Mark(p, "removed")
           \/ Mark(p, "stuck")
    BY <1>0, <1>6 DEF Cleanup, TypeOK
  <2>2. Typed
    BY <1>0, <1>6, <2>0, <2>1, MarkProperties DEF Cleanup, TypeOK, TempStates
  <2>3. /\ Len(pending'[p]) = Len(pending[p])
        /\ DOMAIN pending'[p] = DOMAIN pending[p]
        /\ pending'[p][k[p]] \in {"committed", "removed", "stuck"}
        /\ \A i \in DOMAIN pending[p] : i # k[p] => pending'[p][i] = pending[p][i]
    BY <1>0, <2>0, <2>1, MarkProperties DEF TempStates
  <2>4. PassInv(p)'
    <3>1. \A i \in DOMAIN pending'[p] :
             i < k'[p] => pending'[p][i] \notin {"partial", "whole"}
      BY <1>0, <2>0, <2>1, <2>3 DEF PassInv, TypeOK
    <3>2. committed[p] > 0 => /\ Len(pending'[p]) = Count(p) /\ Distinct(p)'
                              /\ \A i \in DOMAIN pending'[p] : pending'[p][i] # "partial"
      BY <1>0, <2>3 DEF PassInv, Distinct
    <3>3. ~err[p] => committed[p] = Count(p)
      BY <1>0, <2>1 DEF PassInv
    <3> QED
      BY <2>1, <3>1, <3>2, <3>3 DEF PassInv, Running
  <2> QED
    BY <1>0, <2>1, <2>2, <2>4
<1>7. CASE Return(p)
  BY <1>0, <1>7 DEF Return, PassInv, Distinct, TypeOK, Running
<1>8. CASE Kill(p)
  BY <1>0, <1>8 DEF Kill, PassInv, Distinct, TypeOK, Running
<1> QED
  BY <1>1, <1>2, <1>3, <1>4, <1>5, <1>6, <1>7, <1>8 DEF Step

-----------------------------------------------------------------------------
(* A step of a pass either leaves every file as it is, or renames the next *)
(* output of the pass, written in full, over its target.                   *)

FilesKept ==
  /\ committed' = committed
  /\ disk' \in [Path -> Node]
  /\ \A x \in Path : (IsFile(x)' <=> IsFile(x)) /\ (IsFile(x) => disk'[x] = disk[x])

Renamed(p) ==
  /\ k[p] \in Outs(p) /\ k[p] = committed[p] + 1 /\ Distinct(p)
  /\ ~IsDir(Targets[p][k[p]])
  /\ disk' = [disk EXCEPT ![Targets[p][k[p]]] = File(p, k[p], TRUE)]
  /\ committed' = [committed EXCEPT ![p] = @ + 1]

(* A directory still to be made is no file. *)
LEMMA MissingIsNoFile ==
  ASSUME NEW x, NEW D \in PartlyMade(MissingAbove(x))
  PROVE  \A d \in D : d \in Path => ~IsFile(d)
<1>1. \A d \in D : disk[d] = Absent
  BY DEF PartlyMade, MissingAbove
<1> QED
  BY <1>1 DEF IsFile, Absent

(* A step of a pass leaves every file as it is, or is a rename. *)
LEMMA StepDisk ==
  ASSUME IInv, NEW p \in Pass, Step(p) \/ Kill(p)
  PROVE  FilesKept \/ Renamed(p)
<1>0. TypeOK /\ PassInv(p)
  BY DEF IInv
<1> USE DEF Goto, Abort, ReturnError
<1>1. CASE Check(p)
  BY <1>0, <1>1 DEF Check, FilesKept, TypeOK, IsFile
<1>2. CASE MakeTSDir(p)
  <2>1. committed' = committed
    BY <1>2 DEF MakeTSDir
  <2>2. CASE /\ Climbable(TSDir) /\ ~IsFile(TSDir)
             /\ disk' = WithDirs(Above[TSDir] \cup {TSDir})
    BY <1>0, <2>1, <2>2, MakingDirs DEF Climbable, FilesKept
  <2>3. CASE \E D \in PartlyMade(MissingAbove(TSDir)) : disk' = WithDirs(D)
    BY <1>0, <2>1, <2>3, MissingIsNoFile, MakingDirs DEF FilesKept
  <2> QED
    BY <1>2, <2>2, <2>3 DEF MakeTSDir
<1>3. CASE Stage(p)
  <2>1. committed' = committed
    BY <1>3 DEF Stage
  <2>2. CASE Climbable(Target(p)) /\ disk' = WithDirs(Above[Target(p)])
    BY <1>0, <2>1, <2>2, MakingDirs DEF Climbable, FilesKept
  <2>3. CASE \E D \in PartlyMade(MissingAbove(Target(p))) : disk' = WithDirs(D)
    BY <1>0, <2>1, <2>3, MissingIsNoFile, MakingDirs DEF FilesKept
  <2> QED
    BY <1>3, <2>2, <2>3 DEF Stage
<1>4. CASE Write(p)
  BY <1>0, <1>4 DEF Write, FilesKept, TypeOK, IsFile
<1>5. CASE Commit(p)
  <2>0. pending[p] \in Seq(TempStates) /\ DOMAIN pending[p] = 1 .. Len(pending[p])
    BY <1>0, LenProperties DEF TypeOK
  <2>1. /\ k[p] \in Outs(p) /\ k[p] = committed[p] + 1 /\ Distinct(p)
        /\ pending[p][k[p]] = "whole"
    BY <1>0, <1>5, <2>0, Targeted DEF Commit, PassInv, TypeOK
  <2>2. CASE Rename(p)
    BY <2>1, <2>2 DEF Rename, Renamed, Target
  <2>3. CASE UNCHANGED <<disk, committed>>
    BY <1>0, <2>3 DEF FilesKept, TypeOK, IsFile
  <2> QED
    BY <1>5, <2>2, <2>3 DEF Commit
<1>6. CASE Cleanup(p)
  BY <1>0, <1>6 DEF Cleanup, FilesKept, TypeOK, IsFile
<1>7. CASE Return(p)
  BY <1>0, <1>7 DEF Return, FilesKept, TypeOK, IsFile
<1>8. CASE Kill(p)
  BY <1>0, <1>8 DEF Kill, FilesKept, TypeOK, IsFile
<1> QED
  BY <1>1, <1>2, <1>3, <1>4, <1>5, <1>6, <1>7, <1>8 DEF Step

-----------------------------------------------------------------------------
(* A rename keeps the types. *)
LEMMA RenamedType ==
  ASSUME TypeOK, NEW p \in Pass, Renamed(p)
  PROVE  /\ disk' \in [Path -> Node] /\ Targets[p][k[p]] \in Path
         /\ disk'[Targets[p][k[p]]] = File(p, k[p], TRUE)
         /\ \A x \in Path : x # Targets[p][k[p]] => disk'[x] = disk[x]
         /\ committed'[p] = committed[p] + 1
<1>1. Targets[p][k[p]] \in Path /\ k[p] \in Nat
  BY Targeted DEF Renamed
<1>2. File(p, k[p], TRUE) \in Node
  BY <1>1 DEF File, Node
<1> QED
  BY <1>1, <1>2 DEF Renamed, TypeOK

(* No step of a pass leaves a torn or misplaced file. *)
LEMMA StepWholeFiles ==
  ASSUME IInv, NEW p \in Pass, Step(p) \/ Kill(p)
  PROVE  WholeFiles'
<1>0. TypeOK /\ WholeFiles
  BY DEF IInv
<1>1. CASE FilesKept
  <2> SUFFICES ASSUME NEW x \in Path, IsFile(x)'
               PROVE  /\ disk'[x].whole
                      /\ disk'[x].by # User =>
                           /\ disk'[x].out \in 1 .. committed'[disk'[x].by]
                           /\ Targets[disk'[x].by][disk'[x].out] = x
    BY DEF WholeFiles
  <2>1. IsFile(x) /\ disk'[x] = disk[x] /\ committed' = committed
    BY <1>1 DEF FilesKept
  <2> QED
    BY <1>0, <2>1 DEF WholeFiles
<1>2. CASE Renamed(p)
  <2> SUFFICES ASSUME NEW x \in Path, IsFile(x)'
               PROVE  /\ disk'[x].whole
                      /\ disk'[x].by # User =>
                           /\ disk'[x].out \in 1 .. committed'[disk'[x].by]
                           /\ Targets[disk'[x].by][disk'[x].out] = x
    BY DEF WholeFiles
  <2>1. CASE x = Targets[p][k[p]]
    <3>1. disk'[x] = File(p, k[p], TRUE) /\ committed'[p] = k[p] /\ k[p] \in Nat \ {0}
      BY <1>0, <1>2, <2>1, RenamedType DEF Renamed, TypeOK
    <3> QED
      BY <2>1, <3>1 DEF File
  <2>2. CASE x # Targets[p][k[p]]
    <3>1. disk'[x] = disk[x] /\ IsFile(x) /\ disk[x] \in Node
      BY <1>0, <1>2, <2>2, RenamedType DEF IsFile, TypeOK
    <3>2. disk[x].by # User => disk[x].by \in Pass
      BY <3>1 DEF IsFile, Node, Absent, Dir
    <3>3. \A q \in Pass : committed[q] \in Nat /\ committed'[q] \in Nat
                            /\ committed'[q] >= committed[q]
      BY <1>0, <1>2 DEF Renamed, TypeOK
    <3> QED
      BY <1>0, <3>1, <3>2, <3>3 DEF WholeFiles
  <2> QED
    BY <2>1, <2>2
<1> QED
  BY <1>1, <1>2, StepDisk

(* A pass that has the tree to itself keeps what it has committed. *)
LEMMA StepSolo ==
  ASSUME IInv, NEW p \in Pass, Step(p) \/ Kill(p), NEW q \in Pass
  PROVE  SoloInv(q)'
<1>0. TypeOK /\ SoloInv(q) /\ committed[q] <= Count(q) /\ PassInv(q)
  BY DEF IInv
<1> SUFFICES ASSUME edits' = 0, \A r \in Pass \ {q} : committed'[r] = 0,
                    NEW i \in 1 .. committed'[q]
             PROVE  disk'[Targets[q][i]] = File(q, i, TRUE)
  BY DEF SoloInv
<1>1. edits' = edits
  BY Targeted DEF Step, Kill, Check, MakeTSDir, Stage, Write, Commit, Cleanup, Return
<1>2. CASE FilesKept
  <2>1. i \in 1 .. committed[q] /\ disk[Targets[q][i]] = File(q, i, TRUE)
    BY <1>0, <1>1, <1>2 DEF FilesKept, SoloInv
  <2>2. Targets[q][i] \in Path
    BY <1>0, <2>1, Targeted DEF TypeOK
  <2> QED
    BY <1>2, <2>1, <2>2 DEF FilesKept, IsFile, File
<1>3. CASE Renamed(p)
  <2>1. p = q
    <3> SUFFICES ASSUME p # q PROVE FALSE
      OBVIOUS
    <3>1. committed'[p] = committed[p] + 1 /\ committed[p] \in Nat
      BY <1>0, <1>3, RenamedType DEF TypeOK
    <3> QED
      BY <3>1
  <2>2. \A r \in Pass \ {q} : committed[r] = 0
    BY <1>0, <1>3, <2>1 DEF Renamed, TypeOK
  <2>3. /\ committed'[q] = committed[q] + 1 /\ k[q] = committed[q] + 1
        /\ committed[q] \in Nat /\ Distinct(q) /\ k[q] \in Outs(q)
    BY <1>0, <1>3, <2>1, RenamedType DEF Renamed, TypeOK
  <2>4. CASE i = k[q]
    BY <1>0, <1>3, <2>1, <2>4, RenamedType
  <2>5. CASE i # k[q]
    <3>1. i \in 1 .. committed[q] /\ i \in Outs(q)
      BY <1>0, <2>3, <2>5, Targeted
    <3>2. Targets[q][i] \in Path /\ Targets[q][i] # Targets[q][k[q]]
      BY <2>3, <2>5, <3>1, Targeted DEF Distinct
    <3>3. disk[Targets[q][i]] = File(q, i, TRUE)
      BY <1>0, <1>1, <2>2, <3>1 DEF SoloInv
    <3> QED
      BY <1>0, <1>3, <2>1, <3>2, <3>3, RenamedType
  <2> QED
    BY <2>4, <2>5
<1> QED
  BY <1>2, <1>3, StepDisk

(* A step of a pass keeps the whole invariant. *)
LEMMA StepInv ==
  ASSUME IInv, NEW p \in Pass, Step(p) \/ Kill(p)
  PROVE  IInv'
<1>0. TypeOK /\ WholeFiles
  BY DEF IInv
<1>1. TypeOK'
  <2>1. disk' \in [Path -> Node]
    BY <1>0, StepDisk, RenamedType DEF FilesKept
  <2>2. edits' = edits
    BY DEF Step, Kill, Check, MakeTSDir, Stage, Write, Commit, Cleanup, Return
  <2>3. \A q \in Pass : pc'[q] \in {"stage", "write", "commit"} => k'[q] <= Count(q)
    BY <1>0, ControlType, Frame DEF TypeOK
  <2> QED
    BY <1>0, <2>1, <2>2, <2>3, ControlType, StepPassInv DEF TypeOK
<1>2. ASSUME NEW q \in Pass, q # p
      PROVE  PassInv(q)' /\ committed'[q] <= Count(q)
  <2>1. PassInv(q) /\ committed[q] <= Count(q)
    BY DEF IInv
  <2> QED
    BY <1>0, <1>2, <2>1, Frame DEF PassInv, Running, Distinct
<1> QED
  BY <1>1, <1>2, StepPassInv, StepWholeFiles, StepSolo DEF IInv

(* So does an edit of the user. *)
LEMMA EditInv ==
  ASSUME IInv, NEW x \in Path, Edit(x)
  PROVE  IInv'
<1>0. TypeOK /\ WholeFiles
  BY DEF IInv
<1>1. PICK n \in {Absent, Dir, File(User, 0, TRUE)} : disk' = [disk EXCEPT ![x] = n]
  BY DEF Edit
<1>2. n \in Node
  <2>1. Absent \in Node /\ Dir \in Node /\ File(User, 0, TRUE) \in Node
    BY DEF Node, File
  <2> QED
    BY <2>1
<1>3. edits' = edits + 1 /\ edits' \in 0 .. MaxEdits
  BY <1>0, BoundAssumption DEF Edit, TypeOK
<1>4. TypeOK'
  BY <1>0, <1>1, <1>2, <1>3 DEF Edit, TypeOK
<1>5. WholeFiles'
  <2> SUFFICES ASSUME NEW y \in Path, IsFile(y)'
               PROVE  /\ disk'[y].whole
                      /\ disk'[y].by # User =>
                           /\ disk'[y].out \in 1 .. committed'[disk'[y].by]
                           /\ Targets[disk'[y].by][disk'[y].out] = y
    BY DEF WholeFiles
  <2>1. CASE y = x
    BY <1>0, <1>1, <2>1 DEF IsFile, File, Absent, Dir, TypeOK
  <2>2. CASE y # x
    BY <1>0, <1>1, <2>2 DEF Edit, IsFile, WholeFiles, TypeOK
  <2> QED
    BY <2>1, <2>2
<1>6. ASSUME NEW q \in Pass
      PROVE  PassInv(q)' /\ committed'[q] <= Count(q) /\ SoloInv(q)'
  <2>1. PassInv(q) /\ committed[q] <= Count(q)
    BY DEF IInv
  <2>2. edits' # 0
    BY <1>0, <1>3 DEF TypeOK
  <2> QED
    BY <2>1, <2>2 DEF Edit, PassInv, Running, Distinct, SoloInv
<1> QED
  BY <1>4, <1>5, <1>6 DEF IInv

(* And so does a step that changes nothing. *)
LEMMA StutterInv ==
  ASSUME IInv, UNCHANGED vars
  PROVE  IInv'
<1>1. TypeOK' /\ WholeFiles'
  BY DEF vars, IInv, TypeOK, WholeFiles, IsFile
<1>2. ASSUME NEW q \in Pass
      PROVE  PassInv(q)' /\ committed'[q] <= Count(q) /\ SoloInv(q)'
  <2>1. PassInv(q) /\ committed[q] <= Count(q) /\ SoloInv(q)
    BY DEF IInv
  <2> QED
    BY <2>1 DEF vars, PassInv, Running, Distinct, SoloInv
<1> QED
  BY <1>1, <1>2 DEF IInv

(* The invariant of the protocol. *)
THEOREM Invariance == Spec => []IInv
<1>1. IInv /\ [Next]_vars => IInv'
  BY StepInv, EditInv, StutterInv DEF Next
<1> QED
  BY InitInv, <1>1, PTL DEF Spec

-----------------------------------------------------------------------------
(* Every reachable state has the declared types, for any passes and tree. *)
THEOREM TypeCorrect == Spec => []TypeOK
<1>1. IInv => TypeOK
  BY DEF IInv
<1> QED
  BY Invariance, <1>1, PTL

(* A file on the tree is the whole content of the output that lists it,    *)
(* whatever fails, whoever is killed and however many passes run at once.  *)
THEOREM FilesAreWhole == Spec => []WholeFiles
<1>1. IInv => WholeFiles
  BY DEF IInv
<1> QED
  BY Invariance, <1>1, PTL

(* Nothing of a pass is readable before every output of it is staged. *)
THEOREM StagingTouchesNoTarget == Spec => []StagedBeforePublished
<1>1. IInv => StagedBeforePublished
  <2> SUFFICES ASSUME IInv, NEW x \in Path, NEW p \in Pass, IsFile(x), disk[x].by = p
               PROVE  /\ Len(pending[p]) = Count(p)
                      /\ \A i \in Outs(p) : pending[p][i] # "partial"
    BY DEF StagedBeforePublished
  <2>1. PassInv(p) /\ disk[x].out \in 1 .. committed[p] /\ committed[p] \in Nat
    BY PassAssumption DEF IInv, WholeFiles, TypeOK
  <2>2. committed[p] > 0
    BY <2>1
  <2>3. DOMAIN pending[p] = 1 .. Len(pending[p])
    BY LenProperties DEF IInv, TypeOK
  <2> QED
    BY <2>1, <2>2, <2>3 DEF PassInv, Outs
<1> QED
  BY Invariance, <1>1, PTL

(* A pass that returned left no temporary file it could remove. *)
THEOREM ReturnLeavesNoTemp == Spec => []NoTempOutlivesReturn
<1>1. IInv => NoTempOutlivesReturn
  BY DEF IInv, PassInv, NoTempOutlivesReturn
<1> QED
  BY Invariance, <1>1, PTL

(* A pass that had the tree to itself and returned no error left each of   *)
(* its targets holding its own output.                                     *)
THEOREM SuccessMeansAllWritten == Spec => []SuccessIsComplete
<1>1. IInv => SuccessIsComplete
  <2> SUFFICES ASSUME IInv, NEW p \in Pass, pc[p] = "returned", ~err[p], edits = 0,
                      \A q \in Pass \ {p} : committed[q] = 0, NEW i \in Outs(p)
               PROVE  disk[Targets[p][i]] = File(p, i, TRUE)
    BY DEF SuccessIsComplete
  <2>1. PassInv(p) /\ SoloInv(p)
    BY DEF IInv
  <2>2. committed[p] = Count(p)
    BY <2>1 DEF PassInv
  <2> QED
    BY <2>1, <2>2 DEF SoloInv, Outs
<1> QED
  BY Invariance, <1>1, PTL

-----------------------------------------------------------------------------
(* One pass on a tree nobody else touches, whose disk obeys, and that lists *)
(* no target before one that lies below it.                                *)
Undisturbed == ~Faults /\ MaxEdits = 0 /\ \A p, q \in Pass : p = q
NoneBelowEarlier ==
  \A p \in Pass : \A i, j \in Outs(p) : i < j => Targets[p][i] \notin Above[Targets[p][j]]

(* What has been staged can be renamed, so no error follows a commit.      *)
StagedAreFree(p) ==
  /\ pc[p] \in {"stage", "write", "commit"} => \A i \in 1 .. Len(pending[p]) : ~IsDir(Targets[p][i])
  /\ err[p] => committed[p] = 0

LEMMA StepStagedAreFree ==
  ASSUME Undisturbed, NoneBelowEarlier, IInv, NEW p \in Pass, StagedAreFree(p), Step(p)
  PROVE  StagedAreFree(p)'
<1>0. TypeOK /\ PassInv(p) /\ committed[p] <= Count(p) /\ ~Faults
  BY DEF IInv, Undisturbed
<1>1. CASE Check(p) \/ MakeTSDir(p)
  <2>1. pending' = pending /\ pending[p] = << >> /\ committed' = committed /\ committed[p] = 0
    BY <1>0, <1>1 DEF Check, MakeTSDir, PassInv
  <2>2. 1 .. Len(pending'[p]) = {}
    BY <2>1
  <2> QED
    BY <2>1, <2>2 DEF StagedAreFree
<1>2. CASE Stage(p)
  <2>1. committed' = committed /\ committed[p] = 0 /\ k[p] = Len(pending[p]) + 1 /\ k[p] \in Outs(p)
    BY <1>0, <1>2, Targeted DEF Stage, PassInv, TypeOK
  <2>2. CASE Abort(p)
    BY <1>0, <2>1, <2>2 DEF Abort, Goto, TypeOK, StagedAreFree
  <2>3. CASE ~IsDir(Target(p)) /\ disk' = WithDirs(Above[Target(p)]) /\ pending' = [pending EXCEPT ![p] = Append(@, "partial")]
    <3>1. Len(pending'[p]) = Len(pending[p]) + 1 /\ Len(pending[p]) \in Nat
      BY <1>0, <2>3, AppendPending, LenProperties DEF TypeOK
    <3>2. ASSUME NEW i \in 1 .. Len(pending'[p])
          PROVE  ~(disk'[Targets[p][i]] = Dir)
      <4>1. i \in Outs(p) /\ Targets[p][i] \in Path /\ Target(p) \in Path /\ i <= k[p]
        BY <2>1, <3>1, Targeted DEF Target
      <4>2. Targets[p][i] \notin Above[Target(p)]
        BY <2>1, <4>1, TreeAssumption DEF NoneBelowEarlier, Target
      <4>3. ~IsDir(Targets[p][i])
        BY <1>2, <2>1, <2>3, <3>1 DEF StagedAreFree, Stage, Target
      <4> QED
        BY <2>3, <4>1, <4>2, <4>3 DEF WithDirs, IsDir
    <3>3. err' = err \/ Abort(p)
      BY <1>2 DEF Stage
    <3> QED
      BY <2>1, <2>2, <3>2, <3>3 DEF StagedAreFree, IsDir
  <2> QED
    BY <1>0, <1>2, <2>2, <2>3 DEF Stage
<1>3. CASE Write(p)
  <2>1. disk' = disk /\ err' = err /\ committed' = committed /\ pc[p] = "write" /\ Mark(p, "whole")
    BY <1>0, <1>3 DEF Write
  <2>2. Len(pending'[p]) = Len(pending[p])
    <3>1. k[p] \in 1 .. Len(pending[p]) /\ "whole" \in TempStates
      BY <1>0, <2>1 DEF PassInv, TypeOK, TempStates
    <3> QED
      BY <1>0, <2>1, <3>1, MarkProperties
  <2> QED
    BY <2>1, <2>2 DEF StagedAreFree, IsDir
<1>4. CASE Commit(p)
  <2>1. k[p] \in 1 .. Len(pending[p]) /\ k[p] \in Outs(p) /\ "committed" \in TempStates
    BY <1>0, <1>4, Targeted DEF Commit, PassInv, TypeOK, TempStates
  <2>2. ~IsDir(Target(p))
    BY <1>4, <2>1 DEF Commit, StagedAreFree, Target
  <2>3. Rename(p) /\ err' = err /\ ~err[p]
    BY <1>0, <1>4, <2>2 DEF Commit, PassInv, Running
  <2>4. Len(pending'[p]) = Len(pending[p])
    BY <1>0, <2>1, <2>3, MarkProperties DEF Rename
  <2>5. ASSUME NEW i \in 1 .. Len(pending[p])
        PROVE  ~(disk'[Targets[p][i]] = Dir)
    <3>1. ~IsDir(Targets[p][i]) /\ i \in Outs(p)
      BY <1>0, <1>4, Targeted DEF Commit, StagedAreFree, PassInv
    <3>2. disk'[Targets[p][i]] \in {disk[Targets[p][i]], File(p, k[p], pending[p][k[p]] = "whole")}
      BY <1>0, <2>3, <3>1, Targeted DEF Rename, TypeOK
    <3> QED
      BY <3>1, <3>2 DEF IsDir, File, Dir
  <2> QED
    BY <2>3, <2>4, <2>5 DEF StagedAreFree, IsDir
<1>5. CASE Cleanup(p) \/ Return(p)
  <2>1. err' = err /\ committed' = committed /\ pc'[p] \in {"cleanup", "returned"}
    BY <1>0, <1>5 DEF Cleanup, Return, Goto, TypeOK
  <2> QED
    BY <2>1 DEF StagedAreFree
<1> QED
  BY <1>1, <1>2, <1>3, <1>4, <1>5 DEF Step

(* "A configuration error stops it before any file is written" (README.md) *)
(* holds of every tree and every list of outputs but those that have a     *)
(* target above a later one, which outputs() lets pass.                    *)
THEOREM ErrorsWriteNothing ==
  ASSUME Undisturbed, NoneBelowEarlier
  PROVE  Spec => []ConfigErrorWritesNothing
<1> DEFINE Free == \A p \in Pass : StagedAreFree(p)
<1>1. Init => Free
  BY DEF Init, StagedAreFree
<1>2. IInv /\ Free /\ [Next]_vars => Free'
  <2> SUFFICES ASSUME IInv, Free, [Next]_vars, NEW p \in Pass
               PROVE  StagedAreFree(p)'
    OBVIOUS
  <2>1. ASSUME NEW q \in Pass, Step(q) PROVE StagedAreFree(p)'
    BY <2>1, StepStagedAreFree DEF Undisturbed
  <2>2. ~(\E q \in Pass : Kill(q)) /\ ~(\E x \in Path : Edit(x))
    BY DEF Undisturbed, Kill, Edit, IInv, TypeOK
  <2>3. CASE UNCHANGED vars
    BY <2>3 DEF vars, StagedAreFree, IsDir
  <2> QED
    BY <2>1, <2>2, <2>3 DEF Next
<1>3. Free => ConfigErrorWritesNothing
  BY DEF StagedAreFree, ConfigErrorWritesNothing
<1> QED
  BY <1>1, <1>2, <1>3, Invariance, PTL DEF Spec

-----------------------------------------------------------------------------
(* The refinement.  A step of a pass that is not seen leaves View, the     *)
(* committed counts and every outcome as they are.                         *)
LEMMA OutcomeOf ==
  ASSUME NEW p \in Pass
  PROVE  /\ Running(p) => Outcome[p] = "running"
         /\ pc[p] = "killed" => Outcome[p] = "killed"
         /\ pc[p] = "returned" /\ err[p] => Outcome[p] = "failed"
         /\ pc[p] = "returned" /\ ~err[p] => Outcome[p] = "ok"
  BY DEF Outcome, Running

(* Where the files stay, a reader sees no change. *)
LEMMA KeptView == FilesKept => View' = View
<1> SUFFICES ASSUME FilesKept PROVE View' = View
  OBVIOUS
<1>1. \A x \in Path : (IF IsFile(x)' THEN disk'[x] ELSE Absent)
                       = (IF IsFile(x) THEN disk[x] ELSE Absent)
  BY DEF FilesKept
<1> QED
  BY <1>1 DEF View, Absent

(* A pass whose control stays has the outcome it had. *)
LEMMA OtherOutcomes ==
  ASSUME TypeOK, NEW p \in Pass, Step(p) \/ Kill(p)
  PROVE  \A s : Outcome'[p] = s => Outcome' = [Outcome EXCEPT ![p] = s]
<1>1. \A q \in Pass \ {p} : Outcome'[q] = Outcome[q]
  BY Frame DEF Outcome, Running
<1> QED
  BY <1>1 DEF Outcome

(* A pass that goes on to another step still runs. *)
LEMMA RunsOn ==
  ASSUME TypeOK, NEW p \in Pass, Step(p) \/ Kill(p), Outcome[p] = "running", Running(p)'
  PROVE  Outcome' = Outcome
<1>1. Outcome'[p] = "running"
  BY DEF Outcome, Running
<1>2. Outcome' = [Outcome EXCEPT ![p] = "running"]
  BY <1>1, OtherOutcomes
<1>3. DOMAIN Outcome = Pass /\ Outcome = [q \in Pass |-> Outcome[q]]
  BY DEF Outcome
<1> QED
  BY <1>2, <1>3

(* The first state is a first state of Publish. *)
LEMMA InitRefines == Init => Promise!Init
<1> SUFFICES ASSUME Init PROVE Promise!Init
  OBVIOUS
<1>1. \A x \in Path : disk[x] \in {Absent, Dir, File(User, 0, TRUE)}
  BY DEF Init
<1>2. View \in [Path -> {Promise!NoFile, Promise!FileOf(User, 0)}]
  BY <1>1 DEF View, IsFile, Absent, Dir, File, Promise!NoFile, Promise!FileOf
<1>3. Outcome = [p \in Pass |-> "running"]
  BY DEF Init, Outcome, Running
<1> QED
  BY <1>2, <1>3 DEF Init, Promise!Init

(* A step of a pass is one of Publish, or shows nothing. *)
LEMMA StepRefines ==
  ASSUME IInv, NEW p \in Pass, Step(p) \/ Kill(p)
  PROVE  [Promise!Next]_(Promise!vars)
<1>0. TypeOK /\ PassInv(p) /\ WholeFiles /\ committed[p] <= Count(p)
  BY DEF IInv
<1>1. pc[p] \in Steps \ {"returned", "killed"} /\ Running(p)
  BY <1>0 DEF TypeOK, Step, Kill, Check, MakeTSDir, Stage, Write, Commit, Cleanup, Return,
              Running, Steps
<1>2. Outcome[p] = "running"
  BY <1>1, OutcomeOf
<1>3. CASE Renamed(p)
  <2>1. Running(p)'
    <3>1. committed' # committed
      <4>1. committed[p] \in Nat
        BY <1>0 DEF TypeOK
      <4>2. committed'[p] = committed[p] + 1
        BY <1>0, <1>3, RenamedType
      <4> QED
        BY <4>1, <4>2
    <3>2. Commit(p)
      BY <3>1 DEF Step, Kill, Check, MakeTSDir, Stage, Write, Cleanup, Return
    <3> QED
      BY <1>0, <3>2 DEF Commit, Abort, Goto, Running, TypeOK
  <2>2. Outcome' = Outcome
    BY <1>0, <1>2, <2>1, RunsOn
  <2>3. View' = [View EXCEPT ![Targets[p][committed[p] + 1]] =
                               Promise!FileOf(p, committed[p] + 1)]
    <3>1. \A x \in Path : x # Targets[p][k[p]] => View'[x] = View[x]
      BY <1>0, <1>3, RenamedType DEF View, IsFile
    <3>2. View'[Targets[p][k[p]]] = File(p, k[p], TRUE)
      BY <1>0, <1>3, RenamedType DEF View, IsFile, File
    <3> QED
      BY <1>0, <1>3, <3>1, <3>2 DEF View, Renamed, File, Promise!FileOf
  <2>4. committed[p] < Len(Targets[p])
    BY <1>0, <1>3, Targeted DEF Renamed, Count, TypeOK
  <2>5. Promise!Put(p)
    BY <1>2, <1>3, <2>2, <2>3, <2>4 DEF Renamed, Promise!Put
  <2> QED
    BY <2>5 DEF Promise!Next
<1>4. CASE FilesKept
  <2>1. View' = View /\ committed' = committed
    BY <1>4, KeptView DEF FilesKept
  <2>2. CASE Running(p)'
    <3>1. Outcome' = Outcome
      BY <1>0, <1>2, <2>2, RunsOn
    <3> QED
      BY <2>1, <3>1 DEF Promise!vars
  <2>3. CASE pc'[p] = "killed"
    <3>1. Outcome'[p] = "killed"
      BY <2>3 DEF Outcome, Running
    <3>2. Promise!Die(p)
      BY <1>0, <1>2, <2>1, <3>1, OtherOutcomes DEF Promise!Die
    <3> QED
      BY <3>2 DEF Promise!Next
  <2>4. CASE pc'[p] = "returned" /\ err'[p]
    <3>1. Outcome'[p] = "failed"
      BY <2>4 DEF Outcome, Running
    <3>2. Promise!Fail(p)
      BY <1>0, <1>2, <2>1, <3>1, OtherOutcomes DEF Promise!Fail
    <3> QED
      BY <3>2 DEF Promise!Next
  <2>5. CASE pc'[p] = "returned" /\ ~err'[p]
    <3>1. Outcome'[p] = "ok"
      BY <2>5 DEF Outcome, Running
    <3>2. committed[p] = Len(Targets[p])
      <4>1. PassInv(p)'
        BY StepPassInv
      <4> QED
        BY <2>1, <2>5, <4>1 DEF PassInv, Count
    <3>3. Promise!Succeed(p)
      BY <1>0, <1>2, <2>1, <3>1, <3>2, OtherOutcomes DEF Promise!Succeed
    <3> QED
      BY <3>3 DEF Promise!Next
  <2> QED
    BY <1>0, <2>2, <2>3, <2>4, <2>5 DEF Running
<1> QED
  BY <1>3, <1>4, StepDisk

(* An edit of the user is one of Publish, or shows nothing. *)
LEMMA EditRefines ==
  ASSUME IInv, NEW x \in Path, Edit(x)
  PROVE  [Promise!Next]_(Promise!vars)
<1>0. disk \in [Path -> Node]
  BY DEF IInv, TypeOK
<1>1. PICK n \in {Absent, Dir, File(User, 0, TRUE)} : disk' = [disk EXCEPT ![x] = n]
  BY DEF Edit
<1>2. \A y \in Path : y # x => View'[y] = View[y]
  BY <1>0, <1>1 DEF View, IsFile
<1>3. View'[x] \in {Promise!NoFile, Promise!FileOf(User, 0)}
  <2>1. disk'[x] \in {Absent, Dir, File(User, 0, TRUE)}
    BY <1>0, <1>1
  <2>2. View'[x] = IF disk'[x].kind = "file" THEN disk'[x] ELSE Absent
    BY DEF View, IsFile
  <2> QED
    BY <2>1, <2>2 DEF Absent, Dir, File, Promise!NoFile, Promise!FileOf
<1>4. \E c \in {Promise!NoFile, Promise!FileOf(User, 0)} : View' = [View EXCEPT ![x] = c]
  BY <1>2, <1>3 DEF View
<1>5. Outcome' = Outcome /\ committed' = committed
  BY DEF Edit, Outcome, Running
<1>6. Promise!UserWrites(x)
  BY <1>4, <1>5 DEF Promise!UserWrites
<1> QED
  BY <1>6 DEF Promise!Next

(* The write protocol implements the promise of Publish: whatever fails    *)
(* and however the passes interleave, a reader sees each pass replace its  *)
(* outputs one by one, whole and in order, and success only at the end.    *)
THEOREM WriteFilesImplementsPublish == Spec => ImplementsPublish
<1>1. IInv /\ [Next]_vars => [Promise!Next]_(Promise!vars)
  <2>1. ASSUME UNCHANGED vars PROVE UNCHANGED Promise!vars
    BY <2>1 DEF vars, Promise!vars, View, Outcome, IsFile, Running
  <2> QED
    BY <2>1, StepRefines, EditRefines DEF Next
<1> QED
  BY InitRefines, Invariance, <1>1, PTL DEF Spec, ImplementsPublish, Promise!Spec
=============================================================================
