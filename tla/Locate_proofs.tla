---------------------------- MODULE Locate_proofs ----------------------------
(***************************************************************************)
(* An accepted set of outputs is written one file each and stays accepted, *)
(* in any tree and for any outputs.  IInv is the invariant: a path is      *)
(* followed as far as it leads, what is missing of it holds no "..", and   *)
(* no two accepted outputs are one file.                                   *)
(***************************************************************************)
EXTENDS Locate, WellFoundedInduction, TLAPS

(* The names of a path from its n-th on. *)
Names(i, n) == SubSeq(PathOf(i), n, Len(PathOf(i)))
LastEntry(i) == <<fis[i][Known(i)], PathOf(i)[Known(i)]>>

-----------------------------------------------------------------------------
(* Two sequences joined start with the first. *)
LEMMA Joined ==
  ASSUME NEW S, NEW s \in Seq(S), NEW t \in Seq(S)
  PROVE  /\ s \o t \in Seq(S) /\ Len(s) <= Len(s \o t)
         /\ \A n \in 1 .. Len(s) : (s \o t)[n] = s[n]
OBVIOUS

(* What a sequence holds from a position on is the element there and what  *)
(* it holds from the next.                                                 *)
LEMMA OneMore ==
  ASSUME NEW S, NEW s \in Seq(S), NEW n \in 1 .. Len(s)
  PROVE  LET m == SubSeq(s, n, Len(s))
             t == SubSeq(s, n + 1, Len(s))
         IN /\ Len(m) = Len(t) + 1 /\ Len(t) \in Nat /\ DOMAIN m = 1 .. Len(m) /\ DOMAIN t = 1 .. Len(t)
            /\ m[1] = s[n] /\ \A o \in 2 .. Len(m) : m[o] = t[o - 1]
<1> DEFINE m == SubSeq(s, n, Len(s))
           t == SubSeq(s, n + 1, Len(s))
<1>1. Len(s) \in Nat OBVIOUS
<1>2. m \in Seq(S) /\ Len(m) = Len(s) - n + 1 /\ \A o \in 1 .. Len(s) - n + 1 : m[o] = s[n + o - 1]
  BY <1>1
<1>3. t \in Seq(S) /\ Len(t) = Len(s) - n /\ \A o \in 1 .. Len(s) - n : t[o] = s[n + o]
  BY <1>1
<1>4. ASSUME NEW o \in 2 .. Len(m) PROVE m[o] = t[o - 1]
  <2>1. o \in 1 .. Len(s) - n + 1 /\ o - 1 \in 1 .. Len(s) - n /\ n + o - 1 = n + (o - 1) BY <1>1, <1>2
  <2>2. m[o] = s[n + o - 1] BY <1>2, <2>1
  <2>3. t[o - 1] = s[n + (o - 1)] BY <1>3, <2>1
  <2> QED BY <2>1, <2>2, <2>3
<1>5. m[1] = s[n]
  <2>1. 1 \in 1 .. Len(s) - n + 1 /\ n + 1 - 1 = n BY <1>1
  <2> QED BY <1>2, <2>1
<1> HIDE DEF m, t
<1>6. Len(m) = Len(t) + 1 /\ Len(t) \in Nat /\ DOMAIN m = 1 .. Len(m) /\ DOMAIN t = 1 .. Len(t)
  BY <1>1, <1>2, <1>3
<1> QED BY <1>4, <1>5, <1>6 DEF m, t

(* A path is a sequence of names; that of a TS output starts with the TS   *)
(* directory's.                                                            *)
LEMMA PathIs ==
  ASSUME TreeInv, NEW i \in Paths
  PROVE  /\ PathOf(i) \in Seq(Name) /\ Len(PathOf(i)) \in Nat
         /\ Len(conf.tsDir) \in Nat /\ PathOf(0) = conf.tsDir /\ 0 \in Paths /\ Outs \subseteq Paths
         /\ i \in Outs \/ i = 0
         /\ IsTS(i) => /\ Len(conf.tsDir) <= Len(PathOf(i))
                       /\ \A n \in 1 .. Len(conf.tsDir) : PathOf(i)[n] = conf.tsDir[n]
<1>1. conf.tsDir \in Seq(Name) /\ conf.outs \in Seq([role : {"ts", "openapi"}, path : Seq(Name)])
  BY DEF TreeInv
<1> DEFINE Out == [role : {"ts", "openapi"}, path : Seq(Name)]
<1>2. i \in Outs => conf.outs[i].path \in Seq(Name)
  <2>1. i \in Outs => conf.outs[i] \in Out
    <3>1. conf.outs \in Seq(Out) BY <1>1
    <3> HIDE DEF Out
    <3> QED BY <3>1 DEF Outs
  <2> QED BY <2>1
<1>3. Len(conf.outs) \in Nat BY <1>1
<1>4. i \in Outs \/ i = 0 BY <1>3 DEF Outs, Paths
<1>5. 0 \in Paths /\ Outs \subseteq Paths BY <1>3 DEF Outs, Paths
<1>6. PathOf(0) = conf.tsDir BY <1>3 DEF PathOf, IsTS, Outs
<1>7. IsTS(i) => i # 0 /\ PathOf(i) = conf.tsDir \o conf.outs[i].path
  <2>1. IsTS(i) => i # 0 BY <1>3 DEF IsTS, Outs, Paths
  <2> QED BY <2>1, Zenon DEF PathOf
<1>8. PathOf(i) \in Seq(Name)
  <2>1. CASE i = 0 BY <1>1, <1>6, <2>1
  <2>2. CASE IsTS(i)
    <3>1. i \in Outs BY <2>2 DEF IsTS
    <3>2. conf.outs[i].path \in Seq(Name) /\ conf.tsDir \in Seq(Name) BY <1>1, <1>2, <3>1
    <3> QED BY <1>7, <2>2, <3>2, Joined
  <2>3. CASE i # 0 /\ ~IsTS(i)
    <3>1. PathOf(i) = conf.outs[i].path BY <2>3 DEF PathOf
    <3> QED BY <1>2, <1>4, <2>3, <3>1
  <2> QED BY <2>1, <2>2, <2>3
<1>9. IsTS(i) => /\ Len(conf.tsDir) <= Len(PathOf(i))
                 /\ \A n \in 1 .. Len(conf.tsDir) : PathOf(i)[n] = conf.tsDir[n]
  <2> SUFFICES ASSUME IsTS(i) PROVE /\ Len(conf.tsDir) <= Len(PathOf(i))
                                    /\ \A n \in 1 .. Len(conf.tsDir) : PathOf(i)[n] = conf.tsDir[n]
    OBVIOUS
  <2>1. conf.outs[i].path \in Seq(Name) /\ conf.tsDir \in Seq(Name) BY <1>1, <1>2 DEF IsTS
  <2>2. PICK t : t = conf.outs[i].path OBVIOUS
  <2>3. t \in Seq(Name) /\ conf.tsDir \in Seq(Name) /\ PathOf(i) = conf.tsDir \o t BY <1>7, <2>1, <2>2
  <2> QED BY <2>3, Joined
<1> QED BY <1>1, <1>4, <1>5, <1>6, <1>8, <1>9

(* The names from the n-th on, each one and as a set. *)
LEMMA NamesAre ==
  ASSUME TreeInv, NEW i \in Paths, NEW n \in 1 .. Len(PathOf(i)) + 1
  PROVE  /\ Names(i, n) \in Seq(Name) /\ Len(Names(i, n)) = Len(PathOf(i)) - n + 1
         /\ \A m \in 1 .. Len(PathOf(i)) - n + 1 : Names(i, n)[m] = PathOf(i)[n + m - 1]
         /\ \A d : d \in Range(Names(i, n)) <=> \E m \in n .. Len(PathOf(i)) : PathOf(i)[m] = d
<1>1. PathOf(i) \in Seq(Name) /\ Len(PathOf(i)) \in Nat BY PathIs
<1>2. /\ Names(i, n) \in Seq(Name) /\ Len(Names(i, n)) = Len(PathOf(i)) - n + 1
      /\ \A m \in 1 .. Len(PathOf(i)) - n + 1 : Names(i, n)[m] = PathOf(i)[n + m - 1]
  BY <1>1 DEF Names
<1>3. DOMAIN Names(i, n) = 1 .. Len(PathOf(i)) - n + 1 BY <1>2
<1>4. ASSUME NEW d, d \in Range(Names(i, n)) PROVE \E m \in n .. Len(PathOf(i)) : PathOf(i)[m] = d
  <2>1. PICK m \in 1 .. Len(PathOf(i)) - n + 1 : Names(i, n)[m] = d BY <1>3, <1>4 DEF Range
  <2>2. n + m - 1 \in n .. Len(PathOf(i)) BY <1>1
  <2> QED BY <1>2, <2>1, <2>2
<1>5. ASSUME NEW d, NEW m \in n .. Len(PathOf(i)), PathOf(i)[m] = d PROVE d \in Range(Names(i, n))
  <2>1. m - n + 1 \in 1 .. Len(PathOf(i)) - n + 1 /\ n + (m - n + 1) - 1 = m BY <1>1
  <2>2. Names(i, n)[m - n + 1] = d BY <1>2, <1>5, <2>1
  <2> QED BY <1>3, <2>1, <2>2 DEF Range
<1> QED BY <1>2, <1>4, <1>5

(* Where no name climbs, cleaning the names changes nothing. *)
LEMMA RestIsNames ==
  ASSUME TreeInv, NEW i \in Paths, Traced(i), ~Climbs(i), NEW n \in Len(fis[i]) .. Len(PathOf(i)) + 1
  PROVE  Clean(Names(i, n)) = Names(i, n) /\ Rest(i, n) = Names(i, n)
<1>1. Len(fis[i]) \in 1 .. Len(PathOf(i)) + 1 /\ Len(PathOf(i)) \in Nat BY PathIs DEF Traced
<1>2. Missing(i) = Names(i, Len(fis[i])) BY DEF Missing, Names
<1>3. \A m \in Len(fis[i]) .. Len(PathOf(i)) : PathOf(i)[m] # Dots BY <1>1, <1>2, NamesAre DEF Climbs
<1>4. n \in 1 .. Len(PathOf(i)) + 1 BY <1>1
<1>5. Dots \notin Range(Names(i, n)) BY <1>1, <1>3, <1>4, NamesAre
<1> QED BY <1>5 DEF Rest, Names, Clean

(* A TS output is anchored within what exists of it. *)
LEMMA AnchorExists ==
  ASSUME TreeInv, NEW i \in Outs, Traced(0), Traced(i), Below0(i)
  PROVE  Anchored(i) \in 1 .. Len(fis[i]) /\ Len(fis[i]) \in Nat
<1>1. i \in Paths /\ 0 \in Paths /\ Len(conf.tsDir) \in Nat BY PathIs DEF Paths, Outs
<1>2. Len(fis[i]) \in Nat /\ Len(fis[i]) >= 1 /\ Len(fis[0]) \in Nat /\ Len(fis[0]) >= 1
  BY <1>1, PathIs DEF Traced
<1>3. IsTS(i) => Len(fis[0]) <= Len(fis[i]) BY <1>2 DEF Below0
<1>4. HasTSDir => Len(fis[0]) = Len(conf.tsDir) + 1 BY <1>1, <1>2 DEF HasTSDir, Known
<1> QED BY <1>1, <1>2, <1>3, <1>4 DEF Anchored

(* Two missing outputs that end at one directory are one file if what is   *)
(* missing of them is one up to case.                                      *)
LEMMA SameMissing ==
  ASSUME TreeInv, NEW i \in Outs, NEW j \in Outs, Traced(0), Traced(i), Traced(j), Below0(i), Below0(j),
         ~Climbs(i), ~Climbs(j), Here(i) = Here(j), EqualFold(Missing(i), Missing(j))
  PROVE  Same(i, j)
<1>1. i \in Paths /\ j \in Paths BY PathIs DEF Paths, Outs
<1>2. Len(fis[i]) \in Anchored(i) .. Len(fis[i]) /\ Len(fis[j]) \in Anchored(j) .. Len(fis[j])
  BY AnchorExists
<1>3. Len(fis[i]) \in Len(fis[i]) .. Len(PathOf(i)) + 1 /\ Len(fis[j]) \in Len(fis[j]) .. Len(PathOf(j)) + 1
  BY <1>1, PathIs DEF Traced
<1>4. Rest(i, Len(fis[i])) = Missing(i) /\ Rest(j, Len(fis[j])) = Missing(j)
  BY <1>1, <1>3, RestIsNames DEF Names, Missing
<1> QED BY <1>2, <1>4 DEF Same, Here

-----------------------------------------------------------------------------
(* MakeDir and Commit both make some entries lead to a new id: entries not *)
(* there before, which are one name in one directory, or entries that led  *)
(* to one file.                                                            *)
NewEntries(F) == F \cap DOMAIN look = {} /\ \A e, f \in F : e[1] = f[1] /\ Fold[e[2]] = Fold[f[2]]
OldEntries(F) == F \subseteq DOMAIN look /\ \A e, f \in F : look[e] = look[f] /\ look[e] \in files

Leading(F, x) ==
  /\ conf' = conf /\ x \in Id \ Used
  /\ fis' = [i \in Paths |-> Led(i, F, x)]
  /\ DOMAIN look \cup F \subseteq DOMAIN look' /\ DOMAIN look' \subseteq DOMAIN look \cup F \cup {<<x, Dots>>}
  /\ \A e \in F : look'[e] = x /\ e[1] \in Used \ files
  /\ \A e \in DOMAIN look \ F : look'[e] = look[e]
  /\ files' \subseteq files \cup {x}
  /\ x \in files' => \A i \in Paths : Known(i) >= Short(i)
  /\ NewEntries(F) \/ OldEntries(F)

(* Once checked: the paths lead where fis says, what is missing of them    *)
(* begins with a name that is not there, and no two outputs are one.       *)
Located ==
  /\ \A i \in Paths : Traced(i) /\ Ended(i)
  /\ \A i \in Outs : Below0(i)
  /\ Here(0) \notin files
  /\ \A i, j \in Outs : i # j => ~Same(i, j)

(* A path that ended before F goes on to the new id, one that ended in F   *)
(* ends at it.                                                             *)
Extended(i, F) == Walking(i) /\ Entry(i) \in F
Moved(i, F) == ~Walking(i) /\ Known(i) > 0 /\ LastEntry(i) \in F

LEMMA LedIs ==
  ASSUME TreeInv, NEW i \in Paths, Traced(i), NEW F, NEW x \in Id
  PROVE  /\ Extended(i, F) => /\ Led(i, F, x) \in Seq(Id) /\ Len(Led(i, F, x)) = Len(fis[i]) + 1
                              /\ Led(i, F, x)[Len(fis[i]) + 1] = x
                              /\ \A n \in 1 .. Len(fis[i]) : Led(i, F, x)[n] = fis[i][n]
         /\ Moved(i, F) => /\ Led(i, F, x) \in Seq(Id) /\ Len(Led(i, F, x)) = Len(fis[i])
                           /\ Led(i, F, x)[Len(fis[i])] = x
                           /\ \A n \in 1 .. Known(i) : Led(i, F, x)[n] = fis[i][n]
         /\ ~Extended(i, F) /\ ~Moved(i, F) => Led(i, F, x) = fis[i]
<1>1. fis[i] \in Seq(Id) /\ Len(fis[i]) \in Nat /\ Len(fis[i]) >= 1 BY PathIs DEF Traced
<1>2. Extended(i, F) => Led(i, F, x) = Append(fis[i], x) BY DEF Extended, Led
<1>3. Moved(i, F) => Led(i, F, x) = [fis[i] EXCEPT ![Len(fis[i])] = x] BY DEF Moved, Led, LastEntry
<1>4. ~Extended(i, F) /\ ~Moved(i, F) => Led(i, F, x) = fis[i] BY DEF Extended, Moved, Led, LastEntry
<1>5. Moved(i, F) => /\ Led(i, F, x) \in Seq(Id) /\ Len(Led(i, F, x)) = Len(fis[i])
                    /\ Led(i, F, x)[Len(fis[i])] = x
                    /\ \A n \in 1 .. Known(i) : Led(i, F, x)[n] = fis[i][n]
  BY <1>1, <1>3 DEF Known
<1>6. Extended(i, F) => /\ Led(i, F, x) \in Seq(Id) /\ Len(Led(i, F, x)) = Len(fis[i]) + 1
                       /\ Led(i, F, x)[Len(fis[i]) + 1] = x
                       /\ \A n \in 1 .. Len(fis[i]) : Led(i, F, x)[n] = fis[i][n]
  BY <1>1, <1>2
<1> QED BY <1>4, <1>5, <1>6

(* Every id a path leads through is in use. *)
LEMMA LedThrough ==
  ASSUME TreeInv, NEW i \in Paths, Traced(i)
  PROVE  \A n \in 1 .. Len(fis[i]) : fis[i][n] \in Used
<1>1. Len(fis[i]) \in Nat /\ Len(fis[i]) >= 1 BY PathIs DEF Traced
<1>2. fis[i][1] \in Used BY DEF Traced, Leads, Used
<1>3. ASSUME NEW n \in 1 .. Known(i) PROVE fis[i][n + 1] \in Used
  <2>1. <<fis[i][n], PathOf(i)[n]>> \in DOMAIN look /\ look[<<fis[i][n], PathOf(i)[n]>>] = fis[i][n + 1]
    BY DEF Traced, Leads
  <2> QED BY <2>1 DEF Used
<1>4. ASSUME NEW n \in 1 .. Len(fis[i]), n # 1 PROVE fis[i][n] \in Used
  <2>1. n - 1 \in 1 .. Known(i) /\ (n - 1) + 1 = n BY <1>1, <1>4 DEF Known
  <2> QED BY <1>3, <2>1
<1> QED BY <1>2, <1>4

(* An entry a path leads through is not made to lead elsewhere, but for    *)
(* the last of a path to a file.                                           *)
LEMMA ThroughStays ==
  ASSUME TreeInv, Located, NEW F, NEW x, Leading(F, x), NEW i \in Paths, NEW n \in 1 .. Known(i),
         <<fis[i][n], PathOf(i)[n]>> \in F
  PROVE  Moved(i, F) /\ n = Known(i) /\ OldEntries(F)
<1>1. Traced(i) /\ Ended(i) BY DEF Located
<1>2. Len(fis[i]) \in Nat /\ Len(fis[i]) >= 1 /\ Len(PathOf(i)) \in Nat /\ Len(fis[i]) <= Len(PathOf(i)) + 1
  BY <1>1, PathIs DEF Traced
<1> DEFINE e == <<fis[i][n], PathOf(i)[n]>>
<1>3. e \in DOMAIN look /\ look[e] = fis[i][n + 1] BY <1>1 DEF Traced, Leads
<1>4. OldEntries(F) BY <1>3 DEF Leading, NewEntries
<1>5. fis[i][n + 1] \in files BY <1>3, <1>4 DEF OldEntries
<1>6. n = Known(i)
  <2> SUFFICES ASSUME n # Known(i) PROVE FALSE OBVIOUS
  <2>1. n + 1 \in 1 .. Known(i) BY <1>2 DEF Known
  <2>2. <<fis[i][n + 1], PathOf(i)[n + 1]>> \in DOMAIN look BY <1>1, <2>1 DEF Traced, Leads
  <2> QED BY <1>5, <2>2 DEF TreeInv
<1>7. Here(i) \in files BY <1>2, <1>5, <1>6 DEF Here, Known
<1>8. ~Walking(i) BY <1>1, <1>7 DEF Ended
<1> QED BY <1>2, <1>4, <1>6, <1>8 DEF Moved, LastEntry, Known

(* The paths stay the same paths. *)
LEMMA PathsStay ==
  ASSUME conf' = conf
  PROVE  Paths' = Paths /\ Outs' = Outs /\ \A i : PathOf(i)' = PathOf(i) /\ (IsTS(i)' <=> IsTS(i))
BY DEF Paths, Outs, PathOf, IsTS

(* What becomes of a path. *)
LEMMA PathLed ==
  ASSUME TreeInv, Located, NEW F, NEW x, Leading(F, x), NEW i \in Paths
  PROVE  /\ fis'[i] = Led(i, F, x) /\ x \in Id /\ Traced(i) /\ Ended(i)
         /\ Len(fis[i]) \in Nat /\ Len(fis[i]) >= 1 /\ Len(PathOf(i)) \in Nat /\ Len(fis[i]) <= Len(PathOf(i)) + 1
         /\ \A n \in 1 .. Len(fis[i]) : fis[i][n] # x
<1>1. Traced(i) /\ Ended(i) BY DEF Located
<1>2. x \notin Used BY DEF Leading
<1>3. \A n \in 1 .. Len(fis[i]) : fis[i][n] # x BY <1>1, <1>2, LedThrough
<1> QED BY <1>1, <1>3, PathIs DEF Leading, Traced

LEMMA StaysTraced ==
  ASSUME TreeInv, Located, NEW F, NEW x, Leading(F, x), NEW i \in Paths
  PROVE  Traced(i)'
<1> DEFINE L == Len(fis[i])
<1>1. /\ fis'[i] = Led(i, F, x) /\ x \in Id /\ Traced(i) /\ L \in Nat /\ L >= 1
      /\ Len(PathOf(i)) \in Nat /\ L <= Len(PathOf(i)) + 1 /\ Known(i) = L - 1
  BY PathLed DEF Known
<1>2. PathOf(i)' = PathOf(i) BY PathsStay DEF Leading
<1>3. /\ fis[i] \in Seq(Id) /\ fis[i][1] = Base
      /\ \A n \in 1 .. Known(i) : <<fis[i][n], PathOf(i)[n]>> \in DOMAIN look
                                 /\ look[<<fis[i][n], PathOf(i)[n]>>] = fis[i][n + 1]
  BY <1>1 DEF Traced, Leads
<1>4. ASSUME NEW n \in 1 .. Known(i), ~(Moved(i, F) /\ n = Known(i))
      PROVE  /\ <<fis[i][n], PathOf(i)[n]>> \in DOMAIN look'
             /\ look'[<<fis[i][n], PathOf(i)[n]>>] = fis[i][n + 1]
  <2>1. <<fis[i][n], PathOf(i)[n]>> \notin F BY <1>4, ThroughStays
  <2> QED BY <1>3, <2>1 DEF Leading
<1> SUFFICES /\ fis'[i] \in Seq(Id) /\ Len(fis'[i]) \in 1 .. Len(PathOf(i)) + 1 /\ fis'[i][1] = Base
             /\ \A n \in 1 .. Len(fis'[i]) - 1 : /\ <<fis'[i][n], PathOf(i)[n]>> \in DOMAIN look'
                                               /\ look'[<<fis'[i][n], PathOf(i)[n]>>] = fis'[i][n + 1]
  BY <1>2 DEF Traced, Leads, Known
<1>5. CASE Extended(i, F)
  <2>1. /\ fis'[i] \in Seq(Id) /\ Len(fis'[i]) = L + 1 /\ fis'[i][L + 1] = x
        /\ \A n \in 1 .. L : fis'[i][n] = fis[i][n]
    BY <1>1, <1>5, LedIs
  <2>2. L <= Len(PathOf(i)) /\ <<fis[i][L], PathOf(i)[L]>> \in F /\ ~Moved(i, F)
    BY <1>1, <1>5 DEF Extended, Moved, Walking, Entry, Here, NextName
  <2>3. <<fis'[i][L], PathOf(i)[L]>> \in DOMAIN look' /\ look'[<<fis'[i][L], PathOf(i)[L]>>] = x
    <3>1. fis'[i][L] = fis[i][L] BY <1>1, <2>1
    <3>2. <<fis'[i][L], PathOf(i)[L]>> \in F BY <2>2, <3>1
    <3> QED BY <3>2 DEF Leading
  <2>4. ASSUME NEW n \in 1 .. L PROVE /\ <<fis'[i][n], PathOf(i)[n]>> \in DOMAIN look'
                                     /\ look'[<<fis'[i][n], PathOf(i)[n]>>] = fis'[i][n + 1]
    <3>1. CASE n = L BY <2>1, <2>3, <3>1
    <3>2. CASE n # L
      <4>1. n \in 1 .. Known(i) /\ n + 1 \in 1 .. L BY <1>1, <3>2
      <4> QED BY <1>4, <2>1, <2>2, <4>1
    <3> QED BY <3>1, <3>2
  <2> QED BY <1>1, <1>3, <2>1, <2>2, <2>4
<1>6. CASE Moved(i, F)
  <2>1. /\ fis'[i] \in Seq(Id) /\ Len(fis'[i]) = L /\ fis'[i][L] = x
        /\ \A n \in 1 .. Known(i) : fis'[i][n] = fis[i][n]
    BY <1>1, <1>6, LedIs
  <2>2. Known(i) \in 1 .. Known(i) /\ <<fis[i][Known(i)], PathOf(i)[Known(i)]>> \in F
    BY <1>1, <1>6 DEF Moved, LastEntry
  <2>3. ASSUME NEW n \in 1 .. Known(i) PROVE /\ <<fis'[i][n], PathOf(i)[n]>> \in DOMAIN look'
                                            /\ look'[<<fis'[i][n], PathOf(i)[n]>>] = fis'[i][n + 1]
    <3>1. CASE n = Known(i)
      <4>1. fis'[i][n + 1] = x BY <1>1, <2>1, <3>1
      <4>2. fis'[i][n] = fis[i][n] BY <2>1
      <4> QED BY <2>2, <3>1, <4>1, <4>2 DEF Leading
    <3>2. CASE n # Known(i)
      <4>1. n + 1 \in 1 .. Known(i) BY <1>1, <3>2
      <4> QED BY <1>4, <2>1, <3>2, <4>1
    <3> QED BY <3>1, <3>2
  <2>4. fis'[i][1] = Base BY <1>1, <1>3, <2>1, <2>2
  <2> QED BY <1>1, <2>1, <2>3, <2>4
<1>7. CASE ~Extended(i, F) /\ ~Moved(i, F)
  <2>1. fis'[i] = fis[i] BY <1>1, <1>7, LedIs
  <2>2. ASSUME NEW n \in 1 .. L - 1 PROVE /\ <<fis[i][n], PathOf(i)[n]>> \in DOMAIN look'
                                         /\ look'[<<fis[i][n], PathOf(i)[n]>>] = fis[i][n + 1]
    BY <1>1, <1>4, <1>7
  <2>3. fis[i] \in Seq(Id) /\ L \in 1 .. Len(PathOf(i)) + 1 /\ fis[i][1] = Base BY <1>1, <1>3
  <2> QED BY <2>1, <2>2, <2>3
<1> QED BY <1>5, <1>6, <1>7

LEMMA StaysEnded ==
  ASSUME TreeInv, Located, NEW F, NEW x, Leading(F, x), NEW i \in Paths
  PROVE  Ended(i)'
<1> DEFINE L == Len(fis[i])
           P == PathOf(i)
<1>1. /\ fis'[i] = Led(i, F, x) /\ x \in Id /\ Traced(i) /\ L \in Nat /\ L >= 1
      /\ Len(P) \in Nat /\ L <= Len(P) + 1 /\ Known(i) = L - 1 /\ \A n \in 1 .. L : fis[i][n] # x
  BY PathLed DEF Known
<1>2. PathOf(i)' = P BY PathsStay DEF Leading
<1>3. /\ L <= Len(P) => <<fis[i][L], P[L]>> \notin DOMAIN look /\ fis[i][L] \notin files
      /\ \A m \in L .. Len(P) : P[m] # Dots
  <2>1. ~Found(i) /\ ~Climbs(i) /\ (Walking(i) => Here(i) \notin files) BY PathLed DEF Ended
  <2>2. L <= Len(P) <=> Walking(i) BY <1>1 DEF Walking
  <2>3. \A m \in L .. Len(P) : P[m] # Dots BY <1>1, <2>1, NamesAre DEF Climbs, Missing, Names
  <2> QED BY <2>1, <2>2, <2>3 DEF Found, Entry, Here, NextName
<1> DEFINE M == Len(fis'[i])
<1>4. SUFFICES /\ M \in Nat /\ M >= L /\ M <= Len(P) + 1
               /\ M <= Len(P) => <<fis'[i][M], P[M]>> \notin DOMAIN look' /\ fis'[i][M] \notin files'
  <2>1. Walking(i)' <=> M <= Len(P) BY <1>2, <1>4 DEF Walking, Known
  <2>2. Entry(i)' = <<fis'[i][M], P[M]>> /\ Here(i)' = fis'[i][M] BY <1>2 DEF Entry, Here, NextName
  <2>3. ~Found(i)' /\ (Walking(i)' => Here(i)' \notin files') BY <1>4, <2>1, <2>2 DEF Found
  <2>4. Missing(i)' = Names(i, M) BY <1>2 DEF Missing, Names
  <2>5. \A m \in M .. Len(P) : P[m] # Dots BY <1>1, <1>3, <1>4
  <2>6. ~Climbs(i)' BY <1>1, <1>4, <2>4, <2>5, NamesAre DEF Climbs
  <2> QED BY <2>3, <2>6 DEF Ended
<1>5. CASE Extended(i, F)
  <2>1. M = L + 1 /\ fis'[i][M] = x BY <1>1, <1>5, LedIs
  <2>2. L <= Len(P) BY <1>1, <1>5 DEF Extended, Walking
  <2>3. ASSUME M <= Len(P) PROVE <<x, P[M]>> \notin DOMAIN look' /\ x \notin files'
    <3>1. <<x, P[M]>> \notin DOMAIN look BY DEF Leading, Used
    <3>2. <<x, P[M]>> \notin F
      <4>1. \A e \in F : e[1] # x BY DEF Leading
      <4> QED BY <4>1
    <3>3. P[M] # Dots BY <1>1, <1>3, <2>1, <2>3
    <3>4. x \notin files'
      <4>1. Known(i) < Short(i)
        <5>1. Short(i) = Len(P) \/ Short(i) = Len(P) - 1 BY DEF Short
        <5> QED BY <1>1, <1>2, <2>1, <2>3, <5>1
      <4> QED BY <1>1, <4>1 DEF Leading, Short
    <3> QED BY <3>1, <3>2, <3>3, <3>4 DEF Leading
  <2> QED BY <1>1, <2>1, <2>2, <2>3
<1>6. CASE Moved(i, F)
  <2>1. M = L BY <1>1, <1>6, LedIs
  <2>2. L > Len(P) BY <1>1, <1>6 DEF Moved, Walking
  <2> QED BY <1>1, <2>1, <2>2
<1>7. CASE ~Extended(i, F) /\ ~Moved(i, F)
  <2>1. fis'[i] = fis[i] BY <1>1, <1>7, LedIs
  <2>2. ASSUME L <= Len(P) PROVE <<fis[i][L], P[L]>> \notin F /\ fis[i][L] # x
    <3>1. Walking(i) BY <1>1, <2>2 DEF Walking
    <3> QED BY <1>1, <1>7, <3>1 DEF Extended, Entry, Here, NextName
  <2> QED BY <1>1, <1>3, <2>1, <2>2 DEF Leading
<1> QED BY <1>5, <1>6, <1>7

(* The TS directory is no file, so nothing else comes in its place. *)
LEMMA DirectoryStays ==
  ASSUME TreeInv, Located, NEW F, NEW x, Leading(F, x)
  PROVE  0 \in Paths /\ ~Moved(0, F) /\ Here(0)' \notin files'
<1> DEFINE L == Len(fis[0])
<1>1. 0 \in Paths /\ PathOf(0) = conf.tsDir
  <2>1. Len(conf.outs) \in Nat BY DEF TreeInv
  <2> QED BY <2>1 DEF Paths, PathOf, IsTS, Outs
<1>2. /\ fis'[0] = Led(0, F, x) /\ x \in Id /\ Traced(0) /\ L \in Nat /\ L >= 1
      /\ Len(PathOf(0)) \in Nat /\ L <= Len(PathOf(0)) + 1 /\ Known(0) = L - 1 /\ \A n \in 1 .. L : fis[0][n] # x
  BY <1>1, PathLed DEF Known
<1>3. Here(0) \notin files BY DEF Located
<1>4. ~Moved(0, F)
  <2> SUFFICES ASSUME Moved(0, F) PROVE FALSE OBVIOUS
  <2>1. Known(0) \in 1 .. Known(0) /\ LastEntry(0) \in F BY <1>2 DEF Moved
  <2>2. LastEntry(0) \in DOMAIN look /\ look[LastEntry(0)] = Here(0)
    BY <1>2, <2>1 DEF Traced, Leads, LastEntry, Here
  <2>3. OldEntries(F) BY <1>1, <2>1, ThroughStays DEF LastEntry
  <2> QED BY <1>3, <2>1, <2>2, <2>3 DEF OldEntries
<1>5. CASE Extended(0, F)
  <2>1. Here(0)' = x BY <1>1, <1>2, <1>5, LedIs DEF Here
  <2>2. Known(0) < Short(0) BY <1>5 DEF Extended, Walking, Short
  <2>3. Short(0) = Len(PathOf(0)) - 0 BY DEF Short
  <2>4. ~(Known(0) >= Short(0)) BY <1>2, <2>2, <2>3
  <2> QED BY <1>1, <1>4, <2>1, <2>4 DEF Leading
<1>6. CASE ~Extended(0, F)
  <2>1. fis'[0] = fis[0] BY <1>1, <1>2, <1>4, <1>6, LedIs
  <2>2. Here(0)' = Here(0) /\ Here(0) # x BY <1>2, <2>1 DEF Here
  <2> QED BY <1>1, <1>3, <1>4, <2>2 DEF Leading
<1> QED BY <1>5, <1>6

(* A TS output still starts with what the TS directory leads through. *)
LEMMA StaysBelow ==
  ASSUME TreeInv, Located, NEW F, NEW x, Leading(F, x), NEW i \in Outs
  PROVE  Below0(i)'
<1> DEFINE Z == Len(fis[0])
           L == Len(fis[i])
           P == PathOf(i)
<1>1. i \in Paths /\ 0 \in Paths /\ ~Moved(0, F) BY DirectoryStays, PathIs DEF Outs, Paths
<1>2. /\ fis'[i] = Led(i, F, x) /\ x \in Id /\ Traced(i) /\ L \in Nat /\ L >= 1
      /\ Len(P) \in Nat /\ L <= Len(P) + 1 /\ Known(i) = L - 1
  BY <1>1, PathLed DEF Known
<1>3. /\ fis'[0] = Led(0, F, x) /\ Traced(0) /\ Z \in Nat /\ Z >= 1
      /\ Z <= Len(conf.tsDir) + 1 /\ Known(0) = Z - 1 /\ ~Found(0)
  BY <1>1, PathLed, PathIs DEF Known, Ended
<1>4. SUFFICES ASSUME IsTS(i)
               PROVE  \A j \in 1 .. Len(fis'[0]) : j <= Len(fis'[i]) /\ fis'[i][j] = fis'[0][j]
  BY PathsStay DEF Below0, Leading
<1>5. Z <= L /\ \A j \in 1 .. Z : fis[i][j] = fis[0][j]
  <2>1. \A j \in 1 .. Z : j <= L /\ fis[i][j] = fis[0][j] BY <1>4 DEF Located, Below0
  <2> QED BY <1>3, <2>1
<1>6. /\ PathOf(0) = conf.tsDir /\ Len(conf.tsDir) \in Nat /\ Len(conf.tsDir) <= Len(P)
      /\ \A n \in 1 .. Len(conf.tsDir) : P[n] = conf.tsDir[n]
  BY <1>1, <1>4, PathIs
<1>7. CASE Extended(0, F)
  <2>1. Z <= Len(conf.tsDir) /\ <<fis[0][Z], conf.tsDir[Z]>> \in F /\ Entry(0) = <<fis[0][Z], conf.tsDir[Z]>>
    BY <1>3, <1>6, <1>7 DEF Extended, Walking, Entry, Here, NextName
  <2>2. <<fis[i][Z], P[Z]>> \in F BY <1>3, <1>5, <1>6, <2>1
  <2>3. L = Z
    <3> SUFFICES ASSUME L # Z PROVE FALSE OBVIOUS
    <3>1. Z \in 1 .. Known(i) BY <1>2, <1>3, <1>5
    <3>2. OldEntries(F) BY <1>1, <2>2, <3>1, ThroughStays
    <3>3. Entry(0) \in DOMAIN look BY <2>1, <3>2 DEF OldEntries
    <3> QED BY <1>3, <1>7, <3>3 DEF Found, Extended
  <2>4. Extended(i, F) BY <1>2, <1>3, <1>6, <2>1, <2>2, <2>3 DEF Extended, Walking, Entry, Here, NextName
  <2>5. /\ Len(fis'[0]) = Z + 1 /\ fis'[0][Z + 1] = x /\ \A n \in 1 .. Z : fis'[0][n] = fis[0][n]
    BY <1>1, <1>2, <1>3, <1>7, LedIs
  <2>6. /\ Len(fis'[i]) = Z + 1 /\ fis'[i][Z + 1] = x /\ \A n \in 1 .. Z : fis'[i][n] = fis[i][n]
    BY <1>1, <1>2, <2>3, <2>4, LedIs
  <2> QED BY <1>3, <1>5, <2>5, <2>6
<1>8. CASE ~Extended(0, F)
  <2>1. fis'[0] = fis[0] BY <1>1, <1>2, <1>3, <1>8, LedIs
  <2>2. CASE Extended(i, F)
    <3>1. Len(fis'[i]) = L + 1 /\ \A n \in 1 .. L : fis'[i][n] = fis[i][n] BY <1>1, <1>2, <2>2, LedIs
    <3> QED BY <1>2, <1>3, <1>5, <2>1, <3>1
  <2>3. CASE Moved(i, F)
    <3>1. Len(fis'[i]) = L /\ \A n \in 1 .. L - 1 : fis'[i][n] = fis[i][n] BY <1>1, <1>2, <2>3, LedIs
    <3>2. L > Len(P) /\ L > 1 /\ <<fis[i][L - 1], P[L - 1]>> \in F
      BY <1>2, <2>3 DEF Moved, Walking, LastEntry
    <3>3. Z # L
      <4> SUFFICES ASSUME Z = L PROVE FALSE OBVIOUS
      <4>1. Z = Len(conf.tsDir) + 1 /\ Z - 1 \in 1 .. Len(conf.tsDir) BY <1>2, <1>3, <1>6, <3>2
      <4>2. <<fis[0][Z - 1], conf.tsDir[Z - 1]>> \in F BY <1>3, <1>5, <1>6, <3>2, <4>1
      <4>3. ~Walking(0) /\ Known(0) > 0 /\ LastEntry(0) \in F
        BY <1>3, <1>6, <4>1, <4>2 DEF Walking, LastEntry
      <4> QED BY <1>1, <4>3 DEF Moved
    <3> QED BY <1>2, <1>3, <1>5, <2>1, <3>1, <3>3
  <2>4. CASE ~Extended(i, F) /\ ~Moved(i, F)
    <3>1. fis'[i] = fis[i] BY <1>1, <1>2, <2>4, LedIs
    <3> QED BY <1>5, <2>1, <3>1
  <2> QED BY <2>2, <2>3, <2>4
<1> QED BY <1>7, <1>8

(* The new id is at the end of a path, and what comes before is as it was. *)
LEMMA NewIsLast ==
  ASSUME TreeInv, Located, NEW F, NEW x, Leading(F, x), NEW i \in Paths, NEW a \in 1 .. Len(fis'[i])
  PROVE  /\ fis'[i][a] = x => a = Len(fis'[i]) /\ (Extended(i, F) \/ Moved(i, F))
         /\ fis'[i][a] # x => a \in 1 .. Len(fis[i]) /\ fis'[i][a] = fis[i][a]
<1>1. /\ fis'[i] = Led(i, F, x) /\ x \in Id /\ Traced(i) /\ Len(fis[i]) \in Nat /\ Len(fis[i]) >= 1
      /\ \A n \in 1 .. Len(fis[i]) : fis[i][n] # x
  BY PathLed
<1>2. CASE Extended(i, F)
  <2>1. /\ Len(fis'[i]) = Len(fis[i]) + 1 /\ fis'[i][Len(fis[i]) + 1] = x
        /\ \A n \in 1 .. Len(fis[i]) : fis'[i][n] = fis[i][n]
    BY <1>1, <1>2, LedIs
  <2> QED BY <1>1, <1>2, <2>1
<1>3. CASE Moved(i, F)
  <2>1. /\ Len(fis'[i]) = Len(fis[i]) /\ fis'[i][Len(fis[i])] = x
        /\ \A n \in 1 .. Len(fis[i]) - 1 : fis'[i][n] = fis[i][n]
    BY <1>1, <1>3, LedIs DEF Known
  <2> QED BY <1>1, <1>3, <2>1
<1>4. CASE ~Extended(i, F) /\ ~Moved(i, F)
  <2>1. fis'[i] = fis[i] BY <1>1, <1>4, LedIs
  <2> QED BY <1>1, <2>1
<1> QED BY <1>2, <1>3, <1>4

(* What an output is compared by at an id that was there is as it was. *)
LEMMA RestStays ==
  ASSUME TreeInv, Located, NEW F, NEW x, Leading(F, x), NEW i \in Outs,
         NEW a \in Anchored(i)' .. Len(fis'[i]), fis'[i][a] # x
  PROVE  a \in Anchored(i) .. Len(fis[i]) /\ fis'[i][a] = fis[i][a] /\ Rest(i, a)' = Rest(i, a)
<1>1. i \in Paths /\ 0 \in Paths /\ ~Moved(0, F) BY DirectoryStays, PathIs DEF Outs, Paths
<1>2. PathOf(i)' = PathOf(i) /\ (IsTS(i)' <=> IsTS(i)) /\ conf'.tsDir = conf.tsDir /\ Len(conf.tsDir) \in Nat
  BY <1>1, PathsStay, PathIs DEF Leading
<1>3. Anchored(i)' = IF IsTS(i) /\ HasTSDir' THEN Len(conf.tsDir) + 1 ELSE 1 BY <1>2 DEF Anchored
<1>4. Len(fis'[i]) \in Nat
  <2>1. Traced(i)' BY <1>1, StaysTraced
  <2> QED BY <2>1 DEF Traced
<1>5. a \in 1 .. Len(fis'[i]) BY <1>2, <1>3, <1>4
<1>6. a \in 1 .. Len(fis[i]) /\ fis'[i][a] = fis[i][a] BY <1>1, <1>5, NewIsLast
<1>7. IsTS(i) => (HasTSDir' <=> HasTSDir)
  <2> SUFFICES ASSUME IsTS(i) PROVE HasTSDir' <=> HasTSDir OBVIOUS
  <2> DEFINE Z == Len(fis[0])
  <2>1. /\ fis'[0] = Led(0, F, x) /\ x \in Id /\ Traced(0) /\ Z \in Nat /\ Z >= 1 /\ PathOf(0) = conf.tsDir
    BY <1>1, PathLed, PathIs
  <2>2. CASE Extended(0, F)
    <3>1. Len(fis'[0]) = Z + 1 /\ fis'[0][Z + 1] = x /\ Z <= Len(conf.tsDir)
      BY <1>1, <1>2, <2>1, <2>2, LedIs DEF Extended, Walking, Known
    <3>2. ~HasTSDir BY <1>2, <2>1, <3>1 DEF HasTSDir, Known
    <3>3. SUFFICES ASSUME HasTSDir' PROVE FALSE BY <3>2
    <3>4. Z = Len(conf.tsDir) BY <1>2, <2>1, <3>1, <3>3 DEF HasTSDir, Known
    <3>5. Below0(i)' BY StaysBelow
    <3>6. Z + 1 <= Len(fis'[i]) /\ fis'[i][Z + 1] = x
      <4>1. \A j \in 1 .. Len(fis'[0]) : j <= Len(fis'[i]) /\ fis'[i][j] = fis'[0][j]
        BY <1>2, <3>5 DEF Below0
      <4> QED BY <2>1, <3>1, <4>1
    <3>7. Z + 1 = Len(fis'[i]) 
      <4>1. Z + 1 \in 1 .. Len(fis'[i]) BY <1>4, <2>1, <3>6
      <4> QED BY <1>1, <3>6, <4>1, NewIsLast
    <3>8. a = Z + 1 BY <1>2, <1>3, <1>4, <3>3, <3>4, <3>7
    <3> QED BY <3>6, <3>8
  <2>3. CASE ~Extended(0, F)
    <3>1. fis'[0] = fis[0] BY <1>1, <2>1, <2>3, LedIs
    <3> QED BY <1>2, <3>1 DEF HasTSDir, Known
  <2> QED BY <2>2, <2>3
<1>8. Rest(i, a)' = Rest(i, a) BY <1>2, <1>7 DEF Rest
<1>9. Anchored(i)' = Anchored(i) BY <1>3, <1>7 DEF Anchored
<1> QED BY <1>3, <1>4, <1>6, <1>8, <1>9

(* Two outputs that both come to lead to the new id were one before. *)
LEMMA MetBefore ==
  ASSUME TreeInv, Located, NEW F, NEW x, Leading(F, x), NEW i \in Outs, NEW j \in Outs,
         Extended(i, F) \/ Moved(i, F), Extended(j, F) \/ Moved(j, F),
         EqualFold(Names(i, Len(fis'[i])), Names(j, Len(fis'[j])))
  PROVE  Same(i, j)
<1> DEFINE L(q) == Len(fis[q])
           P(q) == PathOf(q)
<1>1. i \in Paths /\ j \in Paths /\ 0 \in Paths /\ Traced(0) BY PathIs DEF Outs, Paths, Located
<1>2. ASSUME NEW q \in Outs
      PROVE  /\ q \in Paths /\ Traced(q) /\ Below0(q) /\ ~Found(q) /\ ~Climbs(q) /\ fis'[q] = Led(q, F, x) /\ x \in Id
             /\ L(q) \in Nat /\ L(q) >= 1 /\ Len(P(q)) \in Nat /\ L(q) <= Len(P(q)) + 1
    <2>1. q \in Paths BY PathIs DEF Outs, Paths
    <2> QED BY <2>1, PathLed DEF Located, Ended
<1>3. ASSUME NEW q \in Outs, Moved(q, F)
      PROVE  /\ OldEntries(F) /\ LastEntry(q) \in F /\ look[LastEntry(q)] = Here(q)
             /\ Missing(q) = << >> /\ Len(fis'[q]) = L(q)
  <2>1. Known(q) \in 1 .. Known(q) /\ LastEntry(q) \in F BY <1>2, <1>3 DEF Moved, Known
  <2>2. look[LastEntry(q)] = Here(q) BY <1>2, <2>1 DEF Traced, Leads, LastEntry, Here, Known
  <2>3. OldEntries(F) BY <1>2, <2>1, ThroughStays DEF LastEntry
  <2>4. L(q) = Len(P(q)) + 1 BY <1>2, <1>3 DEF Moved, Walking, Known
  <2>5. P(q) \in Seq(Name) BY <1>2, PathIs
  <2>6. Missing(q) = << >> BY <1>2, <2>4, <2>5 DEF Missing
  <2> QED BY <1>2, <1>3, <2>1, <2>2, <2>3, <2>6, LedIs
<1>4. ASSUME NEW q \in Outs, Extended(q, F)
      PROVE  NewEntries(F) /\ Entry(q) \in F /\ Len(fis'[q]) = L(q) + 1 /\ L(q) <= Len(P(q))
  <2>1. Entry(q) \notin DOMAIN look /\ Entry(q) \in F BY <1>2, <1>4 DEF Extended, Found
  <2>2. NewEntries(F) BY <2>1 DEF Leading, OldEntries
  <2> QED BY <1>2, <1>4, <2>1, <2>2, LedIs DEF Extended, Walking, Known
<1>5. ~(NewEntries(F) /\ OldEntries(F))
  <2>1. F # {} BY DEF Extended, Moved
  <2> QED BY <2>1 DEF NewEntries, OldEntries
<1>6. CASE Moved(i, F) /\ Moved(j, F)
  <2>1. Here(i) = Here(j) BY <1>3, <1>6 DEF OldEntries
  <2>2. EqualFold(Missing(i), Missing(j)) BY <1>3, <1>6 DEF EqualFold
  <2> QED BY <1>1, <1>2, <2>1, <2>2, SameMissing
<1>7. CASE Extended(i, F) /\ Extended(j, F)
  <2>1. Here(i) = Here(j) /\ Fold[NextName(i)] = Fold[NextName(j)]
    <3>1. Entry(i)[1] = Entry(j)[1] /\ Fold[Entry(i)[2]] = Fold[Entry(j)[2]] BY <1>4, <1>7 DEF NewEntries
    <3> QED BY <3>1 DEF Entry
  <2>2. ASSUME NEW q \in Outs, Extended(q, F)
        PROVE  /\ Len(Missing(q)) = Len(Names(q, L(q) + 1)) + 1 /\ Len(Names(q, L(q) + 1)) \in Nat
               /\ DOMAIN Missing(q) = 1 .. Len(Missing(q))
               /\ DOMAIN Names(q, L(q) + 1) = 1 .. Len(Names(q, L(q) + 1))
               /\ Missing(q)[1] = NextName(q)
               /\ \A n \in 2 .. Len(Missing(q)) : Missing(q)[n] = Names(q, L(q) + 1)[n - 1]
    <3>1. P(q) \in Seq(Name) BY <1>2, PathIs
    <3>2. L(q) \in 1 .. Len(P(q)) BY <1>2, <1>4, <2>2
    <3>3. Missing(q) = SubSeq(P(q), L(q), Len(P(q))) /\ NextName(q) = P(q)[L(q)] BY DEF Missing, NextName
    <3>4. Names(q, L(q) + 1) = SubSeq(P(q), L(q) + 1, Len(P(q))) BY DEF Names
    <3> HIDE DEF P, L
    <3>5. LET m == SubSeq(P(q), L(q), Len(P(q)))
              t == SubSeq(P(q), L(q) + 1, Len(P(q)))
          IN /\ Len(m) = Len(t) + 1 /\ Len(t) \in Nat /\ DOMAIN m = 1 .. Len(m) /\ DOMAIN t = 1 .. Len(t)
             /\ m[1] = P(q)[L(q)] /\ \A o \in 2 .. Len(m) : m[o] = t[o - 1]
      BY <3>1, <3>2, OneMore
    <3> QED BY <3>3, <3>4, <3>5
  <2>3. EqualFold(Names(i, L(i) + 1), Names(j, L(j) + 1)) BY <1>4, <1>7
  <2>4. EqualFold(Missing(i), Missing(j))
    <3>1. Len(Missing(i)) = Len(Missing(j)) BY <1>7, <2>2, <2>3 DEF EqualFold
    <3>2. ASSUME NEW n \in DOMAIN Missing(i) PROVE Fold[Missing(i)[n]] = Fold[Missing(j)[n]]
      <4>1. CASE n = 1 BY <1>7, <2>1, <2>2, <4>1
      <4>2. CASE n # 1
        <5>1. n \in 2 .. Len(Missing(i)) /\ n \in 2 .. Len(Missing(j)) /\ n - 1 \in DOMAIN Names(i, L(i) + 1)
          BY <1>7, <2>2, <3>1, <3>2, <4>2
        <5>2. Fold[Names(i, L(i) + 1)[n - 1]] = Fold[Names(j, L(j) + 1)[n - 1]] BY <2>3, <5>1 DEF EqualFold
        <5> QED BY <1>7, <2>2, <5>1, <5>2
      <4> QED BY <4>1, <4>2
    <3> QED BY <3>1, <3>2 DEF EqualFold
  <2> QED BY <1>1, <1>2, <2>1, <2>4, SameMissing
<1> QED BY <1>3, <1>4, <1>5, <1>6, <1>7

(* No two outputs become one. *)
LEMMA StaysApart ==
  ASSUME TreeInv, Located, NEW F, NEW x, Leading(F, x), NEW i \in Outs, NEW j \in Outs, i # j
  PROVE  ~Same(i, j)'
<1> SUFFICES ASSUME NEW a \in Anchored(i)' .. Len(fis'[i]), NEW b \in Anchored(j)' .. Len(fis'[j]),
                    fis'[i][a] = fis'[j][b], EqualFold(Rest(i, a)', Rest(j, b)')
             PROVE  Same(i, j)
  <2>1. ~Same(i, j) BY DEF Located
  <2> QED BY <2>1 DEF Same, EqualFold
<1>1. CASE fis'[i][a] # x
  <2>1. a \in Anchored(i) .. Len(fis[i]) /\ fis'[i][a] = fis[i][a] /\ Rest(i, a)' = Rest(i, a)
    BY <1>1, RestStays
  <2>2. b \in Anchored(j) .. Len(fis[j]) /\ fis'[j][b] = fis[j][b] /\ Rest(j, b)' = Rest(j, b)
    BY <1>1, RestStays
  <2>3. EqualFold(Rest(i, a), Rest(j, b)) BY <2>1, <2>2
  <2> QED BY <2>1, <2>2, <2>3 DEF Same
<1>2. CASE fis'[i][a] = x
  <2>1. ASSUME NEW q \in Outs, NEW c \in Anchored(q)' .. Len(fis'[q]), fis'[q][c] = x
        PROVE  (Extended(q, F) \/ Moved(q, F)) /\ Rest(q, c)' = Names(q, c) /\ c = Len(fis'[q])
    <3>1. q \in Paths /\ PathOf(q)' = PathOf(q) BY PathsStay, PathIs DEF Outs, Paths, Leading
    <3>2. Traced(q)' BY <3>1, StaysTraced
    <3>3. Len(fis'[q]) \in 1 .. Len(PathOf(q)) + 1 /\ Len(PathOf(q)) \in Nat
      BY <3>1, <3>2, PathIs DEF Traced
    <3>4. Anchored(q)' \in Nat \ {0}
      <4>1. Len(conf.tsDir) \in Nat /\ conf'.tsDir = conf.tsDir BY <3>1, PathIs DEF Leading
      <4> QED BY <4>1 DEF Anchored
    <3>5. c \in 1 .. Len(fis'[q]) BY <3>3, <3>4
    <3>6. c = Len(fis'[q]) /\ (Extended(q, F) \/ Moved(q, F)) BY <2>1, <3>1, <3>5, NewIsLast
    <3>7. Len(fis[q]) <= Len(fis'[q]) /\ Len(fis[q]) \in Nat
      BY <3>1, <3>6, PathLed, LedIs
    <3>8. Clean(Names(q, c)) = Names(q, c)
      <4>1. c \in Len(fis[q]) .. Len(PathOf(q)) + 1 BY <3>3, <3>6, <3>7
      <4>2. Traced(q) /\ ~Climbs(q) BY <3>1, PathLed DEF Ended
      <4> QED BY <3>1, <4>1, <4>2, RestIsNames
    <3>9. Rest(q, c)' = Names(q, c) BY <3>1, <3>8 DEF Rest, Names
    <3> QED BY <3>6, <3>9
  <2>2. (Extended(i, F) \/ Moved(i, F)) /\ Rest(i, a)' = Names(i, Len(fis'[i])) BY <1>2, <2>1
  <2>3. (Extended(j, F) \/ Moved(j, F)) /\ Rest(j, b)' = Names(j, Len(fis'[j])) BY <1>2, <2>1
  <2> QED BY <2>2, <2>3, MetBefore
<1> QED BY <1>1, <1>2

-----------------------------------------------------------------------------
(* The parts of the invariant through a step. *)

(* The tree stays a tree. *)
LEMMA TreeStays ==
  ASSUME TreeInv, NEW F, NEW x, Leading(F, x), F \subseteq Id \X Name, look' = [e \in DOMAIN look' |-> look'[e]],
         <<x, Dots>> \in DOMAIN look' => look'[<<x, Dots>>] \in Id /\ x \notin files',
         conf.anyCase => \A e \in F : \A n \in Name : Fold[n] = Fold[e[2]] => <<e[1], n>> \in F
  PROVE  /\ look' \in [DOMAIN look' -> Id] /\ DOMAIN look' \subseteq Id \X Name
         /\ files' \subseteq Id /\ Base \notin files'
         /\ \A e \in DOMAIN look' : e[1] \notin files'
         /\ conf'.anyCase => \A e \in DOMAIN look' : \A n \in Name :
              Fold[n] = Fold[e[2]] => <<e[1], n>> \in DOMAIN look' /\ look'[<<e[1], n>>] = look'[e]
<1>1. /\ conf' = conf /\ x \in Id /\ x \notin Used /\ DOMAIN look \subseteq DOMAIN look' /\ F \subseteq DOMAIN look'
      /\ \A e \in DOMAIN look' : e \in F \/ e \in DOMAIN look \ F \/ e = <<x, Dots>>
      /\ \A e \in F : look'[e] = x /\ e[1] \in Used /\ e[1] \notin files
      /\ \A e \in DOMAIN look \ F : look'[e] = look[e]
      /\ files' \subseteq files \cup {x}
  BY DEF Leading
<1>2. /\ \A e \in DOMAIN look : look[e] \in Id /\ e \in Id \X Name /\ e[1] \notin files /\ e[1] \in Used
      /\ files \subseteq Id /\ Base \notin files /\ Base \in Used
  BY DEF TreeInv, Used
<1>3. <<x, Dots>> \in Id \X Name /\ Dots \in Name /\ \A n \in Name : Fold[n] = Fold[Dots] => n = Dots
  BY <1>1, NamesAssumption
<1>4. look' \in [DOMAIN look' -> Id]
  <2>1. \A e \in DOMAIN look' : look'[e] \in Id BY <1>1, <1>2
  <2> QED BY <2>1
<1>5. DOMAIN look' \subseteq Id \X Name BY <1>1, <1>2, <1>3
<1>6. files' \subseteq Id /\ Base \notin files' BY <1>1, <1>2
<1>7. ASSUME NEW e \in DOMAIN look' PROVE e[1] \notin files'
  <2>1. CASE e = <<x, Dots>> BY <2>1
  <2>2. CASE e # <<x, Dots>> BY <1>1, <1>2, <2>2
  <2> QED BY <2>1, <2>2
<1>8. ASSUME conf.anyCase, NEW e \in DOMAIN look', NEW n \in Name, Fold[n] = Fold[e[2]]
      PROVE  <<e[1], n>> \in DOMAIN look' /\ look'[<<e[1], n>>] = look'[e]
  <2>1. CASE e \in F BY <1>1, <1>8, <2>1
  <2>2. CASE e \in DOMAIN look \ F
    <3>1. <<e[1], n>> \in DOMAIN look /\ look[<<e[1], n>>] = look[e] BY <1>8, <2>2 DEF TreeInv
    <3>2. <<e[1], n>> \notin F
      <4> SUFFICES ASSUME <<e[1], n>> \in F PROVE FALSE OBVIOUS
      <4>1. e \in Id \X Name BY <1>2, <2>2
      <4>2. e = <<e[1], e[2]>> /\ e[2] \in Name BY <4>1
      <4>3. \A m \in Name : Fold[m] = Fold[n] => <<e[1], m>> \in F BY <1>8
      <4> QED BY <1>8, <2>2, <4>2, <4>3
    <3> QED BY <1>1, <2>2, <3>1, <3>2
  <2>3. CASE e = <<x, Dots>>
    <3>1. n = Dots BY <1>3, <1>8, <2>3
    <3> QED BY <2>3, <3>1
  <2> QED BY <1>1, <2>1, <2>2, <2>3
<1> QED BY <1>1, <1>4, <1>5, <1>6, <1>7, <1>8

(* Once checked, the invariant says where the paths are; and conversely. *)
LEMMA LocatedIs ==
  ASSUME PathsInv, Settled, TreeInv
  PROVE  Located
<1>1. phase # "check" BY DEF Settled
<1>2. \A i \in Paths : Finished(i) BY <1>1 DEF Finished
<1>3. 0 \in Paths /\ Outs \subseteq Paths
  <2>1. Len(conf.outs) \in Nat BY DEF TreeInv
  <2> QED BY <2>1 DEF Paths, Outs
<1> QED BY <1>2, <1>3 DEF PathsInv, Located

LEMMA LocatedThen ==
  ASSUME Located', phase' # "check", fis' \in [Paths' -> Seq(Id)], wrote' \in [Outs' -> Id]
  PROVE  PathsInv'
<1>1. \A i \in Paths' : Traced(i)' /\ Ended(i)' BY DEF Located
<1>2. \A i \in Outs' : Below0(i)' BY DEF Located
<1>3. Here(0)' \notin files' /\ \A i, j \in Outs' : i # j => ~Same(i, j)' BY DEF Located
<1> QED BY <1>1, <1>2, <1>3 DEF PathsInv

LEMMA LocatedStays ==
  ASSUME TreeInv, Located, NEW F, NEW x, Leading(F, x)
  PROVE  Located' /\ fis' \in [Paths' -> Seq(Id)]
<1>1. Paths' = Paths /\ Outs' = Outs BY PathsStay DEF Leading
<1>2. \A i \in Paths : Traced(i)' /\ Ended(i)' BY StaysTraced, StaysEnded
<1>3. \A i \in Outs : Below0(i)' BY StaysBelow
<1>4. Here(0)' \notin files' BY DirectoryStays
<1>5. \A i, j \in Outs : i # j => ~Same(i, j)' BY StaysApart
<1>6. fis' \in [Paths' -> Seq(Id)]
  <2>1. \A i \in Paths : fis'[i] \in Seq(Id) BY <1>2 DEF Traced
  <2>2. fis' = [i \in Paths |-> fis'[i]]
    <3>1. fis' = [i \in Paths |-> Led(i, F, x)] BY DEF Leading
    <3> QED BY <3>1
  <2> QED BY <1>1, <2>1, <2>2
<1> QED BY <1>1, <1>2, <1>3, <1>4, <1>5, <1>6 DEF Located

(* What does not touch a path leaves what is known of it. *)
LEMMA Untouched ==
  ASSUME UNCHANGED <<look, files, conf>>, fis'[0] = fis[0], NEW i, fis'[i] = fis[i]
  PROVE  /\ Traced(i)' <=> Traced(i)
         /\ Ended(i)' <=> Ended(i)
         /\ Below0(i)' <=> Below0(i)
         /\ \A j : fis'[j] = fis[j] => (Same(i, j)' <=> Same(i, j))
<1>1. \A j : PathOf(j)' = PathOf(j) /\ (IsTS(j)' <=> IsTS(j)) BY PathsStay
<1>2. HasTSDir' <=> HasTSDir BY DEF HasTSDir, Known
<1>3. Traced(i)' <=> Traced(i) BY <1>1 DEF Traced, Leads, Known
<1>4. Ended(i)' <=> Ended(i)
  BY <1>1 DEF Ended, Found, Climbs, Missing, Walking, Known, Here, Entry, NextName
<1>5. Below0(i)' <=> Below0(i) BY <1>1 DEF Below0
<1>6. ASSUME NEW j, fis'[j] = fis[j] PROVE Same(i, j)' <=> Same(i, j)
  <2>1. Anchored(i)' = Anchored(i) /\ Anchored(j)' = Anchored(j) BY <1>1, <1>2 DEF Anchored
  <2>2. \A a : Rest(i, a)' = Rest(i, a) /\ Rest(j, a)' = Rest(j, a) BY <1>1, <1>2 DEF Rest
  <2> QED BY <1>6, <2>1, <2>2 DEF Same
<1> QED BY <1>3, <1>4, <1>5, <1>6

LEMMA Symmetric ==
  ASSUME NEW i, NEW j, Same(i, j)
  PROVE  Same(j, i)
<1>1. PICK a \in Anchored(i) .. Len(fis[i]), b \in Anchored(j) .. Len(fis[j]) :
        fis[i][a] = fis[j][b] /\ EqualFold(Rest(i, a), Rest(j, b))
  BY DEF Same
<1>2. EqualFold(Rest(j, b), Rest(i, a))
  <2>1. \A q : Rest(i, q) = Rest(i, q) OBVIOUS
  <2> QED BY <1>1 DEF EqualFold
<1> QED BY <1>1, <1>2 DEF Same

-----------------------------------------------------------------------------
(* The invariant, action by action. *)

LEMMA InitInv ==
  ASSUME Init
  PROVE  IInv
<1>1. PICK w \in Worlds :
        /\ look = w.look /\ files = w.files
        /\ conf = [tsDir |-> w.tsDir, outs |-> w.outs, anyCase |-> w.anyCase, leaves |-> w.leaves]
        /\ fis = [i \in 0 .. Len(w.outs) |-> <<Base>>]
        /\ wrote = [i \in 1 .. Len(w.outs) |-> Base]
  BY DEF Init
<1>2. phase = "check" /\ k = 0 BY DEF Init
<1>3. IsWorld(w) BY WorldsAssumption
<1>4. conf.tsDir = w.tsDir /\ conf.outs = w.outs /\ conf.anyCase = w.anyCase BY <1>1
<1> DEFINE N == Len(conf.outs)
<1>5. conf.outs \in Seq([role : {"ts", "openapi"}, path : Seq(Name)]) BY <1>3, <1>4 DEF IsWorld
<1>6. N \in Nat BY <1>5
<1>7. TreeInv
  <2>1. /\ look \in [DOMAIN look -> Id] /\ DOMAIN look \subseteq Id \X Name
        /\ files \subseteq Id /\ Base \notin files
        /\ conf.anyCase \in BOOLEAN /\ conf.tsDir \in Seq(Name)
        /\ \A e \in DOMAIN look : e[1] \notin files
        /\ conf.anyCase => \A e \in DOMAIN look : \A n \in Name :
             Fold[n] = Fold[e[2]] => <<e[1], n>> \in DOMAIN look /\ look[<<e[1], n>>] = look[e]
        /\ \A i \in DOMAIN conf.outs : conf.outs[i].role = "ts" => Dots \notin Range(conf.outs[i].path)
    BY <1>1, <1>3, <1>4 DEF IsWorld
  <2>2. k \in Paths BY <1>2, <1>6 DEF Paths
  <2> QED BY <1>2, <1>5, <2>1, <2>2 DEF TreeInv
<1>8. fis = [i \in Paths |-> <<Base>>] /\ wrote = [i \in Outs |-> Base] BY <1>1, <1>4 DEF Paths, Outs
<1>9. Base \in Id BY NamesAssumption
<1>10. ASSUME NEW i \in Paths PROVE Traced(i) /\ fis[i] = <<Base>>
  <2>1. fis[i] = <<Base>> /\ Len(PathOf(i)) \in Nat BY <1>7, <1>8, PathIs
  <2> QED BY <1>9, <2>1 DEF Traced, Leads, Known
<1>11. ~Settled /\ \A i \in Paths : ~Finished(i) BY <1>2, <1>6 DEF Settled, Finished, Paths
<1>12. 0 \in Paths /\ Outs \subseteq Paths /\ 0 \notin Outs BY <1>6 DEF Paths, Outs
<1>13. fis \in [Paths -> Seq(Id)] /\ wrote \in [Outs -> Id] BY <1>8, <1>9
<1>14. PathsInv BY <1>2, <1>10, <1>11, <1>12, <1>13 DEF PathsInv
<1>15. WritesInv BY <1>2 DEF WritesInv
<1> QED BY <1>7, <1>14, <1>15 DEF IInv

(* A step that leaves the tree keeps it a tree. *)
LEMMA SameTree ==
  ASSUME TreeInv, UNCHANGED <<look, files, conf>>,
         phase' \in {"check", "refused", "stage", "commit", "written", "failed"}, k' \in Nat,
         phase' \in {"check", "stage"} => k' \in Paths, phase' = "commit" => k' # 0
  PROVE  TreeInv'
BY PathsStay DEF TreeInv

LEMMA StatInv ==
  ASSUME IInv, Stat
  PROVE  IInv'
<1>1. TreeInv /\ PathsInv BY DEF IInv
<1>2. /\ phase = "check" /\ phase' = phase /\ k' = k /\ Found(k) /\ UNCHANGED <<look, files, conf, wrote>>
      /\ fis' = [fis EXCEPT ![k] = Append(@, look[Entry(k)])]
  BY DEF Stat
<1>3. k \in Paths /\ k \in Nat /\ Outs \subseteq Paths /\ 0 \in Paths /\ 0 \notin Outs /\ Paths \subseteq Nat
  <2>1. Len(conf.outs) \in Nat BY <1>1 DEF TreeInv
  <2> QED BY <1>1, <1>2, <2>1 DEF TreeInv, Paths, Outs
<1>4. Paths' = Paths /\ Outs' = Outs /\ PathOf(k)' = PathOf(k) BY <1>2, PathsStay
<1>5. TreeInv'
  <2>1. phase' \in {"check", "stage"} => k' \in Paths BY <1>2, <1>3
  <2> QED BY <1>1, <1>2, <1>3, <2>1, SameTree
<1> DEFINE L == Len(fis[k])
<1>6. /\ fis \in [Paths -> Seq(Id)] /\ Traced(k) /\ L \in Nat /\ L >= 1 /\ L <= Len(PathOf(k))
      /\ Len(PathOf(k)) \in Nat /\ Entry(k) = <<fis[k][L], PathOf(k)[L]>> /\ Entry(k) \in DOMAIN look
      /\ look[Entry(k)] \in Id
  <2>1. fis \in [Paths -> Seq(Id)] /\ Traced(k) BY <1>1, <1>3 DEF PathsInv
  <2>2. Len(PathOf(k)) \in Nat BY <1>1, <1>3, PathIs
  <2>3. Walking(k) /\ Entry(k) \in DOMAIN look BY <1>2 DEF Found
  <2>4. look[Entry(k)] \in Id BY <1>1, <2>3 DEF TreeInv
  <2> QED BY <2>1, <2>2, <2>3, <2>4 DEF Traced, Walking, Known, Entry, Here, NextName
<1>7. /\ fis' \in [Paths -> Seq(Id)] /\ Len(fis'[k]) = L + 1 /\ fis'[k][L + 1] = look[Entry(k)]
      /\ \A n \in 1 .. L : fis'[k][n] = fis[k][n]
      /\ \A i \in Paths \ {k} : fis'[i] = fis[i]
  <2>1. fis'[k] = Append(fis[k], look[Entry(k)]) /\ fis[k] \in Seq(Id) BY <1>2, <1>3, <1>6
  <2>2. Append(fis[k], look[Entry(k)]) \in Seq(Id) BY <1>6, <2>1
  <2> HIDE DEF L
  <2>3. fis' \in [Paths -> Seq(Id)] BY <1>2, <1>3, <1>6, <2>1, <2>2
  <2>4. /\ Len(fis'[k]) = L + 1 /\ fis'[k][L + 1] = look[Entry(k)]
        /\ \A n \in 1 .. L : fis'[k][n] = fis[k][n]
    BY <1>6, <2>1 DEF L
  <2>5. \A i \in Paths \ {k} : fis'[i] = fis[i] BY <1>2, <1>6
  <2> QED BY <2>3, <2>4, <2>5
<1>8. ASSUME NEW c, c = k PROVE Traced(c)'
  <2>1. /\ fis[k][1] = Base
        /\ \A n \in 1 .. L - 1 : <<fis[k][n], PathOf(k)[n]>> \in DOMAIN look
                                 /\ look[<<fis[k][n], PathOf(k)[n]>>] = fis[k][n + 1]
    BY <1>6 DEF Traced, Leads, Known
  <2>2. ASSUME NEW n \in 1 .. L PROVE /\ <<fis'[k][n], PathOf(k)[n]>> \in DOMAIN look
                                     /\ look[<<fis'[k][n], PathOf(k)[n]>>] = fis'[k][n + 1]
    <3>1. CASE n = L
      <4>1. fis'[k][n] = fis[k][L] BY <1>6, <1>7, <3>1
      <4> QED BY <1>6, <1>7, <3>1, <4>1
    <3>2. CASE n # L
      <4>1. n \in 1 .. L - 1 /\ n + 1 \in 1 .. L BY <1>6, <3>2
      <4> QED BY <1>7, <2>1, <4>1
    <3> QED BY <3>1, <3>2
  <2>3. fis'[k][1] = Base /\ Len(fis'[k]) \in 1 .. Len(PathOf(k)) + 1 BY <1>6, <1>7, <2>1
  <2>4. fis'[k] \in Seq(Id) BY <1>3, <1>7
  <2>5. PathOf(c)' = PathOf(c) BY <1>2, PathsStay
  <2> QED BY <1>2, <1>3, <1>6, <1>7, <1>8, <2>2, <2>3, <2>4, <2>5 DEF Traced, Leads, Known
<1>9. k # 0 => \A i \in Paths \ {k} : /\ Traced(i)' /\ (Ended(i)' <=> Ended(i)) /\ (Below0(i)' <=> Below0(i))
                                  /\ \A j \in Paths \ {k} : (Same(i, j)' <=> Same(i, j))
  BY <1>1, <1>2, <1>3, <1>7, Untouched DEF PathsInv
<1>10. ASSUME NEW i \in Paths \ {k} PROVE Traced(i)'
  <2>1. Traced(i) /\ fis'[i] = fis[i] BY <1>1, <1>7 DEF PathsInv
  <2>2. PathOf(i)' = PathOf(i) BY <1>2, PathsStay
  <2> QED BY <1>2, <2>1, <2>2 DEF Traced, Leads, Known
<1>11. \A i \in Paths : Finished(i)' <=> i < k BY <1>2 DEF Finished
<1>12. \A i \in Paths : i < k => Finished(i) /\ i # k BY <1>3 DEF Finished
<1>13. /\ \A i \in Paths : i < k => Ended(i)
       /\ \A i \in Outs : i < k \/ i = k => Below0(i)
       /\ \A i, j \in Outs : i < k /\ j < k /\ i # j => ~Same(i, j)
       /\ 0 < k => Here(0) \notin files
  BY <1>1, <1>2, <1>3, <1>12 DEF PathsInv
<1>14. /\ \A i \in Paths : i < k => Ended(i)'
       /\ \A i, j \in Outs : i < k /\ j < k /\ i # j => ~Same(i, j)'
       /\ 0 < k => Here(0)' \notin files'
  <2>1. CASE k = 0 BY <1>3, <2>1
  <2>2. CASE k # 0
    <3>1. Here(0)' = Here(0) BY <1>3, <1>7, <2>2 DEF Here
    <3>2. \A i \in Paths : i < k => i \in Paths \ {k} BY <1>3
    <3> QED BY <1>2, <1>3, <1>9, <1>13, <2>2, <3>1, <3>2
  <2> QED BY <2>1, <2>2
<1>15. \A i \in Outs : i < k \/ i = k => Below0(i)'
  <2>1. CASE k = 0 BY <1>3, <2>1 DEF Outs
  <2>2. CASE k # 0
    <3>1. ASSUME NEW i \in Outs, i < k PROVE Below0(i)'
      <4>1. i \in Paths \ {k} BY <1>3, <3>1
      <4> QED BY <1>9, <1>13, <2>2, <3>1, <4>1
    <3>2. ASSUME NEW c \in Outs, c = k PROVE Below0(c)'
      <4>1. Below0(k) BY <1>13, <3>2
      <4>2. fis'[0] = fis[0] /\ Len(fis[0]) \in Nat
        <5>1. Traced(0) /\ Len(PathOf(0)) \in Nat BY <1>1, <1>3, PathIs DEF PathsInv
        <5> QED BY <1>3, <1>7, <2>2, <5>1 DEF Traced
      <4>3. IsTS(c)' <=> IsTS(c) BY <1>2, PathsStay
      <4> QED BY <1>6, <1>7, <3>2, <4>1, <4>2, <4>3 DEF Below0
    <3> QED BY <3>1, <3>2
  <2> QED BY <2>1, <2>2
<1>16. \A i \in Paths : i > k => fis'[i] = <<Base>>
  <2>1. \A i \in Paths : i > k => fis[i] = <<Base>> /\ i # k BY <1>1, <1>2, <1>3 DEF PathsInv
  <2> QED BY <1>7, <2>1
<1>17. Outs' \subseteq Paths' /\ 0 \in Paths' /\ wrote' \in [Outs' -> Id] BY <1>1, <1>2, <1>3, <1>4 DEF PathsInv
<1>18. PathsInv'
  <2>1. \A i \in Paths : Traced(i)' BY <1>8, <1>10
  <2> QED BY <1>2, <1>3, <1>4, <1>7, <1>11, <1>14, <1>15, <1>16, <1>17, <2>1 DEF PathsInv
<1>19. WritesInv' BY <1>2 DEF WritesInv
<1> QED BY <1>5, <1>18, <1>19 DEF IInv

(* A step that ends the run without writing on. *)
LEMMA GivenUpInv ==
  ASSUME IInv, Refuse \/ Fail
  PROVE  IInv'
<1>1. /\ TreeInv /\ PathsInv /\ UNCHANGED <<look, files, conf, fis, k, wrote>>
      /\ phase' \in {"refused", "failed"}
  BY DEF IInv, Refuse, Fail
<1>2. TreeInv' BY <1>1, SameTree DEF TreeInv
<1>3. Paths' = Paths /\ Outs' = Outs BY <1>1, PathsStay
<1>4. \A i \in Paths : Traced(i)'
  <2> SUFFICES ASSUME NEW i \in Paths PROVE Traced(i)' OBVIOUS
  <2>1. Traced(i) BY <1>1 DEF PathsInv
  <2> QED BY <1>1, <2>1, Untouched
<1>5. fis' \in [Paths -> Seq(Id)] /\ wrote' \in [Outs -> Id] BY <1>1 DEF PathsInv
<1>6. ~Settled' /\ phase' # "check" BY <1>1 DEF Settled
<1>7. PathsInv' BY <1>3, <1>4, <1>5, <1>6 DEF PathsInv
<1>8. WritesInv' BY <1>1 DEF WritesInv
<1> QED BY <1>2, <1>7, <1>8 DEF IInv

(* A step that leaves the tree and the paths once they are checked. *)
LEMMA SamePaths ==
  ASSUME TreeInv, PathsInv, Settled, UNCHANGED <<look, files, conf, fis, wrote>>, phase' # "check"
  PROVE  PathsInv'
<1>1. Located BY LocatedIs
<1>2. Paths' = Paths /\ Outs' = Outs /\ Outs \subseteq Paths /\ 0 \in Paths
  <2>1. Len(conf.outs) \in Nat BY DEF TreeInv
  <2> QED BY <2>1, PathsStay DEF Paths, Outs
<1>3. \A i \in Paths : Traced(i)' /\ Ended(i)' BY <1>1, Untouched DEF Located
<1>4. \A i \in Outs : Below0(i)' BY <1>1, Untouched DEF Located
<1>5. \A i, j \in Outs : i # j => ~Same(i, j)' BY <1>1, Untouched DEF Located
<1>6. Here(0)' \notin files' BY <1>1 DEF Located, Here
<1>7. Located' BY <1>2, <1>3, <1>4, <1>5, <1>6 DEF Located
<1>8. fis' \in [Paths' -> Seq(Id)] /\ wrote' \in [Outs' -> Id] BY <1>2 DEF PathsInv
<1> QED BY <1>7, <1>8, LocatedThen

LEMMA StageInv ==
  ASSUME IInv, Stage
  PROVE  IInv'
<1>1. /\ TreeInv /\ PathsInv /\ WritesInv /\ UNCHANGED <<look, files, conf, fis, wrote>>
      /\ phase = "stage" /\ Known(k) >= Short(k)
      /\ IF k < Len(conf.outs) THEN k' = k + 1 /\ phase' = phase ELSE k' = 1 /\ phase' = "commit"
  BY DEF IInv, Stage
<1>2. Len(conf.outs) \in Nat /\ k \in 0 .. Len(conf.outs) /\ Paths' = Paths /\ Outs' = Outs
  <2>1. Len(conf.outs) \in Nat /\ k \in Paths BY <1>1 DEF TreeInv
  <2> QED BY <1>1, <2>1, PathsStay DEF Paths
<1>3. TreeInv'
  <2>1. k' \in Nat /\ (phase' = "stage" => k' \in Paths) BY <1>1, <1>2 DEF Paths
  <2> QED BY <1>1, <1>2, <2>1, SameTree
<1>4. PathsInv' BY <1>1, SamePaths DEF Settled
<1>5. \A i \in Paths : Known(i)' = Known(i) /\ Short(i)' = Short(i)
  <2>1. \A i \in Paths : PathOf(i)' = PathOf(i) BY <1>1, PathsStay
  <2> QED BY <1>1, <2>1 DEF Known, Short
<1>6. \A i \in Paths : i <= k => Known(i) >= Short(i)
  <2>1. \A i \in Paths : i < k => Known(i) >= Short(i) BY <1>1 DEF WritesInv
  <2>2. \A i \in Paths : i <= k => i < k \/ i = k BY <1>2 DEF Paths
  <2> QED BY <1>1, <2>1, <2>2
<1>7. CASE k < Len(conf.outs)
  <2>1. k' = k + 1 /\ phase' = "stage" BY <1>1, <1>7
  <2>2. \A i \in Paths : i < k + 1 => i <= k BY <1>2 DEF Paths
  <2>3. \A i \in Paths : i < k' => Known(i)' >= Short(i)' BY <1>5, <1>6, <2>1, <2>2
  <2>4. WritesInv' BY <1>2, <2>1, <2>3 DEF WritesInv
  <2> QED BY <1>3, <1>4, <2>4 DEF IInv
<1>8. CASE ~(k < Len(conf.outs))
  <2>1. k' = 1 /\ phase' = "commit" BY <1>1, <1>8
  <2>2. \A i \in Paths : i <= k BY <1>2, <1>8 DEF Paths
  <2>3. \A i \in Paths : Known(i)' >= Short(i)' BY <1>5, <1>6, <2>2
  <2>4. \A i \in Outs : ~(i < 1) BY <1>2 DEF Outs
  <2>5. WritesInv' BY <1>2, <2>1, <2>3, <2>4 DEF WritesInv
  <2> QED BY <1>3, <1>4, <2>5 DEF IInv
<1> QED BY <1>7, <1>8

LEMMA WrittenInv ==
  ASSUME IInv, Written
  PROVE  IInv'
<1>1. /\ TreeInv /\ PathsInv /\ WritesInv /\ UNCHANGED <<look, files, conf, fis, k, wrote>>
      /\ phase = "commit" /\ k > Len(conf.outs) /\ phase' = "written"
  BY DEF IInv, Written
<1>2. Len(conf.outs) \in Nat /\ k \in Nat /\ Paths' = Paths /\ Outs' = Outs
  BY <1>1, PathsStay DEF TreeInv
<1>3. TreeInv' BY <1>1, <1>2, SameTree
<1>4. PathsInv' BY <1>1, SamePaths DEF Settled
<1>5. \A i : Known(i)' = Known(i) /\ Short(i)' = Short(i) /\ (Walking(i)' <=> Walking(i)) /\ Here(i)' = Here(i)
  <2>1. \A i : PathOf(i)' = PathOf(i) BY <1>1, PathsStay
  <2> QED BY <1>1, <2>1 DEF Known, Short, Walking, Here
<1>6. \A i \in Outs : i < k BY <1>1, <1>2 DEF Outs
<1>7. WritesInv' BY <1>1, <1>2, <1>5, <1>6 DEF WritesInv
<1> QED BY <1>3, <1>4, <1>7 DEF IInv

LEMMA ClaimInv ==
  ASSUME IInv, Claim
  PROVE  IInv'
<1>1. /\ TreeInv /\ PathsInv /\ phase = "check" /\ UNCHANGED <<look, files, conf, wrote>>
      /\ Ended(k) /\ (k = 0 => Here(0) \notin files)
      /\ \A j \in 1 .. k - 1 : ~Same(j, k)
      /\ IF k < Len(conf.outs)
         THEN /\ k' = k + 1 /\ phase' = phase
              /\ fis' = [fis EXCEPT ![k + 1] = IF IsTS(k + 1) THEN fis[0] ELSE @]
         ELSE k' = 0 /\ phase' = "stage" /\ fis' = fis
  BY DEF IInv, Claim, Walked, Ended
<1> DEFINE N == Len(conf.outs)
<1>2. N \in Nat /\ k \in 0 .. N /\ Paths' = Paths /\ Outs' = Outs /\ Paths = 0 .. N /\ Outs = 1 .. N
  <2>1. N \in Nat /\ k \in Paths BY <1>1 DEF TreeInv
  <2> QED BY <1>1, <2>1, PathsStay DEF Paths, Outs
<1>3. TreeInv'
  <2>1. /\ k' \in Nat /\ k' \in Paths /\ phase' # "commit"
        /\ phase' \in {"check", "refused", "stage", "commit", "written", "failed"}
    BY <1>1, <1>2
  <2> QED BY <1>1, <2>1, SameTree
<1>4. WritesInv'
  <2>1. phase' \in {"check", "stage"} /\ (phase' = "stage" => k' = 0) BY <1>1
  <2> QED BY <1>2, <2>1 DEF WritesInv
<1>5. \A i \in Paths : Finished(i) <=> i < k BY <1>1 DEF Finished
<1>6. /\ fis \in [Paths -> Seq(Id)] /\ wrote \in [Outs -> Id]
      /\ \A i \in Paths : Traced(i)
      /\ \A i \in Paths : i > k => fis[i] = <<Base>>
      /\ \A i \in Paths : i < k => Ended(i)
      /\ \A i \in Outs : i < k \/ i = k => Below0(i)
      /\ 0 < k => Here(0) \notin files
      /\ \A i, j \in Outs : i < k /\ j < k /\ i # j => ~Same(i, j)
  <2>1. 0 \in Paths /\ Outs \subseteq Paths BY <1>2
  <2> QED BY <1>1, <1>5, <2>1 DEF PathsInv
<1>7. /\ \A i \in Paths : i <= k => Ended(i)
      /\ \A i \in Outs : i <= k => Below0(i)
      /\ Here(0) \notin files
  <2>1. \A i \in Paths : i <= k => i < k \/ i = k BY <1>2
  <2>2. Outs \subseteq Paths /\ (k = 0 \/ 0 < k) BY <1>2
  <2> QED BY <1>1, <1>6, <2>1, <2>2
<1>8. ASSUME NEW i \in Outs, NEW j \in Outs, i <= k, j <= k, i # j PROVE ~Same(i, j)
  <2>1. CASE i < k /\ j < k BY <1>6, <1>8, <2>1
  <2>2. CASE i = k
    <3>1. j \in 1 .. k - 1 BY <1>2, <1>8, <2>2
    <3> QED BY <1>1, <2>2, <3>1, Symmetric
  <2>3. CASE j = k
    <3>1. i \in 1 .. k - 1 BY <1>2, <1>8, <2>3
    <3> QED BY <1>1, <2>3, <3>1
  <2> QED BY <1>2, <1>8, <2>1, <2>2, <2>3
<1>9. CASE k < N
  <2>1. k' = k + 1 /\ phase' = "check" /\ fis' = [fis EXCEPT ![k + 1] = IF IsTS(k + 1) THEN fis[0] ELSE @]
    BY <1>1, <1>9
  <2>2. PICK c \in Outs : c = k + 1 BY <1>2, <1>9
  <2>3. /\ fis' \in [Paths -> Seq(Id)] /\ fis'[c] = (IF IsTS(c) THEN fis[0] ELSE fis[c])
        /\ \A i \in Paths \ {c} : fis'[i] = fis[i]
    <3>1. 0 \in Paths /\ c \in Paths BY <1>2
    <3>2. fis[0] \in Seq(Id) /\ fis[c] \in Seq(Id) BY <1>6, <3>1
    <3> QED BY <1>6, <2>1, <2>2, <3>1, <3>2
  <2>4. fis'[0] = fis[0] /\ c # 0 /\ 0 \in Paths /\ c \in Paths BY <1>2, <2>2, <2>3
  <2>5. \A i \in Paths \ {c} : /\ Traced(i)' /\ (Ended(i)' <=> Ended(i)) /\ (Below0(i)' <=> Below0(i))
                             /\ \A j \in Paths \ {c} : (Same(i, j)' <=> Same(i, j))
    BY <1>1, <1>6, <2>3, <2>4, Untouched
  <2>6. Len(fis[0]) \in Nat /\ (IsTS(c)' <=> IsTS(c)) /\ PathOf(c)' = PathOf(c)
    <3>1. Traced(0) /\ Len(PathOf(0)) \in Nat BY <1>1, <1>6, <2>4, PathIs
    <3> QED BY <1>1, <3>1, PathsStay DEF Traced
  <2>7. Traced(c)' /\ Below0(c)'
    <3>1. CASE IsTS(c)
      <4>1. Traced(0) /\ PathOf(0) = conf.tsDir /\ fis'[c] = fis[0] BY <1>1, <1>6, <2>3, <2>4, <3>1, PathIs
      <4>2. /\ Len(conf.tsDir) \in Nat /\ Len(PathOf(c)) \in Nat /\ Len(conf.tsDir) <= Len(PathOf(c))
            /\ \A n \in 1 .. Len(conf.tsDir) : PathOf(c)[n] = conf.tsDir[n]
        BY <1>1, <2>4, <3>1, PathIs
      <4>3. /\ fis[0] \in Seq(Id) /\ Len(fis[0]) \in 1 .. Len(conf.tsDir) + 1 /\ fis[0][1] = Base
            /\ \A n \in 1 .. Len(fis[0]) - 1 : /\ <<fis[0][n], conf.tsDir[n]>> \in DOMAIN look
                                              /\ look[<<fis[0][n], conf.tsDir[n]>>] = fis[0][n + 1]
        BY <4>1 DEF Traced, Leads, Known
      <4>4. /\ fis[0] \in Seq(Id) /\ Len(fis[0]) \in 1 .. Len(PathOf(c)) + 1 /\ fis[0][1] = Base
            /\ \A n \in 1 .. Len(fis[0]) - 1 : /\ <<fis[0][n], PathOf(c)[n]>> \in DOMAIN look
                                              /\ look[<<fis[0][n], PathOf(c)[n]>>] = fis[0][n + 1]
        <5>1. Len(fis[0]) \in 1 .. Len(PathOf(c)) + 1 /\ 1 .. Len(fis[0]) - 1 \subseteq 1 .. Len(conf.tsDir)
          BY <4>2, <4>3
        <5>2. \A n \in 1 .. Len(fis[0]) - 1 : PathOf(c)[n] = conf.tsDir[n] BY <4>2, <5>1
        <5> QED BY <4>3, <5>1, <5>2
      <4>5. Traced(c)' BY <1>1, <2>6, <4>1, <4>4 DEF Traced, Leads, Known
      <4>6. Below0(c)' BY <2>4, <2>6, <4>1 DEF Below0
      <4> QED BY <4>5, <4>6
    <3>2. CASE ~IsTS(c)
      <4>1. Traced(c) /\ fis'[c] = fis[c] BY <1>6, <2>3, <2>4, <3>2
      <4>2. Traced(c)' BY <1>1, <2>6, <4>1 DEF Traced, Leads, Known
      <4>3. Below0(c)' BY <2>6, <3>2 DEF Below0
      <4> QED BY <4>2, <4>3
    <3> QED BY <3>1, <3>2
  <2>8. \A i \in Paths : (i < k' <=> i <= k) /\ (i <= k => i \in Paths \ {c}) /\ (i = k' <=> i = c)
    BY <1>2, <2>1, <2>2
  <2>9. \A i \in Paths : Traced(i)' BY <2>5, <2>7
  <2>10. \A i \in Paths : i > k' => fis'[i] = <<Base>>
    <3>1. \A i \in Paths : i > k + 1 => i > k /\ i # c BY <1>2, <2>2
    <3> QED BY <1>6, <2>1, <2>3, <3>1
  <2>11. \A i \in Paths : Finished(i)' <=> i < k' BY <2>1 DEF Finished
  <2>12. \A i \in Paths : i < k' => Ended(i)' BY <1>7, <2>5, <2>8
  <2>13. \A i \in Outs : i < k' \/ i = k' => Below0(i)'
    <3>1. Outs \subseteq Paths BY <1>2
    <3> QED BY <1>7, <2>5, <2>7, <2>8, <3>1
  <2>14. Here(0)' \notin files' BY <1>1, <1>7, <2>4 DEF Here
  <2>15. \A i, j \in Outs : i < k' /\ j < k' /\ i # j => ~Same(i, j)'
    <3>1. Outs \subseteq Paths BY <1>2
    <3> QED BY <1>8, <2>5, <2>8, <3>1
  <2>16. PathsInv'
    <3>1. Outs \subseteq Paths BY <1>2
    <3> QED BY <1>1, <1>2, <1>6, <2>3, <2>9, <2>10, <2>11, <2>12, <2>13, <2>14, <2>15, <3>1 DEF PathsInv
  <2> QED BY <1>3, <1>4, <2>16 DEF IInv
<1>10. CASE ~(k < N)
  <2>1. k' = 0 /\ phase' = "stage" /\ fis' = fis /\ k = N BY <1>1, <1>2, <1>10
  <2>2. \A i \in Paths : i <= k BY <1>2, <2>1
  <2>3. Outs \subseteq Paths BY <1>2
  <2>4. Located BY <1>6, <1>7, <1>8, <2>2, <2>3 DEF Located
  <2>5. \A i \in Paths : Traced(i)' /\ Ended(i)' BY <1>1, <2>1, <2>4, Untouched DEF Located
  <2>6. \A i \in Outs : Below0(i)' BY <1>1, <2>1, <2>4, Untouched DEF Located
  <2>7. \A i, j \in Outs : i # j => ~Same(i, j)' BY <1>1, <2>1, <2>4, Untouched DEF Located
  <2>8. Here(0)' \notin files' BY <1>1, <1>7, <2>1 DEF Here
  <2>9. Located' BY <1>2, <2>5, <2>6, <2>7, <2>8 DEF Located
  <2>10. PathsInv' BY <1>1, <1>2, <1>6, <2>1, <2>9, LocatedThen
  <2> QED BY <1>3, <1>4, <2>10 DEF IInv
<1> QED BY <1>9, <1>10

(* Where an id is left, Fresh is one that nothing leads to. *)
LEMMA FreshIsNew ==
  ASSUME TreeInv, Used # Id
  PROVE  Fresh \in Id \ Used
<1>1. Used \subseteq Id
  <2>1. Base \in Id /\ files \subseteq Id BY NamesAssumption DEF TreeInv
  <2>2. \A e \in DOMAIN look : e[1] \in Id /\ look[e] \in Id BY DEF TreeInv
  <2> QED BY <2>1, <2>2 DEF Used
<1>2. \E x : x \in Id \ Used BY <1>1
<1> QED BY <1>2 DEF Fresh

(* The spellings of a name that ends a path: entries not there, of one     *)
(* name, closed under spelling.                                            *)
LEMMA SpelledNew ==
  ASSUME TreeInv, NEW i \in Paths, Traced(i), Ended(i), Walking(i)
  PROVE  LET F == {<<Here(i), n>> : n \in Spellings(NextName(i))}
         IN /\ NewEntries(F) /\ F \subseteq Id \X Name /\ Entry(i) \in F
            /\ \A e \in F : e[1] = Here(i)
            /\ Here(i) \in Used \ files
            /\ conf.anyCase => \A e \in F : \A n \in Name : Fold[n] = Fold[e[2]] => <<e[1], n>> \in F
<1> DEFINE F == {<<Here(i), n>> : n \in Spellings(NextName(i))}
<1>1. Here(i) \notin files /\ Entry(i) \notin DOMAIN look BY DEF Ended, Found
<1>2. PathOf(i) \in Seq(Name) /\ fis[i] \in Seq(Id) /\ Len(fis[i]) \in 1 .. Len(PathOf(i))
  BY PathIs DEF Traced, Walking, Known
<1>3. Here(i) \in Id /\ NextName(i) \in Name BY <1>2 DEF Here, NextName
<1>4. Here(i) \in Used
  <2>1. Len(fis[i]) \in 1 .. Len(fis[i]) BY <1>2
  <2> QED BY <2>1, LedThrough DEF Here
<1>5. /\ Spellings(NextName(i)) \subseteq Name /\ NextName(i) \in Spellings(NextName(i))
      /\ \A m \in Spellings(NextName(i)) : Fold[m] = Fold[NextName(i)]
      /\ conf.anyCase => \A m \in Name : Fold[m] = Fold[NextName(i)] => m \in Spellings(NextName(i))
  BY <1>3 DEF Spellings
<1>6. \A e \in F : e[1] = Here(i) /\ e[2] \in Spellings(NextName(i)) /\ e = <<e[1], e[2]>> OBVIOUS
<1>7. F \cap DOMAIN look = {}
  <2> SUFFICES ASSUME NEW m \in Spellings(NextName(i)), <<Here(i), m>> \in DOMAIN look PROVE FALSE
    OBVIOUS
  <2>1. CASE conf.anyCase
    <3>1. Fold[NextName(i)] = Fold[m] BY <1>5
    <3>2. <<Here(i), NextName(i)>> \in DOMAIN look
      <4> DEFINE e == <<Here(i), m>>
      <4>1. e[1] = Here(i) /\ e[2] = m OBVIOUS
      <4>2. <<e[1], NextName(i)>> \in DOMAIN look BY <1>3, <2>1, <3>1, <4>1 DEF TreeInv
      <4> QED BY <4>1, <4>2
    <3> QED BY <1>1, <3>2 DEF Entry
  <2>2. CASE ~conf.anyCase
    <3>1. m = NextName(i) BY <2>2 DEF Spellings
    <3> QED BY <1>1, <3>1 DEF Entry
  <2> QED BY <2>1, <2>2
<1>8. NewEntries(F)
  <2>1. ASSUME NEW e \in F, NEW f \in F PROVE e[1] = f[1] /\ Fold[e[2]] = Fold[f[2]] BY <1>5, <1>6
  <2> QED BY <1>7, <2>1 DEF NewEntries
<1>9. F \subseteq Id \X Name /\ Entry(i) \in F BY <1>3, <1>5 DEF Entry
<1>10. ASSUME conf.anyCase, NEW e \in F, NEW n \in Name, Fold[n] = Fold[e[2]] PROVE <<e[1], n>> \in F
  <2>1. n \in Spellings(NextName(i)) BY <1>5, <1>6, <1>10
  <2> QED BY <1>6, <2>1
<1> QED BY <1>1, <1>4, <1>6, <1>8, <1>9, <1>10

LEMMA MakeDirInv ==
  ASSUME IInv, MakeDir
  PROVE  IInv'
<1> DEFINE F == {<<Here(k), n>> : n \in Spellings(NextName(k))}
           x == Fresh
<1>1. /\ TreeInv /\ PathsInv /\ WritesInv /\ UNCHANGED <<files, conf, phase, k, wrote>>
      /\ phase = "stage" /\ Known(k) < Short(k) /\ Used # Id
      /\ look' = [e \in DOMAIN look \cup F \cup {<<x, Dots>>} |->
                    CASE e \in F -> x [] e = <<x, Dots>> -> Here(k) [] OTHER -> look[e]]
      /\ fis' = [i \in Paths |-> Led(i, F, x)]
  BY DEF IInv, MakeDir
<1>2. Located BY <1>1, LocatedIs DEF Settled
<1>3. k \in Paths /\ Traced(k) /\ Ended(k) BY <1>1, <1>2 DEF Located, TreeInv
<1>4. Walking(k)
  <2>1. Len(PathOf(k)) \in Nat /\ Len(fis[k]) \in Nat BY <1>1, <1>3, PathIs DEF Traced
  <2> QED BY <1>1, <2>1 DEF Walking, Short, Known
<1>5. x \in Id \ Used BY <1>1, FreshIsNew
<1>6. /\ NewEntries(F) /\ F \subseteq Id \X Name /\ \A e \in F : e[1] = Here(k)
      /\ Here(k) \in Used \ files
      /\ conf.anyCase => \A e \in F : \A n \in Name : Fold[n] = Fold[e[2]] => <<e[1], n>> \in F
  BY <1>1, <1>3, <1>4, SpelledNew
<1> HIDE DEF F, x
<1>7. DOMAIN look' = DOMAIN look \cup F \cup {<<x, Dots>>} BY <1>1
<1>8. <<x, Dots>> \notin DOMAIN look /\ <<x, Dots>> \notin F
  <2>1. <<x, Dots>> \notin DOMAIN look BY <1>5 DEF Used
  <2>2. <<x, Dots>>[1] = x OBVIOUS
  <2> QED BY <1>5, <1>6, <2>1, <2>2
<1>9. /\ \A e \in F : look'[e] = x
      /\ \A e \in DOMAIN look \ F : look'[e] = look[e]
      /\ look'[<<x, Dots>>] = Here(k)
  BY <1>1, <1>8
<1>10. x \notin files' BY <1>1, <1>5 DEF Used
<1>11. Leading(F, x)
  BY <1>1, <1>5, <1>6, <1>7, <1>9, <1>10 DEF Leading
<1>12. Here(k) \in Id
  <2>1. fis[k] \in Seq(Id) /\ Len(fis[k]) \in 1 .. Len(fis[k]) BY <1>3, PathIs, <1>1 DEF Traced
  <2> QED BY <2>1 DEF Here
<1>13. look' = [e \in DOMAIN look' |-> look'[e]] BY <1>1
<1>14. TreeInv'
  <2>1. /\ look' \in [DOMAIN look' -> Id] /\ DOMAIN look' \subseteq Id \X Name
        /\ files' \subseteq Id /\ Base \notin files'
        /\ \A e \in DOMAIN look' : e[1] \notin files'
        /\ conf'.anyCase => \A e \in DOMAIN look' : \A n \in Name :
              Fold[n] = Fold[e[2]] => <<e[1], n>> \in DOMAIN look' /\ look'[<<e[1], n>>] = look'[e]
    <3>1. <<x, Dots>> \in DOMAIN look' => look'[<<x, Dots>>] \in Id /\ x \notin files'
      BY <1>9, <1>10, <1>12
    <3>2. TreeInv /\ F \subseteq Id \X Name BY <1>1, <1>6
    <3>3. conf.anyCase => \A e \in F : \A n \in Name : Fold[n] = Fold[e[2]] => <<e[1], n>> \in F BY <1>6, Zenon
    <3> QED BY <1>11, <1>13, <3>1, <3>2, <3>3, TreeStays, Zenon
  <2>2. Paths' = Paths BY <1>1, PathsStay
  <2> QED BY <1>1, <2>1, <2>2 DEF TreeInv
<1>15. PathsInv'
  <2>1. Located' /\ fis' \in [Paths' -> Seq(Id)] BY <1>1, <1>2, <1>11, LocatedStays
  <2>2. wrote' \in [Outs' -> Id] BY <1>1, PathsStay DEF PathsInv
  <2> QED BY <1>1, <2>1, <2>2, LocatedThen
<1>16. ASSUME NEW i \in Paths, i < k PROVE Known(i)' >= Short(i)'
  <2>1. Known(i) >= Short(i) BY <1>1, <1>16 DEF WritesInv
  <2>2. Short(i)' = Short(i) /\ Len(PathOf(i)) \in Nat BY <1>1, PathsStay, PathIs DEF Short
  <2>3. Len(fis'[i]) >= Len(fis[i]) /\ Len(fis[i]) \in Nat /\ Len(fis'[i]) \in Nat
    <3>1. fis'[i] = Led(i, F, x) /\ x \in Id /\ Traced(i) /\ Len(fis[i]) \in Nat
      BY <1>1, <1>2, <1>11, PathLed
    <3>2. Len(fis'[i]) = Len(fis[i]) + 1 \/ Len(fis'[i]) = Len(fis[i]) BY <1>1, <3>1, LedIs
    <3> QED BY <3>1, <3>2
  <2>4. Short(i) \in Int BY <2>2 DEF Short
  <2> QED BY <2>1, <2>2, <2>3, <2>4 DEF Known
<1>17. WritesInv'
  <2>1. Paths' = Paths BY <1>1, PathsStay
  <2> QED BY <1>1, <1>16, <2>1 DEF WritesInv
<1> QED BY <1>14, <1>15, <1>17 DEF IInv

(* What is renamed to: the target's entry and its spellings, and where it  *)
(* is there, other entries that lead to the file that was.                 *)
LEMMA TargetIs ==
  ASSUME TreeInv, NEW i \in Paths, Traced(i), Ended(i), Known(i) >= Short(i), i # 0,
         ~Walking(i) => Here(i) \in files,
         NEW S \in SUBSET {e \in DOMAIN look : ~Walking(i) /\ look[e] = Here(i)},
         \A e \in S : \A n \in Spellings(e[2]) : <<e[1], n>> \in S
  PROVE  LET at == <<fis[i][Len(PathOf(i))], Last(PathOf(i))>>
             F == {<<at[1], n>> : n \in Spellings(at[2])} \cup S
         IN /\ NewEntries(F) \/ OldEntries(F)
            /\ F \subseteq Id \X Name
            /\ \A e \in F : e[1] \in Used \ files
            /\ conf.anyCase => \A e \in F : \A n \in Name : Fold[n] = Fold[e[2]] => <<e[1], n>> \in F
            /\ Extended(i, F) \/ Moved(i, F)
<1> DEFINE P == PathOf(i)
           at == <<fis[i][Len(P)], Last(P)>>
           T == {<<at[1], n>> : n \in Spellings(at[2])}
           F == T \cup S
<1>1. P \in Seq(Name) /\ fis[i] \in Seq(Id) /\ Len(P) \in Nat /\ Len(fis[i]) \in 1 .. Len(P) + 1
  BY PathIs DEF Traced
<1>2. Len(fis[i]) >= Len(P) BY <1>1 DEF Short, Known
<1>3. \A e \in S : /\ e \in DOMAIN look /\ e \in Id \X Name /\ e[1] \in Used /\ e[1] \notin files
                   /\ look[e] = Here(i) /\ ~Walking(i)
  BY DEF TreeInv, Used
<1>4. ASSUME conf.anyCase, NEW e \in S, NEW n \in Name, Fold[n] = Fold[e[2]] PROVE <<e[1], n>> \in S
  BY <1>4 DEF Spellings
<1>5. CASE Walking(i)
  <2>1. Len(P) = Len(fis[i]) /\ Len(P) > 0 BY <1>1, <1>2, <1>5 DEF Walking, Known
  <2>2. at[1] = Here(i) /\ at[2] = NextName(i) /\ S = {}
    BY <1>1, <1>3, <1>5, <2>1 DEF Here, NextName, Last
  <2>3. F = {<<Here(i), n>> : n \in Spellings(NextName(i))} BY <2>2
  <2> HIDE DEF F
  <2>4. /\ NewEntries(F) /\ F \subseteq Id \X Name /\ Entry(i) \in F
        /\ \A e \in F : e[1] = Here(i)
        /\ Here(i) \in Used \ files
        /\ conf.anyCase => \A e \in F : \A n \in Name : Fold[n] = Fold[e[2]] => <<e[1], n>> \in F
    BY <1>5, <2>3, SpelledNew
  <2>5. Extended(i, F) BY <1>5, <2>4 DEF Extended
  <2> QED BY <2>4, <2>5, Zenon DEF F
<1>6. CASE ~Walking(i)
  <2>1. Len(fis[i]) = Len(P) + 1 /\ Here(i) \in files BY <1>1, <1>6 DEF Walking, Known
  <2>2. Len(P) > 0
    <3> SUFFICES ASSUME Len(P) = 0 PROVE FALSE BY <1>1
    <3>1. Here(i) = Base BY <2>1 DEF Here, Traced, Leads
    <3> QED BY <2>1, <3>1 DEF TreeInv
  <2>3. /\ at = LastEntry(i) /\ at[1] = fis[i][Len(P)] /\ at[2] = P[Len(P)] /\ at[2] \in Name
        /\ Known(i) \in 1 .. Known(i) /\ Known(i) = Len(P)
    BY <1>1, <2>1, <2>2 DEF LastEntry, Known, Last
  <2>4. at \in DOMAIN look /\ look[at] = Here(i)
    BY <1>1, <2>1, <2>3 DEF Traced, Leads, LastEntry, Here
  <2>5. at[1] \in Id /\ at[1] \in Used /\ at[1] \notin files BY <2>4 DEF TreeInv, Used
  <2>6. /\ Spellings(at[2]) \subseteq Name /\ at[2] \in Spellings(at[2])
        /\ \A m \in Spellings(at[2]) : Fold[m] = Fold[at[2]]
        /\ conf.anyCase => \A m \in Name : Fold[m] = Fold[at[2]] => m \in Spellings(at[2])
    BY <2>3 DEF Spellings
  <2>7. ASSUME NEW m \in Spellings(at[2]) PROVE <<at[1], m>> \in DOMAIN look /\ look[<<at[1], m>>] = Here(i)
    <3>1. at = <<at[1], at[2]>> BY Zenon
    <3>2. CASE conf.anyCase
      <4>1. m \in Name /\ Fold[m] = Fold[at[2]] BY <2>6
      <4>2. <<at[1], m>> \in DOMAIN look /\ look[<<at[1], m>>] = look[at] BY <2>4, <3>2, <4>1 DEF TreeInv
      <4> QED BY <2>4, <4>2
    <3>3. CASE ~conf.anyCase
      <4>1. m = at[2] BY <3>3 DEF Spellings
      <4> QED BY <2>4, <3>1, <4>1
    <3> QED BY <3>2, <3>3
  <2>8. \A e \in T : e[1] = at[1] /\ e[2] \in Spellings(at[2]) /\ e = <<e[1], e[2]>> OBVIOUS
  <2>9. at \in T BY <2>6
  <2> HIDE DEF at
  <2>10. ASSUME NEW e \in F
         PROVE  /\ e \in DOMAIN look /\ look[e] = Here(i) /\ e \in Id \X Name
                /\ e[1] \in Used /\ e[1] \notin files
    <3>1. CASE e \in S BY <1>3, <3>1
    <3>2. CASE e \in T
      <4>1. PICK m \in Spellings(at[2]) : e = <<at[1], m>> BY <3>2
      <4>2. m \in Name BY <2>6
      <4> QED BY <2>5, <2>7, <4>1, <4>2
    <3> QED BY <3>1, <3>2
  <2>11. OldEntries(F) BY <2>1, <2>10 DEF OldEntries
  <2>12. ASSUME conf.anyCase, NEW e \in F, NEW n \in Name, Fold[n] = Fold[e[2]] PROVE <<e[1], n>> \in F
    <3>1. CASE e \in S BY <1>4, <2>12, <3>1
    <3>2. CASE e \in T
      <4>1. n \in Spellings(at[2]) BY <2>6, <2>8, <2>12, <3>2
      <4>2. <<at[1], n>> \in T BY <4>1
      <4> QED BY <2>8, <3>2, <4>2
    <3> QED BY <3>1, <3>2
  <2>13. Moved(i, F) BY <1>6, <2>2, <2>3, <2>9 DEF Moved
  <2>14. F \subseteq Id \X Name BY <2>10
  <2> HIDE DEF F
  <2> QED BY <2>10, <2>11, <2>12, <2>13, <2>14 DEF F, T, at
<1> QED BY <1>5, <1>6

LEMMA CommitInv ==
  ASSUME IInv, Commit
  PROVE  IInv'
<1> DEFINE at == <<fis[k][Len(PathOf(k))], Last(PathOf(k))>>
           T == {<<at[1], n>> : n \in Spellings(at[2])}
           x == Fresh
<1>1. /\ TreeInv /\ PathsInv /\ WritesInv /\ UNCHANGED <<conf, phase>>
      /\ phase = "commit" /\ k <= Len(conf.outs) /\ Used # Id /\ (~Walking(k) => Here(k) \in files)
      /\ files' = files \cup {x} /\ wrote' = [wrote EXCEPT ![k] = x] /\ k' = k + 1
  BY DEF IInv, Commit
<1>2. PICK S \in SUBSET {e \in DOMAIN look : ~Walking(k) /\ look[e] = Here(k)} :
        /\ \A e \in S : \A n \in Spellings(e[2]) : <<e[1], n>> \in S
        /\ Lead(T \cup S, x)
  BY DEF Commit
<1> DEFINE F == T \cup S
<1>3. look' = [e \in DOMAIN look \cup F |-> IF e \in F THEN x ELSE look[e]] /\ fis' = [i \in Paths |-> Led(i, F, x)]
  BY <1>2 DEF Lead
<1>4. Located BY <1>1, LocatedIs DEF Settled
<1>5. Len(conf.outs) \in Nat /\ k \in Nat /\ k # 0 /\ k \in Outs /\ k \in Paths /\ Outs \subseteq Paths
  <2>1. Len(conf.outs) \in Nat /\ k \in Nat \ {0} BY <1>1 DEF TreeInv
  <2> QED BY <1>1, <2>1 DEF Outs, Paths
<1>6. Traced(k) /\ Ended(k) /\ \A i \in Paths : Known(i) >= Short(i) BY <1>1, <1>4, <1>5 DEF Located, WritesInv
<1>7. x \in Id \ Used BY <1>1, FreshIsNew
<1>8. /\ NewEntries(F) \/ OldEntries(F)
      /\ F \subseteq Id \X Name
      /\ \A e \in F : e[1] \in Used \ files
      /\ conf.anyCase => \A e \in F : \A n \in Name : Fold[n] = Fold[e[2]] => <<e[1], n>> \in F
      /\ Extended(k, F) \/ Moved(k, F)
  <2>1. Known(k) >= Short(k) BY <1>5, <1>6
  <2> QED BY <1>1, <1>2, <1>5, <1>6, <2>1, TargetIs
<1> HIDE DEF F, x
<1>9. /\ DOMAIN look' = DOMAIN look \cup F
      /\ \A e \in F : look'[e] = x
      /\ \A e \in DOMAIN look \ F : look'[e] = look[e]
      /\ look' = [e \in DOMAIN look' |-> look'[e]]
  BY <1>3
<1>10. Leading(F, x) BY <1>1, <1>3, <1>6, <1>7, <1>8, <1>9 DEF Leading
<1>11. <<x, Dots>> \notin DOMAIN look'
  <2>1. <<x, Dots>>[1] = x OBVIOUS
  <2>2. \A e \in DOMAIN look : e[1] \in Used BY DEF Used
  <2> QED BY <1>7, <1>8, <1>9, <2>1, <2>2
<1>12. TreeInv'
  <2>1. /\ look' \in [DOMAIN look' -> Id] /\ DOMAIN look' \subseteq Id \X Name
        /\ files' \subseteq Id /\ Base \notin files'
        /\ \A e \in DOMAIN look' : e[1] \notin files'
        /\ conf'.anyCase => \A e \in DOMAIN look' : \A n \in Name :
              Fold[n] = Fold[e[2]] => <<e[1], n>> \in DOMAIN look' /\ look'[<<e[1], n>>] = look'[e]
    <3>1. look' = [e \in DOMAIN look' |-> look'[e]] BY <1>9, Zenon
    <3>2. TreeInv /\ F \subseteq Id \X Name BY <1>1, <1>8
    <3>3. conf.anyCase => \A e \in F : \A n \in Name : Fold[n] = Fold[e[2]] => <<e[1], n>> \in F BY <1>8, Zenon
    <3> QED BY <1>10, <1>11, <3>1, <3>2, <3>3, TreeStays, Zenon
  <2>2. phase' = "commit" /\ k' \in Nat \ {0} BY <1>1, <1>5
  <2> QED BY <1>1, <2>1, <2>2 DEF TreeInv
<1>13. PathsInv'
  <2>1. Located' /\ fis' \in [Paths' -> Seq(Id)] BY <1>1, <1>4, <1>10, LocatedStays
  <2>2. wrote' \in [Outs' -> Id] BY <1>1, <1>5, <1>7, PathsStay DEF PathsInv
  <2> QED BY <1>1, <2>1, <2>2, LocatedThen
<1>14. ASSUME NEW i \in Paths
       PROVE  /\ fis'[i] = Led(i, F, x) /\ x \in Id /\ Traced(i) /\ Len(fis[i]) \in Nat /\ Len(fis[i]) >= 1
              /\ Len(PathOf(i)) \in Nat /\ Len(fis[i]) <= Len(PathOf(i)) + 1
              /\ PathOf(i)' = PathOf(i) /\ Known(i) = Len(fis[i]) - 1 /\ Known(i)' = Len(fis'[i]) - 1
              /\ Len(fis'[i]) >= Len(fis[i]) /\ Len(fis'[i]) \in Nat
  <2>1. /\ fis'[i] = Led(i, F, x) /\ x \in Id /\ Traced(i) /\ Len(fis[i]) \in Nat /\ Len(fis[i]) >= 1
        /\ Len(PathOf(i)) \in Nat /\ Len(fis[i]) <= Len(PathOf(i)) + 1
    BY <1>1, <1>4, <1>10, PathLed
  <2>2. Len(fis'[i]) = Len(fis[i]) + 1 \/ Len(fis'[i]) = Len(fis[i]) BY <1>1, <2>1, LedIs
  <2>3. PathOf(i)' = PathOf(i) BY <1>1, PathsStay
  <2> QED BY <2>1, <2>2, <2>3 DEF Known
<1>15. ASSUME NEW i \in Paths PROVE Known(i)' >= Short(i)'
  <2>1. Known(i) >= Short(i) BY <1>6
  <2>2. Short(i)' = Short(i) /\ Short(i) \in Int BY <1>14 DEF Short
  <2> QED BY <1>14, <2>1, <2>2
<1>16. ASSUME NEW i \in Outs, i = k PROVE ~Walking(i)' /\ Here(i)' = wrote'[i]
  <2>1. i \in Paths /\ wrote'[i] = x /\ Known(i) >= Short(i) /\ Short(i) = Len(PathOf(i)) - 1
    BY <1>1, <1>5, <1>6, <1>16 DEF PathsInv, Short
  <2>2. CASE Extended(i, F)
    <3>1. fis'[i] = Led(i, F, x) /\ x \in Id /\ Traced(i) BY <1>14, <2>1
    <3>2. Len(Led(i, F, x)) = Len(fis[i]) + 1 /\ Led(i, F, x)[Len(fis[i]) + 1] = x
      BY <1>1, <2>1, <2>2, <3>1, LedIs
    <3> QED BY <1>14, <2>1, <3>1, <3>2 DEF Walking, Here
  <2>3. CASE Moved(i, F)
    <3>1. Len(fis'[i]) = Len(fis[i]) /\ fis'[i][Len(fis'[i])] = x BY <1>1, <1>14, <2>1, <2>3, LedIs
    <3>2. ~(Known(i) < Len(PathOf(i))) BY <2>3 DEF Moved, Walking
    <3> QED BY <1>14, <2>1, <3>1, <3>2 DEF Walking, Here
  <2> QED BY <1>8, <1>16, <2>2, <2>3
<1>17. ASSUME NEW i \in Outs, i < k PROVE ~Walking(i)' /\ Here(i)' = wrote'[i]
  <2>1. ~Walking(i) /\ Here(i) = wrote[i] /\ i \in Paths /\ i # k BY <1>1, <1>5, <1>17 DEF WritesInv
  <2>2. ~Extended(i, F) BY <2>1 DEF Extended
  <2>3. ~Moved(i, F)
    <3> SUFFICES ASSUME Moved(i, F) PROVE FALSE OBVIOUS
    <3>1. Known(i) \in 1 .. Known(i) /\ LastEntry(i) \in F BY <1>14, <2>1 DEF Moved
    <3>2. OldEntries(F) BY <1>1, <1>4, <1>10, <2>1, <3>1, ThroughStays DEF LastEntry
    <3>3. ~Walking(k)
      <4> SUFFICES ASSUME Walking(k) PROVE FALSE OBVIOUS
      <4>1. Entry(k) \in F BY <1>8 DEF Extended, Moved
      <4> QED BY <1>6, <3>2, <4>1 DEF OldEntries, Ended, Found
    <3>4. ASSUME NEW q \in Outs, Moved(q, F) PROVE Names(q, Len(fis'[q])) = << >>
      <4>1. q \in Paths /\ PathOf(q) \in Seq(Name) BY <1>1, <1>5, PathIs
      <4>2. Len(fis'[q]) = Len(fis[q]) BY <1>1, <1>14, <3>4, <4>1, LedIs
      <4>3. Len(fis[q]) = Len(PathOf(q)) + 1 BY <1>14, <3>4, <4>1 DEF Moved, Walking
      <4> QED BY <1>14, <4>1, <4>2, <4>3 DEF Names
    <3>5. Moved(k, F) BY <1>8, <3>3 DEF Extended
    <3>6. Names(k, Len(fis'[k])) = << >> BY <1>5, <3>4, <3>5
    <3>7. EqualFold(Names(i, Len(fis'[i])), Names(k, Len(fis'[k]))) BY <3>4, <3>6 DEF EqualFold
    <3>8. Same(i, k) BY <1>1, <1>4, <1>5, <1>10, <3>5, <3>7, MetBefore
    <3> QED BY <1>4, <1>5, <2>1, <3>8 DEF Located
  <2>4. fis'[i] = fis[i] BY <1>1, <1>14, <2>1, <2>2, <2>3, LedIs
  <2>5. wrote'[i] = wrote[i] BY <1>1, <2>1 DEF PathsInv
  <2> QED BY <1>14, <2>1, <2>4, <2>5 DEF Walking, Here
<1>18. WritesInv'
  <2>1. Paths' = Paths /\ Outs' = Outs BY <1>1, PathsStay
  <2>2. \A i \in Outs : i < k' => i < k \/ i = k BY <1>1, <1>5 DEF Outs
  <2> QED BY <1>1, <1>15, <1>16, <1>17, <2>1, <2>2 DEF WritesInv
<1> QED BY <1>12, <1>13, <1>18 DEF IInv

LEMMA StutterInv ==
  ASSUME IInv, UNCHANGED vars
  PROVE  IInv'
<1>1. Paths' = Paths /\ Outs' = Outs BY PathsStay DEF vars
<1>2. \A i : PathOf(i)' = PathOf(i) BY PathsStay DEF vars
<1>3. TreeInv' BY <1>1 DEF IInv, TreeInv, vars
<1>4. WritesInv' BY <1>1, <1>2 DEF IInv, WritesInv, Known, Short, Walking, Here, vars
<1>5. \A i : (Traced(i)' <=> Traced(i)) /\ (Ended(i)' <=> Ended(i)) /\ (Below0(i)' <=> Below0(i))
             /\ \A j : (Same(i, j)' <=> Same(i, j))
  BY Untouched DEF vars
<1>6. \A i : (Finished(i)' <=> Finished(i)) /\ Here(i)' = Here(i) BY DEF Finished, Here, vars
<1>7. PathsInv' BY <1>1, <1>5, <1>6 DEF IInv, PathsInv, Settled, vars
<1> QED BY <1>3, <1>4, <1>7 DEF IInv

(* The tree is a tree, every path leads where it was seen to lead, and     *)
(* every accepted output keeps a target of its own.                        *)
THEOREM AlwaysLocated == Spec => []IInv
<1>1. Init => IInv BY InitInv
<1>2. IInv /\ [Next]_vars => IInv'
  BY StatInv, GivenUpInv, ClaimInv, MakeDirInv, StageInv, CommitInv, WrittenInv, StutterInv DEF Next
<1> QED BY <1>1, <1>2, PTL DEF Spec

(* A set of outputs that was accepted is accepted again in the tree its    *)
(* own directories and files have come into, at every step of the writes.  *)
THEOREM AcceptedStays == Spec => []StaysAccepted
<1>1. IInv => StaysAccepted
  <2> SUFFICES ASSUME IInv, Settled, NEW i \in Outs, NEW j \in Outs, i # j PROVE ~Same(i, j)
    BY DEF StaysAccepted, Settled
  <2>1. Located BY LocatedIs DEF IInv
  <2> QED BY <2>1 DEF Located
<1> QED BY <1>1, AlwaysLocated, PTL

(* Once all is written, each output's path leads to the file written for   *)
(* it: none has taken another's place.                                     *)
THEOREM OwnFileIsRead == Spec => []EachReadsItsOwn
<1>1. IInv => EachReadsItsOwn
  <2> SUFFICES ASSUME IInv, phase = "written", NEW i \in Outs
               PROVE  Leads(i) /\ ~Walking(i) /\ Here(i) = wrote[i]
    BY DEF EachReadsItsOwn
  <2>1. i \in Paths BY PathIs DEF IInv, Outs, Paths
  <2>2. Traced(i) BY <2>1 DEF IInv, PathsInv
  <2> QED BY <2>2 DEF IInv, WritesInv, Traced
<1> QED BY <1>1, AlwaysLocated, PTL

-----------------------------------------------------------------------------
(* Two outputs refused as one file are one: from the id they share, paths  *)
(* that name the same go through the same and end at the same.             *)

(* A set of natural numbers that holds 0 and, with each, the next, holds   *)
(* them all: were it not so, one would be the least that it lacks.         *)
LEMMA Counting ==
  ASSUME NEW S, 0 \in S, \A n \in Nat : n \in S => n + 1 \in S
  PROVE  Nat \subseteq S
<1> DEFINE T == Nat \ S
<1>1. SUFFICES ASSUME T # {} PROVE FALSE OBVIOUS
<1>2. PICK x \in T : \A y \in T : ~(<<y, x>> \in OpToRel(<, Nat))
  <2>1. T \subseteq Nat OBVIOUS
  <2> HIDE DEF T
  <2> QED BY <1>1, <2>1, NatLessThanWellFounded, WFMin, Zenon
<1>3. \A y \in T : (<<y, x>> \in OpToRel(<, Nat)) <=> y < x BY DEF OpToRel
<1>4. \A y \in T : ~(y < x) BY <1>2, <1>3, Zenon
<1>5. x \in Nat /\ x \notin S /\ x # 0 BY <1>2
<1>6. x - 1 \in Nat /\ x - 1 < x /\ (x - 1) + 1 = x BY <1>5
<1>7. x - 1 \in S
  <2>1. x - 1 \in T => ~(x - 1 < x) BY <1>4
  <2> QED BY <1>6, <2>1
<1> QED BY <1>5, <1>6, <1>7

(* From the a-th id of one path and the b-th of another, which are one,    *)
(* the two name the same.                                                  *)
Alike(i, j, a, b) ==
  /\ a \in 1 .. Len(fis[i]) /\ b \in 1 .. Len(fis[j]) /\ fis[i][a] = fis[j][b]
  /\ Len(PathOf(i)) - a = Len(PathOf(j)) - b
  /\ \A m \in 0 .. Len(PathOf(i)) - a : Fold[PathOf(i)[a + m]] = Fold[PathOf(j)[b + m]]

(* Names that differ in case at most lead to the same, where case does not *)
(* matter.                                                                 *)
LEMMA SameLead ==
  ASSUME TreeInv, ~CaseMatters, NEW i \in Paths, NEW j \in Paths,
         NEW n \in 1 .. Len(PathOf(i)), NEW m \in 1 .. Len(PathOf(j)),
         Fold[PathOf(i)[n]] = Fold[PathOf(j)[m]], NEW d, <<d, PathOf(i)[n]>> \in DOMAIN look
  PROVE  /\ <<d, PathOf(j)[m]>> \in DOMAIN look
         /\ look[<<d, PathOf(j)[m]>>] = look[<<d, PathOf(i)[n]>>]
<1>1. PathOf(i) \in Seq(Name) /\ PathOf(j) \in Seq(Name) BY PathIs
<1> DEFINE p == PathOf(i)[n]
           q == PathOf(j)[m]
<1>2. p \in Name /\ q \in Name /\ p \in Range(PathOf(i)) /\ q \in Range(PathOf(j))
  <2>1. n \in DOMAIN PathOf(i) /\ m \in DOMAIN PathOf(j) BY <1>1
  <2> QED BY <1>1, <2>1 DEF Range
<1> HIDE DEF p, q
<1>3. CASE p = q BY <1>3 DEF p, q
<1>4. CASE p # q
  <2>1. conf.anyCase
    <3>1. Fold[p] = Fold[q] BY DEF p, q
    <3> QED BY <1>2, <1>4, <3>1 DEF CaseMatters
  <2> DEFINE e == <<d, p>>
  <2>2. e \in DOMAIN look /\ e[1] = d /\ e[2] = p BY DEF p
  <2>3. Fold[q] = Fold[e[2]] BY <2>2 DEF p, q
  <2>4. <<e[1], q>> \in DOMAIN look /\ look[<<e[1], q>>] = look[e] BY <1>2, <2>1, <2>2, <2>3 DEF TreeInv
  <2> QED BY <2>2, <2>4 DEF p, q
<1> QED BY <1>3, <1>4

(* A range from one says where it ends. *)
LEMMA OneRange ==
  ASSUME NEW m \in Nat, NEW n \in Nat, 1 .. m = 1 .. n
  PROVE  m = n
<1>1. m > 0 => m \in 1 .. n OBVIOUS
<1>2. n > 0 => n \in 1 .. m OBVIOUS
<1> QED BY <1>1, <1>2

(* The lengths of what is alike. *)
LEMMA AlikeLengths ==
  ASSUME TreeInv, NEW i \in Paths, NEW j \in Paths, Traced(i), Traced(j),
         NEW a \in Nat, NEW b \in Nat, Alike(i, j, a, b)
  PROVE  \E p, q, I, J \in Nat :
           /\ p = Len(PathOf(i)) /\ q = Len(PathOf(j)) /\ I = Len(fis[i]) /\ J = Len(fis[j])
           /\ a >= 1 /\ a <= I /\ b >= 1 /\ b <= J /\ I <= p + 1 /\ J <= q + 1
           /\ p - a = q - b
<1>1. /\ Len(PathOf(i)) \in Nat /\ Len(PathOf(j)) \in Nat
      /\ Len(fis[i]) \in 1 .. Len(PathOf(i)) + 1 /\ Len(fis[j]) \in 1 .. Len(PathOf(j)) + 1
  BY PathIs DEF Traced
<1>2. PICK p \in Nat, q \in Nat, I \in Nat, J \in Nat :
        p = Len(PathOf(i)) /\ q = Len(PathOf(j)) /\ I = Len(fis[i]) /\ J = Len(fis[j])
  BY <1>1
<1>3. I \in 1 .. p + 1 /\ J \in 1 .. q + 1 BY <1>1, <1>2
<1>4. a \in 1 .. I /\ b \in 1 .. J /\ p - a = q - b BY <1>2 DEF Alike
<1>5. a >= 1 /\ a <= I /\ b >= 1 /\ b <= J /\ I <= p + 1 /\ J <= q + 1 /\ p - a = q - b BY <1>3, <1>4
<1> QED BY <1>2, <1>5

LEMMA AlikeOn ==
  ASSUME TreeInv, ~CaseMatters, NEW i \in Paths, NEW j \in Paths, Traced(i), Traced(j),
         NEW a \in Nat, NEW b \in Nat, Alike(i, j, a, b)
  PROVE  \A m \in Nat : a + m <= Len(fis[i]) /\ b + m <= Len(fis[j]) => fis[i][a + m] = fis[j][b + m]
<1>1. PICK p \in Nat, q \in Nat, I \in Nat, J \in Nat :
        /\ p = Len(PathOf(i)) /\ q = Len(PathOf(j)) /\ I = Len(fis[i]) /\ J = Len(fis[j])
        /\ a >= 1 /\ a <= I /\ b >= 1 /\ b <= J /\ I <= p + 1 /\ J <= q + 1
        /\ p - a = q - b
  BY AlikeLengths
<1> DEFINE Sized == /\ a >= 1 /\ a <= I /\ b >= 1 /\ b <= J /\ I <= p + 1 /\ J <= q + 1
                    /\ p - a = q - b
<1>0. Sized BY <1>1
<1>2. fis[i][a] = fis[j][b] BY DEF Alike
<1>3. \A m \in 0 .. p - a : Fold[PathOf(i)[a + m]] = Fold[PathOf(j)[b + m]] BY <1>1 DEF Alike
<1> DEFINE S == {m \in Nat : a + m <= I /\ b + m <= J => fis[i][a + m] = fis[j][b + m]}
<1>4. 0 \in S BY <1>2
<1>5. ASSUME NEW m \in Nat, m \in S PROVE m + 1 \in S
  <2> SUFFICES ASSUME a + (m + 1) <= I, b + (m + 1) <= J PROVE fis[i][a + (m + 1)] = fis[j][b + (m + 1)]
    OBVIOUS
  <2>1. PICK n \in Nat, o \in Nat : n = a + m /\ o = b + m OBVIOUS
  <2>2. /\ n \in 1 .. I - 1 /\ o \in 1 .. J - 1 /\ a + (m + 1) = n + 1 /\ b + (m + 1) = o + 1
        /\ n \in 1 .. p /\ o \in 1 .. q /\ m \in 0 .. p - a
    BY <1>0, <2>1
  <2>3. fis[i][n] = fis[j][o] BY <1>5, <2>1, <2>2
  <2>4. Fold[PathOf(i)[n]] = Fold[PathOf(j)[o]] BY <1>3, <2>1, <2>2
  <2>5. /\ <<fis[i][n], PathOf(i)[n]>> \in DOMAIN look /\ look[<<fis[i][n], PathOf(i)[n]>>] = fis[i][n + 1]
        /\ look[<<fis[j][o], PathOf(j)[o]>>] = fis[j][o + 1]
    <3>1. n \in 1 .. Known(i) /\ o \in 1 .. Known(j) BY <1>1, <2>2 DEF Known
    <3> QED BY <3>1 DEF Traced, Leads
  <2>6. look[<<fis[i][n], PathOf(j)[o]>>] = look[<<fis[i][n], PathOf(i)[n]>>]
    <3>1. n \in 1 .. Len(PathOf(i)) /\ o \in 1 .. Len(PathOf(j)) BY <1>1, <2>2
    <3>2. <<fis[i][n], PathOf(i)[n]>> \in DOMAIN look BY <2>5
    <3> QED BY <2>4, <3>1, <3>2, SameLead
  <2> QED BY <2>2, <2>3, <2>5, <2>6
<1>6. Nat \subseteq S
  <2> HIDE DEF S
  <2> QED BY <1>4, <1>5, Counting
<1> QED BY <1>1, <1>6

(* A path does not lead further than one that names the same from there.   *)
LEMMA NotFurther ==
  ASSUME TreeInv, ~CaseMatters, NEW i \in Paths, NEW j \in Paths, Traced(i), Traced(j), ~Found(i),
         NEW a \in Nat, NEW b \in Nat, Alike(i, j, a, b)
  PROVE  Len(fis[j]) - b <= Len(fis[i]) - a
<1>1. PICK p \in Nat, q \in Nat, I \in Nat, J \in Nat :
        /\ p = Len(PathOf(i)) /\ q = Len(PathOf(j)) /\ I = Len(fis[i]) /\ J = Len(fis[j])
        /\ a >= 1 /\ a <= I /\ b >= 1 /\ b <= J /\ I <= p + 1 /\ J <= q + 1
        /\ p - a = q - b
  BY AlikeLengths
<1> DEFINE Sized == /\ a >= 1 /\ a <= I /\ b >= 1 /\ b <= J /\ I <= p + 1 /\ J <= q + 1
                    /\ p - a = q - b
<1>0. Sized BY <1>1
<1>2. \A m \in 0 .. p - a : Fold[PathOf(i)[a + m]] = Fold[PathOf(j)[b + m]] BY <1>1 DEF Alike
<1>3. SUFFICES ASSUME J - b > I - a PROVE FALSE BY <1>1
<1>4. PICK m \in Nat, o \in Nat : m = I - a /\ o = b + m BY <1>0
<1>5. /\ a + m = I /\ o \in 1 .. J - 1 /\ o <= J
      /\ o \in 1 .. q /\ I \in 1 .. p /\ m \in 0 .. p - a
  BY <1>0, <1>3, <1>4
<1>6. fis[i][I] = fis[j][o]
  <2>1. a + m <= Len(fis[i]) /\ b + m <= Len(fis[j]) BY <1>1, <1>4, <1>5
  <2>2. fis[i][a + m] = fis[j][b + m] BY <2>1, AlikeOn
  <2> QED BY <1>4, <1>5, <2>2
<1>7. Fold[PathOf(j)[o]] = Fold[PathOf(i)[I]] BY <1>2, <1>4, <1>5
<1>8. <<fis[j][o], PathOf(j)[o]>> \in DOMAIN look
  <2>1. o \in 1 .. Known(j) BY <1>1, <1>5 DEF Known
  <2> QED BY <2>1 DEF Traced, Leads
<1>9. <<fis[j][o], PathOf(i)[I]>> \in DOMAIN look BY <1>1, <1>5, <1>7, <1>8, SameLead
<1>10. Entry(i) \in DOMAIN look BY <1>1, <1>6, <1>9 DEF Entry, Here, NextName
<1>11. Walking(i) BY <1>1, <1>5 DEF Walking, Known
<1> QED BY <1>10, <1>11 DEF Found

(* So they end at one id, with the same missing.                           *)
LEMMA AlikeToTheEnd ==
  ASSUME TreeInv, ~CaseMatters, NEW i \in Paths, NEW j \in Paths, Traced(i), Traced(j), ~Found(i), ~Found(j),
         NEW a \in Nat, NEW b \in Nat, Alike(i, j, a, b)
  PROVE  Here(i) = Here(j) /\ EqualFold(Missing(i), Missing(j))
<1>1. PICK p \in Nat, q \in Nat, I \in Nat, J \in Nat :
        /\ p = Len(PathOf(i)) /\ q = Len(PathOf(j)) /\ I = Len(fis[i]) /\ J = Len(fis[j])
        /\ a >= 1 /\ a <= I /\ b >= 1 /\ b <= J /\ I <= p + 1 /\ J <= q + 1
        /\ p - a = q - b
  BY AlikeLengths
<1> DEFINE Sized == /\ a >= 1 /\ a <= I /\ b >= 1 /\ b <= J /\ I <= p + 1 /\ J <= q + 1
                    /\ p - a = q - b
<1>0. Sized BY <1>1
<1>2. \A m \in 0 .. p - a : Fold[PathOf(i)[a + m]] = Fold[PathOf(j)[b + m]] BY <1>1 DEF Alike
<1>3. Alike(j, i, b, a)
  <2>1. \A m \in 0 .. q - b : Fold[PathOf(j)[b + m]] = Fold[PathOf(i)[a + m]] BY <1>1, <1>2
  <2>2. fis[j][b] = fis[i][a] BY DEF Alike
  <2>3. a \in 1 .. I /\ b \in 1 .. J BY <1>0
  <2> QED BY <1>1, <2>1, <2>2, <2>3 DEF Alike
<1>4. J - b = I - a
  <2>1. J - b <= I - a BY <1>1, NotFurther
  <2>2. I - a <= J - b BY <1>1, <1>3, NotFurther
  <2> QED BY <1>0, <2>1, <2>2
<1>5. PICK m \in Nat : a + m = I /\ b + m = J
  <2>1. I - a \in Nat /\ a + (I - a) = I /\ b + (I - a) = J BY <1>0, <1>4
  <2> QED BY <2>1
<1>6. Here(i) = Here(j)
  <2>1. a + m <= Len(fis[i]) /\ b + m <= Len(fis[j]) BY <1>1, <1>5
  <2>2. fis[i][a + m] = fis[j][b + m] BY <2>1, AlikeOn
  <2> QED BY <1>1, <1>5, <2>2 DEF Here
<1>7. EqualFold(Missing(i), Missing(j))
  <2>1. Missing(i) = Names(i, I) /\ Missing(j) = Names(j, J) BY <1>1 DEF Missing, Names
  <2>2. PICK z \in Nat : z = p - I + 1 /\ z = q - J + 1
    <3>1. p - I + 1 \in Nat /\ p - I + 1 = q - J + 1 BY <1>0, <1>4
    <3> QED BY <3>1
  <2>3. /\ Names(i, I) \in Seq(Name) /\ Len(Names(i, I)) = z
        /\ \A o \in 1 .. z : Names(i, I)[o] = PathOf(i)[I + o - 1]
    <3>1. I \in 1 .. Len(PathOf(i)) + 1 BY <1>1
    <3> QED BY <1>1, <2>2, <3>1, NamesAre
  <2>4. /\ Names(j, J) \in Seq(Name) /\ Len(Names(j, J)) = z
        /\ \A o \in 1 .. z : Names(j, J)[o] = PathOf(j)[J + o - 1]
    <3>1. J \in 1 .. Len(PathOf(j)) + 1 BY <1>1
    <3> QED BY <1>1, <2>2, <3>1, NamesAre
  <2>5. ASSUME NEW o \in 1 .. z PROVE Fold[PathOf(i)[I + o - 1]] = Fold[PathOf(j)[J + o - 1]]
    <3>1. PICK r \in Nat : r = m + (o - 1) BY <2>2
    <3>2. r \in 0 .. p - a /\ a + r = I + o - 1 /\ b + r = J + o - 1 BY <1>0, <1>5, <2>2, <3>1
    <3>3. Fold[PathOf(i)[a + r]] = Fold[PathOf(j)[b + r]] BY <1>2, <3>2
    <3> QED BY <3>2, <3>3
  <2>6. DOMAIN Names(i, I) = 1 .. z /\ DOMAIN Names(j, J) = 1 .. z BY <2>3, <2>4
  <2>7. \A o \in 1 .. z : Fold[Names(i, I)[o]] = Fold[Names(j, J)[o]] BY <2>3, <2>4, <2>5
  <2> QED BY <2>1, <2>6, <2>7 DEF EqualFold
<1> QED BY <1>6, <1>7

(* Where the TS directory does not climb, no output is compared by cleaned *)
(* names.                                                                  *)
LEMMA RestIsRaw ==
  ASSUME TreeInv, NEW i \in Outs, Dots \notin Range(conf.tsDir), NEW a \in 1 .. Len(PathOf(i)) + 1
  PROVE  Rest(i, a) = Names(i, a)
<1>1. i \in Paths BY PathIs DEF Outs, Paths
<1>2. CASE ~IsTS(i) BY <1>2 DEF Rest, Names
<1>3. CASE IsTS(i)
  <2>1. PathOf(i) = conf.tsDir \o conf.outs[i].path
    <3>1. i # 0
      <4>1. Len(conf.outs) \in Nat BY DEF TreeInv
      <4> QED BY <4>1 DEF Outs
    <3> QED BY <1>3, <3>1 DEF PathOf
  <2> DEFINE t == conf.outs[i].path
  <2>2. t \in Seq(Name) /\ conf.tsDir \in Seq(Name) /\ Dots \notin Range(t)
    <3> DEFINE Out == [role : {"ts", "openapi"}, path : Seq(Name)]
    <3>1. conf.outs \in Seq(Out) BY DEF TreeInv
    <3> HIDE DEF Out
    <3>2. i \in DOMAIN conf.outs /\ conf.outs[i] \in Out BY <3>1 DEF Outs
    <3>3. conf.outs[i].role = "ts" BY <1>3 DEF IsTS
    <3> QED BY <3>2, <3>3 DEF TreeInv, Out
  <2> HIDE DEF t
  <2>3. ASSUME NEW n \in 1 .. Len(PathOf(i)) PROVE PathOf(i)[n] # Dots
    <3>1. PathOf(i) = conf.tsDir \o t BY <2>1 DEF t
    <3>2. CASE n <= Len(conf.tsDir)
      <4>1. n \in DOMAIN conf.tsDir /\ PathOf(i)[n] = conf.tsDir[n] BY <2>2, <3>1, <3>2
      <4> QED BY <4>1 DEF Range
    <3>3. CASE n > Len(conf.tsDir)
      <4>1. n - Len(conf.tsDir) \in DOMAIN t /\ PathOf(i)[n] = t[n - Len(conf.tsDir)] BY <2>2, <3>1, <3>3
      <4> QED BY <2>2, <4>1 DEF Range
    <3> QED BY <2>2, <3>2, <3>3
  <2>4. Dots \notin Range(Names(i, a))
    <3>1. Len(PathOf(i)) \in Nat BY <1>1, PathIs
    <3>2. \A m \in a .. Len(PathOf(i)) : PathOf(i)[m] # Dots BY <2>3, <3>1
    <3>3. Dots \in Range(Names(i, a)) <=> \E m \in a .. Len(PathOf(i)) : PathOf(i)[m] = Dots
      BY <1>1, NamesAre
    <3> QED BY <3>2, <3>3
  <2> QED BY <2>4 DEF Rest, Names, Clean
<1> QED BY <1>2, <1>3

(* Outputs refused as one file are one name in one directory, or one file, *)
(* where case is nothing the tree and the paths disagree on.               *)
THEOREM RefusedAreOne == Spec => []RefusedIsOneFile
<1>1. IInv => RefusedIsOneFile
  <2> SUFFICES ASSUME IInv, Walked, ~CaseMatters, Dots \notin Range(conf.tsDir), NEW j \in 1 .. k - 1, Same(j, k)
               PROVE  Here(j) = Here(k) /\ EqualFold(Missing(j), Missing(k))
    BY DEF RefusedIsOneFile
  <2>1. TreeInv /\ PathsInv /\ phase = "check" /\ ~Found(k) BY DEF IInv, Walked
  <2>2. k \in Outs /\ j \in Outs /\ j < k /\ Outs \subseteq Paths /\ 0 \in Paths
    <3>1. Len(conf.outs) \in Nat /\ k \in Paths BY <2>1 DEF TreeInv
    <3> QED BY <3>1 DEF Outs, Paths
  <2>3. Traced(j) /\ Traced(k) /\ Traced(0) /\ Finished(j) /\ Below0(j) /\ Below0(k) /\ ~Found(j)
    <3>1. Finished(j) BY <2>2 DEF Finished
    <3> QED BY <2>1, <2>2, <3>1 DEF PathsInv, Ended
  <2>4. PICK a \in Anchored(j) .. Len(fis[j]), b \in Anchored(k) .. Len(fis[k]) :
          fis[j][a] = fis[k][b] /\ EqualFold(Rest(j, a), Rest(k, b))
    BY DEF Same
  <2>5. /\ Len(PathOf(j)) \in Nat /\ Len(PathOf(k)) \in Nat
        /\ Len(fis[j]) \in 1 .. Len(PathOf(j)) + 1 /\ Len(fis[k]) \in 1 .. Len(PathOf(k)) + 1
    BY <2>1, <2>2, <2>3, PathIs DEF Traced
  <2>6. a \in 1 .. Len(fis[j]) /\ b \in 1 .. Len(fis[k])
    <3>1. Anchored(j) \in 1 .. Len(fis[j]) /\ Anchored(k) \in 1 .. Len(fis[k])
      BY <2>1, <2>2, <2>3, AnchorExists
    <3> QED BY <2>5, <3>1
  <2>7. a \in 1 .. Len(PathOf(j)) + 1 /\ b \in 1 .. Len(PathOf(k)) + 1 BY <2>5, <2>6
  <2>8. EqualFold(Names(j, a), Names(k, b)) BY <2>1, <2>2, <2>4, <2>7, RestIsRaw
  <2>9. PICK p \in Nat, q \in Nat : p = Len(PathOf(j)) /\ q = Len(PathOf(k)) /\ a \in 1 .. p + 1 /\ b \in 1 .. q + 1
    BY <2>5, <2>7
  <2>10. /\ DOMAIN Names(j, a) = 1 .. p - a + 1
         /\ \A m \in 1 .. p - a + 1 : Names(j, a)[m] = PathOf(j)[a + m - 1]
    <3>1. Names(j, a) \in Seq(Name) /\ Len(Names(j, a)) = p - a + 1 BY <2>1, <2>2, <2>7, <2>9, NamesAre
    <3>2. DOMAIN Names(j, a) = 1 .. p - a + 1 BY <3>1
    <3> QED BY <2>1, <2>2, <2>7, <2>9, <3>2, NamesAre
  <2>11. /\ DOMAIN Names(k, b) = 1 .. q - b + 1
         /\ \A m \in 1 .. q - b + 1 : Names(k, b)[m] = PathOf(k)[b + m - 1]
    <3>1. Names(k, b) \in Seq(Name) /\ Len(Names(k, b)) = q - b + 1 BY <2>1, <2>2, <2>7, <2>9, NamesAre
    <3>2. DOMAIN Names(k, b) = 1 .. q - b + 1 BY <3>1
    <3> QED BY <2>1, <2>2, <2>7, <2>9, <3>2, NamesAre
  <2>12. p - a = q - b
    <3>1. 1 .. p - a + 1 = 1 .. q - b + 1 BY <2>8, <2>10, <2>11 DEF EqualFold
    <3>2. p - a + 1 \in Nat /\ q - b + 1 \in Nat BY <2>9
    <3> QED BY <3>1, <3>2, OneRange
  <2>13. ASSUME NEW m \in 0 .. p - a PROVE Fold[PathOf(j)[a + m]] = Fold[PathOf(k)[b + m]]
    <3>1. /\ m + 1 \in 1 .. p - a + 1 /\ m + 1 \in 1 .. q - b + 1
          /\ a + (m + 1) - 1 = a + m /\ b + (m + 1) - 1 = b + m
      BY <2>9, <2>12
    <3>2. Names(j, a)[m + 1] = PathOf(j)[a + m] /\ Names(k, b)[m + 1] = PathOf(k)[b + m] BY <2>10, <2>11, <3>1
    <3> QED BY <2>8, <2>10, <3>1, <3>2 DEF EqualFold
  <2>14. Alike(j, k, a, b) BY <2>4, <2>6, <2>9, <2>12, <2>13 DEF Alike
  <2>15. a \in Nat /\ b \in Nat /\ j \in Paths /\ k \in Paths BY <2>2, <2>9
  <2> QED BY <2>1, <2>3, <2>14, <2>15, AlikeToTheEnd
<1> QED BY <1>1, AlwaysLocated, PTL
=============================================================================
