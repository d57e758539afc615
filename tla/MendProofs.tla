----------------------------- MODULE MendProofs -----------------------------
(***************************************************************************)
(* Proofs about Mend, for any files, lists of files, settings and answers. *)
(***************************************************************************)
EXTENDS MendInv, WellFoundedInduction, SequenceTheorems, TLAPS

(***************************************************************************)
(* The records before the first damage.                                    *)
(***************************************************************************)

\* A non-empty set of numbers has a least one.
LEMMA LeastNumber ==
  ASSUME NEW T, T \subseteq Nat, T # {}
  PROVE  \E x \in T : \A y \in T : x <= y
<1> DEFINE R == OpToRel(<, Nat)
<1>1. IsWellFoundedOn(R, Nat)
  BY NatLessThanWellFounded
<1>2. \A x, y \in Nat : <<x, y>> \in R <=> x < y
  BY DEF OpToRel
<1> HIDE DEF R
<1>3. PICK x \in T : \A y \in T : ~(<<y, x>> \in R)
  BY <1>1, WFMin
<1>4. ASSUME NEW y \in T PROVE x <= y
  <2>1. x \in Nat /\ y \in Nat /\ ~(y < x)
    BY <1>2, <1>3
  <2> QED
    BY <2>1
<1> QED
  BY <1>4

IsPrefix(f, n) == /\ \A i \in 1..n : f[i] \in Valid
                  /\ n = Len(f) \/ f[n + 1] \notin Valid

LEMMA PrefixExists ==
  ASSUME NEW f, Len(f) \in Nat
  PROVE  \E n \in 0..Len(f) : IsPrefix(f, n)
<1> DEFINE T == {i \in 1..Len(f) : f[i] \notin Valid}
<1>1. CASE T = {}
  <2>1. \A i \in 1..Len(f) : f[i] \in Valid
    BY <1>1
  <2>2. Len(f) \in 0..Len(f)
    OBVIOUS
  <2> QED
    BY <2>1, <2>2 DEF IsPrefix
<1>2. CASE T # {}
  <2>0. T \subseteq Nat
    OBVIOUS
  <2>1. PICK x \in T : \A y \in T : x <= y
    <3> HIDE DEF T
    <3> QED
      BY <1>2, <2>0, LeastNumber
  <2>2. x \in 1..Len(f) /\ f[x] \notin Valid
    OBVIOUS
  <2>3. \A i \in 1..(x - 1) : i \in 1..Len(f) /\ ~(x <= i)
    BY <2>2
  <2>4. \A i \in 1..(x - 1) : f[i] \in Valid
    BY <2>1, <2>3
  <2>5. x - 1 \in 0..Len(f) /\ (x - 1) + 1 = x
    BY <2>2
  <2> QED
    BY <2>2, <2>4, <2>5 DEF IsPrefix
<1> QED
  BY <1>1, <1>2

\* ValidPrefix(f) is the one number of valid segments that cannot be extended.
LEMMA ValidPrefixFacts ==
  ASSUME NEW f, Len(f) \in Nat
  PROVE  /\ ValidPrefix(f) \in 0..Len(f)
         /\ \A i \in 1..ValidPrefix(f) : f[i] \in Valid
         /\ \A n \in 0..Len(f) : (\A i \in 1..n : f[i] \in Valid) => n <= ValidPrefix(f)
<1>1. \E n \in 0..Len(f) : IsPrefix(f, n)
  BY PrefixExists
<1>2. ValidPrefix(f) \in 0..Len(f) /\ IsPrefix(f, ValidPrefix(f))
  BY <1>1 DEF ValidPrefix, IsPrefix
<1>3. ASSUME NEW n \in 0..Len(f), \A i \in 1..n : f[i] \in Valid
      PROVE  n <= ValidPrefix(f)
  <2> DEFINE v == ValidPrefix(f)
  <2>1. v \in 0..Len(f) /\ (v = Len(f) \/ f[v + 1] \notin Valid)
    BY <1>2 DEF IsPrefix
  <2> HIDE DEF v
  <2>2. n > v => v + 1 \in 1..n
    BY <2>1
  <2>3. n <= v
    BY <1>3, <2>1, <2>2
  <2> QED
    BY <2>3 DEF v
<1> QED
  BY <1>2, <1>3 DEF IsPrefix

\* What is left by a cut inside the valid prefix.
LEMMA CutFacts ==
  ASSUME NEW f \in Seq(Segments), NEW n \in 0..Len(f), \A i \in 1..n : f[i] \in Valid
  PROVE  /\ SubSeq(f, 1, n) \in Seq(Segments)
         /\ Len(SubSeq(f, 1, n)) = n
         /\ ValidPrefix(SubSeq(f, 1, n)) = n
<1> DEFINE g == SubSeq(f, 1, n)
<1>1. g \in Seq(Segments) /\ Len(g) = n /\ \A i \in 1..n : g[i] = f[i]
  OBVIOUS
<1> HIDE DEF g
<1>2. \A i \in 1..n : g[i] \in Valid
  BY <1>1
<1>3. n \in 0..Len(g) /\ Len(g) \in Nat
  BY <1>1
<1>4. n <= ValidPrefix(g) /\ ValidPrefix(g) \in 0..Len(g)
  BY <1>2, <1>3, ValidPrefixFacts
<1>5. ValidPrefix(g) = n
  BY <1>1, <1>4
<1> QED
  BY <1>1, <1>5 DEF g

-----------------------------------------------------------------------------
(***************************************************************************)
(* The invariant.                                                          *)
(***************************************************************************)

LEMMA DiskFacts ==
  ASSUME TypeOK, NEW p \in Paths
  PROVE  disk[p] # Absent => disk[p] \in Seq(Segments) /\ Len(disk[p]) \in Nat
  BY DEF TypeOK

LEMMA InitInv == Init => IInv
<1> SUFFICES ASSUME Init PROVE IInv
  OBVIOUS
<1>1. todo \in Seq(Paths) /\ todo # <<>>
  BY MendAssumption DEF Init
<1>2. file \in Paths
  BY <1>1 DEF Init
<1>3. NoResult \in [count : Nat, firstInfo : BOOLEAN, at : Nat, truncate : BOOLEAN, rename : BOOLEAN]
  BY DEF NoResult
<1>4. TypeOK
  BY <1>1, <1>2, <1>3, MendAssumption DEF Init, TypeOK
<1>5. Asked /\ InHand /\ CutIsValid /\ ResultIsTrue
  BY DEF Init, Asked, InHand, CutIsValid, ResultIsTrue
<1> QED
  BY <1>4, <1>5 DEF IInv

\* What analyzeWARCFile says of a file.
LEMMA ResultFacts ==
  ASSUME TypeOK, NEW p \in Paths, NEW r \in Results(p)
  PROVE  /\ r \in [count : Nat, firstInfo : BOOLEAN, at : Nat, truncate : BOOLEAN, rename : BOOLEAN]
         /\ r.truncate \/ r.rename => InScope(p)
         /\ r.rename => p.open
         /\ r.truncate => /\ r.at <= Len(disk[p])
                          /\ \A i \in 1..r.at : disk[p][i] \in Valid
         /\ Undisturbed /\ InScope(p) => /\ r.at = ValidPrefix(disk[p])
                                         /\ r.count = ValidPrefix(disk[p])
<1> DEFINE f == disk[p]
           v == ValidPrefix(f)
<1>1. CASE ~InScope(p)
  <2>1. r = NoResult
    BY <1>1 DEF Results
  <2> QED
    BY <1>1, <2>1 DEF NoResult
<1>2. CASE InScope(p)
  <2>1. f # Absent
    BY <1>2 DEF InScope, isGzipFile
  <2>2. Len(f) \in Nat
    BY <2>1, DiskFacts
  <2>3. v \in 0..Len(f) /\ \A i \in 1..v : f[i] \in Valid
    BY <2>2, ValidPrefixFacts
  <2>4. p.open \in BOOLEAN
    BY MendAssumption
  <2>5. ASSUME NEW n \in 0..v, r = ResultAt(p, n)
        PROVE  /\ r \in [count : Nat, firstInfo : BOOLEAN, at : Nat, truncate : BOOLEAN, rename : BOOLEAN]
               /\ r.rename => p.open
               /\ r.at <= Len(f) /\ \A i \in 1..r.at : f[i] \in Valid
               /\ r.at = n /\ r.count = n
    BY <2>2, <2>3, <2>4, <2>5 DEF ResultAt
  <2>6. ASSUME NEW n \in 1..v, r = ResultUnread(p, n)
        PROVE  /\ r \in [count : Nat, firstInfo : BOOLEAN, at : Nat, truncate : BOOLEAN, rename : BOOLEAN]
               /\ r.rename => p.open
               /\ r.at <= Len(f) /\ \A i \in 1..r.at : f[i] \in Valid
    <3>1. r = [count     |-> n,
               firstInfo |-> n > 0 /\ disk[p][1] = "warcinfo",
               at        |-> n - 1,
               truncate  |-> TRUE,
               rename    |-> p.open]
      BY <2>6 DEF ResultUnread, ResultAt
    <3>2. n \in Nat /\ n - 1 \in Nat /\ n - 1 <= Len(f)
      BY <2>2, <2>3
    <3>3. \A i \in 1..(n - 1) : f[i] \in Valid
      BY <2>2, <2>3
    <3> QED
      BY <2>4, <3>1, <3>2, <3>3
  <2>7. ASSUME NEW n \in 0..v, r = ResultFailed(p, n)
        PROVE  /\ r \in [count : Nat, firstInfo : BOOLEAN, at : Nat, truncate : BOOLEAN, rename : BOOLEAN]
               /\ r.rename => p.open
               /\ r.at <= Len(f) /\ \A i \in 1..r.at : f[i] \in Valid
    <3>1. r = [count     |-> n,
               firstInfo |-> n > 0 /\ disk[p][1] = "warcinfo",
               at        |-> n,
               truncate  |-> n > 0,
               rename    |-> p.open]
      BY <2>7 DEF ResultFailed, ResultAt
    <3>2. n \in Nat /\ n <= Len(f) /\ \A i \in 1..n : f[i] \in Valid
      BY <2>2, <2>3
    <3> QED
      BY <2>4, <3>1, <3>2
  <2>8. ASSUME r \in {NoResult, ResultUnopened(p)}
        PROVE  /\ r \in [count : Nat, firstInfo : BOOLEAN, at : Nat, truncate : BOOLEAN, rename : BOOLEAN]
               /\ r.rename => p.open
               /\ ~r.truncate
    <3>1. \/ r = NoResult
          \/ r = [count |-> 0, firstInfo |-> FALSE, at |-> 0, truncate |-> FALSE, rename |-> p.open]
      BY <2>8 DEF NoResult, ResultUnopened
    <3>2. CASE r = NoResult
      BY <3>2 DEF NoResult
    <3>3. CASE r = [count |-> 0, firstInfo |-> FALSE, at |-> 0, truncate |-> FALSE, rename |-> p.open]
      <4>1. /\ r \in [count : Nat, firstInfo : BOOLEAN, at : Nat, truncate : BOOLEAN, rename : BOOLEAN]
            /\ r.truncate = FALSE /\ r.rename = p.open
        BY <2>4, <3>3, Zenon
      <4> QED
        BY <4>1
    <3> QED
      BY <3>1, <3>2, <3>3
  <2>9. CASE ~setting.readFails
    <3>1. r = ResultAt(p, v) /\ v \in 0..v
      BY <1>2, <2>3, <2>9 DEF Results
    <3> QED
      BY <1>2, <2>5, <3>1
  <2>10. CASE setting.readFails
    <3>1. \/ r \in {NoResult, ResultUnopened(p)}
          \/ r = ResultAt(p, v)
          \/ \E n \in 0..v : r = ResultFailed(p, n)
          \/ \E n \in 1..v : r = ResultUnread(p, n)
      BY <1>2, <2>10 DEF Results
    <3>2. ~Undisturbed
      BY <2>10 DEF Undisturbed
    <3>3. v \in 0..v
      BY <2>3
    <3> QED
      BY <1>2, <2>5, <2>6, <2>7, <2>8, <3>1, <3>2, <3>3
  <2> QED
    BY <2>9, <2>10
<1> QED
  BY <1>1, <1>2

LEMMA AnalyzeInv ==
  ASSUME IInv, Analyze
  PROVE  IInv'
<1> DEFINE p == Head(todo)
<1>1. todo \in Seq(Paths) /\ todo # <<>> /\ UNCHANGED <<setting, disk>>
  BY DEF Analyze, IInv, TypeOK
<1>2. p \in Paths /\ Tail(todo) \in Seq(Paths)
  BY <1>1
<1>3. /\ file' = p /\ todo' = Tail(todo) /\ res' \in Results(p) /\ agreed' = FALSE
      /\ pc' = AfterAnalysis(res')
  BY DEF Analyze
<1> HIDE DEF p
<1>4. PICK r \in Results(p) : r = res'
  BY <1>3
<1>5. /\ r \in [count : Nat, firstInfo : BOOLEAN, at : Nat, truncate : BOOLEAN, rename : BOOLEAN]
      /\ r.truncate \/ r.rename => InScope(p)
      /\ r.rename => p.open
      /\ r.truncate => /\ r.at <= Len(disk[p])
                       /\ \A i \in 1..r.at : disk[p][i] \in Valid
      /\ Undisturbed /\ InScope(p) => /\ r.at = ValidPrefix(disk[p])
                                      /\ r.count = ValidPrefix(disk[p])
  BY <1>2, ResultFacts DEF IInv
<1>6. \/ pc' = "next"
      \/ ~setting.dryRun /\ pc' = "asktruncate" /\ r.truncate
      \/ ~setting.dryRun /\ pc' = "rename" /\ ~r.truncate /\ r.rename
      \/ ~setting.dryRun /\ pc' = "askdelete" /\ r.count <= 1
  BY <1>3, <1>4, <1>5 DEF AfterAnalysis, Unused
<1>7. InScope(p) => disk[p] # Absent /\ p.ext = "gz"
  BY DEF InScope, isGzipFile
<1>8. TypeOK'
  BY <1>1, <1>2, <1>3, <1>4, <1>5, <1>6 DEF IInv, TypeOK
<1>9. Asked'
  BY <1>1, <1>3, <1>4, <1>6 DEF Asked
<1>10. InHand'
  BY <1>1, <1>3, <1>4, <1>5, <1>6, <1>7 DEF InHand
<1>11. CutIsValid'
  BY <1>1, <1>3, <1>4, <1>5, <1>6 DEF CutIsValid
<1>12. ResultIsTrue'
  <2>1. (InScope(file)' <=> InScope(p)) /\ (Undisturbed' <=> Undisturbed)
    BY <1>1, <1>3 DEF InScope, Undisturbed
  <2>2. disk'[file'] = disk[p]
    BY <1>1, <1>3
  <2>3. Undisturbed /\ pc' = "asktruncate" => res'.at = ValidPrefix(disk[p])
    BY <1>4, <1>5, <1>6
  <2>4. Undisturbed /\ pc' = "askdelete" /\ InScope(p) => ValidPrefix(disk[p]) <= 1
    BY <1>4, <1>5, <1>6
  <2>5. pc' \notin {"truncate", "delete"}
    BY <1>6
  <2> QED
    BY <2>1, <2>2, <2>3, <2>4, <2>5 DEF ResultIsTrue
<1> QED
  BY <1>8, <1>9, <1>10, <1>11, <1>12 DEF IInv

\* The questions.
LEMMA AskInv ==
  ASSUME IInv, AskDelete \/ AskTruncate \/ AskRename
  PROVE  IInv'
<1>1. /\ UNCHANGED <<setting, disk, todo, file, res>>
      /\ \/ pc = "askdelete" /\ pc' = "delete" /\ agreed' = TRUE
         \/ pc = "asktruncate" /\ pc' = "truncate" /\ agreed' = TRUE
         \/ pc = "askrename" /\ pc' = "rename" /\ agreed' = TRUE
         \/ pc = "asktruncate" /\ pc' = "askrename" /\ res.rename /\ agreed' = agreed
         \/ pc' = "next" /\ agreed' = agreed
  BY DEF AskDelete, AskTruncate, AskRename, confirmAction
<1>2. TypeOK'
  BY <1>1 DEF IInv, TypeOK
<1>3. Asked'
  BY <1>1 DEF IInv, Asked
<1>4. InHand'
  BY <1>1 DEF IInv, InHand
<1>5. CutIsValid'
  BY <1>1 DEF IInv, CutIsValid
<1>6. (InScope(file)' <=> InScope(file)) /\ (Undisturbed' <=> Undisturbed)
  BY <1>1 DEF InScope, Undisturbed
<1>7. ResultIsTrue'
  BY <1>1, <1>6 DEF IInv, ResultIsTrue
<1> QED
  BY <1>2, <1>3, <1>4, <1>5, <1>7 DEF IInv

\* After a repair nothing is left that the result would have to be right about.
LEMMA RepairInv ==
  ASSUME IInv, Delete \/ truncateFile \/ Rename
  PROVE  IInv'
<1> USE DEF IInv
<1>1. /\ UNCHANGED <<setting, todo, file, res, agreed>>
      /\ pc \in {"delete", "truncate", "rename"}
      /\ pc' = "next" \/ (pc = "truncate" /\ pc' = "askrename" /\ res.rename)
  BY DEF Delete, truncateFile, Rename
<1>2. file \in Paths
  BY DEF TypeOK
<1>3. pc = "truncate" => /\ disk[file] \in Seq(Segments)
                         /\ SubSeq(disk[file], 1, res.at) \in Seq(Segments)
                         /\ SubSeq(disk[file], 1, res.at) # Absent
  <2> SUFFICES ASSUME pc = "truncate"
               PROVE  /\ disk[file] \in Seq(Segments)
                      /\ SubSeq(disk[file], 1, res.at) \in Seq(Segments)
                      /\ SubSeq(disk[file], 1, res.at) # Absent
    OBVIOUS
  <2>1. disk[file] \in Seq(Segments)
    BY <1>2, DiskFacts DEF InHand
  <2>2. res.at \in 0..Len(disk[file]) /\ \A i \in 1..res.at : disk[file][i] \in Valid
    BY <2>1 DEF CutIsValid, TypeOK
  <2>3. SubSeq(disk[file], 1, res.at) \in Seq(Segments)
    BY <2>1, <2>2, CutFacts
  <2> QED
    BY <2>1, <2>3, MendAssumption
<1>4. disk' \in [Paths -> Seq(Segments) \union {Absent}]
  <2>1. CASE Delete \/ UNCHANGED disk
    BY <2>1 DEF Delete, TypeOK
  <2>2. CASE truncateFile
    BY <2>2, <1>3 DEF truncateFile, TypeOK
  <2>3. CASE Rename
    <3>1. disk[file] \in Seq(Segments) \union {Absent}
      BY <1>2 DEF TypeOK
    <3> QED
      BY <2>3, <3>1 DEF Rename, TypeOK
  <2> QED
    BY <2>1, <2>2, <2>3
<1>5. TypeOK'
  BY <1>1, <1>4 DEF TypeOK
<1>6. Asked'
  BY <1>1 DEF Asked
<1>7. InHand'
  <2>1. pc' = "askrename" => disk'[file] # Absent
    BY <1>1, <1>2, <1>3 DEF truncateFile, Delete, Rename, InHand, TypeOK
  <2>2. pc' = "askrename" => file.ext = "gz" /\ (res.rename => file.open)
    BY <1>1 DEF InHand
  <2> QED
    BY <1>1, <2>1, <2>2 DEF InHand
<1>8. CutIsValid' /\ ResultIsTrue'
  BY <1>1 DEF CutIsValid, ResultIsTrue
<1> QED
  BY <1>5, <1>6, <1>7, <1>8

\* The crawler adds to the end of a file; the records before the cut stay.
LEMMA CrawlerInv ==
  ASSUME IInv, NEW p \in Paths, CrawlerWrites(p)
  PROVE  IInv'
<1> USE DEF IInv
<1> DEFINE f == disk[p]
           g == IF f[Len(f)] = "torn" THEN [f EXCEPT ![Len(f)] = "record"] ELSE Append(f, "torn")
<1>1. /\ UNCHANGED <<setting, todo, pc, file, res, agreed>> /\ setting.live
      /\ disk' = [disk EXCEPT ![p] = g] /\ f # Absent /\ f # <<>>
  BY DEF CrawlerWrites
<1>2. f \in Seq(Segments) /\ Len(f) \in Nat \ {0}
  BY <1>1, DiskFacts, EmptySeq
<1>3. g \in Seq(Segments) /\ Len(g) >= Len(f)
  BY <1>2 DEF Segments, Valid
<1>4. \A i \in 1..Len(f) : f[i] \in Valid => g[i] \in Valid
  BY <1>2 DEF Valid
<1> HIDE DEF f, g
<1>5. g # Absent
  BY <1>3, MendAssumption
<1>6. disk'[p] = g /\ \A q \in Paths : q # p => disk'[q] = disk[q]
  BY <1>1 DEF TypeOK
<1>7. TypeOK'
  BY <1>1, <1>3 DEF TypeOK
<1>8. Asked'
  BY <1>1 DEF Asked
<1>9. InHand'
  <2>1. file \in Paths /\ (disk[file] # Absent => disk'[file] # Absent)
    BY <1>5, <1>6 DEF TypeOK
  <2> QED
    BY <1>1, <2>1 DEF InHand
<1>10. CutIsValid'
  <2>1. CASE file = p
    <3> SUFFICES ASSUME pc \in {"asktruncate", "truncate"}
                 PROVE  res.at <= Len(g) /\ \A i \in 1..res.at : g[i] \in Valid
      BY <1>1, <1>6, <2>1 DEF CutIsValid
    <3>1. res.at \in Nat /\ res.at <= Len(f) /\ \A i \in 1..res.at : f[i] \in Valid
      BY <2>1 DEF CutIsValid, TypeOK, f
    <3>2. Len(g) \in Nat
      BY <1>3
    <3>3. \A i \in 1..res.at : i \in 1..Len(f)
      BY <1>2, <3>1
    <3> QED
      BY <1>2, <1>3, <1>4, <3>1, <3>2, <3>3
  <2>2. CASE file # p
    <3>1. disk'[file] = disk[file]
      BY <1>6, <2>2 DEF TypeOK
    <3> QED
      BY <1>1, <3>1 DEF CutIsValid
  <2> QED
    BY <2>1, <2>2
<1>11. ResultIsTrue'
  BY <1>1 DEF ResultIsTrue, Undisturbed
<1> QED
  BY <1>7, <1>8, <1>9, <1>10, <1>11

LEMMA NextInv == IInv /\ [Next]_vars => IInv'
<1>1. ASSUME IInv, UNCHANGED vars PROVE IInv'
  <2>1. UNCHANGED <<setting, disk, todo, pc, file, res, agreed>>
    BY <1>1 DEF vars
  <2>2. (InScope(file)' <=> InScope(file)) /\ (Undisturbed' <=> Undisturbed)
    BY <2>1 DEF InScope, Undisturbed
  <2>3. TypeOK' /\ Asked' /\ InHand'
    BY <1>1, <2>1 DEF IInv, TypeOK, Asked, InHand
  <2>4. CutIsValid' /\ ResultIsTrue'
    BY <1>1, <2>1, <2>2 DEF IInv, CutIsValid, ResultIsTrue
  <2> QED
    BY <2>3, <2>4 DEF IInv
<1> QED
  BY <1>1, AnalyzeInv, AskInv, RepairInv, CrawlerInv DEF Next, Terminated

LEMMA InvAlways == Spec => []IInv
  BY InitInv, NextInv, PTL DEF Spec

\* The types of the state.
THEOREM MendTypeCorrect == Spec => []TypeOK
<1>1. IInv => TypeOK
  BY DEF IInv
<1> QED
  BY <1>1, InvAlways, PTL

-----------------------------------------------------------------------------
(***************************************************************************)
(* What a step may do to the files.                                        *)
(***************************************************************************)

\* What each repair does, and all that is known when it does it.
LEMMA TruncateStep ==
  ASSUME IInv, truncateFile, disk' # disk
  PROVE  /\ file \in Paths /\ disk[file] \in Seq(Segments)
         /\ res.at \in 0..Len(disk[file])
         /\ disk'[file] \in Seq(Segments) /\ Len(disk'[file]) = res.at
         /\ ValidPrefix(disk'[file]) = res.at
         /\ \A p \in Paths : p # file => disk'[p] = disk[p]
<1>1. pc = "truncate" /\ disk' = [disk EXCEPT ![file] = SubSeq(@, 1, res.at)]
  BY DEF truncateFile
<1>2. file \in Paths /\ disk[file] # Absent /\ disk[file] \in Seq(Segments)
  BY <1>1, DiskFacts DEF IInv, InHand, TypeOK
<1>3. res.at \in 0..Len(disk[file]) /\ \A i \in 1..res.at : disk[file][i] \in Valid
  BY <1>1, <1>2 DEF IInv, CutIsValid, TypeOK
<1>4. disk'[file] = SubSeq(disk[file], 1, res.at)
  BY <1>1, <1>2 DEF IInv, TypeOK
<1>5. \A p \in Paths : p # file => disk'[p] = disk[p]
  BY <1>1 DEF IInv, TypeOK
<1> QED
  BY <1>2, <1>3, <1>4, <1>5, CutFacts

LEMMA RenameStep ==
  ASSUME IInv, Rename, disk' # disk
  PROVE  /\ file \in Paths /\ file.open /\ disk[file] # Absent
         /\ newName \in Paths /\ newName = OtherName(file) /\ newName # file
         /\ file = OtherName(newName)
         /\ disk'[newName] = disk[file] /\ disk'[file] = Absent
         /\ \A p \in Paths : p # file /\ p # newName => disk'[p] = disk[p]
<1>1. pc = "rename" /\ disk' = [disk EXCEPT ![newName] = disk[file], ![file] = Absent]
  BY DEF Rename
<1>2. file \in Paths /\ disk[file] # Absent /\ file.ext = "gz" /\ file.open
  BY <1>1 DEF IInv, InHand, TypeOK
<1>3. newName \in Paths
  BY <1>2, MendAssumption DEF newName
<1>4. file \in [base : STRING, ext : {"gz", "other"}, open : BOOLEAN] /\ file.open = TRUE
  BY <1>2, MendAssumption
<1>5. newName = OtherName(file) /\ newName # file /\ file = OtherName(newName)
  BY <1>4 DEF newName, OtherName
<1>6. /\ disk'[newName] = disk[file] /\ disk'[file] = Absent
      /\ \A p \in Paths : p # file /\ p # newName => disk'[p] = disk[p]
  BY <1>1, <1>2, <1>3, <1>5 DEF IInv, TypeOK
<1> QED
  BY <1>2, <1>3, <1>5, <1>6

LEMMA DeleteStep ==
  ASSUME IInv, Delete, disk' # disk
  PROVE  /\ file \in Paths /\ disk'[file] = Absent
         /\ \A p \in Paths : p # file => disk'[p] = disk[p]
  BY DEF Delete, IInv, TypeOK

\* If no crawler is at work, the disk changes by these three only.
LEMMA DiskSteps ==
  ASSUME [Next]_vars, disk' # disk
  PROVE  Delete \/ truncateFile \/ Rename \/ (setting.live /\ \E p \in Paths : CrawlerWrites(p))
  BY DEF Next, Terminated, Analyze, AskDelete, AskTruncate, AskRename, CrawlerWrites, vars

\* Mend cuts a file exactly in front of its first damage, if nobody else writes
\* it and it can be read.
THEOREM CutIsAtFirstDamageHolds == Spec => CutIsAtFirstDamage
<1>1. ASSUME IInv, [Next]_vars, Undisturbed, disk[file] # Absent, disk'[file] # Absent,
             disk'[file] # disk[file]
      PROVE  Len(disk'[file]) = ValidPrefix(disk[file])
  <2>1. ~setting.live
    BY <1>1 DEF Undisturbed
  <2>2. truncateFile
    BY <1>1, <2>1, DiskSteps, DeleteStep, RenameStep
  <2>3. res.at = ValidPrefix(disk[file])
    BY <1>1, <2>2 DEF truncateFile, IInv, ResultIsTrue
  <2> QED
    BY <1>1, <2>2, <2>3, TruncateStep
<1> DEFINE A == LET f == disk[file]  g == disk'[file] IN
                Undisturbed /\ f # Absent /\ g # Absent /\ g # f => Len(g) = ValidPrefix(f)
<1>2. IInv /\ [Next]_vars => [A]_vars
  BY <1>1
<1>3. CutIsAtFirstDamage <=> [][A]_vars
  BY DEF CutIsAtFirstDamage
<1> QED
  BY <1>2, <1>3, InvAlways, PTL DEF Spec

\* A cut file holds records only: a second mend finds nothing to cut.
THEOREM TruncatedIsWholeHolds == Spec => TruncatedIsWhole
<1>1. ASSUME IInv, [Next]_vars, pc = "truncate", pc' # pc, disk' # disk
      PROVE  Whole(disk'[file])
  <2>1. truncateFile
    BY <1>1, DiskSteps DEF Delete, Rename, CrawlerWrites
  <2>2. ValidPrefix(disk'[file]) = res.at /\ Len(disk'[file]) = res.at
    BY <1>1, <2>1, TruncateStep
  <2> QED
    BY <2>2 DEF Whole
<1> DEFINE A == pc = "truncate" /\ pc' # pc /\ disk' # disk => Whole(disk'[file])
<1>2. IInv /\ [Next]_vars => [A]_vars
  BY <1>1
<1>3. TruncatedIsWhole <=> [][A]_vars
  BY DEF TruncatedIsWhole
<1> QED
  BY <1>2, <1>3, InvAlways, PTL DEF Spec

\* A dry run changes nothing; without a yes a file that needs no cut is given
\* its new name, and only a file that had that name is lost.
THEOREM ChangesAreConfirmedHolds == Spec => ChangesAreConfirmed
<1> DEFINE A == disk' # disk /\ ~setting.live =>
                   /\ ~setting.dryRun
                   /\ \/ agreed
                      \/ pc = "rename" /\ ~res.truncate /\ ContentsStay
<1>1. ASSUME IInv, Rename, disk' # disk
      PROVE  ContentsStay
  <2> SUFFICES ASSUME NEW p \in Paths \ {newName}
               PROVE  \E q \in {p, OtherName(p)} \intersect Paths : disk'[q] = disk[p]
    BY DEF ContentsStay
  <2>1. /\ newName \in Paths /\ newName = OtherName(file)
        /\ disk'[newName] = disk[file]
        /\ p # file => disk'[p] = disk[p]
    BY <1>1, RenameStep
  <2>2. CASE p = file
    BY <2>1, <2>2
  <2>3. CASE p # file
    BY <2>1, <2>3
  <2> QED
    BY <2>2, <2>3
<1>2. ASSUME IInv, [Next]_vars, disk' # disk, ~setting.live
      PROVE  ~setting.dryRun /\ (agreed \/ (pc = "rename" /\ ~res.truncate /\ ContentsStay))
  <2>1. Delete \/ truncateFile \/ Rename
    BY <1>2, DiskSteps
  <2>2. ~setting.dryRun
    BY <1>2, <2>1 DEF Delete, truncateFile, Rename, IInv, Asked
  <2>3. CASE Delete \/ truncateFile
    BY <1>2, <2>2, <2>3 DEF Delete, truncateFile, IInv, Asked
  <2>4. CASE Rename
    <3>1. ContentsStay
      BY <1>1, <1>2, <2>4
    <3>2. pc = "rename" /\ (agreed \/ ~res.truncate)
      BY <1>2, <2>4 DEF Rename, IInv, Asked
    <3> QED
      BY <2>2, <3>1, <3>2
  <2> QED
    BY <2>1, <2>3, <2>4
<1>3. IInv /\ [Next]_vars => [A]_vars
  BY <1>2
<1>4. ChangesAreConfirmed <=> [][A]_vars
  BY DEF ChangesAreConfirmed
<1> QED
  BY <1>3, <1>4, InvAlways, PTL DEF Spec

\* A file that mend looks into, and whose two names are not both in use, has
\* all records before the first damage after every step, unless the analysis
\* failed to read it and the user has said yes to the question about it.
LEMMA RecordsSurviveStep ==
  ASSUME IInv, [Next]_vars, NEW p \in Paths, ~setting.live,
         disk[p] # Absent, InScope(p),
         OtherName(p) \in Paths => disk[OtherName(p)] = Absent,
         ValidPrefix(disk[p]) > 1
  PROVE  Survives(p) \/ (setting.readFails /\ agreed /\ p = file)
<1> DEFINE v == ValidPrefix(disk[p])
<1>1. v \in Nat /\ v > 1
  BY DiskFacts, ValidPrefixFacts DEF IInv
<1>2. ASSUME NEW q \in {p, OtherName(p)} \intersect Paths,
             disk'[q] # Absent, ValidPrefix(disk'[q]) >= v
      PROVE  Survives(p)
  BY <1>2 DEF Survives
<1> HIDE DEF v
<1>3. CASE disk'[p] = disk[p]
  BY <1>1, <1>2, <1>3 DEF v
<1>4. CASE disk'[p] # disk[p]
  <2>1. ASSUME Delete \/ truncateFile
        PROVE  p = file /\ agreed
    <3>1. p = file
      BY <1>4, <2>1, DeleteStep, TruncateStep
    <3> QED
      BY <2>1, <3>1 DEF Delete, truncateFile, IInv, Asked
  <2>2. CASE setting.readFails /\ (Delete \/ truncateFile)
    BY <2>1, <2>2
  <2>3. CASE ~setting.readFails /\ Delete
    <3>1. Undisturbed /\ p = file
      BY <2>1, <2>3 DEF Undisturbed
    <3>2. ValidPrefix(disk[file]) <= 1
      BY <2>3, <3>1 DEF Delete, IInv, ResultIsTrue
    <3> QED
      BY <1>1, <3>1, <3>2 DEF v
  <2>4. CASE ~setting.readFails /\ truncateFile
    <3>0. Undisturbed
      BY <2>4 DEF Undisturbed
    <3>1. p = file /\ ValidPrefix(disk'[file]) = res.at /\ disk'[file] \in Seq(Segments)
      BY <1>4, <2>4, TruncateStep
    <3>2. res.at = v
      BY <2>4, <3>0, <3>1 DEF truncateFile, IInv, ResultIsTrue, v
    <3> QED
      BY <1>1, <1>2, <3>1, <3>2, MendAssumption
  <2>5. CASE Rename
    <3>1. /\ file \in Paths /\ disk[file] # Absent
          /\ newName \in Paths /\ newName = OtherName(file) /\ file = OtherName(newName)
          /\ disk'[newName] = disk[file]
          /\ p = file \/ p = newName
      BY <1>4, <2>5, RenameStep
    <3>2. p = file
      BY <3>1
    <3> QED
      BY <1>1, <1>2, <3>1, <3>2 DEF v
  <2> QED
    BY <1>4, <2>2, <2>3, <2>4, <2>5, DiskSteps
<1> QED
  BY <1>3, <1>4

\* No answer and no failing repair costs a record of such a file; if the file
\* could not be read, a yes to the question about it may.
THEOREM RecordsSurviveHolds == Spec => RecordsSurvive
<1> DEFINE A == \A p \in Paths :
                  /\ ~setting.live
                  /\ disk[p] # Absent /\ InScope(p)
                  /\ OtherName(p) \in Paths => disk[OtherName(p)] = Absent
                  /\ ValidPrefix(disk[p]) > 1
                  => Survives(p) \/ (setting.readFails /\ agreed /\ p = file)
<1>1. IInv /\ [Next]_vars => [A]_vars
  BY RecordsSurviveStep
<1>2. RecordsSurvive <=> [][A]_vars
  BY DEF RecordsSurvive
<1> QED
  BY <1>1, <1>2, InvAlways, PTL DEF Spec
=============================================================================
