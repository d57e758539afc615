--------------------------- MODULE ExtractProofs ---------------------------
(***************************************************************************)
(* Proofs about Extract, for any settings and files: its report, the lines *)
(* and contents its reader finds, the files it opens, what is written to   *)
(* them, and what is kept with --hash-suffix.                              *)
(***************************************************************************)
EXTENDS ExtractInv, FiniteSetTheorems, WellFoundedInduction, TLAPS

(***************************************************************************)
(* The report.                                                             *)
(***************************************************************************)

LEMMA InitInv == Init => CountInv
  BY DEF Init, CountInv, Handover, ReportMissesOneAtMost, NotPrinted

LEMMA SendStep ==
  ASSUME CountInv, NEW c \in Contents, Send(c)
  PROVE  CountInv'
<1>1. /\ counter.pending = 0 /\ counter' = [counter EXCEPT !.pending = @ + 1]
      /\ sent' = sent + 1 /\ printed' = printed
  BY DEF Send, CanSend, Step
<1>2. counter' = [pending |-> 1, count |-> counter.count]
  BY <1>1 DEF CountInv, Handover
<1> QED
  BY <1>1, <1>2 DEF CountInv, Handover, ReportMissesOneAtMost

LEMMA CountStep ==
  ASSUME CountInv, Count
  PROVE  CountInv'
<1>1. /\ counter.pending = 1 /\ counter' = [pending |-> 0, count |-> counter.count + 1]
      /\ sent' = sent /\ printed' = printed
  BY DEF Count, CountInv, Handover
<1> QED
  BY <1>1 DEF CountInv, Handover, ReportMissesOneAtMost

LEMMA PrintStep ==
  ASSUME CountInv, printExtractReport
  PROVE  CountInv'
<1>1. counter' = counter /\ sent' = sent
  BY DEF printExtractReport
<1>2. CASE printed' = printed
  BY <1>1, <1>2 DEF CountInv, Handover, ReportMissesOneAtMost
<1>3. CASE printed' \in [value : counter.count .. counter.count + counter.pending, sent : {sent}]
  <2>1. counter.count \in Nat /\ counter.pending \in {0, 1} /\ sent = counter.count + counter.pending
    BY DEF CountInv, Handover
  <2>2. printed'.value \in counter.count .. counter.count + counter.pending /\ printed'.sent = sent
    BY <1>3
  <2>3. printed'.value \in {printed'.sent, printed'.sent - 1}
    BY <2>1, <2>2
  <2> QED
    BY <1>1, <2>3 DEF CountInv, Handover, ReportMissesOneAtMost
<1> QED
  BY <1>2, <1>3 DEF printExtractReport

LEMMA OpenStep ==
  ASSUME CountInv, OpenFile
  PROVE  CountInv'
  BY DEF OpenFile, CountInv, Handover, ReportMissesOneAtMost

LEMMA NextInv == CountInv /\ [Next]_vars => CountInv'
<1>1. ASSUME CountInv, UNCHANGED <<counter, sent, printed>> PROVE CountInv'
  BY <1>1 DEF CountInv, Handover, ReportMissesOneAtMost
<1>2. ASSUME NEW c \in Contents, processRecord(c)
      PROVE  Send(c) \/ UNCHANGED <<counter, sent, printed>>
  BY <1>2 DEF processRecord, ReadResponse, Stat, Compare, StatSuffixed, Create, Copy, Done,
              CloseContent, Step, StepOnly, Local
<1>3. ASSUME extract
      PROVE  OpenFile \/ printExtractReport \/ UNCHANGED <<counter, sent, printed>>
  BY <1>3 DEF extract, Read, StartTask, EndOfFile, Wait, Exit
<1>4. vars' = vars => UNCHANGED <<counter, sent, printed>>
  BY DEF vars
<1> QED
  BY <1>1, <1>2, <1>3, <1>4, SendStep, CountStep, PrintStep, OpenStep DEF Next, Terminated

\* The number in the report of a file is that of the results sent for it, but
\* for the last one, also when the counting goroutine has got it already.
THEOREM ReportMissesOneAtMostHolds == Spec => []ReportMissesOneAtMost
<1>1. CountInv => ReportMissesOneAtMost
  BY DEF CountInv
<1> QED
  BY <1>1, InitInv, NextInv, PTL DEF Spec

(***************************************************************************)
(* The text of a record.                                                   *)
(***************************************************************************)

\* The lines of a header as far as they have been written, the last one ended.
HeaderSoFar(S, t, length) ==
    /\ t \in Seq(S) /\ Len(t) >= 3
    /\ t[1] # LF /\ t[Len(t) - 1] = CR /\ t[Len(t)] = LF
    /\ \A i \in 1..(Len(t) - 1) : ~(t[i] = LF /\ t[i + 1] = CR)
    /\ \A i \in 2..Len(t) : t[i].sym = "length" => t[i] = length

LEMMA Symbols ==
  /\ CR # LF /\ CR.sym = "CR" /\ LF.sym = "LF" /\ Missing.sym = "missing"
  /\ \A v : Sym(v).sym = v
  BY DEF CR, LF, Missing, Sym

LEMMA Joined ==
  ASSUME NEW S, NEW s \in Seq(S), NEW u \in Seq(S)
  PROVE  /\ s \o u \in Seq(S) /\ Len(s \o u) = Len(s) + Len(u)
         /\ \A i \in 1..Len(s) : (s \o u)[i] = s[i]
         /\ \A i \in 1..Len(u) : (s \o u)[Len(s) + i] = u[i]
  OBVIOUS

LEMMA FirstLine ==
  ASSUME NEW S, CR \in S, LF \in S, NEW v, Sym(v) \in S, v \notin {"CR", "LF"}, NEW length
  PROVE  HeaderSoFar(S, <<Sym(v)>> \o CRLF, length)
<1> DEFINE t == <<Sym(v)>> \o CRLF
<1>1. t \in Seq(S) /\ Len(t) = 3 /\ t[1] = Sym(v) /\ t[2] = CR /\ t[3] = LF
  BY DEF CRLF
<1>2. Sym(v) # LF /\ CR # LF /\ CR.sym # "length" /\ LF.sym # "length"
  BY Symbols
<1> HIDE DEF t
<1> QED
  BY <1>1, <1>2 DEF HeaderSoFar, t

LEMMA NextLine ==
  ASSUME NEW S, CR \in S, LF \in S, NEW t, NEW length, HeaderSoFar(S, t, length),
         NEW f \in S, f = Missing \/ (f.sym \notin {"CR", "LF"} /\ (f.sym = "length" => f = length))
  PROVE  /\ HeaderSoFar(S, t \o FieldLine(f), length)
         /\ Len(t \o FieldLine(f)) = IF f = Missing THEN Len(t) ELSE Len(t) + 3
<1>1. CASE f = Missing
  <2>1. FieldLine(f) = <<>>
    BY <1>1 DEF FieldLine
  <2>2. t \in Seq(S)
    BY DEF HeaderSoFar
  <2>3. t \o <<>> = t
    BY <2>2
  <2> QED
    BY <1>1, <2>1, <2>3
<1>2. CASE f # Missing
  <2> DEFINE n == Len(t)
             u == <<f>> \o CRLF
             s == t \o u
  <2>1. /\ t \in Seq(S) /\ n \in Nat /\ n >= 3
        /\ t[1] # LF /\ t[n - 1] = CR /\ t[n] = LF
        /\ \A i \in 1..(n - 1) : ~(t[i] = LF /\ t[i + 1] = CR)
        /\ \A i \in 2..n : t[i].sym = "length" => t[i] = length
    BY DEF HeaderSoFar
  <2>2. u \in Seq(S) /\ Len(u) = 3 /\ u[1] = f /\ u[2] = CR /\ u[3] = LF
    BY DEF CRLF
  <2> HIDE DEF u
  <2>3. s \in Seq(S) /\ Len(s) = n + 3 /\ (\A i \in 1..n : s[i] = t[i])
        /\ s[n + 1] = f /\ s[n + 2] = CR /\ s[n + 3] = LF
    <3>1. /\ s \in Seq(S) /\ Len(s) = n + 3 /\ (\A i \in 1..n : s[i] = t[i])
          /\ \A i \in 1..3 : s[n + i] = u[i]
      <4>1. t \in Seq(S) /\ u \in Seq(S)
        BY <2>1, <2>2
      <4>2. /\ s \in Seq(S) /\ Len(s) = Len(t) + Len(u) /\ (\A i \in 1..Len(t) : s[i] = t[i])
            /\ \A i \in 1..Len(u) : s[Len(t) + i] = u[i]
        BY <4>1, Joined
      <4> QED
        BY <2>2, <4>2
    <3>2. 1 \in 1..3 /\ 2 \in 1..3 /\ 3 \in 1..3
      OBVIOUS
    <3> QED
      BY <2>2, <3>1, <3>2
  <2>4. FieldLine(f) = u
    BY <1>2 DEF FieldLine, u
  <2> HIDE DEF s, n
  <2>5. f # CR /\ f # LF /\ CR # LF /\ CR.sym # "length" /\ LF.sym # "length"
    BY <1>2, Symbols
  <2>6. \A i \in 1..(n + 2) : ~(s[i] = LF /\ s[i + 1] = CR)
    <3> TAKE i \in 1..(n + 2)
    <3>1. CASE i <= n - 1
      <4>1. i \in 1..(n - 1) /\ s[i] = t[i] /\ s[i + 1] = t[i + 1]
        BY <2>1, <2>3, <3>1
      <4> QED
        BY <2>1, <4>1
    <3>2. CASE i = n
      BY <2>3, <2>5, <3>2
    <3>3. CASE i = n + 1
      BY <2>3, <2>5, <3>3
    <3>4. CASE i = n + 2
      BY <2>3, <2>5, <3>4
    <3> QED
      BY <2>1, <3>1, <3>2, <3>3, <3>4
  <2>7. \A i \in 2..(n + 3) : s[i].sym = "length" => s[i] = length
    <3> TAKE i \in 2..(n + 3)
    <3>1. CASE i <= n
      BY <2>1, <2>3, <3>1
    <3>2. CASE i = n + 1
      BY <1>2, <2>3, <3>2
    <3>3. CASE i = n + 2 \/ i = n + 3
      BY <2>3, <2>5, <3>3
    <3> QED
      BY <2>1, <3>1, <3>2, <3>3
  <2>8. s[1] # LF
    BY <2>1, <2>3
  <2>9. HeaderSoFar(S, s, length)
    BY <2>1, <2>3, <2>6, <2>7, <2>8 DEF HeaderSoFar
  <2> QED
    BY <1>2, <2>3, <2>4, <2>9 DEF s, n
<1> QED
  BY <1>1, <1>2

\* The text of a record: a header that ends at h, the content, and two lines.
IsText(t, h, content) ==
    /\ h \in Nat /\ h >= 8 /\ Len(t) = h + Len(content) + 4
    /\ t[1] # LF
    /\ t[h - 3] = CR /\ t[h - 2] = LF /\ t[h - 1] = CR /\ t[h] = LF
    /\ \A i \in 1..(h - 3) : ~(t[i] = LF /\ t[i + 1] = CR)
    /\ \A i \in 2..(h - 1) : t[i].sym = "length" => t[i] = Length(Len(content))
    /\ \A i \in DOMAIN content : t[h + i].sym = content[i]

LEMMA RenderFacts ==
  ASSUME NEW r, IsWritten(r)
  PROVE  \E S, h : Render(r) \in Seq(S) /\ IsText(Render(r), h, r.content)
<1> DEFINE C == {Sym(r.content[i]) : i \in DOMAIN r.content}
           S == {CR, LF, Missing, Sym(r.version)} \cup {r[f] : f \in FieldNames} \cup C
           l == r.length
           body == [i \in DOMAIN r.content |-> Sym(r.content[i])]
           t0 == <<Sym(r.version)>> \o CRLF
           f0 == t0 \o FieldLine(r[r.first])
           f1 == f0 \o FieldLine(Other(r, "block"))
           f2 == f1 \o FieldLine(Other(r, "type"))
           f3 == f2 \o FieldLine(Other(r, "ctype"))
           f4 == f3 \o FieldLine(Other(r, "length"))
           f5 == f4 \o FieldLine(Other(r, "payload"))
           t5 == f5 \o FieldLine(Other(r, "uri"))
           t6 == t5 \o CRLF
           t7 == t6 \o body
           t8 == t7 \o CRLF
           h == Len(t5) + 2
<1>1. Render(r) = t8 \o CRLF
  BY DEF Render
<1>2. /\ CR \in S /\ LF \in S /\ Missing \in S /\ Sym(r.version) \in S
      /\ \A f \in FieldNames : r[f] \in S
      /\ \A i \in DOMAIN r.content : Sym(r.content[i]) \in S
  OBVIOUS
<1>3. /\ l = Length(Len(r.content)) /\ l.sym = "length"
      /\ r.version \notin {"CR", "LF"} /\ r.first \in FieldNames
  BY DEF IsWritten, Length
<1> DEFINE Fits(f) == f \in S /\ (f = Missing \/ (f.sym \notin {"CR", "LF"} /\ (f.sym = "length" => f = l)))
<1>b. /\ r["block"] = r.block /\ r["type"] = r.type /\ r["ctype"] = r.ctype /\ r["length"] = l
      /\ r["payload"] = r.payload /\ r["uri"] = r.uri
  OBVIOUS
<1>4. \A g \in FieldNames : Fits(r[g]) /\ Fits(Other(r, g))
  <2> TAKE g \in FieldNames
  <2>1. r[g] = Missing \/ (r[g].sym \notin {"CR", "LF"} /\ (r[g].sym = "length" => r[g] = l))
    BY <1>b, <1>3 DEF IsWritten, FieldNames
  <2>2. Fits(r[g])
    BY <1>2, <2>1
  <2> QED
    BY <1>2, <2>2 DEF Other
<1>5. l # Missing
  BY <1>3, Symbols
<1> HIDE DEF S
<1>6. HeaderSoFar(S, t0, l)
  BY <1>2, <1>3, FirstLine
<1> HIDE DEF t0
<1>7. /\ HeaderSoFar(S, f0, l) /\ Len(f0) >= 3
      /\ r.first = "length" => Len(f0) >= 6
  <2>1. /\ HeaderSoFar(S, f0, l)
        /\ Len(f0) = IF r[r.first] = Missing THEN Len(t0) ELSE Len(t0) + 3
    BY <1>2, <1>3, <1>4, <1>6, NextLine
  <2>2. Len(t0) \in Nat /\ Len(t0) >= 3
    BY <1>6 DEF HeaderSoFar
  <2> QED
    BY <1>5, <1>b, <2>1, <2>2
<1> HIDE DEF f0
<1>h1. HeaderSoFar(S, f1, l) /\ Len(f1) >= 3 /\ (r.first = "length" => Len(f1) >= 6)
  <2>1. "block" \in FieldNames
    BY DEF FieldNames
  <2>2. /\ HeaderSoFar(S, f1, l)
        /\ Len(f1) = IF Other(r, "block") = Missing THEN Len(f0) ELSE Len(f0) + 3
    BY <1>2, <1>4, <1>7, <2>1, NextLine
  <2>3. Len(f0) \in Nat
    BY <1>7 DEF HeaderSoFar
  <2> QED
    BY <1>7, <2>2, <2>3
<1> HIDE DEF f1
<1>h2. HeaderSoFar(S, f2, l) /\ Len(f2) >= 3 /\ (r.first = "length" => Len(f2) >= 6)
  <2>1. "type" \in FieldNames
    BY DEF FieldNames
  <2>2. /\ HeaderSoFar(S, f2, l)
        /\ Len(f2) = IF Other(r, "type") = Missing THEN Len(f1) ELSE Len(f1) + 3
    BY <1>2, <1>4, <1>h1, <2>1, NextLine
  <2>3. Len(f1) \in Nat
    BY <1>h1 DEF HeaderSoFar
  <2> QED
    BY <1>h1, <2>2, <2>3
<1> HIDE DEF f2
<1>h3. HeaderSoFar(S, f3, l) /\ Len(f3) >= 3 /\ (r.first = "length" => Len(f3) >= 6)
  <2>1. "ctype" \in FieldNames
    BY DEF FieldNames
  <2>2. /\ HeaderSoFar(S, f3, l)
        /\ Len(f3) = IF Other(r, "ctype") = Missing THEN Len(f2) ELSE Len(f2) + 3
    BY <1>2, <1>4, <1>h2, <2>1, NextLine
  <2>3. Len(f2) \in Nat
    BY <1>h2 DEF HeaderSoFar
  <2> QED
    BY <1>h2, <2>2, <2>3
<1> HIDE DEF f3
<1>h4. HeaderSoFar(S, f4, l) /\ Len(f4) >= 6
  <2>1. "length" \in FieldNames
    BY DEF FieldNames
  <2>2. /\ HeaderSoFar(S, f4, l)
        /\ Len(f4) = IF Other(r, "length") = Missing THEN Len(f3) ELSE Len(f3) + 3
    BY <1>2, <1>4, <1>h3, <2>1, NextLine
  <2>3. Len(f3) \in Nat
    BY <1>h3 DEF HeaderSoFar
  <2>4. r.first # "length" => Other(r, "length") # Missing
    BY <1>5, <1>b DEF Other
  <2> QED
    BY <1>h3, <2>2, <2>3, <2>4
<1> HIDE DEF f4
<1>h5. HeaderSoFar(S, f5, l) /\ Len(f5) >= 6
  <2>1. "payload" \in FieldNames
    BY DEF FieldNames
  <2>2. /\ HeaderSoFar(S, f5, l)
        /\ Len(f5) = IF Other(r, "payload") = Missing THEN Len(f4) ELSE Len(f4) + 3
    BY <1>2, <1>4, <1>h4, <2>1, NextLine
  <2>3. Len(f4) \in Nat
    BY <1>h4 DEF HeaderSoFar
  <2> QED
    BY <1>h4, <2>2, <2>3
<1> HIDE DEF f5
<1>h6. HeaderSoFar(S, t5, l) /\ Len(t5) >= 6
  <2>1. "uri" \in FieldNames
    BY DEF FieldNames
  <2>2. /\ HeaderSoFar(S, t5, l)
        /\ Len(t5) = IF Other(r, "uri") = Missing THEN Len(f5) ELSE Len(f5) + 3
    BY <1>2, <1>4, <1>h5, <2>1, NextLine
  <2>3. Len(f5) \in Nat
    BY <1>h5 DEF HeaderSoFar
  <2> QED
    BY <1>h5, <2>2, <2>3
<1> HIDE DEF t5
<1> DEFINE n == Len(t5)
           m == Len(r.content)
           t == t8 \o CRLF
<1>13. /\ t5 \in Seq(S) /\ n \in Nat /\ n >= 6
       /\ t5[1] # LF /\ t5[n - 1] = CR /\ t5[n] = LF
       /\ \A i \in 1..(n - 1) : ~(t5[i] = LF /\ t5[i + 1] = CR)
       /\ \A i \in 2..n : t5[i].sym = "length" => t5[i] = l
  BY <1>h6 DEF HeaderSoFar
<1>14. r.content \in Seq({r.content[i] : i \in DOMAIN r.content}) /\ m \in Nat /\ DOMAIN r.content = 1..m
  BY DEF IsWritten
<1>15. body \in Seq(S) /\ Len(body) = m /\ \A i \in 1..m : body[i].sym = r.content[i]
  BY <1>2, <1>14, Symbols
<1>16. CRLF \in Seq(S) /\ Len(CRLF) = 2 /\ CRLF[1] = CR /\ CRLF[2] = LF
  BY <1>2 DEF CRLF
<1> HIDE DEF body, n, m
<1>a. /\ t6 \in Seq(S) /\ Len(t6) = n + 2 /\ \A i \in 1..n : t6[i] = t5[i]
      /\ \A i \in 1..2 : t6[n + i] = CRLF[i]
  <2>1. t5 \in Seq(S) /\ CRLF \in Seq(S)
    BY <1>13, <1>16
  <2>2. /\ t6 \in Seq(S) /\ Len(t6) = Len(t5) + Len(CRLF) /\ \A i \in 1..Len(t5) : t6[i] = t5[i]
        /\ \A i \in 1..Len(CRLF) : t6[Len(t5) + i] = CRLF[i]
    BY <2>1, Joined
  <2> QED
    BY <1>16, <2>2 DEF n
<1>17. /\ t6 \in Seq(S) /\ Len(t6) = n + 2 /\ \A i \in 1..n : t6[i] = t5[i]
       /\ t6[n + 1] = CR /\ t6[n + 2] = LF
  <2>1. 1 \in 1..2 /\ 2 \in 1..2
    OBVIOUS
  <2> QED
    BY <1>16, <1>a, <2>1
<1> HIDE DEF t6
<1>18. /\ t7 \in Seq(S) /\ Len(t7) = n + 2 + m
       /\ \A i \in 1..(n + 2) : t7[i] = t6[i]
       /\ \A i \in 1..m : t7[n + 2 + i] = body[i]
  <2>1. /\ t7 \in Seq(S) /\ Len(t7) = Len(t6) + Len(body)
        /\ \A i \in 1..Len(t6) : t7[i] = t6[i]
        /\ \A i \in 1..Len(body) : t7[Len(t6) + i] = body[i]
    BY <1>15, <1>17, Joined
  <2> QED
    BY <1>13, <1>14, <1>15, <1>17, <2>1
<1> HIDE DEF t7
<1>19. /\ t8 \in Seq(S) /\ Len(t8) = n + m + 4
       /\ \A i \in 1..(n + 2 + m) : t8[i] = t7[i]
  <2>1. /\ t8 \in Seq(S) /\ Len(t8) = Len(t7) + Len(CRLF)
        /\ \A i \in 1..Len(t7) : t8[i] = t7[i]
    <3>1. t7 \in Seq(S) /\ CRLF \in Seq(S)
      BY <1>16, <1>18
    <3> QED
      BY <3>1, Joined
  <2> QED
    BY <1>13, <1>14, <1>16, <1>18, <2>1
<1> HIDE DEF t8
<1>20. /\ t \in Seq(S) /\ Len(t) = n + m + 6
       /\ \A i \in 1..(n + m + 4) : t[i] = t8[i]
  <2>1. /\ t \in Seq(S) /\ Len(t) = Len(t8) + Len(CRLF)
        /\ \A i \in 1..Len(t8) : t[i] = t8[i]
    <3>1. t8 \in Seq(S) /\ CRLF \in Seq(S)
      BY <1>16, <1>19
    <3> QED
      BY <3>1, Joined
  <2> QED
    BY <1>13, <1>14, <1>16, <1>19, <2>1
<1> HIDE DEF t
<1>21. /\ \A i \in 1..n : t[i] = t5[i]
       /\ t[n + 1] = CR /\ t[n + 2] = LF
       /\ \A i \in 1..m : t[n + 2 + i].sym = r.content[i]
  <2>1. \A i \in 1..(n + 2) : t[i] = t6[i]
    BY <1>13, <1>14, <1>18, <1>19, <1>20
  <2>2. \A i \in 1..m : t[n + 2 + i] = body[i]
    <3> TAKE i \in 1..m
    <3>1. n + 2 + i \in 1..(n + 2 + m) /\ n + 2 + i \in 1..(n + m + 4)
      BY <1>13, <1>14
    <3> QED
      BY <1>18, <1>19, <1>20, <3>1
  <2>3. n + 1 \in 1..(n + 2) /\ n + 2 \in 1..(n + 2) /\ \A i \in 1..n : i \in 1..(n + 2)
    BY <1>13
  <2> QED
    BY <1>15, <1>17, <2>1, <2>2, <2>3
<1>22. IsText(t, n + 2, r.content)
  <2>1. Len(t) = (n + 2) + Len(r.content) + 4 /\ n + 2 \in Nat /\ n + 2 >= 8
    BY <1>13, <1>14, <1>20 DEF m
  <2>2. /\ t[1] # LF /\ t[(n + 2) - 3] = CR /\ t[(n + 2) - 2] = LF
        /\ t[(n + 2) - 1] = CR /\ t[n + 2] = LF
    BY <1>13, <1>21
  <2>3. \A i \in 1..((n + 2) - 3) : ~(t[i] = LF /\ t[i + 1] = CR)
    <3> TAKE i \in 1..((n + 2) - 3)
    <3>1. i \in 1..(n - 1) /\ i \in 1..n /\ i + 1 \in 1..n
      BY <1>13
    <3> QED
      BY <1>13, <1>21, <3>1
  <2>4. \A i \in 2..((n + 2) - 1) : t[i].sym = "length" => t[i] = Length(Len(r.content))
    <3>1. CR.sym # "length"
      BY Symbols
    <3> QED
      BY <1>3, <1>13, <1>21, <3>1
  <2>5. \A i \in DOMAIN r.content : t[(n + 2) + i].sym = r.content[i]
    BY <1>14, <1>21 DEF m
  <2> QED
    BY <2>1, <2>2, <2>3, <2>4, <2>5 DEF IsText
<1> QED
  BY <1>1, <1>20, <1>22 DEF t

(***************************************************************************)
(* The operations on one of several contents.                              *)
(***************************************************************************)

\* What a content is, for chunks in S.
Holding(S) == [stage : {"unused", "writing", "reading", "closed"}, buf : Buffers \cup {NoBuffer},
               onDisk : BOOLEAN, data : Seq(S), at : Nat]

Typed(S) == /\ spool \in [Contents -> Holding(S)] /\ bytes \in [Buffers -> Seq(S)]
            /\ pool \in [Buffers -> Nat]

SpoolInv == (\E S : Typed(S)) /\ BuffersApart

LEMMA UnusedIsHolding ==
  ASSUME NEW S
  PROVE  Unused \in Holding(S) /\ Unused.stage = "unused" /\ Unused.buf = NoBuffer /\ ~Unused.onDisk
<1>1. <<>> \in Seq(S)
  OBVIOUS
<1> QED
  BY <1>1 DEF Unused, Holding

LEMMA SpoolFacts ==
  ASSUME SpoolInv
  PROVE  /\ \A b \in Buffers : pool[b] \in {0, 1} /\ (pool[b] = 1 => bytes[b] = <<>>)
         /\ \A c \in Contents : /\ spool[c].onDisk \in BOOLEAN /\ spool[c].buf \in Buffers \cup {NoBuffer}
                                /\ spool[c].at \in Nat
                                /\ spool[c].stage \in {"unused", "writing", "reading", "closed"}
                                /\ HasStore(c) => \E S : Stored(c) \in Seq(S)
<1>1. PICK S : Typed(S)
  BY DEF SpoolInv
<1>2. \A c \in Contents : spool[c] \in Holding(S)
  BY <1>1 DEF Typed
<1>3. \A c \in Contents : HasStore(c) => Stored(c) \in Seq(S)
  BY <1>1, <1>2 DEF Typed, Holding, HasStore, Stored
<1> QED
  BY <1>2, <1>3 DEF SpoolInv, BuffersApart, Holding

\* The other contents are what they were, and their buffers hold what they held.
OnlyIn(c) == /\ \A d \in Contents \ {c} : spool'[d] = spool[d]
             /\ \A b \in Buffers : b # spool[c].buf => bytes'[b] = bytes[b]

LEMMA OthersStay ==
  ASSUME SpoolInv, NEW c \in Contents, OnlyIn(c)
  PROVE  \A d \in Contents \ {c} :
             /\ spool'[d] = spool[d] /\ HasStore(d)' = HasStore(d) /\ Position(d)' = Position(d)
             /\ HasStore(d) => Stored(d)' = Stored(d)
<1> SUFFICES ASSUME NEW d \in Contents \ {c}
             PROVE  /\ spool'[d] = spool[d] /\ HasStore(d)' = HasStore(d) /\ Position(d)' = Position(d)
                    /\ HasStore(d) => Stored(d)' = Stored(d)
  OBVIOUS
<1>1. spool'[d] = spool[d]
  BY DEF OnlyIn
<1>2. ASSUME HasStore(d), ~spool[d].onDisk PROVE bytes'[spool[d].buf] = bytes[spool[d].buf]
  <2>1. spool[d].buf \in Buffers
    BY <1>2, SpoolFacts DEF HasStore
  <2>2. spool[d].buf # spool[c].buf
    BY <2>1 DEF SpoolInv, BuffersApart
  <2> QED
    BY <2>1, <2>2 DEF OnlyIn
<1> QED
  BY <1>1, <1>2 DEF HasStore, Stored, Position

\* The buffers are apart after a step that changes no more than one content, if
\* that keeps its buffer, gives it back, or takes one that is free.
LEMMA StillApart ==
  ASSUME SpoolInv, NEW c \in Contents, \A d \in Contents \ {c} : spool'[d] = spool[d],
         \A b \in Buffers : pool'[b] \in {0, 1} /\ (pool'[b] = 1 => bytes'[b] = <<>>),
         \A b \in Buffers : pool[b] = 0 /\ b # spool[c].buf => pool'[b] = 0,
         spool'[c].buf \in Buffers =>
             /\ pool'[spool'[c].buf] = 0
             /\ spool'[c].buf = spool[c].buf \/ pool[spool'[c].buf] = 1
  PROVE  BuffersApart'
<1>1. \A d \in Contents \ {c} : spool[d].buf \in Buffers =>
          pool[spool[d].buf] = 0 /\ spool[d].buf # spool[c].buf /\ spool'[d].buf = spool[d].buf
  BY DEF SpoolInv, BuffersApart
<1>2. \A d, e \in Contents \ {c} : spool[d].buf \in Buffers /\ d # e => spool[d].buf # spool[e].buf
  BY DEF SpoolInv, BuffersApart
<1>3. ASSUME NEW d \in Contents, spool'[d].buf \in Buffers
      PROVE  pool'[spool'[d].buf] = 0 /\ \A e \in Contents \ {d} : spool'[e].buf # spool'[d].buf
  <2>1. CASE d = c
    <3>1. ASSUME NEW e \in Contents \ {c}, spool'[e].buf = spool'[c].buf PROVE FALSE
      <4>1. spool[e].buf = spool'[c].buf /\ spool[e].buf \in Buffers
        BY <1>3, <2>1, <3>1
      <4> QED
        BY <1>1, <4>1
    <3> QED
      BY <1>3, <2>1, <3>1
  <2>2. CASE d # c
    <3>1. /\ spool'[d].buf = spool[d].buf /\ spool[d].buf \in Buffers
          /\ pool[spool[d].buf] = 0 /\ spool[d].buf # spool[c].buf
      BY <1>1, <1>3, <2>2
    <3>2. pool'[spool'[d].buf] = 0
      BY <3>1
    <3>3. ASSUME NEW e \in Contents \ {d}, spool'[e].buf = spool'[d].buf PROVE FALSE
      <4>1. CASE e = c
        BY <3>1, <3>3, <4>1
      <4>2. CASE e # c
        BY <1>2, <2>2, <3>1, <3>3, <4>2
      <4> QED
        BY <4>1, <4>2
    <3> QED
      BY <3>2, <3>3
  <2> QED
    BY <2>1, <2>2
<1> QED
  BY <1>3 DEF BuffersApart

LEMMA NewContent ==
  ASSUME SpoolInv, NEW c \in Contents, New(c), \E b \in Buffers : pool[b] > 0
  PROVE  /\ SpoolInv' /\ OnlyIn(c)
         /\ spool'[c].stage = "writing" /\ HasStore(c)' /\ Stored(c)' = <<>>
         /\ \E b0 \in Buffers : pool[b0] = 1 /\ pool' = [pool EXCEPT ![b0] = 0]
<1> DEFINE b0 == CHOOSE b \in Buffers : pool[b] > 0
<1>1. b0 \in Buffers /\ pool[b0] > 0
  OBVIOUS
<1>2. /\ pool' = [pool EXCEPT ![b0] = @ - 1] /\ bytes' = bytes
      /\ spool' = [spool EXCEPT ![c] = [Unused EXCEPT !.stage = "writing", !.buf = b0]]
  BY DEF New
<1> HIDE DEF b0
<1>3. PICK S : Typed(S)
  BY DEF SpoolInv
<1> DEFINE s1 == [Unused EXCEPT !.stage = "writing", !.buf = b0]
<1>4. spool' = [spool EXCEPT ![c] = s1]
  BY <1>2
<1>5. s1 \in Holding(S) /\ s1.stage = "writing" /\ s1.buf = b0 /\ ~s1.onDisk
  BY <1>1, UnusedIsHolding DEF Holding
<1> HIDE DEF s1
<1>6. /\ spool \in [Contents -> Holding(S)] /\ bytes \in [Buffers -> Seq(S)]
      /\ pool \in [Buffers -> Nat]
  BY <1>3 DEF Typed
<1>7. /\ spool' \in [Contents -> Holding(S)] /\ spool'[c] = s1
      /\ \A d \in Contents \ {c} : spool'[d] = spool[d]
  BY <1>4, <1>5, <1>6
<1>8. pool[b0] = 1 /\ bytes[b0] = <<>>
  BY <1>1, SpoolFacts
<1>9. /\ pool' \in [Buffers -> Nat] /\ pool'[b0] = 0 /\ pool' = [pool EXCEPT ![b0] = 0]
      /\ \A b \in Buffers : b # b0 => pool'[b] = pool[b]
  BY <1>1, <1>2, <1>6, <1>8
<1>10. Typed(S)'
  BY <1>2, <1>6, <1>7, <1>9 DEF Typed
<1>11. BuffersApart'
  <2>1. \A b \in Buffers : pool'[b] \in {0, 1} /\ (pool'[b] = 1 => bytes'[b] = <<>>)
    BY <1>2, <1>9, SpoolFacts
  <2>2. \A b \in Buffers : pool[b] = 0 /\ b # spool[c].buf => pool'[b] = 0
    BY <1>8, <1>9
  <2> QED
    BY <1>5, <1>7, <1>8, <1>9, <2>1, <2>2, StillApart
<1>12. b0 # NoBuffer
  BY <1>1, SpoolAssumption
<1> QED
  BY <1>1, <1>2, <1>5, <1>7, <1>8, <1>9, <1>10, <1>11, <1>12 DEF SpoolInv, OnlyIn, HasStore, Stored

\* A buffer goes back to the pool.
LEMMA PutBuffer ==
  ASSUME SpoolInv, NEW S, Typed(S), NEW c \in Contents, spool[c].buf \in Buffers, Put(spool[c].buf)
  PROVE  /\ pool' \in [Buffers -> Nat] /\ bytes' \in [Buffers -> Seq(S)]
         /\ \A b \in Buffers : pool'[b] \in {0, 1} /\ (pool'[b] = 1 => bytes'[b] = <<>>)
         /\ \A b \in Buffers : b # spool[c].buf => pool'[b] = pool[b] /\ bytes'[b] = bytes[b]
<1>1. <<>> \in Seq(S)
  OBVIOUS
<1>2. pool[spool[c].buf] = 0
  BY DEF SpoolInv, BuffersApart
<1>3. pool \in [Buffers -> Nat] /\ bytes \in [Buffers -> Seq(S)]
  BY DEF Typed
<1>4. /\ pool' = [pool EXCEPT ![spool[c].buf] = @ + 1]
      /\ bytes' = [bytes EXCEPT ![spool[c].buf] = <<>>]
  BY DEF Put
<1>5. /\ \A b \in Buffers : b # spool[c].buf => pool'[b] = pool[b] /\ bytes'[b] = bytes[b]
      /\ pool'[spool[c].buf] = 1 /\ bytes'[spool[c].buf] = <<>>
  BY <1>2, <1>3, <1>4
<1>6. pool' \in [Buffers -> Nat] /\ bytes' \in [Buffers -> Seq(S)]
  BY <1>1, <1>3, <1>4
<1> QED
  BY <1>5, <1>6, SpoolFacts

LEMMA WriteContent ==
  ASSUME SpoolInv, NEW c \in Contents, HasStore(c), NEW chunk, Write(c, chunk)
  PROVE  /\ SpoolInv' /\ OnlyIn(c)
         /\ spool'[c].stage = "writing" /\ HasStore(c)' /\ Stored(c)' = Append(Stored(c), chunk)
         /\ \A b \in Buffers : pool'[b] >= pool[b]
<1>1. PICK S0 : Typed(S0)
  BY DEF SpoolInv
<1> DEFINE S == S0 \cup {chunk}
<1>2. Typed(S)
  <2>1. Seq(S0) \subseteq Seq(S)
    OBVIOUS
  <2>2. Holding(S0) \subseteq Holding(S)
    BY <2>1 DEF Holding
  <2> QED
    BY <1>1, <2>1, <2>2 DEF Typed
<1>3. chunk \in S
  OBVIOUS
<1> HIDE DEF S
<1>4. /\ spool \in [Contents -> Holding(S)] /\ bytes \in [Buffers -> Seq(S)]
      /\ pool \in [Buffers -> Nat]
  BY <1>2 DEF Typed
<1>5. spool[c] \in Holding(S) /\ spool[c].stage = "writing"
  BY <1>4 DEF Write
<1>6. /\ spool[c].onDisk \in BOOLEAN /\ spool[c].buf \in Buffers \cup {NoBuffer}
      /\ spool[c].data \in Seq(S)
  BY <1>5 DEF Holding
<1>7. CASE /\ spool[c].onDisk
           /\ spool' = [spool EXCEPT ![c].data = Append(@, chunk)]
           /\ UNCHANGED <<bytes, pool, temps>>
  <2> DEFINE s1 == [spool[c] EXCEPT !.data = Append(spool[c].data, chunk)]
  <2>1. Append(spool[c].data, chunk) \in Seq(S)
    BY <1>3, <1>6
  <2>2. /\ s1 \in Holding(S) /\ s1.stage = "writing" /\ s1.buf = spool[c].buf
        /\ s1.onDisk = spool[c].onDisk /\ s1.data = Append(spool[c].data, chunk)
    BY <1>5, <2>1 DEF Holding
  <2>3. spool' = [spool EXCEPT ![c] = s1]
    BY <1>7
  <2> HIDE DEF s1
  <2>4. /\ spool' \in [Contents -> Holding(S)] /\ spool'[c] = s1
        /\ \A d \in Contents \ {c} : spool'[d] = spool[d]
    BY <1>4, <2>2, <2>3
  <2>5. Typed(S)'
    BY <1>4, <1>7, <2>4 DEF Typed
  <2>6. BuffersApart'
    <3>1. \A b \in Buffers : pool'[b] \in {0, 1} /\ (pool'[b] = 1 => bytes'[b] = <<>>)
      BY <1>7, SpoolFacts
    <3>2. spool[c].buf \in Buffers => pool[spool[c].buf] = 0
      BY DEF SpoolInv, BuffersApart
    <3> QED
      BY <1>7, <2>2, <2>4, <3>1, <3>2, StillApart
  <2>7. OnlyIn(c)
    BY <1>7, <2>4 DEF OnlyIn
  <2>8. HasStore(c)' /\ Stored(c)' = Append(Stored(c), chunk)
    BY <1>7, <2>2, <2>4 DEF HasStore, Stored
  <2>9. \A b \in Buffers : pool'[b] >= pool[b]
    BY <1>4, <1>7
  <2> QED
    BY <2>2, <2>4, <2>5, <2>6, <2>7, <2>8, <2>9 DEF SpoolInv
<1>8. CASE /\ ~spool[c].onDisk
           /\ bytes' = [bytes EXCEPT ![spool[c].buf] = Append(@, chunk)]
           /\ UNCHANGED <<spool, pool, temps>>
  <2>1. spool[c].buf \in Buffers
    BY <1>6, <1>8 DEF HasStore
  <2>2. Append(bytes[spool[c].buf], chunk) \in Seq(S)
    BY <1>3, <1>4, <2>1
  <2>3. /\ bytes' \in [Buffers -> Seq(S)] /\ bytes'[spool[c].buf] = Append(bytes[spool[c].buf], chunk)
        /\ \A b \in Buffers : b # spool[c].buf => bytes'[b] = bytes[b]
    BY <1>4, <1>8, <2>1, <2>2
  <2>4. Typed(S)'
    BY <1>4, <1>8, <2>3 DEF Typed
  <2>5. pool[spool[c].buf] = 0
    BY <2>1 DEF SpoolInv, BuffersApart
  <2>6. BuffersApart'
    <3>1. \A b \in Buffers : pool'[b] \in {0, 1} /\ (pool'[b] = 1 => bytes'[b] = <<>>)
      BY <1>8, <2>3, <2>5, SpoolFacts
    <3> QED
      BY <1>8, <2>5, <3>1, StillApart
  <2>7. OnlyIn(c)
    BY <1>8, <2>3 DEF OnlyIn
  <2>8. HasStore(c)' /\ Stored(c)' = Append(Stored(c), chunk)
    BY <1>8, <2>3 DEF HasStore, Stored
  <2>9. \A b \in Buffers : pool'[b] >= pool[b]
    BY <1>4, <1>8
  <2> QED
    BY <1>5, <1>8, <2>4, <2>6, <2>7, <2>8, <2>9 DEF SpoolInv
<1>9. CASE /\ ~spool[c].onDisk
           /\ spool' = [spool EXCEPT ![c].onDisk = TRUE, ![c].buf = NoBuffer,
                                     ![c].data = Append(bytes[spool[c].buf], chunk)]
           /\ Put(spool[c].buf)
  <2> DEFINE data == Append(bytes[spool[c].buf], chunk)
             s1 == [spool[c] EXCEPT !.onDisk = TRUE, !.buf = NoBuffer, !.data = data]
  <2>1. spool[c].buf \in Buffers
    BY <1>6, <1>9 DEF HasStore
  <2>2. data \in Seq(S)
    BY <1>3, <1>4, <2>1
  <2>3. spool' = [spool EXCEPT ![c] = s1]
    BY <1>9
  <2>a. Stored(c) = bytes[spool[c].buf]
    BY <1>9 DEF Stored
  <2>b. data = Append(Stored(c), chunk)
    BY <2>a
  <2> HIDE DEF data
  <2>4. s1 \in Holding(S) /\ s1.stage = "writing" /\ s1.buf = NoBuffer /\ s1.onDisk /\ s1.data = data
    BY <1>5, <2>2 DEF Holding
  <2> HIDE DEF s1
  <2>5. /\ spool' \in [Contents -> Holding(S)] /\ spool'[c] = s1
        /\ \A d \in Contents \ {c} : spool'[d] = spool[d]
    BY <1>4, <2>3, <2>4
  <2>6. /\ pool' \in [Buffers -> Nat] /\ bytes' \in [Buffers -> Seq(S)]
        /\ \A b \in Buffers : pool'[b] \in {0, 1} /\ (pool'[b] = 1 => bytes'[b] = <<>>)
        /\ \A b \in Buffers : b # spool[c].buf => pool'[b] = pool[b] /\ bytes'[b] = bytes[b]
    BY <1>2, <1>9, <2>1, PutBuffer
  <2>7. Typed(S)'
    BY <2>5, <2>6 DEF Typed
  <2>8. BuffersApart'
    BY <2>4, <2>5, <2>6, SpoolAssumption, StillApart
  <2>9. OnlyIn(c)
    BY <2>5, <2>6 DEF OnlyIn
  <2>10. HasStore(c)' /\ Stored(c)' = Append(Stored(c), chunk)
    BY <2>b, <2>4, <2>5 DEF HasStore, Stored
  <2>11. \A b \in Buffers : pool'[b] >= pool[b]
    <3>1. pool[spool[c].buf] = 0
      BY <2>1 DEF SpoolInv, BuffersApart
    <3> QED
      BY <1>4, <2>6, <3>1
  <2> QED
    BY <2>4, <2>5, <2>7, <2>8, <2>9, <2>10, <2>11 DEF SpoolInv
<1> QED
  BY <1>7, <1>8, <1>9 DEF Write

\* What WriteFails leaves of a content is only closed.
LEMMA FailContent ==
  ASSUME SpoolInv, NEW c \in Contents, HasStore(c), WriteFails(c)
  PROVE  /\ SpoolInv' /\ OnlyIn(c) /\ spool'[c].stage = "writing"
         /\ \A b \in Buffers : pool'[b] >= pool[b]
<1>1. PICK S : Typed(S)
  BY DEF SpoolInv
<1>2. /\ spool \in [Contents -> Holding(S)] /\ bytes \in [Buffers -> Seq(S)]
      /\ pool \in [Buffers -> Nat]
  BY <1>1 DEF Typed
<1>3. spool[c] \in Holding(S) /\ spool[c].stage = "writing"
  BY <1>2 DEF WriteFails
<1>4. CASE UNCHANGED <<spool, bytes, pool>>
  <2>1. SpoolInv'
    BY <1>4 DEF SpoolInv, Typed, BuffersApart
  <2> QED
    BY <1>2, <1>3, <1>4, <2>1 DEF OnlyIn
<1>5. CASE ~spool[c].onDisk /\ spool' = [spool EXCEPT ![c].buf = NoBuffer] /\ Put(spool[c].buf)
  <2> DEFINE s1 == [spool[c] EXCEPT !.buf = NoBuffer]
  <2>1. spool[c].buf \in Buffers
    BY <1>3, <1>5 DEF HasStore, Holding
  <2>2. /\ pool' \in [Buffers -> Nat] /\ bytes' \in [Buffers -> Seq(S)]
        /\ \A b \in Buffers : pool'[b] \in {0, 1} /\ (pool'[b] = 1 => bytes'[b] = <<>>)
        /\ \A b \in Buffers : b # spool[c].buf => pool'[b] = pool[b] /\ bytes'[b] = bytes[b]
    BY <1>1, <1>5, <2>1, PutBuffer
  <2>3. s1 \in Holding(S) /\ s1.stage = "writing" /\ s1.buf = NoBuffer
    BY <1>3 DEF Holding
  <2>4. spool' = [spool EXCEPT ![c] = s1]
    BY <1>5
  <2> HIDE DEF s1
  <2>5. /\ spool' \in [Contents -> Holding(S)] /\ spool'[c] = s1
        /\ \A d \in Contents \ {c} : spool'[d] = spool[d]
    BY <1>2, <2>3, <2>4
  <2>6. Typed(S)'
    BY <2>2, <2>5 DEF Typed
  <2>7. BuffersApart'
    BY <2>2, <2>3, <2>5, SpoolAssumption, StillApart
  <2>8. OnlyIn(c)
    BY <2>2, <2>5 DEF OnlyIn
  <2>9. \A b \in Buffers : pool'[b] >= pool[b]
    <3>1. pool[spool[c].buf] = 0
      BY <2>1 DEF SpoolInv, BuffersApart
    <3> QED
      BY <1>2, <2>2, <3>1
  <2> QED
    BY <2>3, <2>5, <2>6, <2>7, <2>8, <2>9 DEF SpoolInv
<1> QED
  BY <1>4, <1>5 DEF WriteFails, spoolVars

LEMMA ReadContentTo ==
  ASSUME SpoolInv, NEW c \in Contents, NEW n \in Nat, ReadTo(c, n)
  PROVE  /\ SpoolInv' /\ OnlyIn(c) /\ pool' = pool
         /\ spool'[c].stage = "reading" /\ spool'[c].at = n
         /\ HasStore(c)' /\ Stored(c)' = Stored(c)
<1>1. PICK S : Typed(S)
  BY DEF SpoolInv
<1>2. spool' = [spool EXCEPT ![c].stage = "reading", ![c].at = n] /\ UNCHANGED <<bytes, pool>> /\ HasStore(c)
  BY DEF ReadTo
<1>3. spool \in [Contents -> Holding(S)]
  BY <1>1 DEF Typed
<1> DEFINE s1 == [spool[c] EXCEPT !.stage = "reading", !.at = n]
<1>4. /\ s1 \in Holding(S) /\ s1.stage = "reading" /\ s1.at = n /\ s1.buf = spool[c].buf
      /\ s1.onDisk = spool[c].onDisk /\ s1.data = spool[c].data
  BY <1>3 DEF Holding
<1>5. spool' = [spool EXCEPT ![c] = s1]
  BY <1>2
<1> HIDE DEF s1
<1>6. /\ spool' \in [Contents -> Holding(S)] /\ spool'[c] = s1
      /\ \A d \in Contents \ {c} : spool'[d] = spool[d]
  BY <1>3, <1>4, <1>5
<1>7. Typed(S)'
  BY <1>1, <1>2, <1>6 DEF Typed
<1>8. BuffersApart'
  <2>1. spool[c].buf \in Buffers => pool[spool[c].buf] = 0
    BY DEF SpoolInv, BuffersApart
  <2> QED
    BY <1>2, <1>4, <1>6, <2>1, SpoolFacts, StillApart
<1> QED
  BY <1>2, <1>4, <1>6, <1>7, <1>8 DEF SpoolInv, OnlyIn, HasStore, Stored

LEMMA CloseContentOf ==
  ASSUME SpoolInv, NEW c \in Contents, Close(c) \/ RemoveFails(c)
  PROVE  /\ SpoolInv' /\ OnlyIn(c) /\ spool'[c].stage = "closed"
         /\ \A b \in Buffers : pool'[b] >= pool[b]
<1>1. PICK S : Typed(S)
  BY DEF SpoolInv
<1>2. /\ spool \in [Contents -> Holding(S)] /\ bytes \in [Buffers -> Seq(S)]
      /\ pool \in [Buffers -> Nat]
  BY <1>1 DEF Typed
<1>3. spool[c].buf \in Buffers \cup {NoBuffer}
  BY <1>2 DEF Holding
<1>4. CASE Close(c)
  <2> DEFINE s1 == [Unused EXCEPT !.stage = "closed"]
  <2>1. s1 \in Holding(S) /\ s1.stage = "closed" /\ s1.buf = NoBuffer
    BY UnusedIsHolding DEF Holding
  <2>2. spool' = [spool EXCEPT ![c] = s1]
    BY <1>4 DEF Close
  <2> HIDE DEF s1
  <2>3. /\ spool' \in [Contents -> Holding(S)] /\ spool'[c] = s1
        /\ \A d \in Contents \ {c} : spool'[d] = spool[d]
    BY <1>2, <2>1, <2>2
  <2>4. CASE spool[c].buf # NoBuffer
    <3>1. spool[c].buf \in Buffers /\ Put(spool[c].buf)
      BY <1>3, <1>4, <2>4 DEF Close
    <3>2. /\ pool' \in [Buffers -> Nat] /\ bytes' \in [Buffers -> Seq(S)]
          /\ \A b \in Buffers : pool'[b] \in {0, 1} /\ (pool'[b] = 1 => bytes'[b] = <<>>)
          /\ \A b \in Buffers : b # spool[c].buf => pool'[b] = pool[b] /\ bytes'[b] = bytes[b]
      BY <1>1, <3>1, PutBuffer
    <3>3. Typed(S)'
      BY <2>3, <3>2 DEF Typed
    <3>4. BuffersApart'
      BY <2>1, <2>3, <3>2, SpoolAssumption, StillApart
    <3>5. OnlyIn(c)
      BY <2>3, <3>2 DEF OnlyIn
    <3>6. \A b \in Buffers : pool'[b] >= pool[b]
      <4>1. pool[spool[c].buf] = 0
        BY <3>1 DEF SpoolInv, BuffersApart
      <4> QED
        BY <1>2, <3>2, <4>1
    <3> QED
      BY <2>1, <2>3, <3>3, <3>4, <3>5, <3>6 DEF SpoolInv
  <2>5. CASE spool[c].buf = NoBuffer
    <3>1. UNCHANGED <<bytes, pool>>
      BY <1>4, <2>5 DEF Close
    <3>2. Typed(S)'
      BY <1>2, <2>3, <3>1 DEF Typed
    <3>3. BuffersApart'
      BY <2>1, <2>3, <3>1, SpoolFacts, SpoolAssumption, StillApart
    <3> QED
      BY <1>2, <2>1, <2>3, <3>1, <3>2, <3>3 DEF SpoolInv, OnlyIn
  <2> QED
    BY <2>4, <2>5
<1>5. CASE RemoveFails(c)
  <2> DEFINE s1 == [spool[c] EXCEPT !.stage = "closed"]
  <2>1. s1 \in Holding(S) /\ s1.stage = "closed" /\ s1.buf = spool[c].buf
    BY <1>2 DEF Holding
  <2>2. spool' = [spool EXCEPT ![c] = s1] /\ UNCHANGED <<bytes, pool>>
    BY <1>5 DEF RemoveFails
  <2> HIDE DEF s1
  <2>3. /\ spool' \in [Contents -> Holding(S)] /\ spool'[c] = s1
        /\ \A d \in Contents \ {c} : spool'[d] = spool[d]
    BY <1>2, <2>1, <2>2
  <2>4. Typed(S)'
    BY <1>2, <2>2, <2>3 DEF Typed
  <2>5. \A d \in Contents : spool'[d].buf = spool[d].buf
    BY <2>1, <2>3
  <2>6. BuffersApart'
    BY <2>2, <2>5 DEF SpoolInv, BuffersApart
  <2> QED
    BY <1>2, <2>1, <2>2, <2>3, <2>4, <2>6 DEF SpoolInv, OnlyIn
<1> QED
  BY <1>4, <1>5

(***************************************************************************)
(* readUntilDelim.                                                         *)
(***************************************************************************)

LEMMA LeastNumber ==
  ASSUME NEW S \in SUBSET Nat, S # {}
  PROVE  LET m == CHOOSE c \in S : \A d \in S : c <= d IN m \in S /\ \A d \in S : m <= d
<1>1. IsWellFoundedOn(OpToRel(<, Nat), Nat)
  BY NatLessThanWellFounded
<1>2. PICK x \in S : \A y \in S : ~(<<y, x>> \in OpToRel(<, Nat))
  BY <1>1, WFMin
<1>3. \A y \in S : ~(y < x)
  BY <1>2 DEF OpToRel
<1>4. \A y \in S : x <= y
  BY <1>3
<1> QED
  BY <1>4

LEMMA Induction ==
  ASSUME NEW S \in SUBSET Nat, 0 \in S, \A n \in S : n + 1 \in S
  PROVE  S = Nat
<1> SUFFICES ASSUME Nat \ S # {} PROVE FALSE
  OBVIOUS
<1> DEFINE m == CHOOSE c \in Nat \ S : \A d \in Nat \ S : c <= d
<1>1. m \in Nat \ S
  BY LeastNumber
<1>2. \A d \in Nat \ S : m <= d
  BY LeastNumber
<1> HIDE DEF m
<1>3. m - 1 \in Nat
  BY <1>1
<1>4. m - 1 \in S
  BY <1>1, <1>2, <1>3
<1>5. (m - 1) + 1 \in S
  BY <1>4
<1> QED
  BY <1>1, <1>5


\* Where a line that starts after p may end, and what the first end of it is.
LineEnds(t, p) == {i \in 1..(Len(t) - 1) : i > p /\ t[i] = CR /\ t[i + 1] = LF}

IsFirstEnd(t, p, found) ==
    IF LineEnds(t, p) = {} THEN found = NotFound
    ELSE /\ found.line \in LineEnds(t, p) /\ \A i \in LineEnds(t, p) : found.line <= i
         /\ found.next = found.line + 1

\* A chunk is not empty before the end of the text, and has no LF inside.
LEMMA ChunkFacts ==
  ASSUME NEW S, NEW t \in Seq(S), NEW q \in 0..Len(t)
  PROVE  LET e == ChunkEnd(t, q) IN
         /\ e \in q..Len(t) /\ (e = Len(t) \/ e > q)
         /\ \A i \in (q + 1)..(e - 1) : t[i] # LF
<1> DEFINE n == Len(t)
           Is(e) == /\ e = n \/ e = q + BufSize \/ (e > q /\ t[e] = LF)
                    /\ \A i \in (q + 1)..(e - 1) : t[i] # LF /\ i # q + BufSize
<1>0. n \in Nat /\ q \in Nat /\ q <= n /\ BufSize \in Nat /\ BufSize > 0
  BY ReaderAssumption
<1> HIDE DEF n
<1>1. \E e \in q..n : Is(e)
  <2>1. CASE q = n
    BY <1>0, <2>1
  <2>2. CASE q < n
    <3> DEFINE E == {e \in (q + 1)..n : e = n \/ e = q + BufSize \/ t[e] = LF}
               m == CHOOSE c \in E : \A d \in E : c <= d
    <3>1. E \in SUBSET Nat /\ n \in E
      BY <1>0, <2>2
    <3>2. m \in E /\ \A d \in E : m <= d
      BY <3>1, LeastNumber
    <3> HIDE DEF m
    <3>3. m \in q..n /\ m > q /\ (m = n \/ m = q + BufSize \/ t[m] = LF)
      BY <1>0, <3>2
    <3>4. ASSUME NEW i \in (q + 1)..(m - 1) PROVE t[i] # LF /\ i # q + BufSize
      <4>1. i \in (q + 1)..n /\ i < m
        BY <1>0, <3>3
      <4>2. i \notin E
        BY <1>0, <3>2, <3>3, <4>1
      <4> QED
        BY <4>1, <4>2
    <3> QED
      BY <3>3, <3>4
  <2> QED
    BY <1>0, <2>1, <2>2
<1>2. ChunkEnd(t, q) = CHOOSE e \in q..n : Is(e)
  BY DEF ChunkEnd, n
<1>3. ChunkEnd(t, q) \in q..n /\ Is(ChunkEnd(t, q))
  BY <1>1, <1>2
<1>4. ChunkEnd(t, q) = n \/ ChunkEnd(t, q) > q
  BY <1>0, <1>3
<1> QED
  BY <1>3, <1>4 DEF n

\* A function that is given at some places and elsewhere looks further on.
LooksOn(f, n, p, stop, val, next) ==
    f = [q \in p..n |-> IF stop[q] THEN val[q] ELSE f[next[q]]]

LEMMA LookingOn ==
  ASSUME NEW n \in Nat, NEW p \in 0..n, NEW stop \in [p..n -> BOOLEAN], NEW val, NEW next,
         \A q \in p..n : stop[q] \/ next[q] \in (q + 1)..n
  PROVE  \E f : LooksOn(f, n, p, stop, val, next)
<1> DEFINE Is(f, k) == f = [q \in (n - k)..n |-> IF stop[q] THEN val[q] ELSE f[next[q]]]
           S == {k \in Nat : k <= n - p => \E f : Is(f, k)}
<1>1. 0 \in S
  <2>1. stop[n]
    <3>1. n \in p..n /\ ~(next[n] \in (n + 1)..n)
      OBVIOUS
    <3> QED
      BY <3>1
  <2> DEFINE f == [q \in (n - 0)..n |-> val[n]]
  <2>2. \A q \in (n - 0)..n : q = n
    OBVIOUS
  <2>3. f = [q \in (n - 0)..n |-> IF stop[q] THEN val[q] ELSE f[next[q]]]
    BY <2>1, <2>2
  <2> HIDE DEF f
  <2>4. Is(f, 0)
    BY <2>3
  <2> QED
    BY <2>4
<1>2. ASSUME NEW k \in S PROVE k + 1 \in S
  <2> SUFFICES ASSUME k + 1 <= n - p PROVE \E h : Is(h, k + 1)
    OBVIOUS
  <2>1. k <= n - p
    OBVIOUS
  <2>2. PICK f : Is(f, k)
    BY <2>1
  <2> DEFINE a == n - k
             b == n - (k + 1)
             h == [q \in b..n |-> IF q >= a THEN f[q] ELSE IF stop[q] THEN val[q] ELSE f[next[q]]]
  <2>3. a \in p..n /\ b \in p..n /\ b + 1 = a
    BY <2>1
  <2>4. f = [q \in a..n |-> IF stop[q] THEN val[q] ELSE f[next[q]]]
    BY <2>2
  <2> HIDE DEF a, b
  <2>5. \A q \in a..n : f[q] = IF stop[q] THEN val[q] ELSE f[next[q]]
    BY <2>4
  <2>6. \A q \in a..n : h[q] = f[q]
    BY <2>3
  <2>7. \A q \in b..n : q \in p..n /\ (q >= a \/ q = b) /\ (q >= a => q \in a..n)
    BY <2>3
  <2>8. \A q \in b..n : ~stop[q] => next[q] \in a..n
    <3> TAKE q \in b..n
    <3>1. ~stop[q] => next[q] \in (q + 1)..n
      BY <2>7
    <3> QED
      BY <2>3, <2>7, <3>1
  <2>9. \A q \in b..n : h[q] = IF q >= a THEN f[q] ELSE IF stop[q] THEN val[q] ELSE f[next[q]]
    OBVIOUS
  <2>10. h = [q \in b..n |-> h[q]]
    OBVIOUS
  <2> HIDE DEF h
  <2>11. ASSUME NEW q \in b..n
         PROVE  h[q] = IF stop[q] THEN val[q] ELSE h[next[q]]
    <3>1. ~stop[q] => h[next[q]] = f[next[q]]
      BY <2>6, <2>8
    <3>2. CASE q >= a
      BY <2>5, <2>6, <2>7, <3>1, <3>2
    <3>3. CASE ~(q >= a)
      BY <2>9, <3>1, <3>3
    <3> QED
      BY <3>2, <3>3
  <2>12. h = [q \in b..n |-> IF stop[q] THEN val[q] ELSE h[next[q]]]
    BY <2>10, <2>11
  <2>13. Is(h, k + 1)
    BY <2>12 DEF b
  <2> QED
    BY <2>13
<1> HIDE DEF S
<1>3. n - p \in S
  <2>1. S = Nat
    BY <1>1, <1>2, Induction DEF S
  <2> QED
    BY <2>1
<1>4. PICK f : Is(f, n - p)
  BY <1>3 DEF S
<1>5. n - (n - p) = p
  OBVIOUS
<1> QED
  BY <1>4, <1>5 DEF LooksOn

(* readUntilDelim, on any text, from any place and with a buffer of any size: it
   finds the first CR LF there is, also when the buffer ends between the two,
   and what follows starts right after it. *)
THEOREM UntilDelimIsFirstEnd ==
  ASSUME NEW S, NEW t \in Seq(S), NEW p \in 0..Len(t)
  PROVE  IsFirstEnd(t, p, UntilDelim(t, p))
<1> DEFINE n == Len(t)
           Ends(q, e) == {i \in 1..(n - 1) : /\ i > p /\ i > q - Overlap /\ i < e
                                             /\ t[i] = CR /\ t[i + 1] = LF}
           Scan[q \in p..n] ==
               LET e == ChunkEnd(t, q) IN
               CASE Ends(q, e) # {} -> [line |-> CHOOSE i \in Ends(q, e) : TRUE, next |-> e]
                 [] Ends(q, e) = {} /\ e = n -> NotFound
                 [] OTHER -> Scan[e]
           next == [q \in p..n |-> ChunkEnd(t, q)]
           stop == [q \in p..n |-> Ends(q, next[q]) # {} \/ next[q] = n]
           val  == [q \in p..n |-> IF Ends(q, next[q]) # {}
                                   THEN [line |-> CHOOSE i \in Ends(q, next[q]) : TRUE, next |-> next[q]]
                                   ELSE NotFound]
           G(f) == [q \in p..n |->
                       LET e == ChunkEnd(t, q) IN
                       CASE Ends(q, e) # {} -> [line |-> CHOOSE i \in Ends(q, e) : TRUE, next |-> e]
                         [] Ends(q, e) = {} /\ e = n -> NotFound
                         [] OTHER -> f[e]]
<1>1. UntilDelim(t, p) = Scan[p]
  BY DEF UntilDelim
<1>2. n \in Nat /\ p \in 0..n
  OBVIOUS
<1>3. \A q \in p..n : /\ next[q] \in q..n /\ (next[q] = n \/ next[q] > q)
                      /\ \A i \in (q + 1)..(next[q] - 1) : t[i] # LF
  <2> TAKE q \in p..n
  <2>1. q \in 0..Len(t)
    OBVIOUS
  <2> QED
    BY <2>1, ChunkFacts
<1>4. stop \in [p..n -> BOOLEAN] /\ \A q \in p..n : stop[q] \/ next[q] \in (q + 1)..n
  <2>1. stop \in [p..n -> BOOLEAN]
    OBVIOUS
  <2>2. \A q \in p..n : next[q] = n => stop[q]
    OBVIOUS
  <2> HIDE DEF n, next, stop
  <2> QED
    BY <1>2, <1>3, <2>1, <2>2
<1>5. PICK f : f = [q \in p..n |-> IF stop[q] THEN val[q] ELSE f[next[q]]]
  <2> HIDE DEF n, next, stop, val
  <2>1. \E f : LooksOn(f, n, p, stop, val, next)
    BY <1>2, <1>4, LookingOn
  <2> QED
    BY <2>1 DEF LooksOn
<1>6. f = G(f)
  <2>1. ASSUME NEW q \in p..n
        PROVE  G(f)[q] = IF stop[q] THEN val[q] ELSE f[next[q]]
    <3> DEFINE e == ChunkEnd(t, q)
    <3>1. next[q] = e
      OBVIOUS
    <3>2. stop[q] = (Ends(q, e) # {} \/ e = n)
      BY <3>1
    <3>3. Ends(q, e) # {} => val[q] = [line |-> CHOOSE i \in Ends(q, e) : TRUE, next |-> e]
      BY <3>1
    <3>4. Ends(q, e) = {} => val[q] = NotFound
      BY <3>1
    <3>5. G(f)[q] = CASE Ends(q, e) # {} -> [line |-> CHOOSE i \in Ends(q, e) : TRUE, next |-> e]
                      [] Ends(q, e) = {} /\ e = n -> NotFound
                      [] OTHER -> f[e]
      OBVIOUS
    <3> HIDE DEF n, next, stop, val, e, Ends, G
    <3> QED
      BY <3>1, <3>2, <3>3, <3>4, <3>5
  <2>2. G(f) = [q \in p..n |-> G(f)[q]]
    OBVIOUS
  <2> HIDE DEF n, next, stop, val, Ends, G
  <2>3. G(f) = [q \in p..n |-> IF stop[q] THEN val[q] ELSE f[next[q]]]
    BY <2>1, <2>2
  <2> QED
    BY <1>5, <2>3
<1>7. Scan = G(Scan)
  <2>1. Scan = CHOOSE g : g = G(g)
    OBVIOUS
  <2> HIDE DEF G, Scan
  <2> QED
    BY <1>6, <2>1
<1>8. \A q \in p..n :
         /\ Ends(q, next[q]) # {} =>
               Scan[q] = [line |-> CHOOSE i \in Ends(q, next[q]) : TRUE, next |-> next[q]]
         /\ Ends(q, next[q]) = {} => Scan[q] = IF next[q] = n THEN NotFound ELSE Scan[next[q]]
  <2> TAKE q \in p..n
  <2> DEFINE e == ChunkEnd(t, q)
  <2>1. next[q] = e
    OBVIOUS
  <2>2. G(Scan)[q] = CASE Ends(q, e) # {} -> [line |-> CHOOSE i \in Ends(q, e) : TRUE, next |-> e]
                       [] Ends(q, e) = {} /\ e = n -> NotFound
                       [] OTHER -> Scan[e]
    <3> HIDE DEF Scan
    <3> QED
      OBVIOUS
  <2> HIDE DEF n, next, e, Ends, G, Scan
  <2> QED
    BY <1>7, <2>1, <2>2
<1> HIDE DEF next, stop, val, G, Scan
\* From the place of a chunk on, if no line ended before it.
<1> DEFINE Right(q) == (\A i \in LineEnds(t, p) : i >= q) => IsFirstEnd(t, p, Scan[q])
<1>9. ASSUME NEW q \in p..n, next[q] < n => Right(next[q])
      PROVE  Right(q)
  <2> SUFFICES ASSUME \A i \in LineEnds(t, p) : i >= q
               PROVE  IsFirstEnd(t, p, Scan[q])
    OBVIOUS
  <2> DEFINE e == next[q]
  <2>1. e \in q..n /\ e \in Nat /\ q \in Nat
    BY <1>2, <1>3
  <2>2. Ends(q, e) = {i \in LineEnds(t, p) : i < e}
    <3>1. \A i \in LineEnds(t, p) : i \in Nat /\ i > q - Overlap
      BY <2>1 DEF LineEnds, Overlap
    <3> QED
      BY <3>1 DEF LineEnds
  <2>3. \A i \in LineEnds(t, p) : i < e => i = e - 1
    <3> SUFFICES ASSUME NEW i \in LineEnds(t, p), i < e, i # e - 1 PROVE FALSE
      OBVIOUS
    <3>1. i \in Nat /\ i >= q /\ t[i + 1] = LF
      BY DEF LineEnds
    <3>2. i + 1 \in (q + 1)..(e - 1)
      BY <2>1, <3>1
    <3> QED
      BY <1>3, <3>1, <3>2
  <2> HIDE DEF Ends, e
  <2>4. CASE Ends(q, e) # {}
    <3>1. e - 1 \in LineEnds(t, p) /\ Ends(q, e) = {e - 1}
      BY <2>2, <2>3, <2>4
    <3>2. Scan[q] = [line |-> e - 1, next |-> e]
      BY <1>8, <2>4, <3>1 DEF e
    <3>3. \A i \in LineEnds(t, p) : e - 1 <= i
      BY <2>1, <2>2, <2>3 DEF LineEnds
    <3> QED
      BY <2>1, <3>1, <3>2, <3>3 DEF IsFirstEnd
  <2>5. CASE Ends(q, e) = {} /\ e = n
    <3>1. LineEnds(t, p) = {}
      BY <2>2, <2>5 DEF LineEnds
    <3> QED
      BY <1>8, <2>5, <3>1 DEF IsFirstEnd, e
  <2>6. CASE Ends(q, e) = {} /\ e # n
    <3>0. \A i \in LineEnds(t, p) : i \in Nat
      BY DEF LineEnds
    <3>1. \A i \in LineEnds(t, p) : i >= e
      BY <2>1, <2>2, <2>6, <3>0
    <3>2. e < n
      BY <2>1, <2>6
    <3>3. IsFirstEnd(t, p, Scan[e])
      BY <1>9, <3>1, <3>2 DEF e
    <3> QED
      BY <1>8, <2>6, <3>3 DEF e
  <2> QED
    BY <2>4, <2>5, <2>6
<1> HIDE DEF Right, Ends
<1>10. \A q \in p..n : Right(q)
  <2> DEFINE Q == {k \in Nat : \A q \in p..n : n - q <= k => Right(q)}
  <2>1. 0 \in Q
    <3> SUFFICES ASSUME NEW q \in p..n, n - q <= 0 PROVE Right(q)
      OBVIOUS
    <3>1. ~(next[q] < n)
      BY <1>2, <1>3
    <3> QED
      BY <1>9, <3>1
  <2>2. ASSUME NEW k \in Q PROVE k + 1 \in Q
    <3> SUFFICES ASSUME NEW q \in p..n, n - q <= k + 1 PROVE Right(q)
      OBVIOUS
    <3>1. ASSUME next[q] < n PROVE next[q] \in p..n /\ n - next[q] <= k
      BY <1>2, <1>3, <3>1
    <3>2. next[q] < n => Right(next[q])
      BY <3>1
    <3> QED
      BY <1>9, <3>2
  <2>0. Q \in SUBSET Nat
    OBVIOUS
  <2> HIDE DEF Q
  <2>3. Q = Nat
    BY <2>0, <2>1, <2>2, Induction
  <2>4. ASSUME NEW q \in p..n PROVE Right(q)
    <3>1. n - q \in Nat
      BY <1>2
    <3>2. n - q \in Q
      BY <2>3, <3>1
    <3> QED
      BY <3>1, <3>2 DEF Q
  <2> QED
    BY <2>4
<1>11. \A i \in LineEnds(t, p) : i >= p
  BY DEF LineEnds
<1>12. p \in p..n
  BY <1>2
<1> QED
  BY <1>1, <1>10, <1>11, <1>12 DEF Right

(***************************************************************************)
(* The text of a member, and the lines of its header.                      *)
(***************************************************************************)

\* A text that is like another up to where its content ends.
LEMMA LikeText ==
  ASSUME NEW S, NEW t \in Seq(S), NEW h, NEW content, Len(content) \in Nat, DOMAIN content = 1..Len(content),
         IsText(t, h, content),
         NEW u \in Seq(S), Len(u) >= h - 1,
         \A i \in 1..Len(u) : i <= h + Len(content) => u[i] = t[i]
  PROVE  BeginsWith(u, h, content)
<1>1. /\ h \in Nat /\ h >= 8 /\ Len(u) \in Nat
      /\ t[h - 3] = CR /\ t[h - 2] = LF /\ t[h - 1] = CR /\ t[h] = LF
      /\ \A i \in 1..(h - 3) : ~(t[i] = LF /\ t[i + 1] = CR)
      /\ \A i \in 2..(h - 1) : t[i].sym = "length" => t[i] = Length(Len(content))
      /\ \A i \in DOMAIN content : t[h + i].sym = content[i]
  BY DEF IsText
<1>2. \A i \in 1..(h - 1) : u[i] = t[i]
  BY <1>1
<1>3. h \in DOMAIN u => u[h] = t[h]
  BY <1>1
<1>4. \A i \in DOMAIN content : h + i \in DOMAIN u => u[h + i] = t[h + i]
  <2> SUFFICES ASSUME NEW i \in DOMAIN content, h + i \in DOMAIN u PROVE u[h + i] = t[h + i]
    OBVIOUS
  <2>1. i \in 1..Len(content)
    OBVIOUS
  <2>2. h + i \in 1..Len(u) /\ h + i <= h + Len(content)
    BY <1>1, <2>1
  <2> QED
    BY <2>2
<1>5. \A i \in 1..(h - 3) : ~(u[i] = LF /\ u[i + 1] = CR)
  <2> TAKE i \in 1..(h - 3)
  <2>1. i \in 1..(h - 1) /\ i + 1 \in 1..(h - 1)
    BY <1>1
  <2> QED
    BY <1>1, <1>2, <2>1
<1>6. h - 3 \in 1..(h - 1) /\ h - 2 \in 1..(h - 1) /\ h - 1 \in 1..(h - 1) /\ h \in 4..(Len(u) + 1)
  BY <1>1
<1>7. \A i \in 2..(h - 1) : u[i].sym = "length" => u[i] = Length(Len(content))
  BY <1>1, <1>2
<1> QED
  BY <1>1, <1>2, <1>3, <1>4, <1>5, <1>6, <1>7 DEF BeginsWith

\* The line of the version without its CR.
LEMMA BareText ==
  ASSUME NEW S, NEW t \in Seq(S), NEW h, NEW content, Len(content) \in Nat, DOMAIN content = 1..Len(content),
         IsText(t, h, content)
  PROVE  LET u == <<t[1]>> \o SubSeq(t, 3, Len(t)) IN u \in Seq(S) /\ BeginsWith(u, h - 1, content)
<1> DEFINE v == SubSeq(t, 3, Len(t))
           w == <<t[1]>>
           u == w \o v
           m == Len(content)
<1>1. /\ h \in Nat /\ h >= 8 /\ Len(t) = h + m + 4 /\ t[1] # LF
      /\ t[h - 3] = CR /\ t[h - 2] = LF /\ t[h - 1] = CR /\ t[h] = LF
      /\ \A i \in 1..(h - 3) : ~(t[i] = LF /\ t[i + 1] = CR)
      /\ \A i \in 2..(h - 1) : t[i].sym = "length" => t[i] = Length(m)
      /\ \A i \in DOMAIN content : t[h + i].sym = content[i]
  BY DEF IsText
<1>2. v \in Seq(S) /\ Len(v) = h + m + 2 /\ \A i \in 1..(h + m + 2) : v[i] = t[i + 2]
  BY <1>1
<1>3. w \in Seq(S) /\ Len(w) = 1 /\ w[1] = t[1]
  BY <1>1
<1> HIDE DEF v, w
<1>4. u \in Seq(S) /\ Len(u) = h + m + 3 /\ u[1] = t[1] /\ \A i \in 1..(h + m + 2) : u[1 + i] = v[i]
  <2>1. /\ u \in Seq(S) /\ Len(u) = Len(w) + Len(v)
        /\ \A i \in 1..Len(w) : u[i] = w[i]
        /\ \A i \in 1..Len(v) : u[Len(w) + i] = v[i]
    <3>1. v \in Seq(S) /\ w \in Seq(S)
      BY <1>2, <1>3
    <3> QED
      BY <3>1, Joined
  <2>2. 1 \in 1..Len(w)
    BY <1>3
  <2> QED
    BY <1>1, <1>2, <1>3, <2>1, <2>2
<1> HIDE DEF u, m
<1>5. m \in Nat /\ DOMAIN content = 1..m
  BY DEF m
<1>6. \A j \in 2..(h + m + 3) : u[j] = t[j + 1]
  <2> TAKE j \in 2..(h + m + 3)
  <2>1. j - 1 \in 1..(h + m + 2) /\ 1 + (j - 1) = j /\ (j - 1) + 2 = j + 1
    BY <1>1, <1>5
  <2> QED
    BY <1>2, <1>4, <2>1
<1>7. u[h - 4] = CR /\ u[h - 3] = LF /\ u[h - 2] = CR /\ u[h - 1] = LF
  <2>1. /\ h - 4 \in 2..(h + m + 3) /\ h - 3 \in 2..(h + m + 3) /\ h - 2 \in 2..(h + m + 3)
        /\ h - 1 \in 2..(h + m + 3)
        /\ (h - 4) + 1 = h - 3 /\ (h - 3) + 1 = h - 2 /\ (h - 2) + 1 = h - 1 /\ (h - 1) + 1 = h
    BY <1>1, <1>5
  <2> QED
    BY <1>1, <1>6, <2>1
<1>8. \A i \in 1..(h - 4) : ~(u[i] = LF /\ u[i + 1] = CR)
  <2> TAKE i \in 1..(h - 4)
  <2>1. CASE i = 1
    BY <1>1, <1>4, <2>1
  <2>2. CASE i # 1
    <3>1. /\ i \in 2..(h + m + 3) /\ i + 1 \in 2..(h + m + 3) /\ i + 1 \in 1..(h - 3)
      BY <1>1, <1>5, <2>2
    <3>2. u[i] = t[i + 1] /\ u[i + 1] = t[(i + 1) + 1]
      BY <1>6, <3>1
    <3> QED
      BY <1>1, <3>1, <3>2
  <2> QED
    BY <2>1, <2>2
<1>9. \A i \in 2..(h - 2) : u[i].sym = "length" => u[i] = Length(m)
  <2> TAKE i \in 2..(h - 2)
  <2>1. i \in 2..(h + m + 3) /\ i + 1 \in 2..(h - 1)
    BY <1>1, <1>5
  <2> QED
    BY <1>1, <1>6, <2>1
<1>10. \A i \in DOMAIN content : u[(h - 1) + i].sym = content[i]
  <2> TAKE i \in DOMAIN content
  <2>1. (h - 1) + i \in 2..(h + m + 3) /\ ((h - 1) + i) + 1 = h + i
    BY <1>1, <1>5
  <2> QED
    BY <1>1, <1>6, <2>1
<1>11. BeginsWith(u, h - 1, content)
  <2>1. h - 1 \in 4..(Len(u) + 1)
    BY <1>1, <1>4, <1>5
  <2>2. u[(h - 1) - 3] = CR /\ u[(h - 1) - 2] = LF /\ u[(h - 1) - 1] = CR /\ u[h - 1] = LF
    BY <1>1, <1>7
  <2>3. (h - 1) - 3 = h - 4 /\ (h - 1) - 1 = h - 2
    BY <1>1
  <2> QED
    BY <1>8, <1>9, <1>10, <2>1, <2>2, <2>3 DEF BeginsWith, m
<1> QED
  BY <1>4, <1>11 DEF u, v, w

LEMMA MemberText ==
  ASSUME NEW r, IsWritten(r)
  PROVE  LET u == MemberOf(r).text IN
         \E S : u \in Seq(S) /\ (u = <<>> \/ \E h : BeginsWith(u, h, r.content))
<1> DEFINE t == Render(r)
           m == Len(r.content)
           u == MemberOf(r).text
<1>1. PICK S, h : t \in Seq(S) /\ IsText(t, h, r.content)
  BY RenderFacts
<1>2. u = CASE r.damage = "torn"   -> SubSeq(t, 1, Len(t) - 5)
            [] r.damage = "bare"   -> <<t[1]>> \o SubSeq(t, 3, Len(t))
            [] r.damage = "short"  -> SubSeq(t, 1, Len(t) - 2)
            [] r.damage = "double" -> t \o t
            [] r.damage \in {"empty", "junk"} -> <<>>
            [] OTHER -> t
  BY DEF MemberOf
<1> HIDE DEF t, u
<1>3. m \in Nat /\ DOMAIN r.content = 1..m
  BY DEF IsWritten
<1>4. h \in Nat /\ h >= 8 /\ Len(t) = h + m + 4
  BY <1>1 DEF IsText
<1> HIDE DEF m
<1>5. ASSUME NEW n \in {2, 5}
      PROVE  LET s == SubSeq(t, 1, Len(t) - n) IN s \in Seq(S) /\ BeginsWith(s, h, r.content)
  <2> DEFINE s == SubSeq(t, 1, Len(t) - n)
  <2>1. s \in Seq(S) /\ Len(s) = h + m + 4 - n /\ \A i \in 1..Len(s) : s[i] = t[i]
    BY <1>1, <1>3, <1>4
  <2> HIDE DEF s
  <2>2. Len(s) >= h - 1
    BY <1>3, <1>4, <2>1
  <2>3. BeginsWith(s, h, r.content)
    BY <1>1, <1>3, <2>1, <2>2, LikeText DEF m
  <2> QED
    BY <2>1, <2>3 DEF s
<1>6. t \o t \in Seq(S) /\ BeginsWith(t \o t, h, r.content)
  <2> DEFINE s == t \o t
  <2>1. s \in Seq(S) /\ Len(s) = Len(t) + Len(t) /\ \A i \in 1..Len(t) : s[i] = t[i]
    <3>1. t \in Seq(S)
      BY <1>1
    <3> QED
      BY <3>1, Joined
  <2> HIDE DEF s
  <2>2. Len(s) >= h - 1 /\ \A i \in 1..Len(s) : i <= h + m => s[i] = t[i]
    BY <1>3, <1>4, <2>1
  <2>3. BeginsWith(s, h, r.content)
    BY <1>1, <1>3, <2>1, <2>2, LikeText DEF m
  <2> QED
    BY <2>1, <2>3 DEF s
<1>7. BeginsWith(t, h, r.content)
  BY <1>1, <1>3, <1>4, LikeText DEF m
<1>8. LET s == <<t[1]>> \o SubSeq(t, 3, Len(t)) IN s \in Seq(S) /\ BeginsWith(s, h - 1, r.content)
  BY <1>1, <1>3, BareText DEF m
<1>9. <<>> \in Seq(S)
  OBVIOUS
<1>10. u \in Seq(S) /\ (u = <<>> \/ \E k : BeginsWith(u, k, r.content))
  <2>1. CASE r.damage = "torn"
    BY <1>2, <1>5, <2>1
  <2>2. CASE r.damage = "bare"
    BY <1>2, <1>8, <2>2
  <2>3. CASE r.damage = "short"
    BY <1>2, <1>5, <2>3
  <2>4. CASE r.damage = "double"
    BY <1>2, <1>6, <2>4
  <2>5. CASE r.damage \in {"empty", "junk"}
    BY <1>2, <1>9, <2>5
  <2>6. CASE r.damage \notin {"torn", "bare", "short", "double", "empty", "junk"}
    BY <1>1, <1>2, <1>7, <2>6
  <2> QED
    BY <2>1, <2>2, <2>3, <2>4, <2>5, <2>6
<1> QED
  BY <1>10 DEF u

\* The first line ends before the header does.
LEMMA VersionLine ==
  ASSUME NEW S, NEW t \in Seq(S), NEW h, NEW content, BeginsWith(t, h, content)
  PROVE  LET found == UntilDelim(t, 0) IN
         found # NotFound => found.next \in 1..(h - 2) /\ t[found.next] = LF
<1> DEFINE found == UntilDelim(t, 0)
<1>1. IsFirstEnd(t, 0, found)
  BY UntilDelimIsFirstEnd
<1>2. h \in 4..(Len(t) + 1) /\ t[h - 3] = CR /\ t[h - 2] = LF
  BY DEF BeginsWith
<1> HIDE DEF found
<1>3. h - 3 \in LineEnds(t, 0)
  BY <1>2 DEF LineEnds
<1>4. found.line \in LineEnds(t, 0) /\ found.line <= h - 3 /\ found.next = found.line + 1
  BY <1>1, <1>3 DEF IsFirstEnd
<1> QED
  BY <1>2, <1>4 DEF LineEnds, found

\* From the start of a line of the header to the start of the next one; the
\* empty line is the last.
LEMMA HeaderLine ==
  ASSUME NEW S, NEW t \in Seq(S), NEW h, NEW content, BeginsWith(t, h, content),
         NEW at \in 1..(h - 2), t[at] = LF, UntilDelim(t, at) # NotFound
  PROVE  LET found == UntilDelim(t, at) IN
         /\ found.line \in Nat /\ found.line >= at + 1 /\ found.line <= Len(t)
         /\ found.line = at + 1 => found.next = h /\ h \in 4..Len(t)
         /\ found.line # at + 1 => found.next \in 1..(h - 2) /\ t[found.next] = LF
<1> DEFINE found == UntilDelim(t, at)
<1>1. /\ h \in 4..(Len(t) + 1) /\ t[h - 3] = CR /\ t[h - 2] = LF /\ t[h - 1] = CR
      /\ h \in DOMAIN t => t[h] = LF
      /\ \A i \in 1..(h - 3) : ~(t[i] = LF /\ t[i + 1] = CR)
  BY DEF BeginsWith
<1>2. at \in 0..Len(t)
  BY <1>1
<1>3. IsFirstEnd(t, at, found) /\ found # NotFound
  BY <1>2, UntilDelimIsFirstEnd
<1> HIDE DEF found
<1>4. /\ found.line \in LineEnds(t, at) /\ found.next = found.line + 1
      /\ \A i \in LineEnds(t, at) : found.line <= i
  BY <1>3 DEF IsFirstEnd
<1>5. /\ found.line \in 1..(Len(t) - 1) /\ found.line > at /\ t[found.line] = CR /\ t[found.line + 1] = LF
  BY <1>4 DEF LineEnds
<1>6. CASE at = h - 2
  <2>1. h \in 4..Len(t)
    BY <1>1, <1>5, <1>6
  <2>2. h - 1 \in LineEnds(t, at)
    BY <1>1, <1>6, <2>1 DEF LineEnds
  <2>3. found.line = h - 1
    BY <1>1, <1>4, <1>5, <1>6, <2>2
  <2> QED
    BY <1>1, <1>4, <1>5, <1>6, <2>1, <2>3 DEF found
<1>7. CASE at # h - 2
  <2>1. CR # LF
    BY Symbols
  <2>2. at \in 1..(h - 3) /\ at # h - 3
    BY <1>1, <1>7, <2>1
  <2>3. t[at + 1] # CR
    BY <1>1, <2>2
  <2>4. h - 3 \in LineEnds(t, at)
    BY <1>1, <2>2 DEF LineEnds
  <2>5. found.line <= h - 3 /\ found.line # at + 1
    BY <1>4, <1>5, <2>3, <2>4
  <2>6. found.line \in Nat /\ found.line >= at + 1 /\ found.line <= Len(t)
    BY <1>1, <1>2, <1>5
  <2>7. found.next \in 1..(h - 2) /\ t[found.next] = LF
    BY <1>1, <1>4, <1>5, <2>5
  <2> QED
    BY <2>5, <2>6, <2>7 DEF found
<1> QED
  BY <1>6, <1>7

\* The first line of a record, if there is one.
LEMMA FirstLineFound ==
  ASSUME NEW S, NEW t \in Seq(S), NEW content, t = <<>> \/ \E h : BeginsWith(t, h, content),
         UntilDelim(t, 0) # NotFound
  PROVE  InHeader(t, content, UntilDelim(t, 0).next)
<1>1. CASE t = <<>>
  <2>1. LineEnds(t, 0) = {}
    BY <1>1 DEF LineEnds
  <2>2. IsFirstEnd(t, 0, UntilDelim(t, 0))
    BY UntilDelimIsFirstEnd
  <2> QED
    BY <2>1, <2>2 DEF IsFirstEnd
<1>2. CASE \E h : BeginsWith(t, h, content)
  <2>1. PICK h : BeginsWith(t, h, content)
    BY <1>2
  <2>2. UntilDelim(t, 0).next \in 1..(h - 2) /\ t[UntilDelim(t, 0).next] = LF
    BY <2>1, VersionLine
  <2>3. h \in 4..(Len(t) + 1)
    BY <2>1 DEF BeginsWith
  <2> QED
    BY <2>1, <2>2, <2>3 DEF InHeader
<1> QED
  BY <1>1, <1>2

LEMMA NextLineFound ==
  ASSUME NEW S, NEW t \in Seq(S), NEW C, NEW content \in Seq(C), NEW at, InHeader(t, content, at),
         UntilDelim(t, at) # NotFound
  PROVE  LET found == UntilDelim(t, at)
             line == SubSeq(t, at + 1, found.line - 1)
         IN  /\ line = <<>> => InBody(t, content, <<>>, Len(content), found.next)
             /\ line # <<>> => /\ InHeader(t, content, found.next)
                               /\ line[1].sym = "length" => line[1] = Length(Len(content))
<1> DEFINE found == UntilDelim(t, at)
           line == SubSeq(t, at + 1, found.line - 1)
<1>1. PICK h \in 4..(Len(t) + 1) : BeginsWith(t, h, content) /\ at \in 1..(h - 2) /\ t[at] = LF
  BY DEF InHeader
<1>2. /\ found.line \in Nat /\ found.line >= at + 1 /\ found.line <= Len(t)
      /\ found.line = at + 1 => found.next = h /\ h \in 4..Len(t)
      /\ found.line # at + 1 => found.next \in 1..(h - 2) /\ t[found.next] = LF
  BY <1>1, HeaderLine
<1> HIDE DEF found
<1>3. CASE found.line = at + 1
  <2>1. line = <<>>
    BY <1>1, <1>2, <1>3
  <2>2. <<>> = SubSeq(content, 1, 0) /\ Len(content) \in Nat
    OBVIOUS
  <2>3. found.next = h + 0 /\ found.next <= Len(t) /\ h \in 4..Len(t)
    BY <1>2, <1>3
  <2>4. InBody(t, content, <<>>, Len(content), found.next)
    BY <1>1, <2>2, <2>3 DEF InBody
  <2> QED
    BY <2>1, <2>4 DEF found
<1>4. CASE found.line # at + 1
  <2>1. Len(line) >= 1 /\ line[1] = t[at + 1]
    BY <1>1, <1>2, <1>4
  <2>2. InHeader(t, content, found.next)
    BY <1>1, <1>2, <1>4 DEF InHeader
  <2>3. at + 1 \in 2..(h - 1)
    BY <1>1
  <2>4. t[at + 1].sym = "length" => t[at + 1] = Length(Len(content))
    BY <1>1, <2>3 DEF BeginsWith
  <2> HIDE DEF line
  <2>5. line # <<>>
    <3>1. Len(<<>>) = 0
      OBVIOUS
    <3> QED
      BY <2>1, <3>1
  <2>6. /\ line = <<>> => InBody(t, content, <<>>, Len(content), found.next)
        /\ line # <<>> => /\ InHeader(t, content, found.next)
                          /\ line[1].sym = "length" => line[1] = Length(Len(content))
    BY <2>1, <2>2, <2>4, <2>5
  <2> QED
    BY <2>6 DEF found, line
<1> QED
  BY <1>3, <1>4

LEMMA AllIsRead ==
  ASSUME NEW C, NEW content \in Seq(C), NEW t, NEW read, NEW left, NEW at,
         InBody(t, content, read, left, at), left <= 0
  PROVE  read = content
<1>1. PICK n \in 0..Len(content) : read = SubSeq(content, 1, n) /\ left = Len(content) - n
  BY DEF InBody
<1>2. n = Len(content)
  BY <1>1
<1> QED
  BY <1>1, <1>2

LEMMA ChunkIsRead ==
  ASSUME NEW S, NEW t \in Seq(S), NEW C, NEW content \in Seq(C), NEW read, NEW left, NEW at,
         InBody(t, content, read, left, at), ~(left <= 0), at # Len(t)
  PROVE  InBody(t, content, Append(read, t[at + 1].sym), left - 1, at + 1)
<1>1. PICK n \in 0..Len(content), h \in 4..Len(t) :
          /\ BeginsWith(t, h, content) /\ read = SubSeq(content, 1, n)
          /\ left = Len(content) - n /\ at = h + n /\ at <= Len(t)
  BY DEF InBody
<1>2. n + 1 \in 1..Len(content) /\ h + (n + 1) \in 1..Len(t) /\ at + 1 = h + (n + 1)
  BY <1>1
<1>3. t[at + 1].sym = content[n + 1]
  <2>1. \A i \in DOMAIN content : h + i \in DOMAIN t => t[h + i].sym = content[i]
    BY <1>1 DEF BeginsWith
  <2>2. n + 1 \in DOMAIN content /\ h + (n + 1) \in DOMAIN t
    BY <1>2
  <2> QED
    BY <1>2, <2>1, <2>2
<1>4. Append(SubSeq(content, 1, n), content[n + 1]) = SubSeq(content, 1, n + 1)
  BY <1>2
<1>5. left - 1 = Len(content) - (n + 1) /\ at + 1 <= Len(t) /\ n + 1 \in 0..Len(content)
  BY <1>1, <1>2
<1> QED
  BY <1>1, <1>2, <1>3, <1>4, <1>5 DEF InBody

(***************************************************************************)
(* The steps of the reader.                                                *)
(***************************************************************************)

\* The fields of the reader that the steps set are there.
ReaderFields ==
    /\ {"pc", "member", "at", "tell", "left", "lines", "record"} \subseteq DOMAIN rd
    /\ {"version", "header", "content", "offset", "size"} \subseteq DOMAIN rd.record
    /\ FieldNames \subseteq DOMAIN rd.record.header

ReadInv == /\ ReaderFields /\ SpoolInv /\ FilesAreOurs /\ LinesAreFound /\ ContentIsRead /\ ReaderAlone

LEMMA FileFacts ==
  ASSUME FilesAreOurs, pc = "read"
  PROVE  /\ file.format = "short" \/ IsGzip
         /\ IsGzip => /\ Len(file.members) \in Nat /\ DOMAIN file.members = 1..Len(file.members)
                      /\ \A k \in DOMAIN file.members :
                            file.members[k] = MemberOf(file.records[k]) /\ IsWritten(file.records[k])
<1>1. PICK i \in DOMAIN setting.files : file = setting.files[i]
  BY DEF FilesAreOurs, OurFile
<1>2. WrittenFile(file) /\ file.format # "missing"
  BY <1>1, FilesAssumption DEF FilesAreOurs
<1>3. CASE IsGzip
  <2>1. /\ file.records \in Seq({file.records[k] : k \in DOMAIN file.records})
        /\ file.members = [k \in DOMAIN file.records |-> MemberOf(file.records[k])]
        /\ \A k \in DOMAIN file.records : IsWritten(file.records[k])
    BY <1>2, <1>3 DEF WrittenFile, IsGzip
  <2>2. Len(file.records) \in Nat /\ DOMAIN file.records = 1..Len(file.records)
    BY <2>1
  <2>3. DOMAIN file.members = 1..Len(file.records) /\ Len(file.members) = Len(file.records)
    BY <2>1, <2>2
  <2> QED
    BY <1>3, <2>1, <2>2, <2>3
<1> QED
  BY <1>2, <1>3 DEF WrittenFile, IsGzip

\* The text the reader is in, and the content of its record.
LEMMA CurrentText ==
  ASSUME FilesAreOurs, pc = "read", IsGzip, rd.member \in DOMAIN file.members
  PROVE  /\ \E S : Text \in Seq(S) /\ (Text = <<>> \/ \E h : BeginsWith(Text, h, Content))
         /\ \E C : Content \in Seq(C)
<1> DEFINE r == file.records[rd.member]
<1>1. file.members[rd.member] = MemberOf(r) /\ IsWritten(r)
  BY FileFacts
<1>2. Text = MemberOf(r).text /\ Content = r.content
  BY <1>1 DEF Text, Member, Content
<1> HIDE DEF r
<1>3. \E S : MemberOf(r).text \in Seq(S) /\ (MemberOf(r).text = <<>> \/ \E h : BeginsWith(MemberOf(r).text, h, r.content))
  BY <1>1, MemberText
<1>4. r.content \in Seq({r.content[i] : i \in DOMAIN r.content})
  BY <1>1 DEF IsWritten
<1> QED
  BY <1>2, <1>3, <1>4

\* A task keeps its content.
Untouched == \A d \in Contents : task[d].pc # "none" =>
                 /\ spool'[d] = spool[d] /\ HasStore(d)' = HasStore(d) /\ Position(d)' = Position(d)
                 /\ HasStore(d) => Stored(d)' = Stored(d)

\* A step that leaves the contents alone.
LEMMA ReadQuiet ==
  ASSUME ReadInv, pc = "read", pc' = "read", UNCHANGED <<file, setting, todo, task>>, UNCHANGED spoolVars,
         ReaderFields', rd'.member \in Nat,
         rd'.pc \in {"version", "header", "boundary", "drain", "got"} =>
             IsGzip /\ rd'.member \in DOMAIN file.members,
         rd'.pc \in {"version", "header"} =>
             LET l == rd'.record.header["length"] IN
             l.sym = "length" => l = Length(Len(file.records[rd'.member].content)),
         rd'.pc = "version" => rd'.at = 0,
         rd'.pc = "header" =>
             InHeader(file.members[rd'.member].text, file.records[rd'.member].content, rd'.at),
         rd'.pc # "content",
         rd'.pc \in InContent => rd.pc \in InContent \ {"close"} /\ rd'.record.content = rd.record.content,
         rd'.pc \in {"boundary", "drain", "got"} =>
             rd'.member = rd.member /\ Stored(rd.record.content) = Content
  PROVE  ReadInv' /\ Untouched
<1>1. UNCHANGED <<spool, bytes, pool>>
  BY DEF spoolVars
<1>2. SpoolInv' /\ Untouched
  BY <1>1 DEF ReadInv, SpoolInv, Typed, BuffersApart, Untouched, HasStore, Stored, Position
<1>3. FilesAreOurs'
  BY DEF ReadInv, FilesAreOurs, OurFile
<1>4. LinesAreFound'
  BY DEF LinesAreFound, LengthIsTrue, Content, Text, Member, IsGzip
<1>5. ContentIsRead'
  <2>1. ASSUME rd'.pc \in {"boundary", "drain", "got"}
        PROVE  Stored(rd.record.content) = Content /\ rd'.record.content = rd.record.content /\ rd'.member = rd.member
    BY <2>1 DEF InContent
  <2>2. ASSUME rd'.pc \in {"boundary", "drain", "got"} PROVE Content' = Content
    BY <2>1, <2>2 DEF Content
  <2>3. ASSUME rd'.pc \in {"boundary", "drain", "got"} PROVE Stored(rd.record.content)' = Content
    BY <1>1, <2>1, <2>3 DEF Stored
  <2> QED
    BY <2>2, <2>3 DEF ContentIsRead
<1>6. ReaderAlone'
  <2>1. rd'.pc \in InContent =>
            /\ rd'.record.content \in Contents /\ task'[rd'.record.content].pc = "none"
            /\ spool'[rd'.record.content].stage = "writing" /\ HasStore(rd.record.content)
            /\ rd'.record.content = rd.record.content
    BY <1>1 DEF ReadInv, ReaderAlone
  <2>2. \A c \in Contents : spool'[c].stage = "unused" => task'[c].pc = "none"
    BY <1>1 DEF ReadInv, ReaderAlone
  <2> QED
    BY <1>1, <2>1, <2>2 DEF ReaderAlone, HasStore
<1> QED
  BY <1>2, <1>3, <1>4, <1>5, <1>6 DEF ReadInv

LEMMA GotoFacts ==
  ASSUME ReaderFields, NEW p, Goto(p)
  PROVE  ReaderFields' /\ rd'.pc = p /\ rd'.member = rd.member /\ rd'.record = rd.record /\ rd'.at = rd.at
  BY DEF ReaderFields, Goto

\* What is the same through every step of the reader.
Frame == /\ ReadInv /\ pc = "read" /\ pc' = "read" /\ UNCHANGED <<setting, todo, task>>

LEMMA FailStep ==
  ASSUME Frame, NEW p \in {"eof", "failed"}, Goto(p), UNCHANGED <<file, spoolVars>>
  PROVE  ReadInv' /\ Untouched
<1>1. rd.member \in Nat
  BY DEF Frame, ReadInv, LinesAreFound
<1>2. ReaderFields' /\ rd'.pc = p /\ rd'.member = rd.member
  BY GotoFacts DEF Frame, ReadInv
<1>3. p \notin InContent
  BY DEF InContent
<1> QED
  BY <1>1, <1>2, <1>3, ReadQuiet DEF Frame

LEMMA FailClosingStep ==
  ASSUME Frame, rd.pc \in InContent \ {"close"}, FailClosing, UNCHANGED <<file, spoolVars>>
  PROVE  ReadInv' /\ Untouched
<1>1. rd.member \in Nat
  BY DEF Frame, ReadInv, LinesAreFound
<1>2. ReaderFields' /\ rd'.pc = "close" /\ rd'.member = rd.member /\ rd'.record.content = rd.record.content
  BY GotoFacts DEF Frame, ReadInv, FailClosing
<1> QED
  BY <1>1, <1>2, ReadQuiet DEF Frame

LEMMA StartStep ==
  ASSUME Frame, ReadStart
  PROVE  ReadInv' /\ Untouched
<1> DEFINE next == IF IsGzip THEN rd.member + 1 ELSE 1
<1>1. UNCHANGED <<file, spoolVars>>
  BY DEF ReadStart
<1>2. CASE Goto("eof") \/ Fail
  BY <1>1, <1>2, FailStep DEF Fail
<1>3. CASE /\ ~(file.format = "short" \/ next > Len(file.members))
           /\ rd' = [rd EXCEPT !.pc = "version", !.member = next, !.lines = 0,
                               !.at = IF IsGzip THEN 0 ELSE @,
                               !.record = [NoRecord EXCEPT !.offset = rd.tell]]
  <2>1. /\ IsGzip /\ Len(file.members) \in Nat /\ DOMAIN file.members = 1..Len(file.members)
        /\ rd.member \in Nat
    BY <1>3, FileFacts DEF Frame, ReadInv, LinesAreFound
  <2>2. next = rd.member + 1 /\ next \in DOMAIN file.members /\ next \in Nat
    BY <1>3, <2>1
  <2> HIDE DEF next
  <2>3. rd' = [rd EXCEPT !.pc = "version", !.member = next, !.lines = 0, !.at = 0,
                         !.record = [NoRecord EXCEPT !.offset = rd.tell]]
    BY <1>3, <2>1
  <2> DEFINE rec == [NoRecord EXCEPT !.offset = rd.tell]
  <2>4. /\ {"version", "header", "content", "offset", "size"} \subseteq DOMAIN rec
        /\ rec.header = [f \in FieldNames |-> Missing]
    BY DEF NoRecord
  <2> HIDE DEF rec
  <2>5. /\ {"pc", "member", "at", "tell", "left", "lines", "record"} \subseteq DOMAIN rd'
        /\ rd'.pc = "version" /\ rd'.member = next /\ rd'.at = 0 /\ rd'.record = rec
    BY <2>3 DEF Frame, ReadInv, ReaderFields, rec
  <2>6. ReaderFields'
    BY <2>4, <2>5 DEF ReaderFields
  <2>7. rd'.record.header["length"].sym # "length"
    <3>1. "length" \in FieldNames
      BY DEF FieldNames
    <3> QED
      BY <2>4, <2>5, <3>1, Symbols
  <2>8. "version" \notin InContent
    BY DEF InContent
  <2> QED
    BY <1>1, <2>1, <2>2, <2>5, <2>6, <2>7, <2>8, ReadQuiet DEF Frame
<1> QED
  BY <1>2, <1>3 DEF ReadStart

LEMMA VersionStep ==
  ASSUME Frame, ReadVersion
  PROVE  ReadInv' /\ Untouched
<1>1. UNCHANGED <<file, spoolVars>> /\ rd.pc = "version"
  BY DEF ReadVersion
<1>2. CASE Goto("eof") \/ Fail
  BY <1>1, <1>2, FailStep DEF Fail
<1>3. CASE Found # NotFound /\ rd' = [rd EXCEPT !.pc = "header", !.at = Found.next, !.record.version = Line]
  <2>1. /\ rd.member \in Nat /\ IsGzip /\ rd.member \in DOMAIN file.members
        /\ LengthIsTrue(rd.record.header) /\ rd.at = 0
    BY <1>1 DEF Frame, ReadInv, LinesAreFound
  <2>2. \E S : Text \in Seq(S) /\ (Text = <<>> \/ \E h : BeginsWith(Text, h, Content))
    BY <2>1, CurrentText DEF Frame, ReadInv
  <2>3. InHeader(Text, Content, Found.next)
    BY <1>3, <2>1, <2>2, FirstLineFound DEF Found
  <2> DEFINE next == Found.next
             line == Line
  <2>4. rd' = [rd EXCEPT !.pc = "header", !.at = next, !.record.version = line]
    BY <1>3
  <2> HIDE DEF next, line
  <2>5. /\ ReaderFields' /\ rd'.pc = "header" /\ rd'.member = rd.member /\ rd'.at = next
        /\ rd'.record.header = rd.record.header
    BY <2>4 DEF Frame, ReadInv, ReaderFields
  <2>6. "header" \notin InContent
    BY DEF InContent
  <2>7. InHeader(file.members[rd'.member].text, file.records[rd'.member].content, rd'.at)
    BY <2>3, <2>5 DEF Text, Member, Content, next
  <2>8. LET l == rd'.record.header["length"] IN
        l.sym = "length" => l = Length(Len(file.records[rd'.member].content))
    BY <2>1, <2>5 DEF LengthIsTrue, Content
  <2> QED
    BY <1>1, <2>1, <2>5, <2>6, <2>7, <2>8, ReadQuiet DEF Frame
<1> QED
  BY <1>2, <1>3 DEF ReadVersion

\* A step that changes one content, which is no task's.
LEMMA ReadOne ==
  ASSUME Frame, UNCHANGED file, NEW c \in Contents, task[c].pc = "none", SpoolInv', OnlyIn(c),
         ReaderFields', rd'.member = rd.member,
         rd'.pc \in {"content", "close", "failed"},
         rd'.pc = "content" =>
             /\ rd.pc \in {"header", "content"} /\ HasStore(c)'
             /\ InBody(Text, Content, Stored(c)', rd'.left, rd'.at),
         rd'.pc \in InContent => rd'.record.content = c /\ spool'[c].stage = "writing",
         spool'[c].stage # "unused"
  PROVE  ReadInv' /\ Untouched
<1>1. \A d \in Contents \ {c} :
          /\ spool'[d] = spool[d] /\ HasStore(d)' = HasStore(d) /\ Position(d)' = Position(d)
          /\ HasStore(d) => Stored(d)' = Stored(d)
  BY OthersStay DEF Frame, ReadInv
<1>2. Untouched
  BY <1>1 DEF Untouched
<1>3. FilesAreOurs'
  BY DEF Frame, ReadInv, FilesAreOurs, OurFile
<1>4. LinesAreFound'
  BY DEF Frame, ReadInv, LinesAreFound, LengthIsTrue, Content, Text, Member, IsGzip
<1>5. ContentIsRead'
  <2>1. rd'.pc \notin {"boundary", "drain", "got"}
    OBVIOUS
  <2>2. ASSUME rd'.pc = "content" PROVE InBody(Text, Content, Stored(rd.record.content), rd.left, rd.at)'
    <3>1. rd'.record.content = c /\ Text' = Text /\ Content' = Content
      BY <2>2 DEF InContent, Text, Member, Content
    <3>2. Stored(rd.record.content)' = Stored(c)'
      BY <3>1 DEF Stored
    <3> QED
      BY <2>2, <3>1, <3>2 DEF InBody, BeginsWith
  <2> QED
    BY <2>1, <2>2 DEF ContentIsRead
<1>6. ReaderAlone'
  <2>1. \A d \in Contents : spool'[d].stage = "unused" => task'[d].pc = "none"
    BY <1>1 DEF Frame, ReadInv, ReaderAlone
  <2>2. ASSUME rd'.pc \in InContent
        PROVE  /\ rd'.record.content \in Contents /\ task'[rd'.record.content].pc = "none"
               /\ spool'[rd'.record.content].stage = "writing"
    BY <2>2 DEF Frame
  <2>3. ASSUME rd'.pc \in InContent, rd'.pc # "close" PROVE HasStore(rd.record.content)'
    <3>1. rd'.record.content = c /\ rd'.pc = "content"
      BY <2>3 DEF InContent
    <3>2. HasStore(c)'
      BY <3>1
    <3> QED
      BY <3>1, <3>2 DEF HasStore
  <2> QED
    BY <2>1, <2>2, <2>3 DEF ReaderAlone
<1> QED
  BY <1>2, <1>3, <1>4, <1>5, <1>6 DEF ReadInv

LEMMA FieldSetFacts ==
  ASSUME NEW h, FieldNames \subseteq DOMAIN h, NEW line
  PROVE  /\ FieldNames \subseteq DOMAIN FieldSet(h, line)
         /\ FieldSet(h, line)["length"].sym = "length" =>
                \/ FieldSet(h, line)["length"] = h["length"]
                \/ line[1].sym = "length" /\ FieldSet(h, line)["length"] = line[1]
<1> DEFINE name == line[1].sym
           field == IF Len(line) = 1 THEN line[1] ELSE Sym("garbage")
<1>1. CASE name \notin FieldNames
  BY <1>1 DEF FieldSet
<1>2. CASE name \in FieldNames
  <2>1. FieldSet(h, line) = [h EXCEPT ![name] = field]
    BY <1>2 DEF FieldSet
  <2>2. field = line[1] \/ field.sym = "garbage"
    BY Symbols
  <2> HIDE DEF name, field
  <2>3. /\ DOMAIN FieldSet(h, line) = DOMAIN h
        /\ "length" \in FieldNames
    BY <2>1 DEF FieldNames
  <2>4. FieldSet(h, line)["length"] = IF name = "length" THEN field ELSE h["length"]
    BY <2>1, <2>3
  <2>5. CASE name = "length"
    BY <2>2, <2>3, <2>4, <2>5 DEF name
  <2>6. CASE name # "length"
    BY <2>3, <2>4, <2>6
  <2> QED
    BY <2>5, <2>6
<1> QED
  BY <1>1, <1>2

LEMMA HeaderStep ==
  ASSUME Frame, RoomLeft, ReadHeader
  PROVE  ReadInv' /\ Untouched
<1> DEFINE h == rd.record.header
           next == Found.next
           line == Line
<1>1. UNCHANGED file /\ rd.pc = "header"
  BY DEF ReadHeader
<1>2. CASE Fail /\ UNCHANGED spoolVars
  BY <1>1, <1>2, FailStep DEF Fail
<1>3. /\ rd.member \in Nat /\ IsGzip /\ rd.member \in DOMAIN file.members
      /\ LengthIsTrue(h) /\ InHeader(Text, Content, rd.at)
  BY <1>1 DEF Frame, ReadInv, LinesAreFound
<1>4. (\E S : Text \in Seq(S)) /\ (\E C : Content \in Seq(C))
  BY <1>3, CurrentText DEF Frame, ReadInv
<1>5. ASSUME Found # NotFound
      PROVE  /\ line = <<>> => InBody(Text, Content, <<>>, Len(Content), next)
             /\ line # <<>> => /\ InHeader(Text, Content, next)
                               /\ line[1].sym = "length" => line[1] = Length(Len(Content))
  BY <1>3, <1>4, <1>5, NextLineFound DEF Found, Line
<1>6. CASE /\ Found # NotFound /\ line # <<>>
           /\ rd' = [rd EXCEPT !.at = next, !.record.header = FieldSet(h, line)]
           /\ UNCHANGED spoolVars
  <2> DEFINE h1 == FieldSet(h, line)
  <2>1. /\ InHeader(Text, Content, next)
        /\ line[1].sym = "length" => line[1] = Length(Len(Content))
    BY <1>5, <1>6
  <2>2. FieldNames \subseteq DOMAIN h
    BY DEF Frame, ReadInv, ReaderFields
  <2>3. /\ FieldNames \subseteq DOMAIN h1
        /\ h1["length"].sym = "length" => h1["length"] = Length(Len(Content))
    BY <1>3, <2>1, <2>2, FieldSetFacts DEF LengthIsTrue
  <2>4. rd' = [rd EXCEPT !.at = next, !.record.header = h1]
    BY <1>6
  <2> HIDE DEF h1, next, line
  <2>5. /\ ReaderFields' /\ rd'.pc = "header" /\ rd'.member = rd.member /\ rd'.at = next
        /\ rd'.record.header = h1
    BY <1>1, <2>3, <2>4 DEF Frame, ReadInv, ReaderFields
  <2>6. "header" \notin InContent
    BY DEF InContent
  <2>7. InHeader(file.members[rd'.member].text, file.records[rd'.member].content, rd'.at)
    BY <2>1, <2>5 DEF Text, Member, Content
  <2>8. LET l == rd'.record.header["length"] IN
        l.sym = "length" => l = Length(Len(file.records[rd'.member].content))
    BY <2>3, <2>5 DEF Content
  <2> QED
    BY <1>1, <1>3, <1>6, <2>5, <2>6, <2>7, <2>8, ReadQuiet DEF Frame
<1>7. CASE /\ Found # NotFound /\ line = <<>> /\ h["length"].sym = "length"
           /\ LET unused == {c \in Contents : spool[c].stage = "unused"}
                  free == IF unused # {} THEN unused ELSE {c \in Contents : spool[c].stage = "closed"}
                  c == CHOOSE c \in free : \A d \in free : c <= d
              IN  /\ New(c)
                  /\ rd' = [rd EXCEPT !.pc = "content", !.at = next,
                                      !.left = h["length"].num, !.record.content = c]
  <2> DEFINE unused == {c \in Contents : spool[c].stage = "unused"}
             left == h["length"].num
  <2>1. unused # {} /\ \E b \in Buffers : pool[b] > 0
    BY <1>1 DEF RoomLeft
  <2>2. unused \subseteq Nat
    BY ReaderAssumption
  <2>3. (CHOOSE c \in unused : \A d \in unused : c <= d) \in unused
    BY <2>1, <2>2, LeastNumber
  <2>4. PICK c \in unused :
            /\ New(c)
            /\ rd' = [rd EXCEPT !.pc = "content", !.at = next, !.left = left, !.record.content = c]
    BY <1>7, <2>1, <2>3
  <2>5. c \in Contents /\ spool[c].stage = "unused"
    OBVIOUS
  <2>6. left = Len(Content)
    BY <1>3, <1>7 DEF LengthIsTrue, Length
  <2>7. InBody(Text, Content, <<>>, Len(Content), next)
    BY <1>5, <1>7
  <2> HIDE DEF unused, next, line, left
  <2>8. /\ SpoolInv' /\ OnlyIn(c) /\ spool'[c].stage = "writing" /\ HasStore(c)' /\ Stored(c)' = <<>>
    BY <2>1, <2>4, <2>5, NewContent DEF Frame, ReadInv
  <2>9. task[c].pc = "none"
    BY <2>5 DEF Frame, ReadInv, ReaderAlone
  <2>10. /\ ReaderFields' /\ rd'.pc = "content" /\ rd'.member = rd.member /\ rd'.at = next
         /\ rd'.left = left /\ rd'.record.content = c
    BY <2>4 DEF Frame, ReadInv, ReaderFields
  <2>11. InBody(Text, Content, Stored(c)', rd'.left, rd'.at)
    BY <2>6, <2>7, <2>8, <2>10
  <2> QED
    BY <1>1, <2>5, <2>8, <2>9, <2>10, <2>11, ReadOne
<1> QED
  BY <1>2, <1>6, <1>7 DEF ReadHeader

\* The content that is being read is nobody else's.
LEMMA ReaderHas ==
  ASSUME Frame, rd.pc \in InContent
  PROVE  /\ rd.record.content \in Contents /\ task[rd.record.content].pc = "none"
         /\ spool[rd.record.content].stage = "writing"
         /\ rd.pc # "close" => HasStore(rd.record.content)
  BY DEF Frame, ReadInv, ReaderAlone

LEMMA ContentStep ==
  ASSUME Frame, ReadContent
  PROVE  ReadInv' /\ Untouched
<1>1. UNCHANGED file /\ rd.pc = "content" /\ rd.pc \in InContent /\ rd.pc # "close"
  BY DEF ReadContent, InContent
<1>2. /\ rd.member \in Nat /\ IsGzip /\ rd.member \in DOMAIN file.members
      /\ InBody(Text, Content, Stored(rd.record.content), rd.left, rd.at)
  BY <1>1 DEF Frame, ReadInv, LinesAreFound, ContentIsRead
<1>3. (\E S : Text \in Seq(S)) /\ (\E C : Content \in Seq(C))
  BY <1>2, CurrentText DEF Frame, ReadInv
<1>4. PICK c \in Contents : c = rd.record.content /\ task[c].pc = "none" /\ HasStore(c)
  BY <1>1, ReaderHas
<1>5. CASE rd.left <= 0 /\ Goto("boundary") /\ UNCHANGED spoolVars
  <2>1. Stored(rd.record.content) = Content
    BY <1>2, <1>3, <1>5, AllIsRead
  <2>2. /\ ReaderFields' /\ rd'.pc = "boundary" /\ rd'.member = rd.member
        /\ rd'.record = rd.record
    BY <1>5, GotoFacts DEF Frame, ReadInv
  <2> QED
    BY <1>1, <1>2, <1>5, <2>1, <2>2, ReadQuiet DEF Frame
<1>6. CASE FailClosing /\ UNCHANGED spoolVars
  BY <1>1, <1>6, FailClosingStep
<1>7. CASE /\ ~(rd.left <= 0) /\ ~TextEnds
           /\ Write(rd.record.content, Text[rd.at + 1].sym)
           /\ rd' = [rd EXCEPT !.at = @ + 1, !.left = @ - 1]
  <2> DEFINE chunk == Text[rd.at + 1].sym
  <2>1. Write(c, chunk)
    BY <1>4, <1>7
  <2>2. InBody(Text, Content, Append(Stored(c), chunk), rd.left - 1, rd.at + 1)
    BY <1>2, <1>3, <1>4, <1>7, ChunkIsRead DEF TextEnds
  <2> HIDE DEF chunk
  <2>3. /\ SpoolInv' /\ OnlyIn(c) /\ spool'[c].stage = "writing" /\ HasStore(c)'
        /\ Stored(c)' = Append(Stored(c), chunk)
    BY <1>4, <2>1, WriteContent DEF Frame, ReadInv
  <2>4. /\ ReaderFields' /\ rd'.pc = "content" /\ rd'.member = rd.member /\ rd'.at = rd.at + 1
        /\ rd'.left = rd.left - 1 /\ rd'.record = rd.record
    BY <1>1, <1>7 DEF Frame, ReadInv, ReaderFields
  <2>5. InBody(Text, Content, Stored(c)', rd'.left, rd'.at)
    BY <2>2, <2>3, <2>4
  <2> QED
    BY <1>1, <1>4, <2>3, <2>4, <2>5, ReadOne
<1>8. CASE WriteFails(rd.record.content) /\ FailClosing
  <2>1. SpoolInv' /\ OnlyIn(c) /\ spool'[c].stage = "writing"
    BY <1>4, <1>8, FailContent DEF Frame, ReadInv
  <2>2. ReaderFields' /\ rd'.pc = "close" /\ rd'.member = rd.member /\ rd'.record = rd.record
    BY <1>8, GotoFacts DEF Frame, ReadInv, FailClosing
  <2> QED
    BY <1>1, <1>4, <2>1, <2>2, ReadOne
<1> QED
  BY <1>5, <1>6, <1>7, <1>8 DEF ReadContent

LEMMA BoundaryStep ==
  ASSUME Frame, ReadBoundary
  PROVE  ReadInv' /\ Untouched
<1>1. UNCHANGED <<file, spoolVars>> /\ rd.pc = "boundary" /\ rd.pc \in InContent \ {"close"}
  BY DEF ReadBoundary, InContent
<1>2. CASE FailClosing
  BY <1>1, <1>2, FailClosingStep
<1>3. CASE rd' = [rd EXCEPT !.at = Found.next, !.lines = @ + 1,
                            !.pc = IF rd.lines = 1 THEN "drain" ELSE "boundary"]
  <2> DEFINE next == Found.next
             p == IF rd.lines = 1 THEN "drain" ELSE "boundary"
  <2>1. rd' = [rd EXCEPT !.at = next, !.lines = @ + 1, !.pc = p]
    BY <1>3
  <2>2. p \in {"drain", "boundary"}
    OBVIOUS
  <2> HIDE DEF next, p
  <2>3. ReaderFields' /\ rd'.pc = p /\ rd'.member = rd.member /\ rd'.record = rd.record
    BY <2>1 DEF Frame, ReadInv, ReaderFields
  <2>4. /\ rd.member \in Nat /\ IsGzip /\ rd.member \in DOMAIN file.members
        /\ Stored(rd.record.content) = Content
    BY <1>1 DEF Frame, ReadInv, LinesAreFound, ContentIsRead
  <2> QED
    BY <1>1, <2>2, <2>3, <2>4, ReadQuiet DEF Frame
<1> QED
  BY <1>2, <1>3 DEF ReadBoundary

LEMMA RestStep ==
  ASSUME Frame, ReadRest
  PROVE  ReadInv' /\ Untouched
<1>1. UNCHANGED <<file, spoolVars>> /\ rd.pc = "drain" /\ rd.pc \in InContent \ {"close"}
  BY DEF ReadRest, InContent
<1>2. CASE FailClosing
  BY <1>1, <1>2, FailClosingStep
<1>3. CASE \/ rd' = [rd EXCEPT !.pc = "got", !.record.offset = -1, !.record.size = -1]
           \/ rd' = [rd EXCEPT !.pc = "got", !.tell = @ + Drained, !.record.size = Drained]
  <2>1. /\ ReaderFields' /\ rd'.pc = "got" /\ rd'.member = rd.member
        /\ rd'.record.content = rd.record.content
    <3>0. ReaderFields
      BY DEF Frame, ReadInv
    <3>1. CASE rd' = [rd EXCEPT !.pc = "got", !.record.offset = -1, !.record.size = -1]
      BY <3>0, <3>1 DEF ReaderFields
    <3>2. CASE rd' = [rd EXCEPT !.pc = "got", !.tell = @ + Drained, !.record.size = Drained]
      <4> DEFINE size == Drained
      <4>1. rd' = [rd EXCEPT !.pc = "got", !.tell = @ + size, !.record.size = size]
        BY <3>2
      <4> HIDE DEF size
      <4> QED
        BY <3>0, <4>1 DEF ReaderFields
    <3> QED
      BY <1>3, <3>1, <3>2
  <2>2. /\ rd.member \in Nat /\ IsGzip /\ rd.member \in DOMAIN file.members
        /\ Stored(rd.record.content) = Content
    BY <1>1 DEF Frame, ReadInv, LinesAreFound, ContentIsRead
  <2> QED
    BY <1>1, <2>1, <2>2, ReadQuiet DEF Frame
<1> QED
  BY <1>2, <1>3 DEF ReadRest

LEMMA CloseStep ==
  ASSUME Frame, ReadClose
  PROVE  ReadInv' /\ Untouched
<1>1. UNCHANGED file /\ rd.pc = "close" /\ Fail /\ rd.pc \in InContent
  BY DEF ReadClose, InContent
<1>2. PICK c \in Contents : c = rd.record.content /\ task[c].pc = "none"
  BY <1>1, ReaderHas
<1>3. Close(c) \/ RemoveFails(c)
  BY <1>2 DEF ReadClose, CloseOnError
<1>4. SpoolInv' /\ OnlyIn(c) /\ spool'[c].stage = "closed"
  BY <1>3, CloseContentOf DEF Frame, ReadInv
<1>5. ReaderFields' /\ rd'.pc = "failed" /\ rd'.member = rd.member
  BY <1>1, GotoFacts DEF Frame, ReadInv, Fail
<1>6. "failed" \notin InContent
  BY DEF InContent
<1> QED
  BY <1>1, <1>2, <1>4, <1>5, <1>6, ReadOne

\* ReadRecord keeps what the reader knows, and touches no task's content.
LEMMA ReaderStep ==
  ASSUME Frame, RoomLeft, ReadRecord
  PROVE  ReadInv' /\ Untouched
  BY StartStep, VersionStep, HeaderStep, ContentStep, BoundaryStep, RestStep, CloseStep DEF ReadRecord

(***************************************************************************)
(* The steps of the tasks.                                                 *)
(***************************************************************************)
TaskFields ==
    /\ DOMAIN task = Contents
    /\ \A c \in Contents : {"pc", "record", "path", "at", "result", "body"} \subseteq DOMAIN task[c]

BodyIInv == TaskFields /\ ReadInv /\ TasksHaveContents /\ OpenersAreKnown /\ BodiesAreWritten

\* What a step of one task leaves as it is.
OneTask(c) ==
    /\ BodyIInv /\ c \in Contents /\ task[c].pc # "none"
    /\ UNCHANGED <<file, rd, mainVars>>
    /\ \A d \in Contents \ {c} : task'[d] = task[d]
    /\ task'[c].pc # "none"

LEMMA TaskReads ==
  ASSUME NEW c, OneTask(c), SpoolInv', OnlyIn(c), spool'[c].stage # "unused", TaskFields', HasItsContent(c)'
  PROVE  TaskFields' /\ ReadInv' /\ TasksHaveContents'
<1>1. c \in Contents /\ SpoolInv /\ ReadInv /\ BodyIInv
  BY DEF OneTask, BodyIInv, ReadInv
<1>2. \A d \in Contents \ {c} :
          /\ spool'[d] = spool[d] /\ HasStore(d)' = HasStore(d) /\ Position(d)' = Position(d)
          /\ HasStore(d) => Stored(d)' = Stored(d)
  BY <1>1, OthersStay
<1>3. UNCHANGED <<file, rd, setting, todo, pc>>
  BY DEF OneTask, mainVars
<1>4. ReaderFields' /\ FilesAreOurs' /\ LinesAreFound'
  BY <1>1, <1>3 DEF ReadInv, ReaderFields, FilesAreOurs, OurFile, LinesAreFound, LengthIsTrue,
                    Content, Text, Member, IsGzip
<1>5. rd.pc \in InContent =>
          /\ rd.record.content \in Contents \ {c} /\ task[rd.record.content].pc = "none"
          /\ spool[rd.record.content].stage = "writing"
          /\ rd.pc # "close" => HasStore(rd.record.content)
  BY <1>1 DEF ReadInv, ReaderAlone, OneTask
<1>6. rd.pc \in InContent =>
          /\ task'[rd.record.content].pc = "none" /\ spool'[rd.record.content].stage = "writing"
          /\ rd.pc # "close" => /\ HasStore(rd.record.content)'
                                /\ Stored(rd.record.content)' = Stored(rd.record.content)
  <2> DEFINE e == rd.record.content
  <2>1. ASSUME rd.pc \in InContent, NEW d \in Contents \ {c}, d = rd.record.content
        PROVE  /\ task'[d].pc = "none" /\ spool'[d].stage = "writing"
               /\ rd.pc # "close" => HasStore(d)' /\ Stored(d)' = Stored(d)
    BY <1>2, <1>5, <2>1 DEF OneTask
  <2>2. ASSUME rd.pc \in InContent, NEW d \in Contents \ {c}, d = rd.record.content
        PROVE  /\ HasStore(rd.record.content)' = HasStore(d)'
               /\ Stored(rd.record.content)' = Stored(d)'
               /\ Stored(rd.record.content) = Stored(d)
    BY <1>3, <2>2 DEF HasStore, Stored
  <2>3. ASSUME rd.pc \in InContent PROVE \E d \in Contents \ {c} : d = rd.record.content
    BY <1>5, <2>3
  <2> QED
    BY <2>1, <2>2, <2>3
<1>7. ContentIsRead'
  <2>1. /\ rd.pc = "content" => rd.pc \in InContent /\ rd.pc # "close"
        /\ rd.pc \in {"boundary", "drain", "got"} => rd.pc \in InContent /\ rd.pc # "close"
    BY DEF InContent
  <2>2. Content' = Content /\ Text' = Text
    BY <1>3 DEF Content, Text, Member
  <2>3. ASSUME pc = "read", rd.pc = "content"
        PROVE  InBody(Text, Content, Stored(rd.record.content), rd.left, rd.at)'
    <3>1. InBody(Text, Content, Stored(rd.record.content), rd.left, rd.at)
      BY <1>1, <2>3 DEF ReadInv, ContentIsRead
    <3>2. Stored(rd.record.content)' = Stored(rd.record.content)
      BY <1>6, <2>1, <2>3
    <3> QED
      BY <1>3, <2>2, <3>1, <3>2 DEF InBody, BeginsWith
  <2>4. ASSUME pc = "read", rd.pc \in {"boundary", "drain", "got"}
        PROVE  Stored(rd.record.content)' = Content'
    <3>1. Stored(rd.record.content) = Content
      BY <1>1, <2>4 DEF ReadInv, ContentIsRead
    <3> QED
      BY <1>6, <2>1, <2>2, <2>4, <3>1
  <2> QED
    BY <1>3, <2>3, <2>4 DEF ContentIsRead
<1>8. ReaderAlone'
  <2>1. \A d \in Contents : spool'[d].stage = "unused" => task'[d].pc = "none"
    BY <1>1, <1>2 DEF ReadInv, ReaderAlone, OneTask
  <2> QED
    BY <1>3, <1>5, <1>6, <2>1 DEF ReaderAlone
<1>9. TasksHaveContents'
  <2>1. ASSUME NEW d \in Contents \ {c} PROVE HasItsContent(d)'
    <3>1. HasItsContent(d) /\ task'[d] = task[d]
      BY <1>1 DEF BodyIInv, TasksHaveContents, OneTask
    <3>2. /\ spool'[d] = spool[d] /\ HasStore(d)' = HasStore(d) /\ Position(d)' = Position(d)
          /\ HasStore(d) => Stored(d)' = Stored(d)
      BY <1>2
    <3>3. task[d].pc \in {"stat", "compare", "stat2", "create", "copy"} => AtWork(d)
      BY DEF AtWork
    <3>4. AtWork(d)' = AtWork(d)
      BY <3>1 DEF AtWork
    <3>5. AtWork(d) => Stored(d)' = Stored(d) /\ HasStore(d)
      BY <3>1, <3>2 DEF HasItsContent
    <3>6. AtWork(d) => BodyOf(Stored(d))' = BodyOf(Stored(d))
      BY <3>5 DEF BodyOf
    <3> QED
      BY <3>1, <3>2, <3>3, <3>4, <3>5, <3>6 DEF HasItsContent
  <2> QED
    BY <1>1, <2>1 DEF TasksHaveContents
<1> QED
  BY <1>1, <1>4, <1>7, <1>8, <1>9 DEF ReadInv

\* A task that has not yet opened its path, and does not do so now.
LEMMA NotOpened ==
  ASSUME NEW c, OneTask(c), UNCHANGED <<disk, openers>>,
         task[c].pc \in {"response", "stat", "compare", "stat2", "create"},
         task'[c].pc # "copy", task'[c].result # "written"
  PROVE  OpenersAreKnown' /\ BodiesAreWritten'
<1>1. c \in Contents /\ OpenersAreKnown /\ BodiesAreWritten /\ setting' = setting
  BY DEF OneTask, BodyIInv, mainVars
<1>2. \A p \in DOMAIN openers : c \notin openers[p]
  BY <1>1 DEF OpenersAreKnown
<1>3. \A d \in Contents \ {c} : task'[d] = task[d]
  BY DEF OneTask
<1>4. \A p \in DOMAIN openers : \A d \in openers[p] : task'[d] = task[d]
  BY <1>1, <1>2, <1>3 DEF OpenersAreKnown
<1>5. OpenersAreKnown'
  <2>1. \A p \in DOMAIN openers : \A d \in openers[p] :
            /\ d \in Contents /\ task'[d].path = p
            /\ task'[d].pc \in {"copy", "send", "done", "close", "ended"}
    BY <1>1, <1>4 DEF OpenersAreKnown
  <2>2. \A d \in Contents : task'[d].pc = "copy" \/ task'[d].result = "written" =>
            task'[d].path \in DOMAIN openers /\ d \in openers[task'[d].path]
    BY <1>1, <1>3 DEF OpenersAreKnown
  <2> QED
    BY <1>1, <2>1, <2>2 DEF OpenersAreKnown
<1>6. BodiesAreWritten'
  BY <1>1, <1>3 DEF BodiesAreWritten
<1> QED
  BY <1>5, <1>6

\* A task that may have opened its path, and writes no more now.
LEMMA NoMoreWritten ==
  ASSUME NEW c, OneTask(c), UNCHANGED <<disk, openers>>,
         task'[c].pc \in {"send", "done", "close", "ended"},
         task'[c].path = task[c].path, task'[c].body = task[c].body,
         task'[c].result = "written" =>
             \/ task[c].result = "written"
             \/ task[c].pc = "copy" /\ SubSeq(task[c].body, 1, task[c].at) = task[c].body
  PROVE  OpenersAreKnown' /\ BodiesAreWritten'
<1>1. c \in Contents /\ OpenersAreKnown /\ BodiesAreWritten /\ setting' = setting
  BY DEF OneTask, BodyIInv, mainVars
<1>2. \A d \in Contents \ {c} : task'[d] = task[d]
  BY DEF OneTask
<1>3. OpenersAreKnown'
  <2>1. ASSUME NEW p \in DOMAIN openers, NEW d \in openers[p]
        PROVE  /\ d \in Contents /\ task'[d].path = p
               /\ task'[d].pc \in {"copy", "send", "done", "close", "ended"}
    <3>1. /\ d \in Contents /\ task[d].path = p
          /\ task[d].pc \in {"copy", "send", "done", "close", "ended"}
      BY <1>1 DEF OpenersAreKnown
    <3> QED
      BY <1>2, <3>1
  <2>2. \A d \in Contents : task'[d].pc = "copy" \/ task'[d].result = "written" =>
            task'[d].path \in DOMAIN openers /\ d \in openers[task'[d].path]
    BY <1>1, <1>2 DEF OpenersAreKnown
  <2> QED
    BY <1>1, <2>1, <2>2 DEF OpenersAreKnown
<1>4. BodiesAreWritten'
  <2>1. ASSUME NEW d \in Contents, NEW p, p = task'[d].path,
               p \in DOMAIN openers, openers[p] = {d}, p \notin DOMAIN setting.old
        PROVE  /\ task'[d].pc = "copy" => disk[p] = SubSeq(task'[d].body, 1, task'[d].at)
               /\ task'[d].result = "written" => disk[p] = task'[d].body
    <3>1. p = task[d].path
      BY <1>2, <2>1
    <3>2. /\ task[d].pc = "copy" => disk[p] = SubSeq(task[d].body, 1, task[d].at)
          /\ task[d].result = "written" => disk[p] = task[d].body
      BY <1>1, <2>1, <3>1 DEF BodiesAreWritten
    <3>3. CASE d = c
      BY <3>2, <3>3
    <3>4. CASE d # c
      BY <1>2, <3>2, <3>4
    <3> QED
      BY <3>3, <3>4
  <2> QED
    BY <1>1, <2>1 DEF BodiesAreWritten
<1> QED
  BY <1>3, <1>4

\* A task that opens its path.
LEMMA Opened ==
  ASSUME NEW c, OneTask(c), NEW p, p = task[c].path, task[c].pc = "create",
         disk' = IF p \in DOMAIN disk THEN disk ELSE With(disk, p, <<>>),
         openers' = With(openers, p, {c} \cup (IF p \in DOMAIN openers THEN openers[p] ELSE {})),
         task'[c].pc \in {"copy", "done"}, task'[c].path = p,
         task'[c].at = 0, task'[c].body = task[c].body, task'[c].result = "none"
  PROVE  OpenersAreKnown' /\ BodiesAreWritten'
<1>1. c \in Contents /\ OpenersAreKnown /\ BodiesAreWritten /\ setting' = setting
  BY DEF OneTask, BodyIInv, mainVars
<1>2. \A q \in DOMAIN openers : c \notin openers[q]
  BY <1>1 DEF OpenersAreKnown
<1>3. \A d \in Contents \ {c} : task'[d] = task[d]
  BY DEF OneTask
<1>4. /\ DOMAIN openers' = DOMAIN openers \cup {p}
      /\ c \in openers'[p]
      /\ \A d : d \in openers'[p] /\ d # c => p \in DOMAIN openers /\ d \in openers[p]
      /\ p \in DOMAIN openers => \A d \in openers[p] : d \in openers'[p]
      /\ \A q \in DOMAIN openers : q # p => openers'[q] = openers[q]
  BY DEF With
<1>5. /\ DOMAIN disk' = DOMAIN disk \cup {p}
      /\ \A q \in DOMAIN disk : disk'[q] = disk[q]
      /\ p \notin DOMAIN disk => disk'[p] = <<>>
  BY DEF With
<1>6. OpenersAreKnown'
  <2>1. DOMAIN disk' = DOMAIN setting'.old \cup DOMAIN openers'
    BY <1>1, <1>4, <1>5 DEF OpenersAreKnown
  <2>2. ASSUME NEW q \in DOMAIN openers' PROVE openers'[q] # {}
    <3>1. CASE q = p
      BY <1>4, <3>1
    <3>2. CASE q # p
      <4>1. q \in DOMAIN openers /\ openers'[q] = openers[q]
        BY <1>4, <3>2
      <4>2. openers[q] # {}
        BY <1>1, <4>1 DEF OpenersAreKnown
      <4> QED
        BY <4>1, <4>2
    <3> QED
      BY <3>1, <3>2
  <2>3. ASSUME NEW q \in DOMAIN openers', NEW d \in openers'[q]
        PROVE  /\ d \in Contents /\ task'[d].path = q
               /\ task'[d].pc \in {"copy", "send", "done", "close", "ended"}
    <3>1. CASE q = p /\ d = c
      BY <1>1, <3>1
    <3>2. CASE ~(q = p /\ d = c)
      <4>1. q \in DOMAIN openers /\ d \in openers[q]
        <5>1. CASE q = p
          <6>1. d \in openers'[p] /\ d # c
            BY <3>2, <5>1
          <6> QED
            BY <1>4, <5>1, <6>1
        <5>2. CASE q # p
          <6>1. q \in DOMAIN openers /\ openers'[q] = openers[q]
            BY <1>4, <5>2
          <6> QED
            BY <6>1
        <5> QED
          BY <5>1, <5>2
      <4>2. d # c
        BY <1>2, <4>1
      <4>3. /\ d \in Contents /\ task[d].path = q
            /\ task[d].pc \in {"copy", "send", "done", "close", "ended"}
        BY <1>1, <4>1 DEF OpenersAreKnown
      <4> QED
        BY <1>3, <4>2, <4>3
    <3> QED
      BY <3>1, <3>2
  <2>4. ASSUME NEW d \in Contents, task'[d].pc = "copy" \/ task'[d].result = "written"
        PROVE  task'[d].path \in DOMAIN openers' /\ d \in openers'[task'[d].path]
    <3>1. CASE d = c
      BY <1>4, <3>1
    <3>2. CASE d # c
      <4>1. task[d].path \in DOMAIN openers /\ d \in openers[task[d].path]
        BY <1>1, <1>3, <2>4, <3>2 DEF OpenersAreKnown
      <4> QED
        BY <1>3, <1>4, <3>2, <4>1
    <3> QED
      BY <3>1, <3>2
  <2> QED
    BY <2>1, <2>2, <2>3, <2>4 DEF OpenersAreKnown
<1>7. BodiesAreWritten'
  <2>1. ASSUME NEW d \in Contents, NEW q, q = task'[d].path,
               q \in DOMAIN openers', openers'[q] = {d}, q \notin DOMAIN setting.old
        PROVE  /\ task'[d].pc = "copy" => disk'[q] = SubSeq(task'[d].body, 1, task'[d].at)
               /\ task'[d].result = "written" => disk'[q] = task'[d].body
    <3>1. CASE d = c
      <4>1. p \notin DOMAIN openers
        <5>1. ASSUME p \in DOMAIN openers PROVE FALSE
          <6>1. openers[p] # {} /\ c \notin openers[p]
            BY <1>1, <1>2, <5>1 DEF OpenersAreKnown
          <6>2. ASSUME NEW e \in openers[p] PROVE e = c
            <7>1. e \in openers'[p]
              BY <1>4, <5>1
            <7>2. openers'[p] = {c}
              BY <2>1, <3>1
            <7> QED
              BY <7>1, <7>2
          <6> QED
            BY <6>1, <6>2
        <5> QED
          BY <5>1
      <4>2. p \notin DOMAIN disk
        BY <1>1, <2>1, <3>1, <4>1 DEF OpenersAreKnown
      <4>3. disk'[q] = <<>> /\ task'[d].at = 0 /\ task'[d].result = "none"
        BY <1>5, <2>1, <3>1, <4>2
      <4>4. SubSeq(task'[d].body, 1, 0) = <<>>
        OBVIOUS
      <4> QED
        BY <4>3, <4>4
    <3>2. CASE d # c
      <4>1. q # p
        BY <1>4, <2>1, <3>2
      <4>2. q \in DOMAIN openers /\ openers[q] = {d} /\ q = task[d].path /\ task'[d] = task[d]
        BY <1>3, <1>4, <2>1, <3>2, <4>1
      <4>3. disk'[q] = disk[q]
        BY <1>1, <1>5, <4>2 DEF OpenersAreKnown
      <4>4. /\ task[d].pc = "copy" => disk[q] = SubSeq(task[d].body, 1, task[d].at)
            /\ task[d].result = "written" => disk[q] = task[d].body
        BY <1>1, <2>1, <4>2 DEF BodiesAreWritten
      <4> QED
        BY <4>2, <4>3, <4>4
    <3> QED
      BY <3>1, <3>2
  <2> QED
    BY <1>1, <2>1 DEF BodiesAreWritten
<1> QED
  BY <1>6, <1>7

\* A chunk more.
LEMMA OverwriteNext ==
  ASSUME NEW S, NEW body \in Seq(S), NEW n \in Nat, n + 1 \in 1..Len(body)
  PROVE  Overwrite(SubSeq(body, 1, n), n + 1, body[n + 1]) = SubSeq(body, 1, n + 1)
<1> DEFINE data == SubSeq(body, 1, n)
           next == SubSeq(body, 1, n + 1)
<1>1. Len(data) = n /\ \A j \in 1..n : data[j] = body[j]
  OBVIOUS
<1>2. /\ Len(next) = n + 1 /\ DOMAIN next = 1..(n + 1)
      /\ \A j \in 1..(n + 1) : next[j] = body[j]
  OBVIOUS
<1>3. next = [j \in DOMAIN next |-> next[j]]
  OBVIOUS
<1> HIDE DEF data, next
<1>4. n + 1 > Len(data)
  BY <1>1
<1>5. Overwrite(data, n + 1, body[n + 1]) = [j \in 1..(n + 1) |-> IF j = n + 1 THEN body[n + 1] ELSE data[j]]
  BY <1>4 DEF Overwrite
<1>6. \A j \in 1..(n + 1) : (IF j = n + 1 THEN body[n + 1] ELSE data[j]) = next[j]
  <2> SUFFICES ASSUME NEW j \in 1..(n + 1), j # n + 1 PROVE data[j] = next[j]
    BY <1>2
  <2>1. j \in 1..n
    OBVIOUS
  <2> QED
    BY <1>1, <1>2, <2>1
<1>7. [j \in 1..(n + 1) |-> IF j = n + 1 THEN body[n + 1] ELSE data[j]] = [j \in 1..(n + 1) |-> next[j]]
  BY <1>6
<1> QED
  BY <1>2, <1>3, <1>5, <1>7 DEF data, next

\* A task that writes its next chunk.
LEMMA Written ==
  ASSUME NEW c, OneTask(c), NEW p, p = task[c].path, task[c].pc = "copy", UNCHANGED openers,
         NEW S, task[c].body \in Seq(S), task[c].at \in Nat, task[c].at + 1 \in 1..Len(task[c].body),
         disk' = [disk EXCEPT ![p] = Overwrite(@, task[c].at + 1, task[c].body[task[c].at + 1])],
         task'[c].pc = "copy", task'[c].path = p, task'[c].at = task[c].at + 1,
         task'[c].body = task[c].body, task'[c].result = task[c].result, task[c].result = "none"
  PROVE  OpenersAreKnown' /\ BodiesAreWritten'
<1>1. c \in Contents /\ OpenersAreKnown /\ BodiesAreWritten /\ setting' = setting
  BY DEF OneTask, BodyIInv, mainVars
<1>2. \A d \in Contents \ {c} : task'[d] = task[d]
  BY DEF OneTask
<1>3. p \in DOMAIN openers /\ c \in openers[p] /\ p \in DOMAIN disk
  BY <1>1 DEF OpenersAreKnown
<1>4. DOMAIN disk' = DOMAIN disk /\ \A q \in DOMAIN disk : q # p => disk'[q] = disk[q]
  OBVIOUS
<1>5. OpenersAreKnown'
  <2>1. ASSUME NEW q \in DOMAIN openers, NEW d \in openers[q]
        PROVE  /\ d \in Contents /\ task'[d].path = q
               /\ task'[d].pc \in {"copy", "send", "done", "close", "ended"}
    <3>1. /\ d \in Contents /\ task[d].path = q
          /\ task[d].pc \in {"copy", "send", "done", "close", "ended"}
      BY <1>1 DEF OpenersAreKnown
    <3> QED
      BY <1>2, <3>1
  <2>2. \A d \in Contents : task'[d].pc = "copy" \/ task'[d].result = "written" =>
            task'[d].path \in DOMAIN openers /\ d \in openers[task'[d].path]
    BY <1>1, <1>2 DEF OpenersAreKnown
  <2> QED
    BY <1>1, <1>4, <2>1, <2>2 DEF OpenersAreKnown
<1>6. BodiesAreWritten'
  <2>1. ASSUME NEW d \in Contents, NEW q, q = task'[d].path,
               q \in DOMAIN openers, openers[q] = {d}, q \notin DOMAIN setting.old
        PROVE  /\ task'[d].pc = "copy" => disk'[q] = SubSeq(task'[d].body, 1, task'[d].at)
               /\ task'[d].result = "written" => disk'[q] = task'[d].body
    <3>1. CASE d = c
      <4>1. disk[p] = SubSeq(task[c].body, 1, task[c].at)
        BY <1>1, <2>1, <3>1 DEF BodiesAreWritten
      <4>2. disk'[p] = Overwrite(disk[p], task[c].at + 1, task[c].body[task[c].at + 1])
        BY <1>3
      <4>3. disk'[p] = SubSeq(task[c].body, 1, task[c].at + 1)
        BY <4>1, <4>2, OverwriteNext
      <4> QED
        BY <2>1, <3>1, <4>3
    <3>2. CASE d # c
      <4>1. q # p
        BY <1>3, <2>1, <3>2
      <4>2. task'[d] = task[d] /\ q = task[d].path
        BY <1>2, <2>1, <3>2
      <4>3. disk'[q] = disk[q]
        BY <1>1, <1>4, <2>1, <4>1 DEF OpenersAreKnown
      <4>4. /\ task[d].pc = "copy" => disk[q] = SubSeq(task[d].body, 1, task[d].at)
            /\ task[d].result = "written" => disk[q] = task[d].body
        BY <1>1, <2>1, <4>2 DEF BodiesAreWritten
      <4> QED
        BY <4>2, <4>3, <4>4
    <3> QED
      BY <3>1, <3>2
  <2> QED
    BY <1>1, <2>1 DEF BodiesAreWritten
<1> QED
  BY <1>5, <1>6

\* What is known of a task at work.
LEMMA AtWorkFacts ==
  ASSUME BodyIInv, NEW c \in Contents, AtWork(c)
  PROVE  /\ HasStore(c) /\ spool[c].stage \in {"writing", "reading"}
         /\ task[c].pc # "none" /\ task[c].body = BodyOf(Stored(c)) /\ \E S : Stored(c) \in Seq(S)
         /\ \E S : task[c].body \in Seq(S)
         /\ HasItsContent(c)
<1>1. HasItsContent(c) /\ SpoolInv
  BY DEF BodyIInv, TasksHaveContents, ReadInv
<1>2. HasStore(c) /\ task[c].body = BodyOf(Stored(c)) /\ spool[c].stage \in {"writing", "reading"}
  BY <1>1 DEF HasItsContent
<1>3. PICK S : Stored(c) \in Seq(S)
  BY <1>1, <1>2, SpoolFacts
<1>4. BodyOf(Stored(c)) \in Seq(S)
  BY <1>3 DEF BodyOf
<1>5. task[c].pc # "none"
  BY DEF AtWork
<1> QED
  BY <1>1, <1>2, <1>3, <1>4, <1>5

\* A step of one task that leaves the contents alone.
LEMMA TaskOnly ==
  ASSUME BodyIInv, NEW c \in Contents, AtWork(c), UNCHANGED <<file, rd, mainVars, spoolVars>>,
         TaskFields', \A d \in Contents \ {c} : task'[d] = task[d],
         task'[c].body = task[c].body, task'[c].at = task[c].at,
         task'[c].pc \in {"compare", "stat2", "create", "copy", "send", "done", "close"},
         task'[c].pc \in {"compare", "stat2", "create"} => task[c].pc \in {"stat", "compare", "stat2", "create"},
         task'[c].pc = "copy" => task[c].pc = "create",
         task'[c].result \in {"none", "written", "skipped"},
         task'[c].result # "none" => task'[c].pc \in {"send", "done", "close"}
  PROVE  OneTask(c) /\ TaskFields' /\ ReadInv' /\ TasksHaveContents'
<1>1. UNCHANGED <<spool, bytes, pool>>
  BY DEF spoolVars
<1>2. SpoolInv' /\ OnlyIn(c)
  BY <1>1 DEF BodyIInv, ReadInv, SpoolInv, Typed, BuffersApart, OnlyIn
<1>3. /\ HasStore(c)' = HasStore(c) /\ Position(c)' = Position(c)
      /\ Stored(c)' = Stored(c) /\ BodyOf(Stored(c))' = BodyOf(Stored(c))
  BY <1>1 DEF HasStore, Position, Stored, BodyOf
<1>4. /\ HasStore(c) /\ spool[c].stage \in {"writing", "reading"} /\ task[c].pc # "none"
      /\ task[c].body = BodyOf(Stored(c)) /\ HasItsContent(c)
  BY AtWorkFacts
<1>5. PICK S : task[c].body \in Seq(S)
  BY AtWorkFacts
<1>6. OneTask(c)
  BY <1>4 DEF OneTask
<1>7. task[c].pc \in {"stat", "compare", "stat2", "create"} =>
          /\ task[c].at = 0 /\ Position(c) = 1 /\ Stored(c) # <<>>
  BY <1>4 DEF HasItsContent
<1>8. HasItsContent(c)'
  <2>1. AtWork(c)' => /\ HasStore(c)' /\ spool'[c].stage \in {"writing", "reading"}
                      /\ task'[c].body = BodyOf(Stored(c))'
    BY <1>1, <1>3, <1>4
  <2>2. /\ task'[c].pc \in {"none", "response", "stat", "compare", "stat2", "create"} => task'[c].at = 0
        /\ task'[c].pc \in {"stat", "compare", "stat2", "create"} => Position(c)' = 1 /\ Stored(c)' # <<>>
    BY <1>3, <1>7
  <2>3. ASSUME task'[c].pc = "copy"
        PROVE  /\ Stored(c)' # <<>> /\ spool'[c].stage = "reading"
               /\ spool'[c].at = task'[c].at + 1 /\ task'[c].at \in 0..Len(task'[c].body)
    <3>1. task[c].at = 0 /\ Position(c) = 1 /\ Stored(c) # <<>>
      BY <1>7, <2>3
    <3>2. spool[c].stage = "reading" /\ spool[c].at = 1
      BY <1>4, <3>1 DEF Position
    <3>3. Len(task[c].body) \in Nat
      BY <1>5
    <3> QED
      BY <1>1, <1>3, <3>1, <3>2, <3>3
  <2> QED
    BY <2>1, <2>2, <2>3 DEF HasItsContent
<1>9. spool'[c].stage # "unused" /\ task'[c].pc # "none"
  BY <1>1, <1>4
<1> QED
  BY <1>2, <1>6, <1>8, <1>9, TaskReads

LEMMA PcChanged ==
  ASSUME TaskFields, NEW c \in Contents, NEW p, task' = [task EXCEPT ![c].pc = p]
  PROVE  /\ TaskFields' /\ \A d \in Contents \ {c} : task'[d] = task[d]
         /\ task'[c].pc = p /\ task'[c].at = task[c].at /\ task'[c].path = task[c].path
         /\ task'[c].result = task[c].result /\ task'[c].body = task[c].body
         /\ task'[c].record = task[c].record
  BY DEF TaskFields

LEMMA ResultSet ==
  ASSUME TaskFields, NEW c \in Contents, NEW result, Return(c, result)
  PROVE  /\ TaskFields' /\ \A d \in Contents \ {c} : task'[d] = task[d]
         /\ task'[c].pc = "send" /\ task'[c].at = task[c].at /\ task'[c].path = task[c].path
         /\ task'[c].result = result /\ task'[c].body = task[c].body
         /\ task'[c].record = task[c].record
  BY DEF TaskFields, Return

\* A task has no result before writeFile has returned.
LEMMA NoResultYet ==
  ASSUME BodyIInv, NEW c \in Contents
  PROVE  /\ task[c].pc \in {"response", "stat", "compare", "stat2", "create", "copy"} => task[c].result = "none"
         /\ task[c].result \in {"none", "written", "skipped"}
  BY DEF BodyIInv, TasksHaveContents, HasItsContent

\* The task gives up, before or after it has opened its path.
LEMMA GivesUp ==
  ASSUME BodyIInv, NEW c \in Contents, NEW from \in {"response", "compare", "create", "copy"},
         task[c].pc = from, task' = [task EXCEPT ![c].pc = "done"],
         UNCHANGED <<file, rd, mainVars, spoolVars, disk, openers>>
  PROVE  BodyIInv'
<1>1. AtWork(c) /\ task[c].result = "none"
  BY NoResultYet DEF AtWork
<1>2. /\ TaskFields' /\ \A d \in Contents \ {c} : task'[d] = task[d]
      /\ task'[c].pc = "done" /\ task'[c].at = task[c].at /\ task'[c].path = task[c].path
      /\ task'[c].result = task[c].result /\ task'[c].body = task[c].body
  BY PcChanged DEF BodyIInv
<1>3. OneTask(c) /\ ReadInv' /\ TasksHaveContents'
  BY <1>1, <1>2, TaskOnly
<1>4. OpenersAreKnown' /\ BodiesAreWritten'
  BY <1>1, <1>2, <1>3, NoMoreWritten, NotOpened
<1> QED
  BY <1>2, <1>3, <1>4 DEF BodyIInv

LEMMA ResponseStep ==
  ASSUME BodyIInv, NEW c \in Contents, ReadResponse(c)
  PROVE  BodyIInv'
<1>1. task[c].pc = "response" /\ AtWork(c) /\ task[c].result = "none"
  BY NoResultYet DEF ReadResponse, StepOnly, Step, AtWork
<1>2. CASE StepOnly(c, "response", AfterRefusal)
  BY <1>1, <1>2, GivesUp DEF StepOnly, Step, AfterRefusal
<1>3. CASE /\ Step(c, "response", "stat") /\ Selected(c)
           /\ ReadTo(c, 1)
           /\ UNCHANGED <<running, disk, openers, counter, sent>>
  <2>1. /\ task' = [task EXCEPT ![c].pc = "stat"] /\ UNCHANGED <<file, rd, mainVars, disk, openers>>
        /\ Stored(c) # <<>>
    BY <1>3 DEF Step, Selected
  <2>2. /\ TaskFields' /\ \A d \in Contents \ {c} : task'[d] = task[d]
        /\ task'[c].pc = "stat" /\ task'[c].at = task[c].at
        /\ task'[c].result = task[c].result /\ task'[c].body = task[c].body
    BY <2>1, PcChanged DEF BodyIInv
  <2>3. OneTask(c)
    BY <1>1, <2>1, <2>2 DEF OneTask
  <2>4. /\ SpoolInv' /\ OnlyIn(c) /\ spool'[c].stage = "reading" /\ spool'[c].at = 1
        /\ HasStore(c)' /\ Stored(c)' = Stored(c)
    BY <1>3, ReadContentTo DEF BodyIInv, ReadInv
  <2>5. task[c].body = BodyOf(Stored(c)) /\ task[c].at = 0
    BY <1>1, AtWorkFacts DEF HasItsContent
  <2>6. Position(c)' = 1 /\ BodyOf(Stored(c))' = BodyOf(Stored(c))
    BY <2>4 DEF Position, BodyOf
  <2>7. HasItsContent(c)'
    BY <1>1, <2>1, <2>2, <2>4, <2>5, <2>6 DEF HasItsContent
  <2>8. ReadInv' /\ TasksHaveContents'
    BY <2>2, <2>3, <2>4, <2>7, TaskReads
  <2>9. OpenersAreKnown' /\ BodiesAreWritten'
    BY <1>1, <2>1, <2>2, <2>3, NotOpened
  <2> QED
    BY <2>2, <2>8, <2>9 DEF BodyIInv
<1> QED
  BY <1>2, <1>3 DEF ReadResponse

\* A task that looks at the output directory only.
LEMMA LookStep ==
  ASSUME BodyIInv, NEW c \in Contents, NEW from \in {"stat", "compare", "stat2"}, Local(c, from),
         NEW p, NEW q \in {"compare", "create", "stat2"},
         \/ Return(c, "skipped")
         \/ task' = [task EXCEPT ![c].path = p, ![c].pc = q]
         \/ task' = [task EXCEPT ![c].pc = q]
  PROVE  BodyIInv'
<1>1. /\ task[c].pc = from /\ UNCHANGED <<file, rd, mainVars, spoolVars, disk, openers>>
      /\ AtWork(c) /\ task[c].result = "none" /\ TaskFields
  BY NoResultYet DEF Local, AtWork, BodyIInv
<1>2. /\ TaskFields' /\ \A d \in Contents \ {c} : task'[d] = task[d]
      /\ task'[c].at = task[c].at /\ task'[c].body = task[c].body
      /\ \/ task'[c].pc = "send" /\ task'[c].result = "skipped"
         \/ task'[c].pc = q /\ task'[c].result = "none"
  <2>1. CASE Return(c, "skipped")
    BY <1>1, <2>1, ResultSet
  <2>2. CASE task' = [task EXCEPT ![c].path = p, ![c].pc = q]
    BY <1>1, <2>2 DEF TaskFields
  <2>3. CASE task' = [task EXCEPT ![c].pc = q]
    BY <1>1, <2>3, PcChanged
  <2> QED
    BY <2>1, <2>2, <2>3
<1>3. OneTask(c) /\ ReadInv' /\ TasksHaveContents'
  BY <1>1, <1>2, TaskOnly
<1>4. OpenersAreKnown' /\ BodiesAreWritten'
  BY <1>1, <1>2, <1>3, NotOpened
<1> QED
  BY <1>2, <1>3, <1>4 DEF BodyIInv

LEMMA StatStep ==
  ASSUME BodyIInv, NEW c \in Contents, Stat(c)
  PROVE  BodyIInv'
<1> DEFINE p == PathOf(NameOf(c), <<>>)
           q == IF p \in DOMAIN disk /\ setting.hashSuffix THEN "compare" ELSE "create"
<1>1. Local(c, "stat")
  BY DEF Stat
<1>2. Return(c, "skipped") \/ task' = [task EXCEPT ![c].path = p, ![c].pc = q]
  BY DEF Stat
<1>3. q \in {"compare", "create"}
  OBVIOUS
<1> HIDE DEF p, q
<1> QED
  BY <1>1, <1>2, <1>3, LookStep

LEMMA CompareStep ==
  ASSUME BodyIInv, NEW c \in Contents, Compare(c)
  PROVE  BodyIInv'
<1> DEFINE p == PathOf(NameOf(c), <<Rest(c)>>)
<1>1. Local(c, "compare")
  BY DEF Compare
<1>2. CASE Return(c, "skipped") \/ task' = [task EXCEPT ![c].pc = "stat2", ![c].path = p]
  <2> HIDE DEF p
  <2>1. ASSUME task' = [task EXCEPT ![c].pc = "stat2", ![c].path = p]
        PROVE  task' = [task EXCEPT ![c].path = p, ![c].pc = "stat2"]
    BY <2>1 DEF BodyIInv, TaskFields
  <2> QED
    BY <1>1, <1>2, <2>1, LookStep
<1>3. CASE task' = [task EXCEPT ![c].pc = AfterRefusal]
  BY <1>1, <1>3, GivesUp DEF Local, AfterRefusal
<1> QED
  BY <1>2, <1>3 DEF Compare

LEMMA StatSuffixedStep ==
  ASSUME BodyIInv, NEW c \in Contents, StatSuffixed(c)
  PROVE  BodyIInv'
<1>1. Local(c, "stat2") /\ (Return(c, "skipped") \/ task' = [task EXCEPT ![c].pc = "create"])
  BY DEF StatSuffixed
<1> QED
  BY <1>1, LookStep

LEMMA CreateStep ==
  ASSUME BodyIInv, NEW c \in Contents, Create(c)
  PROVE  BodyIInv'
<1> DEFINE p == task[c].path
           to == IF IsBadGzip(c) THEN AfterRefusal ELSE "copy"
<1>1. task[c].pc = "create" /\ AtWork(c) /\ task[c].result = "none"
  BY NoResultYet DEF Create, StepOnly, Step, AtWork
<1>2. CASE StepOnly(c, "create", AfterRefusal)
  BY <1>1, <1>2, GivesUp DEF StepOnly, Step, AfterRefusal
<1>3. CASE /\ Step(c, "create", to)
           /\ disk' = IF p \in DOMAIN disk THEN disk ELSE With(disk, p, <<>>)
           /\ openers' = With(openers, p, {c} \cup (IF p \in DOMAIN openers THEN openers[p] ELSE {}))
           /\ UNCHANGED <<spoolVars, running, counter, sent>>
  <2>1. task' = [task EXCEPT ![c].pc = to] /\ UNCHANGED <<file, rd, mainVars, spoolVars>>
    BY <1>3 DEF Step
  <2>2. to \in {"done", "copy"}
    BY DEF AfterRefusal
  <2>3. PICK path : path = p
    OBVIOUS
  <2>4. /\ disk' = IF path \in DOMAIN disk THEN disk ELSE With(disk, path, <<>>)
        /\ openers' = With(openers, path, {c} \cup (IF path \in DOMAIN openers THEN openers[path] ELSE {}))
    BY <1>3, <2>3
  <2> HIDE DEF to
  <2>5. /\ TaskFields' /\ \A d \in Contents \ {c} : task'[d] = task[d]
        /\ task'[c].pc = to /\ task'[c].at = task[c].at /\ task'[c].path = path
        /\ task'[c].result = "none" /\ task'[c].body = task[c].body
    BY <1>1, <2>1, <2>3, PcChanged DEF BodyIInv
  <2>6. OneTask(c) /\ ReadInv' /\ TasksHaveContents'
    BY <1>1, <2>1, <2>2, <2>5, TaskOnly
  <2>7. task[c].at = 0
    BY <1>1, AtWorkFacts DEF HasItsContent
  <2>8. OpenersAreKnown' /\ BodiesAreWritten'
    BY <1>1, <2>2, <2>3, <2>4, <2>5, <2>6, <2>7, Opened
  <2> QED
    BY <2>5, <2>6, <2>8 DEF BodyIInv
<1> QED
  BY <1>2, <1>3 DEF Create

LEMMA HandOverStep ==
  ASSUME BodyIInv, NEW c \in Contents, Send(c) \/ Done(c)
  PROVE  BodyIInv'
<1>1. PICK from \in {"send", "done"}, to \in {"done", "close"} :
          /\ task[c].pc = from /\ task' = [task EXCEPT ![c].pc = to]
          /\ UNCHANGED <<file, rd, mainVars, spoolVars, disk, openers>>
  BY DEF Send, Done, Step
<1>2. AtWork(c) /\ task[c].result \in {"none", "written", "skipped"}
  BY <1>1, NoResultYet DEF AtWork
<1>3. /\ TaskFields' /\ \A d \in Contents \ {c} : task'[d] = task[d]
      /\ task'[c].pc = to /\ task'[c].at = task[c].at /\ task'[c].path = task[c].path
      /\ task'[c].result = task[c].result /\ task'[c].body = task[c].body
  BY <1>1, PcChanged DEF BodyIInv
<1>4. OneTask(c) /\ ReadInv' /\ TasksHaveContents'
  BY <1>1, <1>2, <1>3, TaskOnly
<1>5. OpenersAreKnown' /\ BodiesAreWritten'
  BY <1>1, <1>3, <1>4, NoMoreWritten
<1> QED
  BY <1>3, <1>4, <1>5 DEF BodyIInv

LEMMA CloseContentStep ==
  ASSUME BodyIInv, NEW c \in Contents, CloseContent(c)
  PROVE  BodyIInv'
<1>1. /\ task[c].pc = "close" /\ task' = [task EXCEPT ![c].pc = "ended"]
      /\ UNCHANGED <<file, rd, mainVars, disk, openers>> /\ (Close(c) \/ RemoveFails(c))
  BY DEF CloseContent, Step
<1>2. AtWork(c) /\ task[c].result \in {"none", "written", "skipped"}
  BY <1>1, NoResultYet DEF AtWork
<1>3. /\ TaskFields' /\ \A d \in Contents \ {c} : task'[d] = task[d]
      /\ task'[c].pc = "ended" /\ task'[c].at = task[c].at /\ task'[c].path = task[c].path
      /\ task'[c].result = task[c].result /\ task'[c].body = task[c].body
  BY <1>1, PcChanged DEF BodyIInv
<1>4. OneTask(c)
  BY <1>1, <1>3 DEF OneTask
<1>5. SpoolInv' /\ OnlyIn(c) /\ spool'[c].stage = "closed"
  BY <1>1, CloseContentOf DEF BodyIInv, ReadInv
<1>6. HasItsContent(c)'
  BY <1>2, <1>3 DEF HasItsContent, AtWork
<1>7. ReadInv' /\ TasksHaveContents'
  BY <1>3, <1>4, <1>5, <1>6, TaskReads
<1>8. OpenersAreKnown' /\ BodiesAreWritten'
  BY <1>1, <1>3, <1>4, NoMoreWritten
<1> QED
  BY <1>3, <1>7, <1>8 DEF BodyIInv

LEMMA BodyFacts ==
  ASSUME NEW S, NEW s \in Seq(S), s # <<>>
  PROVE  /\ BodyOf(s) \in Seq(S) /\ Len(BodyOf(s)) = Len(s) - 1 /\ Len(s) \in Nat
         /\ \A i \in 1..Len(BodyOf(s)) : BodyOf(s)[i] = s[i + 1]
<1>1. Len(s) \in Nat /\ Len(s) >= 1
  OBVIOUS
<1>2. SubSeq(s, 2, Len(s)) \in Seq(S) /\ Len(SubSeq(s, 2, Len(s))) = Len(s) - 1
  <2> DEFINE n == Len(s)
  <2>1. n \in Nat /\ n >= 1 /\ \A i \in 2..n : s[i] \in S
    OBVIOUS
  <2>2. Len(SubSeq(s, 2, n)) = n - 1
    <3> HIDE DEF n
    <3>1. CASE n >= 2
      BY <2>1, <3>1
    <3>2. CASE n = 1
      <4>1. SubSeq(s, 2, 1) = <<>> /\ Len(<<>>) = 0
        OBVIOUS
      <4> QED
        BY <3>2, <4>1
    <3> QED
      BY <2>1, <3>1, <3>2
  <2>3. SubSeq(s, 2, n) \in Seq(S)
    BY <2>1
  <2> QED
    BY <2>2, <2>3
<1>3. \A i \in 1..(Len(s) - 1) : SubSeq(s, 2, Len(s))[i] = s[i + 1]
  BY <1>1
<1> QED
  BY <1>1, <1>2, <1>3 DEF BodyOf

LEMMA CopyStep ==
  ASSUME BodyIInv, NEW c \in Contents, Copy(c)
  PROVE  BodyIInv'
<1>1. task[c].pc = "copy" /\ AtWork(c) /\ task[c].result = "none"
  BY NoResultYet DEF Copy, StepOnly, Step, Local, AtWork
<1>2. /\ HasStore(c) /\ task[c].body = BodyOf(Stored(c)) /\ Stored(c) # <<>>
      /\ spool[c].stage = "reading" /\ spool[c].at = task[c].at + 1
      /\ task[c].at \in 0..Len(task[c].body)
  BY <1>1, AtWorkFacts DEF HasItsContent
<1>3. PICK S : Stored(c) \in Seq(S)
  BY <1>1, AtWorkFacts
<1>4. /\ task[c].body \in Seq(S) /\ Len(task[c].body) = Len(Stored(c)) - 1 /\ Len(Stored(c)) \in Nat
      /\ \A i \in 1..Len(task[c].body) : task[c].body[i] = Stored(c)[i + 1]
  BY <1>2, <1>3, BodyFacts
<1>5. Position(c) = task[c].at + 1 /\ task[c].at \in Nat
  BY <1>2, <1>4 DEF Position
<1>6. CASE StepOnly(c, "copy", AfterRefusal)
  BY <1>1, <1>6, GivesUp DEF StepOnly, Step, AfterRefusal
<1>7. CASE Local(c, "copy") /\ Rest(c) = <<>> /\ Return(c, "written")
  <2>1. UNCHANGED <<file, rd, mainVars, spoolVars, disk, openers>>
    BY <1>7 DEF Local
  <2>2. /\ TaskFields' /\ \A d \in Contents \ {c} : task'[d] = task[d]
        /\ task'[c].pc = "send" /\ task'[c].at = task[c].at /\ task'[c].path = task[c].path
        /\ task'[c].result = "written" /\ task'[c].body = task[c].body
    BY <1>7, ResultSet DEF BodyIInv
  <2>3. OneTask(c) /\ ReadInv' /\ TasksHaveContents'
    BY <1>1, <2>1, <2>2, TaskOnly
  <2>4. task[c].at = Len(task[c].body)
    <3>1. Len(Rest(c)) = 0
      BY <1>7
    <3>2. SubSeq(Stored(c), task[c].at + 2, Len(Stored(c))) = Rest(c)
      <4>1. Position(c) + 1 = task[c].at + 2
        BY <1>5
      <4> QED
        BY <4>1 DEF Rest
    <3>3. task[c].at + 2 > Len(Stored(c))
      <4>1. Len(SubSeq(Stored(c), task[c].at + 2, Len(Stored(c)))) = 0
        BY <3>1, <3>2
      <4> QED
        BY <1>3, <1>4, <1>5, <4>1
    <3> QED
      BY <1>2, <1>4, <3>3
  <2>5. SubSeq(task[c].body, 1, task[c].at) = task[c].body
    BY <1>4, <2>4
  <2>6. OpenersAreKnown' /\ BodiesAreWritten'
    BY <1>1, <2>1, <2>2, <2>3, <2>5, NoMoreWritten
  <2> QED
    BY <2>2, <2>3, <2>6 DEF BodyIInv
<1>8. CASE /\ Rest(c) # <<>>
           /\ disk' = [disk EXCEPT ![task[c].path] = Overwrite(@, task[c].at + 1, Head(Rest(c)))]
           /\ task' = [task EXCEPT ![c].at = @ + 1]
           /\ ReadTo(c, Position(c) + 1)
           /\ UNCHANGED <<file, rd, mainVars, running, openers, counter, sent, printed>>
  <2>1. /\ TaskFields' /\ \A d \in Contents \ {c} : task'[d] = task[d]
        /\ task'[c].pc = "copy" /\ task'[c].at = task[c].at + 1 /\ task'[c].path = task[c].path
        /\ task'[c].result = task[c].result /\ task'[c].body = task[c].body
    BY <1>1, <1>8 DEF BodyIInv, TaskFields
  <2>2. OneTask(c)
    BY <1>1, <1>8, <2>1 DEF OneTask
  <2>3. ReadTo(c, task[c].at + 2) /\ task[c].at + 2 \in Nat
    BY <1>5, <1>8
  <2>4. /\ SpoolInv' /\ OnlyIn(c) /\ spool'[c].stage = "reading" /\ spool'[c].at = task[c].at + 2
        /\ HasStore(c)' /\ Stored(c)' = Stored(c)
    BY <2>3, ReadContentTo DEF BodyIInv, ReadInv
  <2>5. task[c].at + 2 <= Len(Stored(c))
    <3>1. SubSeq(Stored(c), task[c].at + 2, Len(Stored(c))) # <<>>
      BY <1>5, <1>8 DEF Rest
    <3> QED
      BY <1>3, <1>4, <1>5, <3>1
  <2>6. Head(Rest(c)) = task[c].body[task[c].at + 1]
    <3>1. Head(SubSeq(Stored(c), task[c].at + 2, Len(Stored(c)))) = Stored(c)[task[c].at + 2]
      BY <1>3, <1>4, <1>5, <2>5
    <3>2. task[c].body[task[c].at + 1] = Stored(c)[task[c].at + 2]
      BY <1>4, <1>5, <2>5
    <3> QED
      <4>1. Position(c) + 1 = task[c].at + 2
        BY <1>5
      <4>2. Rest(c) = SubSeq(Stored(c), task[c].at + 2, Len(Stored(c)))
        BY <4>1 DEF Rest
      <4> QED
        BY <3>1, <3>2, <4>2
  <2>7. task[c].at + 1 \in 1..Len(task[c].body) /\ task[c].at + 1 \in 0..Len(task[c].body)
    BY <1>4, <1>5, <2>5
  <2>8. BodyOf(Stored(c))' = BodyOf(Stored(c))
    BY <2>4 DEF BodyOf
  <2>9. HasItsContent(c)'
    BY <1>1, <1>2, <1>5, <2>1, <2>4, <2>7, <2>8 DEF HasItsContent
  <2>10. ReadInv' /\ TasksHaveContents'
    BY <2>1, <2>2, <2>4, <2>9, TaskReads
  <2>11. PICK path : path = task[c].path
    OBVIOUS
  <2>12. disk' = [disk EXCEPT ![path] = Overwrite(@, task[c].at + 1, task[c].body[task[c].at + 1])]
    BY <1>8, <2>6, <2>11
  <2>13. UNCHANGED openers /\ task'[c].path = path
    BY <1>8, <2>1, <2>11
  <2>14. OpenersAreKnown' /\ BodiesAreWritten'
    BY <1>1, <1>4, <1>5, <2>1, <2>2, <2>7, <2>11, <2>12, <2>13, Written
  <2> QED
    BY <2>1, <2>10, <2>14 DEF BodyIInv
<1> QED
  BY <1>6, <1>7, <1>8 DEF Copy

LEMMA TaskStep ==
  ASSUME BodyIInv, NEW c \in Contents, processRecord(c)
  PROVE  BodyIInv'
  BY ResponseStep, StatStep, CompareStep, StatSuffixedStep, CreateStep, CopyStep, HandOverStep, CloseContentStep
     DEF processRecord

(***************************************************************************)
(* The steps of the main goroutine.                                        *)
(***************************************************************************)
LEMMA ReadKeepsBodies ==
  ASSUME BodyIInv, RoomLeft, Read
  PROVE  BodyIInv'
<1>1. /\ pc = "read" /\ pc' = "read" /\ ReadRecord
      /\ UNCHANGED <<setting, todo, task, disk, openers>>
  BY DEF Read, mainVars, taskVars
<1>2. ReadInv' /\ Untouched
  BY <1>1, ReaderStep DEF Frame, BodyIInv
<1>3. TaskFields' /\ OpenersAreKnown' /\ BodiesAreWritten'
  BY <1>1 DEF BodyIInv, TaskFields, OpenersAreKnown, BodiesAreWritten
<1>4. ASSUME NEW d \in Contents PROVE HasItsContent(d)'
  <2>1. HasItsContent(d) /\ task'[d] = task[d]
    BY <1>1 DEF BodyIInv, TasksHaveContents
  <2>2. AtWork(d)' = AtWork(d)
    BY <2>1 DEF AtWork
  <2>3. CASE task[d].pc = "none"
    BY <2>1, <2>3 DEF HasItsContent, AtWork
  <2>4. CASE task[d].pc # "none"
    <3>1. /\ spool'[d] = spool[d] /\ HasStore(d)' = HasStore(d) /\ Position(d)' = Position(d)
          /\ HasStore(d) => Stored(d)' = Stored(d)
      BY <1>2, <2>4 DEF Untouched
    <3>2. task[d].pc \in {"stat", "compare", "stat2", "create", "copy"} => AtWork(d)
      BY DEF AtWork
    <3>3. AtWork(d) => Stored(d)' = Stored(d) /\ HasStore(d)
      BY <2>1, <3>1 DEF HasItsContent
    <3>4. AtWork(d) => BodyOf(Stored(d))' = BodyOf(Stored(d))
      BY <3>3 DEF BodyOf
    <3> QED
      BY <2>1, <2>2, <3>1, <3>2, <3>3, <3>4 DEF HasItsContent
  <2> QED
    BY <2>3, <2>4
<1> QED
  BY <1>2, <1>3, <1>4 DEF BodyIInv, TasksHaveContents

LEMMA StartKeepsBodies ==
  ASSUME BodyIInv, StartTask
  PROVE  BodyIInv'
<1>1. /\ pc = "read" /\ rd.pc = "got"
      /\ rd' = [rd EXCEPT !.pc = "idle"]
      /\ UNCHANGED <<file, spool, bytes, pool, setting, todo, pc, disk, openers>>
  BY DEF StartTask, mainVars, spoolVars
<1>2. "got" \in InContent /\ "idle" \notin InContent
  BY DEF InContent
<1>3. PICK c \in Contents : /\ c = rd.record.content /\ task[c].pc = "none"
                            /\ spool[c].stage = "writing" /\ HasStore(c)
  BY <1>1, <1>2 DEF BodyIInv, ReadInv, ReaderAlone
<1>4. Stored(c) = Content
  BY <1>1, <1>3 DEF BodyIInv, ReadInv, ContentIsRead
<1> DEFINE record == rd.record
           body == BodyOf(file.records[rd.member].content)
           t1 == [NoTask EXCEPT !.pc = "response", !.record = record, !.body = body]
<1>5. task' = [task EXCEPT ![c] = t1]
  BY <1>3 DEF StartTask
<1>6. body = BodyOf(Stored(c))
  BY <1>4 DEF Content
<1> HIDE DEF record, body
<1>7. /\ {"pc", "record", "path", "at", "result", "body"} \subseteq DOMAIN t1
      /\ t1.pc = "response" /\ t1.at = 0 /\ t1.result = "none" /\ t1.body = body
  BY DEF NoTask
<1> HIDE DEF t1
<1>8. task'[c] = t1 /\ DOMAIN task' = Contents /\ \A d \in Contents \ {c} : task'[d] = task[d]
  BY <1>5 DEF BodyIInv, TaskFields
<1>9. TaskFields'
  BY <1>7, <1>8 DEF BodyIInv, TaskFields
<1>10. ReadInv'
  <2>1. SpoolInv'
    BY <1>1 DEF BodyIInv, ReadInv, SpoolInv, Typed, BuffersApart
  <2>2. ReaderFields' /\ rd'.pc = "idle" /\ rd'.member = rd.member
    BY <1>1 DEF BodyIInv, ReadInv, ReaderFields
  <2>3. FilesAreOurs'
    BY <1>1 DEF BodyIInv, ReadInv, FilesAreOurs, OurFile
  <2>4. LinesAreFound' /\ ContentIsRead'
    BY <1>1, <2>2 DEF BodyIInv, ReadInv, LinesAreFound, ContentIsRead
  <2>5. ReaderAlone'
    <3>1. \A d \in Contents : spool'[d].stage = "unused" => task'[d].pc = "none"
      BY <1>1, <1>3, <1>8 DEF BodyIInv, ReadInv, ReaderAlone
    <3> QED
      BY <1>2, <2>2, <3>1 DEF ReaderAlone
  <2> QED
    BY <2>1, <2>2, <2>3, <2>4, <2>5 DEF ReadInv
<1>11. \A d \in Contents : /\ HasStore(d)' = HasStore(d) /\ Position(d)' = Position(d)
                           /\ Stored(d)' = Stored(d) /\ BodyOf(Stored(d))' = BodyOf(Stored(d))
  BY <1>1 DEF HasStore, Position, Stored, BodyOf
<1>12. TasksHaveContents'
  <2>1. HasItsContent(c)'
    BY <1>1, <1>3, <1>6, <1>7, <1>8, <1>11 DEF HasItsContent
  <2>2. ASSUME NEW d \in Contents \ {c} PROVE HasItsContent(d)'
    <3>1. HasItsContent(d) /\ task'[d] = task[d]
      BY <1>8 DEF BodyIInv, TasksHaveContents
    <3>2. AtWork(d)' = AtWork(d)
      BY <3>1 DEF AtWork
    <3> QED
      BY <1>1, <1>11, <3>1, <3>2 DEF HasItsContent
  <2> QED
    BY <2>1, <2>2 DEF TasksHaveContents
<1>13. \A p \in DOMAIN openers : c \notin openers[p]
  BY <1>3 DEF BodyIInv, OpenersAreKnown
<1>14. OpenersAreKnown'
  <2>1. ASSUME NEW p \in DOMAIN openers, NEW d \in openers[p]
        PROVE  /\ d \in Contents /\ task'[d].path = p
               /\ task'[d].pc \in {"copy", "send", "done", "close", "ended"}
    <3>1. /\ d \in Contents /\ d # c /\ task[d].path = p
          /\ task[d].pc \in {"copy", "send", "done", "close", "ended"}
      BY <1>13 DEF BodyIInv, OpenersAreKnown
    <3> QED
      BY <1>8, <3>1
  <2>2. \A d \in Contents : task'[d].pc = "copy" \/ task'[d].result = "written" =>
            task'[d].path \in DOMAIN openers /\ d \in openers[task'[d].path]
    BY <1>7, <1>8 DEF BodyIInv, OpenersAreKnown
  <2> QED
    BY <1>1, <2>1, <2>2 DEF BodyIInv, OpenersAreKnown
<1>15. BodiesAreWritten'
  BY <1>1, <1>7, <1>8 DEF BodyIInv, BodiesAreWritten
<1> QED
  BY <1>9, <1>10, <1>12, <1>14, <1>15 DEF BodyIInv

\* A step that leaves all of this alone, and does not begin to read.
LEMMA OtherKeepsBodies ==
  ASSUME BodyIInv, UNCHANGED <<file, rd, spool, bytes, pool, task, disk, openers, setting, todo>>,
         pc' = pc \/ pc' # "read"
  PROVE  BodyIInv'
<1>1. TaskFields' /\ OpenersAreKnown' /\ BodiesAreWritten'
  BY DEF BodyIInv, TaskFields, OpenersAreKnown, BodiesAreWritten
<1>2. TasksHaveContents'
  <2>1. \A d \in Contents : /\ HasStore(d)' = HasStore(d) /\ Position(d)' = Position(d)
                            /\ Stored(d)' = Stored(d) /\ BodyOf(Stored(d))' = BodyOf(Stored(d))
    BY DEF HasStore, Position, Stored, BodyOf
  <2> QED
    BY <2>1 DEF BodyIInv, TasksHaveContents, HasItsContent, AtWork
<1>3. SpoolInv' /\ ReaderFields'
  BY DEF BodyIInv, ReadInv, SpoolInv, Typed, BuffersApart, ReaderFields
<1>4. FilesAreOurs'
  BY DEF BodyIInv, ReadInv, FilesAreOurs, OurFile
<1>5. LinesAreFound'
  BY DEF BodyIInv, ReadInv, LinesAreFound, LengthIsTrue, Content, Text, Member, IsGzip
<1>6. ContentIsRead'
  <2>1. Content' = Content /\ Text' = Text /\ Stored(rd.record.content)' = Stored(rd.record.content)
    BY DEF Content, Text, Member, Stored
  <2> QED
    BY <2>1 DEF BodyIInv, ReadInv, ContentIsRead, InBody, BeginsWith
<1>7. ReaderAlone'
  <2>1. HasStore(rd.record.content)' = HasStore(rd.record.content)
    BY DEF HasStore
  <2> QED
    BY <2>1 DEF BodyIInv, ReadInv, ReaderAlone
<1> QED
  BY <1>1, <1>2, <1>3, <1>4, <1>5, <1>6, <1>7 DEF BodyIInv, ReadInv

LEMMA NewReaderFacts ==
  /\ {"pc", "member", "at", "tell", "left", "lines", "record"} \subseteq DOMAIN NewReader
  /\ {"version", "header", "content", "offset", "size"} \subseteq DOMAIN NewReader.record
  /\ FieldNames \subseteq DOMAIN NewReader.record.header
  /\ NewReader.pc = "idle" /\ NewReader.member = 0 /\ NewReader.pc \notin InContent
  BY DEF NewReader, NoRecord, InContent

LEMMA OpenKeepsBodies ==
  ASSUME BodyIInv, OpenFile
  PROVE  BodyIInv'
<1>1. UNCHANGED <<spool, bytes, pool, setting, task, disk, openers>>
  BY DEF OpenFile, spoolVars, taskVars
<1>2. CASE pc' = "return" /\ UNCHANGED <<file, rd, todo, counter, sent>>
  BY <1>1, <1>2, OtherKeepsBodies
<1>3. CASE /\ ~(todo = <<>> \/ Head(todo).format = "missing")
           /\ pc' = "read" /\ file' = Head(todo) /\ todo' = Tail(todo)
           /\ rd' = NewReader
  <2>1. TaskFields' /\ OpenersAreKnown' /\ BodiesAreWritten'
    BY <1>1 DEF BodyIInv, TaskFields, OpenersAreKnown, BodiesAreWritten
  <2>2. TasksHaveContents'
    <3>1. \A d \in Contents : /\ HasStore(d)' = HasStore(d) /\ Position(d)' = Position(d)
                              /\ Stored(d)' = Stored(d) /\ BodyOf(Stored(d))' = BodyOf(Stored(d))
      BY <1>1 DEF HasStore, Position, Stored, BodyOf
    <3> QED
      BY <1>1, <3>1 DEF BodyIInv, TasksHaveContents, HasItsContent, AtWork
  <2>3. SpoolInv'
    BY <1>1 DEF BodyIInv, ReadInv, SpoolInv, Typed, BuffersApart
  <2>4. ReaderFields'
    BY <1>3, NewReaderFacts DEF ReaderFields
  <2>5. FilesAreOurs'
    <3> DEFINE F == {setting.files[i] : i \in DOMAIN setting.files}
    <3>1. todo \in Seq(F) /\ setting \in Settings
      BY DEF BodyIInv, ReadInv, FilesAreOurs
    <3> HIDE DEF F
    <3>2. Head(todo) \in F /\ Tail(todo) \in Seq(F)
      BY <1>3, <3>1
    <3>3. todo' \in Seq(F) /\ file' \in F /\ file'.format # "missing"
      BY <1>3, <3>2
    <3>4. OurFile(file)' /\ todo' \in Seq({setting'.files[i] : i \in DOMAIN setting'.files})
      BY <1>1, <3>3 DEF OurFile, F
    <3> QED
      BY <1>1, <3>1, <3>3, <3>4 DEF FilesAreOurs
  <2>6. LinesAreFound' /\ ContentIsRead' /\ ReaderAlone'
    <3>1. rd'.pc = "idle" /\ rd'.member = 0 /\ rd'.pc \notin InContent
      BY <1>3, NewReaderFacts
    <3>2. \A d \in Contents : spool'[d].stage = "unused" => task'[d].pc = "none"
      BY <1>1 DEF BodyIInv, ReadInv, ReaderAlone
    <3> QED
      BY <3>1, <3>2 DEF LinesAreFound, ContentIsRead, ReaderAlone
  <2> QED
    BY <2>1, <2>2, <2>3, <2>4, <2>5, <2>6 DEF BodyIInv, ReadInv
<1> QED
  BY <1>2, <1>3 DEF OpenFile

LEMMA BodyInit == Init => BodyIInv
<1> SUFFICES ASSUME Init PROVE BodyIInv
  OBVIOUS
<1>1. \A c \in Contents : task[c] = NoTask /\ spool[c] = Unused
  BY DEF Init, SpoolInit
<1>2. /\ {"pc", "record", "path", "at", "result", "body"} \subseteq DOMAIN NoTask
      /\ NoTask.pc = "none" /\ NoTask.at = 0 /\ NoTask.result = "none"
  BY DEF NoTask
<1>3. TaskFields
  BY <1>1, <1>2 DEF Init, TaskFields
<1>4. SpoolInv
  <2> DEFINE S == {}
  <2>1. Unused \in Holding(S) /\ Unused.buf = NoBuffer
    BY UnusedIsHolding
  <2>2. <<>> \in Seq(S)
    OBVIOUS
  <2>3. spool \in [Contents -> Holding(S)]
    BY <2>1 DEF Init, SpoolInit
  <2>4. bytes \in [Buffers -> Seq(S)] /\ pool \in [Buffers -> Nat]
    BY <2>2 DEF Init, SpoolInit
  <2>5. BuffersApart
    BY <1>1, <2>1, SpoolAssumption DEF Init, SpoolInit, BuffersApart
  <2> QED
    BY <2>3, <2>4, <2>5 DEF SpoolInv, Typed
<1>5. ReaderFields
  BY NewReaderFacts DEF Init, ReaderFields
<1>6. FilesAreOurs
  <2> DEFINE F == {setting.files[i] : i \in DOMAIN setting.files}
  <2>1. setting \in Settings /\ todo = setting.files /\ file = Head(setting.files) /\ pc # "read"
    BY DEF Init
  <2>2. setting.files \in Seq(F) /\ setting.files # <<>>
    BY <2>1, FilesAssumption
  <2> HIDE DEF F
  <2>3. Head(setting.files) \in F
    BY <2>2
  <2>4. OurFile(file)
    BY <2>1, <2>3 DEF OurFile, F
  <2> QED
    BY <2>1, <2>2, <2>4 DEF FilesAreOurs, F
<1>7. LinesAreFound /\ ContentIsRead
  BY DEF Init, LinesAreFound, ContentIsRead
<1>8. ReaderAlone
  BY <1>1, <1>2, NewReaderFacts DEF Init, ReaderAlone
<1>9. TasksHaveContents
  BY <1>1, <1>2 DEF TasksHaveContents, HasItsContent, AtWork
<1>10. OpenersAreKnown /\ BodiesAreWritten
  BY <1>1, <1>2 DEF Init, OpenersAreKnown, BodiesAreWritten
<1> QED
  BY <1>3, <1>4, <1>5, <1>6, <1>7, <1>8, <1>9, <1>10 DEF BodyIInv, ReadInv

LEMMA BodyNext == BodyIInv /\ RoomLeft /\ [Next]_vars => BodyIInv'
<1> SUFFICES ASSUME BodyIInv, RoomLeft, [Next]_vars PROVE BodyIInv'
  OBVIOUS
<1>1. CASE OpenFile
  BY <1>1, OpenKeepsBodies
<1>2. CASE Read
  BY <1>2, ReadKeepsBodies
<1>3. CASE StartTask
  BY <1>3, StartKeepsBodies
<1>4. CASE EndOfFile \/ Wait \/ printExtractReport \/ Exit \/ Count \/ UNCHANGED vars
  <2>1. /\ UNCHANGED <<file, rd, spool, bytes, pool, task, disk, openers, setting, todo>>
        /\ pc' = pc \/ pc' # "read"
    BY <1>4 DEF EndOfFile, Wait, printExtractReport, Exit, Count, vars, readerVars, spoolVars, mainVars, taskVars
  <2> QED
    BY <2>1, OtherKeepsBodies
<1>5. CASE \E c \in Contents : processRecord(c)
  BY <1>5, TaskStep
<1> QED
  BY <1>1, <1>2, <1>3, <1>4, <1>5 DEF Next, extract, Terminated

LEMMA WrittenFollows == BodyIInv => WrittenAreBodies
<1> SUFFICES ASSUME BodyIInv, NEW p \in DOMAIN openers, NEW c \in Contents,
                    openers[p] = {c}, task[c].result = "written", p \notin DOMAIN setting.old
             PROVE  disk[p] = task[c].body
  BY DEF WrittenAreBodies
<1>1. c \in openers[p]
  OBVIOUS
<1>2. task[c].path = p
  BY <1>1 DEF BodyIInv, OpenersAreKnown
<1> QED
  BY <1>2 DEF BodyIInv, BodiesAreWritten

LEMMA WrittenAreBodiesHolds == Spec /\ []RoomLeft => []WrittenAreBodies
  BY BodyInit, BodyNext, WrittenFollows, PTL DEF Spec

(***************************************************************************)
(* The files that are opened.                                              *)
(***************************************************************************)

FilesInv == TaskFields /\ TurnInv

LEMMA InitFiles == Init => FilesInv
<1> SUFFICES ASSUME Init PROVE FilesInv
  OBVIOUS
<1>1. TaskFields /\ \A c \in Contents : task[c].pc = "none"
  BY DEF Init, NoTask, TaskFields
<1>2. running = 0 /\ disk = setting.old /\ DOMAIN openers = {}
  BY DEF Init
<1> QED
  BY <1>1, <1>2 DEF FilesInv, TurnInv, OneWorks, PathIsFree, OpenedOnce, Working

\* The steps that begin or end no task, and open no file: a task may go on, to a
\* place where it has found its path free, or not.
LEMMA QuietFiles ==
  ASSUME FilesInv, setting' = setting, openers' = openers, running' = running,
         DOMAIN disk' = DOMAIN disk, TaskFields',
         \A c \in Contents : Working(c)' => Working(c),
         \A c \in Contents : task'[c].pc = "create" =>
             \/ task'[c] = task[c]
             \/ task'[c].path \notin DOMAIN disk \/ setting.overwrite
  PROVE  FilesInv'
<1>1. OneAtATime' = OneAtATime
  BY DEF OneAtATime
<1>2. OneWorks' /\ PathIsFree'
  BY <1>1 DEF FilesInv, TurnInv, OneWorks, PathIsFree
<1>3. OpenedOnce'
  BY <1>1 DEF FilesInv, TurnInv, OpenedOnce
<1> QED
  BY <1>2, <1>3 DEF FilesInv, TurnInv

\* One task takes a step.
LEMMA TaskGoesOn ==
  ASSUME TaskFields, NEW c \in Contents, NEW p,
         \/ task' = [task EXCEPT ![c].pc = p]
         \/ \E r : task' = [task EXCEPT ![c].pc = p, ![c].result = r]
         \/ \E q : task' = [task EXCEPT ![c].path = q, ![c].pc = p]
         \/ \E q : task' = [task EXCEPT ![c].pc = p, ![c].path = q]
  PROVE  /\ TaskFields' /\ task'[c].pc = p
         /\ \A d \in Contents : d # c => task'[d] = task[d]
  BY DEF TaskFields

LEMMA StartFiles ==
  ASSUME FilesInv, StartTask
  PROVE  FilesInv'
<1>1. /\ Free /\ running' = running + 1 /\ UNCHANGED <<setting, disk, openers>>
      /\ \E r, b : task' = [task EXCEPT ![rd.record.content] =
                               [NoTask EXCEPT !.pc = "response", !.record = r, !.body = b]]
  BY DEF StartTask, mainVars
<1>2. TaskFields' /\ \A c \in Contents : task'[c] = task[c] \/ (c = rd.record.content /\ task'[c].pc = "response")
  BY <1>1 DEF FilesInv, TaskFields, NoTask
<1>3. OneAtATime' = OneAtATime
  BY <1>1 DEF OneAtATime
<1>4. ASSUME OneAtATime
      PROVE  /\ running = 0 /\ running' = 1 /\ \A c \in Contents : ~Working(c)
  BY <1>1, <1>4 DEF Free, OneAtATime, FilesInv, TurnInv, OneWorks
<1>5. \A c \in Contents : Working(c)' => Working(c) \/ c = rd.record.content
  BY <1>2 DEF Working
<1>6. OneWorks'
  BY <1>3, <1>4, <1>5 DEF OneWorks
<1>7. PathIsFree'
  BY <1>1, <1>2, <1>3 DEF FilesInv, TurnInv, PathIsFree
<1>8. OpenedOnce'
  BY <1>1, <1>3 DEF FilesInv, TurnInv, OpenedOnce
<1> QED
  BY <1>1, <1>2, <1>6, <1>7, <1>8 DEF FilesInv, TurnInv

LEMMA CreateFiles ==
  ASSUME FilesInv, NEW c \in Contents, Create(c)
  PROVE  FilesInv'
<1> DEFINE p == task[c].path
<1>1. CASE StepOnly(c, "create", AfterRefusal)
  <2>1. /\ task[c].pc = "create" /\ task' = [task EXCEPT ![c].pc = "done"]
        /\ UNCHANGED <<setting, running, disk, openers>>
    BY <1>1 DEF StepOnly, Step, mainVars, AfterRefusal
  <2>2. TaskFields' /\ task'[c].pc = "done" /\ \A d \in Contents : d # c => task'[d] = task[d]
    BY <2>1, TaskGoesOn DEF FilesInv
  <2>3. \A d \in Contents : Working(d)' => Working(d)
    BY <2>1, <2>2 DEF Working
  <2> QED
    BY <2>1, <2>2, <2>3, QuietFiles
<1>2. CASE /\ Step(c, "create", IF IsBadGzip(c) THEN AfterRefusal ELSE "copy")
           /\ disk' = IF p \in DOMAIN disk THEN disk ELSE With(disk, p, <<>>)
           /\ openers' = With(openers, p, {c} \cup (IF p \in DOMAIN openers THEN openers[p] ELSE {}))
           /\ running' = running
  <2>1. /\ task[c].pc = "create" /\ setting' = setting
        /\ \E q \in {"done", "copy"} : task' = [task EXCEPT ![c].pc = q]
    BY <1>2 DEF Step, mainVars, AfterRefusal
  <2>2. /\ TaskFields' /\ task'[c].pc \in {"done", "copy"}
        /\ \A d \in Contents : d # c => task'[d] = task[d]
    BY <2>1, TaskGoesOn DEF FilesInv
  <2>3. OneAtATime' = OneAtATime
    BY <2>1 DEF OneAtATime
  <2>4. /\ DOMAIN disk' = DOMAIN disk \cup {p} /\ DOMAIN openers' = DOMAIN openers \cup {p}
        /\ \A q \in DOMAIN openers : q # p => openers'[q] = openers[q]
        /\ p \notin DOMAIN openers => openers'[p] = {c}
    BY <1>2 DEF With
  <2>5. Working(c) /\ \A d \in Contents : Working(d)' => Working(d)
    BY <2>1, <2>2 DEF Working
  <2>6. OneWorks'
    BY <1>2, <2>3, <2>5 DEF FilesInv, TurnInv, OneWorks
  <2>7. PathIsFree'
    <3> SUFFICES ASSUME OneAtATime, ~setting.overwrite, NEW d \in Contents, task'[d].pc = "create"
                 PROVE  FALSE
      BY <2>1, <2>3 DEF PathIsFree
    <3>1. d # c /\ task[d].pc = "create"
      BY <2>2
    <3>2. Working(d)
      BY <3>1 DEF Working
    <3> QED
      BY <2>5, <3>1, <3>2 DEF FilesInv, TurnInv, OneWorks
  <2>8. OpenedOnce'
    <3> SUFFICES ASSUME OneAtATime, ~setting.overwrite, NEW q \in DOMAIN openers'
                 PROVE  q \notin DOMAIN setting.old /\ Cardinality(openers'[q]) = 1
      BY <2>1, <2>3 DEF OpenedOnce
    <3>1. p \notin DOMAIN disk
      BY <2>1 DEF FilesInv, TurnInv, PathIsFree
    <3>2. p \notin DOMAIN setting.old /\ p \notin DOMAIN openers
      BY <3>1 DEF FilesInv, TurnInv
    <3>3. Cardinality({c}) = 1
      BY FS_Singleton
    <3>4. CASE q = p
      BY <2>4, <3>2, <3>3, <3>4
    <3>5. CASE q # p
      BY <2>4, <3>5 DEF FilesInv, TurnInv, OpenedOnce
    <3> QED
      BY <3>4, <3>5
  <2>9. DOMAIN setting'.old \cup DOMAIN openers' \subseteq DOMAIN disk'
    BY <2>1, <2>4 DEF FilesInv, TurnInv
  <2> QED
    BY <2>2, <2>6, <2>7, <2>8, <2>9 DEF FilesInv, TurnInv
<1> QED
  BY <1>1, <1>2 DEF Create

LEMMA DoneFiles ==
  ASSUME FilesInv, NEW c \in Contents, Done(c)
  PROVE  FilesInv'
<1>1. /\ task[c].pc = "done" /\ task' = [task EXCEPT ![c].pc = "close"] /\ running' = running - 1
      /\ UNCHANGED <<setting, disk, openers>>
  BY DEF Done, Step, mainVars
<1>2. TaskFields' /\ task'[c].pc = "close" /\ \A d \in Contents : d # c => task'[d] = task[d]
  BY <1>1, TaskGoesOn DEF FilesInv
<1>3. OneAtATime' = OneAtATime
  BY <1>1 DEF OneAtATime
<1>4. /\ Working(c) /\ ~Working(c)'
      /\ \A d \in Contents : Working(d)' => Working(d) /\ d # c
  BY <1>1, <1>2 DEF Working
<1>5. OneWorks'
  BY <1>1, <1>3, <1>4 DEF FilesInv, TurnInv, OneWorks
<1>6. PathIsFree'
  BY <1>1, <1>2, <1>3 DEF FilesInv, TurnInv, PathIsFree
<1>7. OpenedOnce'
  BY <1>1, <1>3 DEF FilesInv, TurnInv, OpenedOnce
<1> QED
  BY <1>1, <1>2, <1>5, <1>6, <1>7 DEF FilesInv, TurnInv

LEMMA TaskFiles ==
  ASSUME FilesInv, NEW c \in Contents, processRecord(c)
  PROVE  FilesInv'
<1>1. ASSUME UNCHANGED <<setting, running, openers>>, DOMAIN disk' = DOMAIN disk,
             TaskFields', \A d \in Contents : d # c => task'[d] = task[d],
             Working(c) \/ ~Working(c)',
             task'[c].pc = "create" => task'[c].path \notin DOMAIN disk \/ setting.overwrite
      PROVE  FilesInv'
  <2>1. \A d \in Contents : Working(d)' => Working(d)
    BY <1>1 DEF Working
  <2> QED
    BY <1>1, <2>1, QuietFiles
<1>2. CASE ReadResponse(c) \/ Send(c)
  <2>1. /\ UNCHANGED <<setting, running, disk, openers>> /\ task[c].pc \in {"response", "send"}
        /\ \E p \in {"stat", "done"} : task' = [task EXCEPT ![c].pc = p]
    BY <1>2 DEF ReadResponse, Send, StepOnly, Step, mainVars, AfterRefusal
  <2>2. TaskFields' /\ task'[c].pc \in {"stat", "done"} /\ \A d \in Contents : d # c => task'[d] = task[d]
    BY <2>1, TaskGoesOn DEF FilesInv
  <2> QED
    BY <1>1, <2>1, <2>2 DEF Working
<1>3. CASE Stat(c)
  <2> DEFINE q == PathOf(NameOf(c), <<>>)
  <2>1. UNCHANGED <<setting, running, disk, openers>> /\ task[c].pc = "stat"
    BY <1>3 DEF Stat, Local, mainVars
  <2>2. CASE Return(c, "skipped")
    <3>1. TaskFields' /\ task'[c].pc = "send" /\ \A d \in Contents : d # c => task'[d] = task[d]
      BY <2>2, TaskGoesOn DEF Return, FilesInv
    <3> QED
      BY <1>1, <2>1, <3>1 DEF Working
  <2>3. CASE task' = [task EXCEPT ![c].path = q,
                                  ![c].pc = IF q \in DOMAIN disk /\ setting.hashSuffix THEN "compare" ELSE "create"]
             /\ ~(q \in DOMAIN disk /\ ~setting.hashSuffix /\ ~setting.overwrite)
    <3>1. PICK p \in {"compare", "create"} :
              /\ p = (IF q \in DOMAIN disk /\ setting.hashSuffix THEN "compare" ELSE "create")
              /\ task' = [task EXCEPT ![c].path = q, ![c].pc = p]
      BY <2>3
    <3> HIDE DEF q
    <3>2. TaskFields' /\ task'[c].pc = p /\ \A d \in Contents : d # c => task'[d] = task[d]
      BY <3>1, TaskGoesOn DEF FilesInv
    <3>3. task'[c].path = q
      BY <3>1 DEF FilesInv, TaskFields
    <3>4. p = "create" => q \notin DOMAIN disk \/ setting.overwrite
      BY <2>3, <3>1
    <3> QED
      BY <1>1, <2>1, <3>2, <3>3, <3>4 DEF Working
  <2> QED
    BY <1>3, <2>2, <2>3 DEF Stat
<1>4. CASE Compare(c)
  <2>1. UNCHANGED <<setting, running, disk, openers>> /\ task[c].pc = "compare"
    BY <1>4 DEF Compare, Local, mainVars
  <2> DEFINE q == PathOf(NameOf(c), <<Rest(c)>>)
  <2>2. \/ Return(c, "skipped")
        \/ task' = [task EXCEPT ![c].pc = "stat2", ![c].path = q]
        \/ task' = [task EXCEPT ![c].pc = "done"]
    BY <1>4 DEF Compare, AfterRefusal
  <2> HIDE DEF q
  <2>a. ASSUME NEW p \in {"send", "stat2", "done"},
               TaskFields' /\ task'[c].pc = p /\ \A d \in Contents : d # c => task'[d] = task[d]
        PROVE  FilesInv'
    BY <1>1, <2>1, <2>a DEF Working
  <2>3. CASE Return(c, "skipped")
    <3>1. TaskFields' /\ task'[c].pc = "send" /\ \A d \in Contents : d # c => task'[d] = task[d]
      BY <2>3, TaskGoesOn DEF Return, FilesInv
    <3> QED
      BY <2>a, <3>1
  <2>4. CASE task' = [task EXCEPT ![c].pc = "stat2", ![c].path = q]
    <3>1. TaskFields' /\ task'[c].pc = "stat2" /\ \A d \in Contents : d # c => task'[d] = task[d]
      BY <2>4, TaskGoesOn DEF FilesInv
    <3> QED
      BY <2>a, <3>1
  <2>5. CASE task' = [task EXCEPT ![c].pc = "done"]
    <3>1. TaskFields' /\ task'[c].pc = "done" /\ \A d \in Contents : d # c => task'[d] = task[d]
      BY <2>5, TaskGoesOn DEF FilesInv
    <3> QED
      BY <2>a, <3>1
  <2> QED
    BY <2>2, <2>3, <2>4, <2>5
<1>5. CASE StatSuffixed(c)
  <2>1. UNCHANGED <<setting, running, disk, openers>> /\ task[c].pc = "stat2"
    BY <1>5 DEF StatSuffixed, Local, mainVars
  <2>2. CASE Return(c, "skipped")
    <3>1. TaskFields' /\ task'[c].pc = "send" /\ \A d \in Contents : d # c => task'[d] = task[d]
      BY <2>2, TaskGoesOn DEF Return, FilesInv
    <3> QED
      BY <1>1, <2>1, <3>1 DEF Working
  <2>3. CASE ~Taken(task[c].path) /\ task' = [task EXCEPT ![c].pc = "create"]
    <3>1. TaskFields' /\ \A d \in Contents : d # c => task'[d] = task[d]
      BY <2>3, TaskGoesOn DEF FilesInv
    <3>2. task'[c].path = task[c].path
      BY <2>3 DEF FilesInv, TaskFields
    <3> QED
      BY <1>1, <2>1, <2>3, <3>1, <3>2 DEF Working, Taken
  <2> QED
    BY <1>5, <2>2, <2>3 DEF StatSuffixed
<1>6. CASE Copy(c)
  <2>1. UNCHANGED <<setting, running, openers>> /\ task[c].pc = "copy" /\ DOMAIN disk' = DOMAIN disk
    BY <1>6 DEF Copy, Local, StepOnly, Step, mainVars
  <2>2. \/ task' = [task EXCEPT ![c].at = @ + 1]
        \/ \E r : task' = [task EXCEPT ![c].pc = "send", ![c].result = r]
        \/ task' = [task EXCEPT ![c].pc = "done"]
    BY <1>6 DEF Copy, Return, StepOnly, Step, AfterRefusal
  <2>3. CASE task' = [task EXCEPT ![c].at = @ + 1]
    <3>1. TaskFields' /\ task'[c].pc = "copy" /\ \A d \in Contents : d # c => task'[d] = task[d]
      BY <2>1, <2>3 DEF FilesInv, TaskFields
    <3> QED
      BY <1>1, <2>1, <3>1 DEF Working
  <2>4. CASE \/ \E r : task' = [task EXCEPT ![c].pc = "send", ![c].result = r]
             \/ task' = [task EXCEPT ![c].pc = "done"]
    <3>1. /\ TaskFields' /\ task'[c].pc \in {"send", "done"}
          /\ \A d \in Contents : d # c => task'[d] = task[d]
      BY <2>4, TaskGoesOn DEF FilesInv
    <3> QED
      BY <1>1, <2>1, <3>1 DEF Working
  <2> QED
    BY <2>2, <2>3, <2>4
<1>7. CASE CloseContent(c)
  <2>1. /\ UNCHANGED <<setting, running, disk, openers>>
        /\ task' = [task EXCEPT ![c].pc = "ended"]
    BY <1>7 DEF CloseContent, Step, mainVars
  <2>2. TaskFields' /\ task'[c].pc = "ended" /\ \A d \in Contents : d # c => task'[d] = task[d]
    BY <2>1, TaskGoesOn DEF FilesInv
  <2> QED
    BY <1>1, <2>1, <2>2 DEF Working
<1> QED
  BY <1>2, <1>3, <1>4, <1>5, <1>6, <1>7, CreateFiles, DoneFiles DEF processRecord

LEMMA NextFiles == FilesInv /\ [Next]_vars => FilesInv'
<1> SUFFICES ASSUME FilesInv, [Next]_vars PROVE FilesInv'
  OBVIOUS
<1>1. ASSUME UNCHANGED <<setting, taskVars>> PROVE FilesInv'
  <2>1. task' = task /\ running' = running /\ disk' = disk /\ openers' = openers /\ setting' = setting
    BY <1>1 DEF taskVars
  <2>2. TaskFields' /\ \A c \in Contents : Working(c)' => Working(c)
    BY <2>1 DEF FilesInv, TaskFields, Working
  <2> QED
    BY <2>1, <2>2, QuietFiles
<1>2. CASE OpenFile \/ Read \/ EndOfFile \/ Wait \/ printExtractReport \/ Exit \/ Count
  BY <1>1, <1>2 DEF OpenFile, Read, EndOfFile, Wait, printExtractReport, Exit, Count, mainVars
<1>3. CASE UNCHANGED vars
  BY <1>1, <1>3 DEF vars, mainVars
<1> QED
  BY <1>2, <1>3, StartFiles, TaskFiles DEF Next, extract, Terminated

(* With one thread, and no flag to overwrite, each path is opened for one record
   only, and never one that was in the output directory: the check of writeFile
   and the opening are steps apart, and no other record comes between. *)
THEOREM OpenedOnceHolds == Spec => []OpenedOnce
<1>1. FilesInv => OpenedOnce
  BY DEF FilesInv, TurnInv
<1> QED
  BY <1>1, InitFiles, NextFiles, PTL DEF Spec

(* What is in a file that was opened for one record alone is the body of that
   record, for any number of threads, and with one thread and no flag to overwrite
   that is every file: the content a task reads is the one the reader found for
   its record, and no reading of another record disturbs it meanwhile. *)
THEOREM FilesAreBodiesHolds == Spec /\ []RoomLeft => []FilesAreBodies
<1>1. OpenedOnce /\ WrittenAreBodies => FilesAreBodies
  BY DEF FilesAreBodies
<1> QED
  BY <1>1, OpenedOnceHolds, WrittenAreBodiesHolds, PTL

(***************************************************************************)
(* What is kept with --hash-suffix.                                        *)
(***************************************************************************)

\* All that is known when one task at a time works, on a disk that does.
CalmInv == /\ BodyIInv /\ FilesInv /\ Calm
           /\ PathsAreOwn /\ ResultsAreKept /\ CopyIsSafe /\ SuffixesAreTrue

\* What the others are while a task works.
LEMMA OthersRest ==
  ASSUME CalmInv, NEW c \in Contents, Working(c)
  PROVE  \A d \in Contents \ {c} :
             task[d].pc \notin {"response", "stat", "compare", "stat2", "create", "copy", "send", "done"}
  BY DEF CalmInv, Calm, FilesInv, TurnInv, OneWorks, Working

LEMMA DiskWorks ==
  ASSUME CalmInv
  PROVE  ~file.diskFails
  BY DEF CalmInv, Calm, BodyIInv, ReadInv, FilesAreOurs, OurFile

\* What the names of a task are is in its record and its body.
LEMMA NamesStay ==
  ASSUME NEW c, task'[c].record = task[c].record, task'[c].body = task[c].body, setting' = setting
  PROVE  /\ Plain(c)' = Plain(c) /\ Suffixed(c)' = Suffixed(c) /\ Excused(c)' = Excused(c)
         /\ Plain(c) # Suffixed(c) /\ Plain(c)[2] = <<>> /\ Suffixed(c)[2] # <<>>
         /\ Suffixed(c)[2][1] = task[c].body
  BY DEF Plain, Suffixed, Excused, NameOf, PathOf

\* A step of a task that writes nothing.
LEMMA KeptWithout ==
  ASSUME CalmInv, NEW c \in Contents, Working(c), disk' = disk, setting' = setting,
         \A d \in Contents \ {c} : task'[d] = task[d],
         task'[c].record = task[c].record, task'[c].body = task[c].body,
         task[c].pc # "copy", task'[c].pc # "copy",
         LET p == task'[c].path IN
         /\ task'[c].pc = "compare" => p = Plain(c) /\ p \in DOMAIN disk
         /\ task'[c].pc = "stat2" => p = Suffixed(c) /\ ~IsBadGzip(c)'
         /\ task'[c].pc = "create" => \/ p = Plain(c) /\ p \notin DOMAIN disk
                                      \/ p = Suffixed(c) /\ ~IsBadGzip(c)'
         /\ task'[c].result # "none" => p \in {Plain(c), Suffixed(c)}
         /\ task'[c].result # "none" /\ ~Excused(c) => p \in DOMAIN disk /\ disk[p] = task[c].body
  PROVE  PathsAreOwn' /\ ResultsAreKept' /\ CopyIsSafe' /\ SuffixesAreTrue'
<1>1. \A d \in Contents \ {c} :
          task[d].pc \notin {"response", "stat", "compare", "stat2", "create", "copy", "send", "done"}
  BY OthersRest
<1>2. Plain(c)' = Plain(c) /\ Suffixed(c)' = Suffixed(c) /\ Excused(c)' = Excused(c)
  BY NamesStay
<1>3. ASSUME NEW d \in Contents \ {c}
      PROVE  Plain(d)' = Plain(d) /\ Suffixed(d)' = Suffixed(d) /\ Excused(d)' = Excused(d)
  <2>1. task'[d] = task[d]
    OBVIOUS
  <2> QED
    BY <2>1 DEF Plain, Suffixed, Excused, NameOf, PathOf
<1>4. PathsAreOwn'
  <2>1. ASSUME NEW d \in Contents \ {c}
        PROVE  task'[d].result # "none" => task'[d].path \in {Plain(d)', Suffixed(d)'}
    BY <1>3 DEF CalmInv, PathsAreOwn
  <2>2. \A d \in Contents \ {c} : task'[d].pc \notin {"compare", "stat2", "create", "copy"}
    BY <1>1
  <2> QED
    BY <1>2, <2>1, <2>2 DEF PathsAreOwn
<1>5. ResultsAreKept'
  <2>1. ASSUME NEW d \in Contents \ {c}, task'[d].result # "none", ~Excused(d)'
        PROVE  task'[d].path \in DOMAIN disk /\ disk[task'[d].path] = task'[d].body
    BY <1>3, <2>1 DEF CalmInv, ResultsAreKept
  <2> QED
    BY <1>2, <2>1 DEF ResultsAreKept
<1>6. \A d \in Contents : task[d].pc # "copy" /\ task'[d].pc # "copy"
  BY <1>1
<1>7. CopyIsSafe'
  BY <1>6 DEF CopyIsSafe
<1>8. SuffixesAreTrue'
  BY <1>6 DEF CalmInv, SuffixesAreTrue
<1> QED
  BY <1>4, <1>5, <1>7, <1>8

\* What the task is told by its content.
LEMMA ContentTells ==
  ASSUME CalmInv, NEW c \in Contents, task[c].pc \in {"compare", "copy"}
  PROVE  /\ task[c].pc = "compare" => Rest(c) = task[c].body
         /\ HasItsContent(c)
<1>1. AtWork(c)
  BY DEF AtWork
<1>2. HasItsContent(c) /\ task[c].body = BodyOf(Stored(c))
  BY <1>1, AtWorkFacts DEF CalmInv
<1>3. ASSUME task[c].pc = "compare" PROVE Rest(c) = task[c].body
  <2>1. Position(c) + 1 = 2
    BY <1>2, <1>3 DEF HasItsContent
  <2> QED
    BY <1>2, <2>1 DEF Rest, BodyOf
<1> QED
  BY <1>2, <1>3

LEMMA KeptLooks ==
  ASSUME CalmInv, NEW c \in Contents, Stat(c) \/ Compare(c) \/ StatSuffixed(c)
  PROVE  PathsAreOwn' /\ ResultsAreKept' /\ CopyIsSafe' /\ SuffixesAreTrue'
<1> DEFINE q == task[c].path
<1>1. PICK from \in {"stat", "compare", "stat2"} : Local(c, from) /\ task[c].pc = from
  BY DEF Stat, Compare, StatSuffixed, Local
<1>2. /\ disk' = disk /\ setting' = setting /\ Working(c) /\ TaskFields /\ UNCHANGED <<spool, bytes>>
  BY <1>1 DEF Local, mainVars, Working, CalmInv, BodyIInv, spoolVars
<1>3. task[c].result = "none" /\ setting.hashSuffix
  BY <1>1, NoResultYet DEF CalmInv, Calm
<1>4. IsBadGzip(c)' = IsBadGzip(c)
  BY <1>2 DEF IsBadGzip, Stored
<1>5. CASE Stat(c)
  <2> DEFINE p == Plain(c)
             to == IF p \in DOMAIN disk /\ setting.hashSuffix THEN "compare" ELSE "create"
  <2>1. task' = [task EXCEPT ![c].path = p, ![c].pc = to]
    BY <1>3, <1>5 DEF Stat, Plain
  <2>2. to = IF p \in DOMAIN disk THEN "compare" ELSE "create"
    BY <1>3
  <2> HIDE DEF to
  <2>3. PICK p0 : p0 = p
    OBVIOUS
  <2>4. task' = [task EXCEPT ![c].path = p0, ![c].pc = to]
    BY <2>1, <2>3
  <2> HIDE DEF p
  <2>5. /\ \A d \in Contents \ {c} : task'[d] = task[d]
        /\ task'[c].pc = to /\ task'[c].path = p0 /\ task'[c].result = "none"
        /\ task'[c].body = task[c].body /\ task'[c].record = task[c].record
    BY <1>2, <1>3, <2>4 DEF TaskFields
  <2>6. task[c].pc # "copy" /\ to # "copy" /\ to # "stat2"
    BY <1>1, <2>2
  <2>7. /\ to = "compare" => p0 = Plain(c) /\ p0 \in DOMAIN disk
        /\ to = "create" => p0 = Plain(c) /\ p0 \notin DOMAIN disk
    BY <2>2, <2>3 DEF p
  <2> QED
    BY <1>2, <2>5, <2>6, <2>7, KeptWithout
<1>6. CASE Compare(c)
  <2>1. /\ task[c].pc = "compare" /\ Rest(c) = task[c].body /\ q = Plain(c) /\ q \in DOMAIN disk
    BY <1>6, ContentTells DEF Compare, Local, CalmInv, PathsAreOwn
  <2>2. CASE Same(disk[q], Rest(c)) /\ Return(c, "skipped")
    <3>1. /\ \A d \in Contents \ {c} : task'[d] = task[d]
          /\ task'[c].pc = "send" /\ task'[c].path = task[c].path /\ task'[c].result = "skipped"
          /\ task'[c].body = task[c].body /\ task'[c].record = task[c].record
      BY <1>2, <2>2, ResultSet
    <3>2. disk[q] = task[c].body
      BY <2>1, <2>2 DEF Same
    <3> QED
      BY <1>1, <1>2, <2>1, <3>1, <3>2, KeptWithout
  <2>3. CASE /\ ~IsBadGzip(c)
             /\ task' = [task EXCEPT ![c].pc = "stat2", ![c].path = PathOf(NameOf(c), <<Rest(c)>>)]
    <3>1. PICK p0 : p0 = Suffixed(c)
      OBVIOUS
    <3>2. task' = [task EXCEPT ![c].pc = "stat2", ![c].path = p0]
      BY <2>1, <2>3, <3>1 DEF Suffixed
    <3>3. /\ \A d \in Contents \ {c} : task'[d] = task[d]
          /\ task'[c].pc = "stat2" /\ task'[c].path = p0 /\ task'[c].result = "none"
          /\ task'[c].body = task[c].body /\ task'[c].record = task[c].record
      BY <1>2, <1>3, <3>2 DEF TaskFields
    <3>4. ~IsBadGzip(c)'
      BY <1>4, <2>3
    <3> QED
      BY <1>1, <1>2, <3>1, <3>3, <3>4, KeptWithout
  <2>4. CASE task' = [task EXCEPT ![c].pc = AfterRefusal]
    <3>1. /\ \A d \in Contents \ {c} : task'[d] = task[d]
          /\ task'[c].pc = "done" /\ task'[c].path = task[c].path /\ task'[c].result = "none"
          /\ task'[c].body = task[c].body /\ task'[c].record = task[c].record
      BY <1>2, <1>3, <2>4, PcChanged DEF AfterRefusal
    <3> QED
      BY <1>1, <1>2, <3>1, KeptWithout
  <2> QED
    BY <1>6, <2>2, <2>3, <2>4 DEF Compare
<1>7. CASE StatSuffixed(c)
  <2>1. task[c].pc = "stat2" /\ q = Suffixed(c) /\ ~IsBadGzip(c)
    BY <1>7 DEF StatSuffixed, Local, CalmInv, PathsAreOwn
  <2>2. CASE Taken(q) /\ Return(c, "skipped")
    <3>1. /\ \A d \in Contents \ {c} : task'[d] = task[d]
          /\ task'[c].pc = "send" /\ task'[c].path = task[c].path /\ task'[c].result = "skipped"
          /\ task'[c].body = task[c].body /\ task'[c].record = task[c].record
      BY <1>2, <2>2, ResultSet
    <3>2. ASSUME ~Excused(c) PROVE q \in DOMAIN disk /\ disk[q] = task[c].body
      <4>1. q \in DOMAIN disk /\ q \notin DOMAIN setting.old
        BY <2>1, <2>2, <3>2 DEF Taken, Excused
      <4>2. q[2] # <<>> /\ q[2][1] = task[c].body
        BY <2>1 DEF Suffixed, PathOf
      <4>3. ~\E d \in Contents : task[d].pc = "copy" /\ task[d].path = q
        BY <1>2, <2>1, OthersRest
      <4> QED
        BY <4>1, <4>2, <4>3 DEF CalmInv, SuffixesAreTrue
    <3> QED
      BY <1>1, <1>2, <2>1, <3>1, <3>2, KeptWithout
  <2>3. CASE task' = [task EXCEPT ![c].pc = "create"]
    <3>1. /\ \A d \in Contents \ {c} : task'[d] = task[d]
          /\ task'[c].pc = "create" /\ task'[c].path = task[c].path /\ task'[c].result = "none"
          /\ task'[c].body = task[c].body /\ task'[c].record = task[c].record
      BY <1>2, <1>3, <2>3, PcChanged
    <3>2. ~IsBadGzip(c)'
      BY <1>4, <2>1
    <3> QED
      BY <1>1, <1>2, <2>1, <3>1, <3>2, KeptWithout
  <2> QED
    BY <1>7, <2>2, <2>3 DEF StatSuffixed
<1> QED
  BY <1>5, <1>6, <1>7

\* A step that leaves alone what is in the files and the task that has a path.
LEMMA KeptAside ==
  ASSUME CalmInv, disk' = disk, setting' = setting,
         \A d \in Contents :
             \/ task'[d] = task[d]
             \/ /\ task[d].pc \notin {"compare", "stat2", "create", "copy"}
                /\ task'[d].pc \notin {"compare", "stat2", "create", "copy"}
                /\ \/ task'[d].result = "none"
                   \/ /\ task'[d].path = task[d].path /\ task'[d].result = task[d].result
                      /\ task'[d].record = task[d].record /\ task'[d].body = task[d].body,
         \A d \in Contents : task[d].pc \in {"stat2", "create"} => IsBadGzip(d)' = IsBadGzip(d)
  PROVE  PathsAreOwn' /\ ResultsAreKept' /\ CopyIsSafe' /\ SuffixesAreTrue'
<1>1. ASSUME NEW d \in Contents
      PROVE  \/ /\ task'[d].path = task[d].path /\ task'[d].result = task[d].result
                /\ task'[d].record = task[d].record /\ task'[d].body = task[d].body
             \/ task'[d].result = "none" /\ task'[d].pc \notin {"compare", "stat2", "create", "copy"}
  OBVIOUS
<1>2. ASSUME NEW d \in Contents, task'[d].record = task[d].record, task'[d].body = task[d].body
      PROVE  Plain(d)' = Plain(d) /\ Suffixed(d)' = Suffixed(d) /\ Excused(d)' = Excused(d)
  BY <1>2, NamesStay
<1>3. ASSUME NEW d \in Contents, task'[d].result # "none"
      PROVE  /\ task'[d].path = task[d].path /\ task'[d].result = task[d].result
             /\ task'[d].record = task[d].record /\ task'[d].body = task[d].body
             /\ Plain(d)' = Plain(d) /\ Suffixed(d)' = Suffixed(d) /\ Excused(d)' = Excused(d)
  BY <1>1, <1>2, <1>3
<1>4. \A d \in Contents : task'[d].pc \in {"compare", "stat2", "create", "copy"} => task'[d] = task[d]
  OBVIOUS
<1>5. \A d \in Contents : task[d].pc \in {"compare", "stat2", "create", "copy"} => task'[d] = task[d]
  OBVIOUS
<1>6. PathsAreOwn'
  <2>1. ASSUME NEW d \in Contents, task'[d].result # "none"
        PROVE  task'[d].path \in {Plain(d)', Suffixed(d)'}
    <3>1. task[d].path \in {Plain(d), Suffixed(d)}
      BY <1>3, <2>1 DEF CalmInv, PathsAreOwn
    <3> QED
      BY <1>3, <2>1, <3>1
  <2>2. ASSUME NEW d \in Contents, task'[d].pc \in {"compare", "stat2", "create", "copy"}
        PROVE  LET p == task'[d].path IN
               /\ task'[d].pc = "compare" => p = Plain(d)' /\ p \in DOMAIN disk
               /\ task'[d].pc = "stat2" => p = Suffixed(d)' /\ ~IsBadGzip(d)'
               /\ task'[d].pc = "create" => \/ p = Plain(d)' /\ p \notin DOMAIN disk
                                            \/ p = Suffixed(d)' /\ ~IsBadGzip(d)'
               /\ task'[d].pc = "copy" => \/ p = Plain(d)' /\ p \notin DOMAIN setting.old
                                          \/ p = Suffixed(d)'
    <3>1. task'[d] = task[d]
      BY <1>4, <2>2
    <3>2. Plain(d)' = Plain(d) /\ Suffixed(d)' = Suffixed(d)
      BY <1>2, <3>1
    <3>3. task[d].pc \in {"stat2", "create"} => IsBadGzip(d)' = IsBadGzip(d)
      OBVIOUS
    <3> QED
      BY <3>1, <3>2, <3>3 DEF CalmInv, PathsAreOwn
  <2> QED
    BY <2>1, <2>2 DEF PathsAreOwn
<1>7. ResultsAreKept'
  <2>1. ASSUME NEW d \in Contents, task'[d].result # "none", ~Excused(d)'
        PROVE  task'[d].path \in DOMAIN disk /\ disk[task'[d].path] = task'[d].body
    BY <1>3, <2>1 DEF CalmInv, ResultsAreKept
  <2> QED
    BY <2>1 DEF ResultsAreKept
<1>8. CopyIsSafe'
  <2>1. ASSUME NEW d \in Contents, NEW p, p = task'[d].path,
               task'[d].pc = "copy", p \notin DOMAIN setting.old
        PROVE  \/ disk[p] = task'[d].body
               \/ /\ disk[p] = SubSeq(task'[d].body, 1, task'[d].at)
                  /\ \A e \in Contents : task'[e].result # "none" /\ ~Excused(e)' => task'[e].path # p
    <3>1. task'[d] = task[d]
      BY <1>4, <2>1
    <3>2. \/ disk[p] = task[d].body
          \/ /\ disk[p] = SubSeq(task[d].body, 1, task[d].at)
             /\ \A e \in Contents : task[e].result # "none" /\ ~Excused(e) => task[e].path # p
      BY <2>1, <3>1 DEF CalmInv, CopyIsSafe
    <3>3. ASSUME NEW e \in Contents, task'[e].result # "none", ~Excused(e)'
          PROVE  task[e].result # "none" /\ ~Excused(e) /\ task'[e].path = task[e].path
      BY <1>3, <3>3
    <3> QED
      BY <3>1, <3>2, <3>3
  <2> QED
    BY <2>1 DEF CopyIsSafe
<1>9. SuffixesAreTrue'
  BY <1>5 DEF CalmInv, SuffixesAreTrue
<1> QED
  BY <1>6, <1>7, <1>8, <1>9

\* The others' contents are what they were.
LEMMA BadGzipStays ==
  ASSUME BodyIInv, UNCHANGED <<spool, bytes>>, NEW d
  PROVE  IsBadGzip(d)' = IsBadGzip(d)
  BY DEF IsBadGzip, Stored

\* A task that only goes on to its next place.
LEMMA KeptPasses ==
  ASSUME CalmInv, NEW c \in Contents,
         NEW from \in {"response", "send", "done", "close"}, NEW to \in {"stat", "done", "close", "ended"},
         task[c].pc = from, task' = [task EXCEPT ![c].pc = to],
         SpoolInv, OnlyIn(c), disk' = disk, setting' = setting
  PROVE  PathsAreOwn' /\ ResultsAreKept' /\ CopyIsSafe' /\ SuffixesAreTrue'
<1>1. /\ \A d \in Contents \ {c} : task'[d] = task[d]
      /\ task'[c].pc = to /\ task'[c].path = task[c].path /\ task'[c].result = task[c].result
      /\ task'[c].body = task[c].body /\ task'[c].record = task[c].record
  BY PcChanged DEF CalmInv, BodyIInv
<1>2. ASSUME NEW d \in Contents, task[d].pc \in {"stat2", "create"} PROVE IsBadGzip(d)' = IsBadGzip(d)
  <2>1. d # c /\ AtWork(d)
    BY <1>2 DEF AtWork
  <2>2. HasStore(d)
    BY <2>1, AtWorkFacts DEF CalmInv
  <2>3. Stored(d)' = Stored(d)
    BY <2>1, <2>2, OthersStay
  <2> QED
    BY <2>3 DEF IsBadGzip
<1>3. \A d \in Contents :
          \/ task'[d] = task[d]
          \/ /\ task[d].pc \notin {"compare", "stat2", "create", "copy"}
             /\ task'[d].pc \notin {"compare", "stat2", "create", "copy"}
             /\ task'[d].path = task[d].path /\ task'[d].result = task[d].result
             /\ task'[d].record = task[d].record /\ task'[d].body = task[d].body
  BY <1>1
<1> QED
  BY <1>2, <1>3, KeptAside

LEMMA KeptPassing ==
  ASSUME CalmInv, NEW c \in Contents, ReadResponse(c) \/ Send(c) \/ Done(c) \/ CloseContent(c)
  PROVE  PathsAreOwn' /\ ResultsAreKept' /\ CopyIsSafe' /\ SuffixesAreTrue'
<1>1. SpoolInv
  BY DEF CalmInv, BodyIInv, ReadInv
<1>2. ASSUME UNCHANGED spoolVars PROVE OnlyIn(c)
  BY <1>2 DEF OnlyIn, spoolVars
<1>3. CASE ReadResponse(c)
  <2>1. task[c].pc = "response" /\ disk' = disk /\ setting' = setting
    BY <1>3 DEF ReadResponse, StepOnly, Step, mainVars
  <2>2. \E to \in {"stat", "done"} : task' = [task EXCEPT ![c].pc = to]
    BY <1>3 DEF ReadResponse, StepOnly, Step, AfterRefusal
  <2>3. OnlyIn(c)
    <3>1. CASE UNCHANGED spoolVars
      BY <1>2, <3>1
    <3>2. CASE ReadTo(c, 1)
      BY <1>1, <3>2, ReadContentTo
    <3> QED
      BY <1>3, <3>1, <3>2 DEF ReadResponse, StepOnly
  <2> QED
    BY <1>1, <2>1, <2>2, <2>3, KeptPasses
<1>4. CASE Send(c) \/ Done(c)
  <2>1. /\ UNCHANGED <<spoolVars, disk>> /\ setting' = setting
        /\ \E from \in {"send", "done"}, to \in {"done", "close"} :
               task[c].pc = from /\ task' = [task EXCEPT ![c].pc = to]
    BY <1>4 DEF Send, Done, Step, mainVars
  <2> QED
    BY <1>1, <1>2, <2>1, KeptPasses
<1>5. CASE CloseContent(c)
  <2>1. /\ task[c].pc = "close" /\ task' = [task EXCEPT ![c].pc = "ended"]
        /\ disk' = disk /\ setting' = setting /\ (Close(c) \/ RemoveFails(c))
    BY <1>5 DEF CloseContent, Step, mainVars
  <2>2. OnlyIn(c)
    BY <1>1, <2>1, CloseContentOf
  <2> QED
    BY <1>1, <2>1, <2>2, KeptPasses
<1> QED
  BY <1>3, <1>4, <1>5

\* What the names of two tasks say.
LEMMA NamesTell ==
  ASSUME NEW c
  PROVE  /\ Plain(c)[2] = <<>> /\ Suffixed(c)[2] # <<>> /\ Suffixed(c)[2][1] = task[c].body
  BY DEF Plain, Suffixed, PathOf

\* The names of all the tasks but one stay; so do those of that one.
LEMMA AllNamesStay ==
  ASSUME NEW c, setting' = setting, \A d \in Contents \ {c} : task'[d] = task[d],
         task'[c].record = task[c].record, task'[c].body = task[c].body
  PROVE  \A d \in Contents : Plain(d)' = Plain(d) /\ Suffixed(d)' = Suffixed(d) /\ Excused(d)' = Excused(d)
<1> TAKE d \in Contents
<1>1. task'[d].record = task[d].record /\ task'[d].body = task[d].body
  OBVIOUS
<1> QED
  BY <1>1, NamesStay

LEMMA KeptCreate ==
  ASSUME CalmInv, NEW c \in Contents, Create(c)
  PROVE  PathsAreOwn' /\ ResultsAreKept' /\ CopyIsSafe' /\ SuffixesAreTrue'
<1> DEFINE to == IF IsBadGzip(c) THEN AfterRefusal ELSE "copy"
<1>1. /\ task[c].pc = "create" /\ setting' = setting
      /\ task' = [task EXCEPT ![c].pc = to]
      /\ disk' = IF task[c].path \in DOMAIN disk THEN disk ELSE With(disk, task[c].path, <<>>)
  BY DiskWorks DEF Create, Step, mainVars
<1>2. /\ \A d \in Contents \ {c} : task'[d] = task[d]
      /\ task'[c].pc = to
      /\ task'[c].path = task[c].path /\ task'[c].result = task[c].result
      /\ task'[c].at = task[c].at /\ task'[c].body = task[c].body /\ task'[c].record = task[c].record
  <2> HIDE DEF to
  <2> QED
    BY <1>1, PcChanged DEF CalmInv, BodyIInv
<1>3. /\ task'[c].pc = "done" \/ (task'[c].pc = "copy" /\ ~IsBadGzip(c))
      /\ ~IsBadGzip(c) => task'[c].pc = "copy"
  BY <1>2 DEF AfterRefusal
<1>4. PICK p : p = task[c].path
  OBVIOUS
<1>5. /\ DOMAIN disk' = DOMAIN disk \cup {p}
      /\ \A q \in DOMAIN disk : disk'[q] = disk[q]
      /\ p \notin DOMAIN disk => disk'[p] = <<>>
  BY <1>1, <1>4 DEF With
<1>6. task[c].at = 0 /\ task[c].result = "none" /\ Working(c)
  <2>1. HasItsContent(c)
    BY DEF CalmInv, BodyIInv, TasksHaveContents
  <2> QED
    BY <1>1, <2>1 DEF HasItsContent, Working
<1>7. \A d \in Contents \ {c} :
          task[d].pc \notin {"response", "stat", "compare", "stat2", "create", "copy", "send", "done"}
  BY <1>6, OthersRest
<1>8. \A d \in Contents : Plain(d)' = Plain(d) /\ Suffixed(d)' = Suffixed(d) /\ Excused(d)' = Excused(d)
  BY <1>1, <1>2, AllNamesStay
<1>9. (p = Plain(c) /\ p \notin DOMAIN disk) \/ (p = Suffixed(c) /\ ~IsBadGzip(c))
  BY <1>1, <1>4 DEF CalmInv, PathsAreOwn
<1>10. DOMAIN setting.old \subseteq DOMAIN disk
  BY DEF CalmInv, FilesInv, TurnInv
<1>11. PathsAreOwn'
  <2>1. ASSUME NEW d \in Contents \ {c}, task'[d].result # "none" PROVE task'[d].path \in {Plain(d)', Suffixed(d)'}
    BY <1>2, <1>8, <2>1 DEF CalmInv, PathsAreOwn
  <2>2. task'[c].pc = "copy" => (p = Plain(c)' /\ p \notin DOMAIN setting.old) \/ p = Suffixed(c)'
    BY <1>8, <1>9, <1>10
  <2>3. \A d \in Contents \ {c} : task'[d].pc \notin {"compare", "stat2", "create", "copy"}
    BY <1>2, <1>7
  <2> QED
    BY <1>1, <1>2, <1>3, <1>4, <1>6, <2>1, <2>2, <2>3 DEF PathsAreOwn
<1>12. ASSUME NEW d \in Contents, task'[d].result # "none", ~Excused(d)'
       PROVE  /\ task[d].path \in DOMAIN disk /\ task'[d].path = task[d].path
              /\ disk'[task'[d].path] = task'[d].body
  <2>1. d # c /\ task'[d] = task[d] /\ ~Excused(d)
    BY <1>2, <1>6, <1>8, <1>12
  <2>2. task[d].path \in DOMAIN disk /\ disk[task[d].path] = task[d].body
    BY <1>12, <2>1 DEF CalmInv, ResultsAreKept
  <2> QED
    BY <1>5, <2>1, <2>2
<1>13. ResultsAreKept'
  BY <1>5, <1>12 DEF ResultsAreKept
<1>14. CopyIsSafe'
  <2>1. \A d \in Contents : task'[d].pc = "copy" => d = c
    BY <1>2, <1>7
  <2>2. ASSUME task'[c].pc = "copy", p \notin DOMAIN setting.old
        PROVE  \/ disk'[p] = task'[c].body
               \/ /\ disk'[p] = SubSeq(task'[c].body, 1, task'[c].at)
                  /\ \A e \in Contents : task'[e].result # "none" /\ ~Excused(e)' => task'[e].path # p
    <3>1. CASE p \notin DOMAIN disk
      <4>1. SubSeq(task'[c].body, 1, 0) = <<>>
        OBVIOUS
      <4>2. disk'[p] = SubSeq(task'[c].body, 1, task'[c].at)
        BY <1>2, <1>5, <1>6, <3>1, <4>1
      <4>3. \A e \in Contents : task'[e].result # "none" /\ ~Excused(e)' => task'[e].path # p
        BY <1>12, <3>1
      <4> QED
        BY <4>2, <4>3
    <3>2. CASE p \in DOMAIN disk
      <4>1. p[2] # <<>> /\ p[2][1] = task[c].body
        BY <1>9, <3>2, NamesTell
      <4>2. ~\E d \in Contents : task[d].pc = "copy" /\ task[d].path = p
        BY <1>1, <1>7
      <4>3. disk[p] = task[c].body
        BY <2>2, <3>2, <4>1, <4>2 DEF CalmInv, SuffixesAreTrue
      <4> QED
        BY <1>2, <1>5, <3>2, <4>3
    <3> QED
      BY <3>1, <3>2
  <2> QED
    BY <1>1, <1>2, <1>4, <2>1, <2>2 DEF CopyIsSafe
<1>15. SuffixesAreTrue'
  <2> SUFFICES ASSUME NEW q \in DOMAIN disk' \ DOMAIN setting.old, q[2] # <<>>
               PROVE  disk'[q] = q[2][1] \/ \E d \in Contents : task'[d].pc = "copy" /\ task'[d].path = q
    BY <1>1 DEF SuffixesAreTrue
  <2>1. CASE q \in DOMAIN disk
    <3>1. ~\E d \in Contents : task[d].pc = "copy" /\ task[d].path = q
      BY <1>1, <1>7
    <3>2. disk[q] = q[2][1]
      BY <2>1, <3>1 DEF CalmInv, SuffixesAreTrue
    <3> QED
      BY <1>5, <2>1, <3>2
  <2>2. CASE q \notin DOMAIN disk
    <3>1. q = p
      BY <1>5, <2>2
    <3>2. p # Plain(c)
      BY <3>1, NamesTell
    <3>3. task'[c].pc = "copy" /\ task'[c].path = q
      BY <1>2, <1>3, <1>4, <1>9, <3>1, <3>2
    <3> QED
      BY <3>3
  <2> QED
    BY <2>1, <2>2
<1> QED
  BY <1>11, <1>13, <1>14, <1>15

\* A chunk that is there already is written once more.
LEMMA OverwriteSame ==
  ASSUME NEW S, NEW body \in Seq(S), NEW i \in 1..Len(body)
  PROVE  Overwrite(body, i, body[i]) = body
<1> DEFINE n == Len(body)
<1>1. n \in Nat /\ DOMAIN body = 1..n /\ ~(i > n) /\ body = [j \in 1..n |-> body[j]]
  OBVIOUS
<1> HIDE DEF n
<1>2. Overwrite(body, i, body[i]) = [j \in 1..n |-> IF j = i THEN body[i] ELSE body[j]]
  BY <1>1 DEF Overwrite, n
<1>3. \A j \in 1..n : (IF j = i THEN body[i] ELSE body[j]) = body[j]
  OBVIOUS
<1>4. [j \in 1..n |-> IF j = i THEN body[i] ELSE body[j]] = [j \in 1..n |-> body[j]]
  BY <1>3
<1> QED
  BY <1>1, <1>2, <1>4

\* The path of a task that writes is not that of another one's result, unless
\* that one's body is in it.
LEMMA KeptCopy ==
  ASSUME CalmInv, NEW c \in Contents, Copy(c)
  PROVE  PathsAreOwn' /\ ResultsAreKept' /\ CopyIsSafe' /\ SuffixesAreTrue'
<1>1. task[c].pc = "copy" /\ setting' = setting /\ TaskFields
  BY DEF Copy, StepOnly, Step, Local, mainVars, CalmInv, BodyIInv
<1>2. PICK p : p = task[c].path
  OBVIOUS
<1>3. (p = Plain(c) /\ p \notin DOMAIN setting.old) \/ p = Suffixed(c)
  BY <1>1, <1>2 DEF CalmInv, PathsAreOwn
<1>4. p \notin DOMAIN setting.old =>
          \/ disk[p] = task[c].body
          \/ /\ disk[p] = SubSeq(task[c].body, 1, task[c].at)
             /\ \A d \in Contents : task[d].result # "none" /\ ~Excused(d) => task[d].path # p
  BY <1>1, <1>2 DEF CalmInv, CopyIsSafe
<1>5. p \in DOMAIN disk
  BY <1>1, <1>2 DEF CalmInv, BodyIInv, OpenersAreKnown
<1>6. task[c].result = "none" /\ Working(c)
  <2>1. HasItsContent(c)
    BY <1>1, ContentTells
  <2> QED
    BY <1>1, <2>1 DEF HasItsContent, Working
<1>7. \A d \in Contents \ {c} :
          task[d].pc \notin {"response", "stat", "compare", "stat2", "create", "copy", "send", "done"}
  BY <1>6, OthersRest
<1>8. AtWork(c)
  BY <1>1 DEF AtWork
<1>9. /\ HasStore(c) /\ task[c].body = BodyOf(Stored(c)) /\ Stored(c) # <<>>
      /\ spool[c].stage = "reading" /\ spool[c].at = task[c].at + 1
      /\ task[c].at \in 0..Len(task[c].body)
  BY <1>1, <1>8, AtWorkFacts DEF HasItsContent, CalmInv
<1>10. PICK S : Stored(c) \in Seq(S)
  BY <1>8, AtWorkFacts DEF CalmInv
<1>11. /\ task[c].body \in Seq(S) /\ Len(task[c].body) = Len(Stored(c)) - 1 /\ Len(Stored(c)) \in Nat
       /\ \A i \in 1..Len(task[c].body) : task[c].body[i] = Stored(c)[i + 1]
  BY <1>9, <1>10, BodyFacts
<1>12. Position(c) + 1 = task[c].at + 2 /\ task[c].at \in Nat
  BY <1>9, <1>11 DEF Position
<1>13. Rest(c) = SubSeq(Stored(c), task[c].at + 2, Len(Stored(c)))
  BY <1>12 DEF Rest
<1>14. CASE /\ disk' = disk /\ Rest(c) = <<>> /\ Return(c, "written")
  <2>1. /\ \A d \in Contents \ {c} : task'[d] = task[d]
        /\ task'[c].pc = "send" /\ task'[c].path = task[c].path /\ task'[c].result = "written"
        /\ task'[c].body = task[c].body /\ task'[c].record = task[c].record
    BY <1>1, <1>14, ResultSet
  <2>2. \A d \in Contents : Plain(d)' = Plain(d) /\ Suffixed(d)' = Suffixed(d) /\ Excused(d)' = Excused(d)
    BY <1>1, <2>1, AllNamesStay
  <2>3. task[c].at = Len(task[c].body)
    <3>1. Len(SubSeq(Stored(c), task[c].at + 2, Len(Stored(c)))) = 0
      <4>1. Len(<<>>) = 0
        OBVIOUS
      <4> QED
        BY <1>13, <1>14, <4>1
    <3>2. task[c].at + 2 > Len(Stored(c))
      BY <1>10, <1>11, <1>12, <3>1
    <3> QED
      BY <1>9, <1>11, <1>12, <3>2
  <2>4. SubSeq(task[c].body, 1, task[c].at) = task[c].body
    BY <1>11, <2>3
  <2>5. p \notin DOMAIN setting.old => disk[p] = task[c].body
    BY <1>4, <2>4
  <2>6. \A d \in Contents : task'[d].pc \notin {"compare", "stat2", "create", "copy"}
    BY <1>7, <2>1
  <2>7. PathsAreOwn'
    <3>1. ASSUME NEW d \in Contents, task'[d].result # "none" PROVE task'[d].path \in {Plain(d)', Suffixed(d)'}
      <4>1. CASE d = c
        BY <1>2, <1>3, <2>1, <2>2, <4>1
      <4>2. CASE d # c
        BY <2>1, <2>2, <3>1, <4>2 DEF CalmInv, PathsAreOwn
      <4> QED
        BY <4>1, <4>2
    <3> QED
      BY <2>6, <3>1 DEF PathsAreOwn
  <2>8. ResultsAreKept'
    <3>1. ASSUME NEW d \in Contents, task'[d].result # "none", ~Excused(d)'
          PROVE  task'[d].path \in DOMAIN disk /\ disk[task'[d].path] = task'[d].body
      <4>1. CASE d = c
        <5>1. ~Excused(c)
          BY <2>2, <3>1, <4>1
        <5>2. p \notin DOMAIN setting.old
          BY <1>3, <5>1 DEF Excused
        <5> QED
          BY <1>2, <1>5, <2>1, <2>5, <4>1, <5>2
      <4>2. CASE d # c
        BY <2>1, <2>2, <3>1, <4>2 DEF CalmInv, ResultsAreKept
      <4> QED
        BY <4>1, <4>2
    <3> QED
      BY <1>14, <3>1 DEF ResultsAreKept
  <2>9. CopyIsSafe'
    BY <2>6 DEF CopyIsSafe
  <2>10. SuffixesAreTrue'
    <3> SUFFICES ASSUME NEW q \in DOMAIN disk \ DOMAIN setting.old, q[2] # <<>>
                 PROVE  disk[q] = q[2][1]
      BY <1>1, <1>14 DEF SuffixesAreTrue
    <3>1. CASE q = p
      <4>1. p = Suffixed(c)
        BY <1>3, <3>1, NamesTell
      <4> QED
        BY <2>5, <3>1, <4>1, NamesTell
    <3>2. CASE q # p
      <4>1. ~\E d \in Contents : task[d].pc = "copy" /\ task[d].path = q
        BY <1>2, <1>7, <3>2
      <4> QED
        BY <4>1 DEF CalmInv, SuffixesAreTrue
    <3> QED
      BY <3>1, <3>2
  <2> QED
    BY <2>7, <2>8, <2>9, <2>10
<1>15. CASE /\ Rest(c) # <<>>
            /\ disk' = [disk EXCEPT ![task[c].path] = Overwrite(@, task[c].at + 1, Head(Rest(c)))]
            /\ task' = [task EXCEPT ![c].at = @ + 1]
  <2> DEFINE n == task[c].at
  <2>1. /\ \A d \in Contents \ {c} : task'[d] = task[d]
        /\ task'[c].pc = "copy" /\ task'[c].path = p /\ task'[c].result = "none" /\ task'[c].at = n + 1
        /\ task'[c].body = task[c].body /\ task'[c].record = task[c].record
    BY <1>1, <1>2, <1>6, <1>15 DEF TaskFields
  <2>2. \A d \in Contents : Plain(d)' = Plain(d) /\ Suffixed(d)' = Suffixed(d) /\ Excused(d)' = Excused(d)
    BY <1>1, <2>1, AllNamesStay
  <2>3. n + 2 <= Len(Stored(c))
    <3>1. SubSeq(Stored(c), n + 2, Len(Stored(c))) # <<>>
      BY <1>13, <1>15
    <3> QED
      BY <1>10, <1>11, <1>12, <3>1
  <2>4. Head(Rest(c)) = task[c].body[n + 1]
    <3>1. Head(SubSeq(Stored(c), n + 2, Len(Stored(c)))) = Stored(c)[n + 2]
      BY <1>10, <1>11, <1>12, <2>3
    <3>2. task[c].body[n + 1] = Stored(c)[n + 2]
      BY <1>11, <1>12, <2>3
    <3> QED
      BY <1>13, <3>1, <3>2
  <2>5. n + 1 \in 1..Len(task[c].body) /\ n \in Nat
    BY <1>11, <1>12, <2>3
  <2>6. /\ DOMAIN disk' = DOMAIN disk
        /\ disk'[p] = Overwrite(disk[p], n + 1, task[c].body[n + 1])
        /\ \A q \in DOMAIN disk : q # p => disk'[q] = disk[q]
    BY <1>2, <1>5, <1>15, <2>4
  <2>7. disk[p] = task[c].body => disk'[p] = task[c].body
    BY <1>11, <2>5, <2>6, OverwriteSame
  <2>8. disk[p] = SubSeq(task[c].body, 1, n) => disk'[p] = SubSeq(task[c].body, 1, n + 1)
    BY <1>11, <2>5, <2>6, OverwriteNext
  <2> HIDE DEF n
  <2>9. \A d \in Contents \ {c} : task'[d].pc \notin {"compare", "stat2", "create", "copy"}
    BY <1>7, <2>1
  <2>10. PathsAreOwn'
    <3>1. ASSUME NEW d \in Contents, task'[d].result # "none" PROVE task'[d].path \in {Plain(d)', Suffixed(d)'}
      <4>1. d # c
        BY <2>1, <3>1
      <4> QED
        BY <2>1, <2>2, <3>1, <4>1 DEF CalmInv, PathsAreOwn
    <3>2. (p = Plain(c)' /\ p \notin DOMAIN setting.old) \/ p = Suffixed(c)'
      BY <1>3, <2>2
    <3> QED
      BY <1>1, <2>1, <2>9, <3>1, <3>2 DEF PathsAreOwn
  <2>11. ASSUME NEW d \in Contents, task'[d].result # "none", ~Excused(d)'
         PROVE  /\ task'[d].path \in DOMAIN disk' /\ disk'[task'[d].path] = task'[d].body
                /\ task[d].result # "none" /\ ~Excused(d) /\ task'[d].path = task[d].path
    <3>1. d # c /\ task'[d] = task[d] /\ ~Excused(d)
      BY <2>1, <2>2, <2>11
    <3>2. task[d].path \in DOMAIN disk /\ disk[task[d].path] = task[d].body
      BY <2>11, <3>1 DEF CalmInv, ResultsAreKept
    <3>3. CASE task[d].path # p
      BY <2>6, <2>11, <3>1, <3>2, <3>3
    <3>4. CASE task[d].path = p
      <4>1. p \notin DOMAIN setting.old
        <5> SUFFICES ASSUME p \in DOMAIN setting.old PROVE FALSE
          OBVIOUS
        <5>1. p = Suffixed(c)
          BY <1>3
        <5>2. p \in {Plain(d), Suffixed(d)}
          BY <2>11, <3>1, <3>4 DEF CalmInv, PathsAreOwn
        <5>3. p = Suffixed(d)
          BY <5>1, <5>2, NamesTell
        <5> QED
          BY <3>1, <5>3 DEF Excused
      <4>2. disk[p] = task[c].body
        BY <1>4, <2>11, <3>1, <3>4, <4>1
      <4>3. task[d].body = task[c].body
        BY <3>2, <3>4, <4>2
      <4> QED
        BY <2>6, <2>7, <2>11, <3>1, <3>2, <3>4, <4>2, <4>3
    <3> QED
      BY <3>3, <3>4
  <2>12. ResultsAreKept'
    BY <2>11 DEF ResultsAreKept
  <2>13. CopyIsSafe'
    <3>1. ASSUME p \notin DOMAIN setting.old
          PROVE  \/ disk'[p] = task'[c].body
                 \/ /\ disk'[p] = SubSeq(task'[c].body, 1, task'[c].at)
                    /\ \A e \in Contents : task'[e].result # "none" /\ ~Excused(e)' => task'[e].path # p
      <4>1. CASE disk[p] = task[c].body
        BY <2>1, <2>7, <4>1
      <4>2. CASE /\ disk[p] = SubSeq(task[c].body, 1, task[c].at)
                 /\ \A d \in Contents : task[d].result # "none" /\ ~Excused(d) => task[d].path # p
        <5>1. disk'[p] = SubSeq(task'[c].body, 1, task'[c].at)
          BY <2>1, <2>8, <4>2 DEF n
        <5>2. \A e \in Contents : task'[e].result # "none" /\ ~Excused(e)' => task'[e].path # p
          BY <2>11, <4>2
        <5> QED
          BY <5>1, <5>2
      <4> QED
        BY <1>4, <3>1, <4>1, <4>2
    <3> QED
      BY <1>1, <2>1, <2>9, <3>1 DEF CopyIsSafe
  <2>14. SuffixesAreTrue'
    <3> SUFFICES ASSUME NEW q \in DOMAIN disk \ DOMAIN setting.old, q[2] # <<>>
                 PROVE  disk'[q] = q[2][1] \/ \E d \in Contents : task'[d].pc = "copy" /\ task'[d].path = q
      BY <1>1, <2>6 DEF SuffixesAreTrue
    <3>1. CASE q = p
      BY <2>1, <3>1
    <3>2. CASE q # p
      <4>1. ~\E d \in Contents : task[d].pc = "copy" /\ task[d].path = q
        BY <1>2, <1>7, <3>2
      <4>2. disk[q] = q[2][1]
        BY <4>1 DEF CalmInv, SuffixesAreTrue
      <4> QED
        BY <2>6, <3>2, <4>2
    <3> QED
      BY <3>1, <3>2
  <2> QED
    BY <2>10, <2>12, <2>13, <2>14
<1> QED
  BY <1>14, <1>15, DiskWorks DEF Copy, Local

LEMMA KeptTask ==
  ASSUME CalmInv, NEW c \in Contents, processRecord(c)
  PROVE  PathsAreOwn' /\ ResultsAreKept' /\ CopyIsSafe' /\ SuffixesAreTrue'
  BY KeptLooks, KeptPassing, KeptCreate, KeptCopy DEF processRecord

LEMMA KeptStart ==
  ASSUME CalmInv, StartTask
  PROVE  PathsAreOwn' /\ ResultsAreKept' /\ CopyIsSafe' /\ SuffixesAreTrue'
<1>1. /\ pc = "read" /\ rd.pc = "got" /\ disk' = disk /\ setting' = setting /\ UNCHANGED <<spool, bytes>>
  BY DEF StartTask, mainVars, spoolVars
<1>2. PICK c \in Contents : c = rd.record.content /\ task[c].pc = "none"
  BY <1>1 DEF CalmInv, BodyIInv, ReadInv, ReaderAlone, InContent
<1> DEFINE record == rd.record
           body == BodyOf(file.records[rd.member].content)
           t1 == [NoTask EXCEPT !.pc = "response", !.record = record, !.body = body]
<1>3. task' = [task EXCEPT ![c] = t1]
  BY <1>2 DEF StartTask
<1> HIDE DEF record, body
<1>4. t1.pc = "response" /\ t1.result = "none"
  BY DEF NoTask
<1> HIDE DEF t1
<1>5. task'[c] = t1 /\ \A d \in Contents \ {c} : task'[d] = task[d]
  BY <1>3 DEF CalmInv, BodyIInv, TaskFields
<1>6. \A d \in Contents :
          \/ task'[d] = task[d]
          \/ /\ task[d].pc \notin {"compare", "stat2", "create", "copy"}
             /\ task'[d].pc \notin {"compare", "stat2", "create", "copy"}
             /\ task'[d].result = "none"
  BY <1>2, <1>4, <1>5
<1>7. \A d \in Contents : IsBadGzip(d)' = IsBadGzip(d)
  BY <1>1, BadGzipStays DEF CalmInv
<1> QED
  BY <1>1, <1>6, <1>7, KeptAside

LEMMA KeptRead ==
  ASSUME CalmInv, RoomLeft, Read
  PROVE  PathsAreOwn' /\ ResultsAreKept' /\ CopyIsSafe' /\ SuffixesAreTrue'
<1>1. /\ pc = "read" /\ pc' = "read" /\ ReadRecord
      /\ UNCHANGED <<setting, todo, task, disk>>
  BY DEF Read, mainVars, taskVars
<1>2. Untouched
  BY <1>1, ReaderStep DEF Frame, CalmInv, BodyIInv
<1>3. ASSUME NEW d \in Contents, task[d].pc \in {"stat2", "create"} PROVE IsBadGzip(d)' = IsBadGzip(d)
  <2>1. AtWork(d)
    BY <1>3 DEF AtWork
  <2>2. HasStore(d) /\ task[d].pc # "none"
    BY <2>1, AtWorkFacts DEF CalmInv
  <2>3. Stored(d)' = Stored(d)
    BY <1>2, <2>2 DEF Untouched
  <2> QED
    BY <2>3 DEF IsBadGzip
<1>4. \A d \in Contents : task'[d] = task[d]
  BY <1>1
<1> QED
  BY <1>1, <1>3, <1>4, KeptAside

LEMMA CalmNext == CalmInv /\ RoomLeft /\ [Next]_vars => CalmInv'
<1> SUFFICES ASSUME CalmInv, RoomLeft, [Next]_vars PROVE CalmInv'
  OBVIOUS
<1>1. BodyIInv' /\ FilesInv'
  BY BodyNext, NextFiles DEF CalmInv
<1>2. setting' = setting
  BY DEF Next, extract, Terminated, OpenFile, Read, StartTask, EndOfFile, Wait, printExtractReport, Exit,
         Count, processRecord, ReadResponse, Stat, Compare, StatSuffixed, Create, Copy, Send, Done,
         CloseContent, StepOnly, Step, Local, vars, mainVars
<1>3. Calm'
  BY <1>2 DEF CalmInv, Calm, OneAtATime
<1>4. PathsAreOwn' /\ ResultsAreKept' /\ CopyIsSafe' /\ SuffixesAreTrue'
  <2>1. CASE OpenFile \/ EndOfFile \/ Wait \/ printExtractReport \/ Exit \/ Count \/ UNCHANGED vars
    <3>1. disk' = disk /\ setting' = setting /\ task' = task /\ UNCHANGED <<spool, bytes>>
      BY <2>1 DEF OpenFile, EndOfFile, Wait, printExtractReport, Exit, Count, vars, readerVars, spoolVars,
                  mainVars, taskVars
    <3>2. \A d \in Contents : IsBadGzip(d)' = IsBadGzip(d)
      BY <3>1, BadGzipStays DEF CalmInv
    <3> QED
      BY <3>1, <3>2, KeptAside
  <2>2. CASE Read
    BY <2>2, KeptRead
  <2>3. CASE StartTask
    BY <2>3, KeptStart
  <2>4. CASE \E c \in Contents : processRecord(c)
    BY <2>4, KeptTask
  <2> QED
    BY <2>1, <2>2, <2>3, <2>4 DEF Next, extract, Terminated
<1> QED
  BY <1>1, <1>3, <1>4 DEF CalmInv

LEMMA CalmInit == Init /\ Calm => CalmInv
<1> SUFFICES ASSUME Init, Calm PROVE CalmInv
  OBVIOUS
<1>1. BodyIInv /\ FilesInv
  BY BodyInit, InitFiles
<1>2. \A c \in Contents : task[c].pc = "none" /\ task[c].result = "none"
  BY DEF Init, NoTask
<1>3. disk = setting.old
  BY DEF Init
<1> QED
  BY <1>1, <1>2, <1>3 DEF CalmInv, PathsAreOwn, ResultsAreKept, CopyIsSafe, SuffixesAreTrue

\* Calm is a matter of the setting.
LEMMA CalmStays == [Next]_vars => (Calm' = Calm)
<1> SUFFICES ASSUME [Next]_vars PROVE Calm' = Calm
  OBVIOUS
<1>1. setting' = setting
  BY DEF Next, extract, Terminated, OpenFile, Read, StartTask, EndOfFile, Wait, printExtractReport, Exit,
         Count, processRecord, ReadResponse, Stat, Compare, StatSuffixed, Create, Copy, Send, Done,
         CloseContent, StepOnly, Step, Local, vars, mainVars
<1> QED
  BY <1>1 DEF Calm, OneAtATime

LEMMA KeptFollows == CalmInv => BodiesAreKept
<1> SUFFICES ASSUME CalmInv, NEW c \in Contents, task[c].result \in {"written", "skipped"}
             PROVE  \/ \E p \in DOMAIN disk : disk[p] = task[c].body
                    \/ PathOf(NameOf(c), <<task[c].body>>) \in DOMAIN setting.old
  BY DEF BodiesAreKept
<1>1. CASE Excused(c)
  BY <1>1 DEF Excused, Suffixed
<1>2. CASE ~Excused(c)
  BY <1>2 DEF CalmInv, ResultsAreKept
<1> QED
  BY <1>1, <1>2

LEMMA KeptOtherwise == ~Calm => BodiesAreKept
  BY DEF Calm, BodiesAreKept

(* With one thread, --hash-suffix and a disk that does not fail, the body of each
   record that is written or skipped is in the output directory: what copyOut
   found under a name is the whole of a body, and a name with a hash is that of
   no other body. *)
THEOREM BodiesAreKeptHolds == Spec /\ []RoomLeft => []BodiesAreKept
<1> DEFINE I == Calm => CalmInv
<1>1. Init => I
  BY CalmInit
<1>2. I /\ RoomLeft /\ [Next]_vars => I'
  BY CalmNext, CalmStays
<1>3. I => BodiesAreKept
  BY KeptFollows, KeptOtherwise
<1> HIDE DEF I
<1> QED
  BY <1>1, <1>2, <1>3, PTL DEF Spec

(***************************************************************************)
(* There is room: no step takes more than one content and one buffer.      *)
(***************************************************************************)
UsedContents == {c \in Contents : spool[c].stage # "unused"}
TakenBuffers == {b \in Buffers : ~(pool[b] > 0)}

TakesOne == \E c, b : /\ \A d \in Contents : d # c => spool'[d] = spool[d]
                      /\ \A x \in Buffers : x # b => pool'[x] >= pool[x]

LEMMA TakesOneOnly ==
  ASSUME SpoolInv, NEW c \in Contents, OnlyIn(c),
         \/ \A b \in Buffers : pool'[b] >= pool[b]
         \/ \E b0 \in Buffers : pool' = [pool EXCEPT ![b0] = 0]
  PROVE  TakesOne
<1>1. \A d \in Contents : d # c => spool'[d] = spool[d]
  BY DEF OnlyIn
<1>2. \A b \in Buffers : pool[b] \in {0, 1}
  BY SpoolFacts
<1>3. CASE \A b \in Buffers : pool'[b] >= pool[b]
  BY <1>1, <1>3 DEF TakesOne
<1>4. CASE \E b0 \in Buffers : pool' = [pool EXCEPT ![b0] = 0]
  <2>1. PICK b0 \in Buffers : pool' = [pool EXCEPT ![b0] = 0]
    BY <1>4
  <2>2. DOMAIN pool = Buffers
    BY DEF SpoolInv, Typed
  <2>3. ASSUME NEW x \in Buffers, x # b0 PROVE pool'[x] >= pool[x]
    <3>1. pool'[x] = pool[x] /\ pool[x] \in {0, 1}
      BY <1>2, <2>1, <2>2, <2>3
    <3> QED
      BY <3>1
  <2> QED
    BY <1>1, <2>3 DEF TakesOne
<1> QED
  BY <1>3, <1>4

LEMMA TakesNone ==
  ASSUME SpoolInv, UNCHANGED <<spool, pool>>
  PROVE  TakesOne
<1>1. \A b \in Buffers : pool[b] \in {0, 1}
  BY SpoolFacts
<1>2. \A b \in Buffers : pool'[b] >= pool[b]
  BY <1>1
<1> QED
  BY <1>2 DEF TakesOne

LEMMA ReadTakesOne ==
  ASSUME BodyIInv, RoomLeft, Read
  PROVE  TakesOne
<1>1. Frame /\ SpoolInv /\ ReadRecord
  BY DEF Read, Frame, BodyIInv, ReadInv, mainVars, taskVars
<1>2. CASE UNCHANGED spoolVars
  BY <1>1, <1>2, TakesNone DEF spoolVars
<1>3. CASE ReadHeader
  <2>1. CASE \E c \in Contents : New(c)
    <3>1. PICK c \in Contents : New(c)
      BY <2>1
    <3>2. \E b \in Buffers : pool[b] > 0
      BY <1>3 DEF ReadHeader, RoomLeft
    <3>3. OnlyIn(c) /\ \E b0 \in Buffers : pool[b0] = 1 /\ pool' = [pool EXCEPT ![b0] = 0]
      BY <1>1, <3>1, <3>2, NewContent
    <3> QED
      BY <1>1, <3>3, TakesOneOnly
  <2>2. CASE ~(UNCHANGED spoolVars)
    <3> DEFINE unused == {c \in Contents : spool[c].stage = "unused"}
               least == CHOOSE c \in unused : \A d \in unused : c <= d
    <3>1. unused # {}
      BY <1>3 DEF RoomLeft, ReadHeader
    <3>2. unused \subseteq Nat
      BY ReaderAssumption
    <3>3. least \in unused
      BY <3>1, <3>2, LeastNumber
    <3>4. New(least)
      BY <1>3, <2>2, <3>1 DEF ReadHeader
    <3> QED
      BY <2>1, <3>3, <3>4
  <2> QED
    BY <1>2, <2>2
<1>4. CASE ReadContent \/ ReadClose
  <2>1. rd.pc \in InContent /\ (ReadContent => rd.pc # "close")
    BY <1>4 DEF ReadContent, ReadClose, InContent
  <2>2. PICK c \in Contents : c = rd.record.content /\ (ReadContent => HasStore(c))
    BY <1>1, <2>1, ReaderHas
  <2>3. \/ UNCHANGED spoolVars
        \/ ReadContent /\ ((\E chunk : Write(c, chunk)) \/ WriteFails(c))
        \/ Close(c) \/ RemoveFails(c)
    BY <1>4, <2>2 DEF ReadContent, ReadClose, CloseOnError
  <2>4. CASE ReadContent /\ ((\E chunk : Write(c, chunk)) \/ WriteFails(c))
    <3>1. OnlyIn(c) /\ \A b \in Buffers : pool'[b] >= pool[b]
      BY <1>1, <2>2, <2>4, WriteContent, FailContent
    <3> QED
      BY <1>1, <3>1, TakesOneOnly
  <2>5. CASE Close(c) \/ RemoveFails(c)
    <3>1. OnlyIn(c) /\ \A b \in Buffers : pool'[b] >= pool[b]
      BY <1>1, <2>5, CloseContentOf
    <3> QED
      BY <1>1, <3>1, TakesOneOnly
  <2> QED
    BY <1>2, <2>3, <2>4, <2>5
<1> QED
  BY <1>1, <1>2, <1>3, <1>4 DEF ReadRecord, ReadStart, ReadVersion, ReadBoundary, ReadRest

LEMMA TaskTakesOne ==
  ASSUME BodyIInv, NEW c \in Contents, processRecord(c)
  PROVE  TakesOne
<1>1. SpoolInv
  BY DEF BodyIInv, ReadInv
<1>2. \/ UNCHANGED spoolVars
      \/ Close(c) \/ RemoveFails(c)
      \/ ReadTo(c, 1) \/ (task[c].pc = "copy" /\ ReadTo(c, Position(c) + 1))
  BY DEF processRecord, ReadResponse, Stat, Compare, StatSuffixed, Create, Copy, Send, Done,
         CloseContent, StepOnly, Step, Local
<1>3. CASE UNCHANGED spoolVars
  BY <1>1, <1>3, TakesNone DEF spoolVars
<1>4. CASE Close(c) \/ RemoveFails(c)
  <2>1. OnlyIn(c) /\ \A b \in Buffers : pool'[b] >= pool[b]
    BY <1>1, <1>4, CloseContentOf
  <2> QED
    BY <1>1, <2>1, TakesOneOnly
<1>5. CASE \E n : ReadTo(c, n)
  <2>1. UNCHANGED <<bytes, pool>> /\ \E s : spool' = [spool EXCEPT ![c] = s]
    BY <1>5 DEF ReadTo
  <2>2. DOMAIN spool = Contents
    BY <1>1 DEF SpoolInv, Typed
  <2>3. \A d \in Contents : d # c => spool'[d] = spool[d]
    BY <2>1, <2>2
  <2>4. \A b \in Buffers : pool'[b] >= pool[b]
    <3>1. \A b \in Buffers : pool[b] \in {0, 1}
      BY <1>1, SpoolFacts
    <3> QED
      BY <2>1, <3>1
  <2> QED
    BY <2>3, <2>4 DEF TakesOne
<1> QED
  BY <1>2, <1>3, <1>4, <1>5

LEMMA NextTakesOne ==
  ASSUME BodyIInv, RoomLeft, [Next]_vars
  PROVE  TakesOne
<1>1. CASE OpenFile \/ StartTask \/ EndOfFile \/ Wait \/ printExtractReport \/ Exit \/ Count \/ UNCHANGED vars
  <2>1. UNCHANGED <<spool, pool>>
    BY <1>1 DEF OpenFile, StartTask, EndOfFile, Wait, printExtractReport, Exit, Count, vars, readerVars,
                spoolVars, taskVars
  <2> QED
    BY <2>1, TakesNone DEF BodyIInv, ReadInv
<1>2. CASE Read
  BY <1>2, ReadTakesOne
<1>3. CASE \E c \in Contents : processRecord(c)
  BY <1>3, TaskTakesOne
<1> QED
  BY <1>1, <1>2, <1>3 DEF Next, extract, Terminated

RoomInv == BodyIInv /\ IsFiniteSet(UsedContents) /\ IsFiniteSet(TakenBuffers)

LEMMA RoomFollows ==
  ASSUME ~IsFiniteSet(Contents), ~IsFiniteSet(Buffers), RoomInv
  PROVE  RoomLeft
<1>1. ~(Contents \subseteq UsedContents)
  BY FS_Subset DEF RoomInv
<1>2. ~(Buffers \subseteq TakenBuffers)
  BY FS_Subset DEF RoomInv
<1> QED
  BY <1>1, <1>2 DEF RoomLeft, UsedContents, TakenBuffers

LEMMA RoomNext ==
  ASSUME ~IsFiniteSet(Contents), ~IsFiniteSet(Buffers), RoomInv, [Next]_vars
  PROVE  RoomInv'
<1>1. BodyIInv /\ RoomLeft
  BY RoomFollows DEF RoomInv
<1>2. BodyIInv'
  BY <1>1, BodyNext
<1>3. TakesOne
  BY <1>1, NextTakesOne
<1>4. PICK c, b : /\ \A d \in Contents : d # c => spool'[d] = spool[d]
                  /\ \A x \in Buffers : x # b => pool'[x] >= pool[x]
  BY <1>3 DEF TakesOne
<1>5. IsFiniteSet(UsedContents \cup {c}) /\ IsFiniteSet(TakenBuffers \cup {b})
  BY FS_AddElement DEF RoomInv
<1>6. UsedContents' \subseteq UsedContents \cup {c}
  BY <1>4 DEF UsedContents
<1>7. TakenBuffers' \subseteq TakenBuffers \cup {b}
  <2>1. ASSUME NEW x \in Buffers, ~(pool'[x] > 0), x # b PROVE ~(pool[x] > 0)
    <3>1. pool'[x] >= pool[x] /\ pool[x] \in {0, 1} /\ pool'[x] \in {0, 1}
      BY <1>1, <1>2, <1>4, <2>1 DEF BodyIInv, ReadInv, SpoolInv, BuffersApart
    <3> QED
      BY <2>1, <3>1
  <2> QED
    BY <2>1 DEF TakenBuffers
<1>8. IsFiniteSet(UsedContents') /\ IsFiniteSet(TakenBuffers')
  BY <1>5, <1>6, <1>7, FS_Subset
<1> QED
  BY <1>2, <1>8 DEF RoomInv

LEMMA RoomInit == Init => RoomInv
<1> SUFFICES ASSUME Init PROVE RoomInv
  OBVIOUS
<1>1. UsedContents = {}
  BY DEF Init, SpoolInit, Unused, UsedContents
<1>2. TakenBuffers = {}
  <2>1. \A b \in Buffers : pool[b] = 1
    BY DEF Init, SpoolInit
  <2> QED
    BY <2>1 DEF TakenBuffers
<1> QED
  BY <1>1, <1>2, BodyInit, FS_EmptySet DEF RoomInv

\* A process makes contents and buffers as it needs them: with no end of either,
\* there is always room.
THEOREM RoomIsLeft ==
  ASSUME ~IsFiniteSet(Contents), ~IsFiniteSet(Buffers)
  PROVE  Spec => []RoomLeft
<1>1. RoomInv /\ [Next]_vars => RoomInv'
  BY RoomNext
<1>2. RoomInv => RoomLeft
  BY RoomFollows
<1> QED
  BY <1>1, <1>2, RoomInit, PTL DEF Spec
=============================================================================
