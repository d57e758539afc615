---------------------------- MODULE VerifyProofs ----------------------------
(***************************************************************************)
(* Proofs about Verify.  For NothingIsLeft and OffsetsAreExact nothing is  *)
(* needed of what is in the files; for VerdictIsRight the reader is        *)
(* followed through the text of every record that FilesAssumption allows.  *)
(***************************************************************************)
EXTENDS VerifyInv, WellFoundedInduction, TLAPS

(***************************************************************************)
(* The operations on a content, for chunks of any kind.                    *)
(***************************************************************************)

\* What a content is, for chunks in S.
Holding(S) == [stage : {"unused", "writing", "reading", "closed"}, buf : Buffers \cup {NoBuffer},
               onDisk : BOOLEAN, data : Seq(S), at : Nat]

SpoolTyped == \E S : SpoolTypeOK(S)

LEMMA TypedParts ==
  ASSUME NEW S, SpoolTypeOK(S)
  PROVE  /\ spool \in [Contents -> Holding(S)] /\ bytes \in [Buffers -> Seq(S)]
         /\ pool \in [Buffers -> Nat] /\ temps \in [Contents -> Nat]
  BY DEF SpoolTypeOK, Holding

LEMMA TypedNext ==
  ASSUME NEW S, spool' \in [Contents -> Holding(S)], bytes' \in [Buffers -> Seq(S)],
         pool' \in [Buffers -> Nat], temps' \in [Contents -> Nat]
  PROVE  SpoolTypeOK(S)'
  BY DEF SpoolTypeOK, Holding

LEMMA UnusedIsHolding ==
  ASSUME NEW S
  PROVE  Unused \in Holding(S)
<1>1. <<>> \in Seq(S)
  OBVIOUS
<1> QED
  BY <1>1 DEF Unused, Holding

LEMMA SpoolFields ==
  ASSUME SpoolTyped
  PROVE  \A c \in Contents : /\ spool[c].onDisk \in BOOLEAN
                             /\ spool[c].buf \in Buffers \cup {NoBuffer}
                             /\ temps[c] \in Nat
  BY DEF SpoolTyped, SpoolTypeOK

LEMMA NewFacts ==
  ASSUME SpoolTyped, NEW c \in Contents, New(c), \A b \in Buffers : pool[b] = 1
  PROVE  /\ SpoolTyped' /\ temps' = temps
         /\ \A d \in Contents : d # c => spool'[d] = spool[d]
         /\ spool'[c].stage = "writing" /\ spool'[c].buf \in Buffers /\ ~spool'[c].onDisk
         /\ \A b \in Buffers : pool'[b] = IF spool'[c].buf = b THEN 0 ELSE 1
<1> DEFINE b0 == CHOOSE b \in Buffers : pool[b] > 0
<1>1. b0 \in Buffers
  BY SpoolAssumption
<1>2. /\ pool' = [pool EXCEPT ![b0] = @ - 1] /\ bytes' = bytes /\ temps' = temps
      /\ spool' = [spool EXCEPT ![c] = [Unused EXCEPT !.stage = "writing", !.buf = b0]]
  BY DEF New
<1> HIDE DEF b0
<1>3. PICK S : SpoolTypeOK(S)
  BY DEF SpoolTyped
<1> DEFINE s1 == [Unused EXCEPT !.stage = "writing", !.buf = b0]
<1>4. spool' = [spool EXCEPT ![c] = s1]
  BY <1>2
<1>5. s1 \in Holding(S) /\ s1.stage = "writing" /\ s1.buf = b0 /\ ~s1.onDisk
  <2>1. Unused \in Holding(S) /\ ~Unused.onDisk
    BY UnusedIsHolding DEF Unused
  <2> QED
    BY <1>1, <2>1 DEF Holding
<1> HIDE DEF s1
<1>6. /\ spool \in [Contents -> Holding(S)] /\ bytes \in [Buffers -> Seq(S)]
      /\ pool \in [Buffers -> Nat] /\ temps \in [Contents -> Nat]
  BY <1>3, TypedParts
<1>7. spool' \in [Contents -> Holding(S)] /\ spool'[c] = s1 /\ \A d \in Contents : d # c => spool'[d] = spool[d]
  BY <1>4, <1>5, <1>6
<1>8. pool' \in [Buffers -> Nat] /\ \A b \in Buffers : pool'[b] = IF b0 = b THEN 0 ELSE 1
  BY <1>1, <1>2, <1>6
<1>9. bytes' \in [Buffers -> Seq(S)] /\ temps' \in [Contents -> Nat]
  BY <1>2, <1>6
<1>10. SpoolTypeOK(S)'
  BY <1>7, <1>8, <1>9, TypedNext
<1>11. SpoolTyped'
  BY <1>10 DEF SpoolTyped
<1> QED
  BY <1>1, <1>2, <1>5, <1>7, <1>8, <1>11

\* The buffer of a content goes back to the pool.
Returned(c) == /\ spool[c].buf \in Buffers
               /\ \A b \in Buffers : pool'[b] = IF spool[c].buf = b THEN pool[b] + 1 ELSE pool[b]

\* Nothing but the data and the position of a content is another.
SameHold(c) == /\ spool'[c].buf = spool[c].buf /\ spool'[c].onDisk = spool[c].onDisk
               /\ pool' = pool /\ temps' = temps

LEMMA PutFacts ==
  ASSUME NEW S, bytes \in [Buffers -> Seq(S)], pool \in [Buffers -> Nat],
         NEW c \in Contents, spool[c].buf \in Buffers, Put(spool[c].buf)
  PROVE  /\ pool' \in [Buffers -> Nat] /\ bytes' \in [Buffers -> Seq(S)]
         /\ Returned(c)
<1>1. <<>> \in Seq(S)
  OBVIOUS
<1> QED
  BY <1>1 DEF Put, Returned

LEMMA WriteFacts ==
  ASSUME SpoolTyped, NEW c \in Contents, NEW chunk, Write(c, chunk), HasStore(c)
  PROVE  /\ SpoolTyped'
         /\ \A d \in Contents : d # c => spool'[d] = spool[d]
         /\ spool'[c].stage = "writing"
         /\ \/ SameHold(c)
            \/ /\ ~spool[c].onDisk /\ spool'[c].onDisk /\ spool'[c].buf = NoBuffer
               /\ Returned(c) /\ temps' = [temps EXCEPT ![c] = @ + 1]
<1>1. PICK S0 : SpoolTypeOK(S0)
  BY DEF SpoolTyped
<1> DEFINE S == S0 \cup {chunk}
<1>2. /\ spool \in [Contents -> Holding(S)] /\ bytes \in [Buffers -> Seq(S)]
      /\ pool \in [Buffers -> Nat] /\ temps \in [Contents -> Nat]
  <2>1. Seq(S0) \subseteq Seq(S)
    OBVIOUS
  <2>2. Holding(S0) \subseteq Holding(S)
    BY <2>1 DEF Holding
  <2> QED
    BY <1>1, <2>1, <2>2, TypedParts
<1>3. chunk \in S
  OBVIOUS
<1> HIDE DEF S
<1>4. spool[c] \in Holding(S) /\ spool[c].stage = "writing"
  BY <1>2 DEF Write
<1>5. /\ spool[c].onDisk \in BOOLEAN /\ spool[c].buf \in Buffers \cup {NoBuffer}
      /\ spool[c].data \in Seq(S)
  BY <1>4 DEF Holding
<1>6. CASE /\ spool[c].onDisk
           /\ spool' = [spool EXCEPT ![c].data = Append(@, chunk)]
           /\ UNCHANGED <<bytes, pool, temps>>
  <2> DEFINE s1 == [spool[c] EXCEPT !.data = Append(spool[c].data, chunk)]
  <2>1. Append(spool[c].data, chunk) \in Seq(S)
    BY <1>3, <1>5
  <2>2. /\ s1 \in Holding(S) /\ s1.stage = "writing" /\ s1.buf = spool[c].buf
        /\ s1.onDisk = spool[c].onDisk
    BY <1>4, <2>1 DEF Holding
  <2>3. spool' = [spool EXCEPT ![c] = s1]
    BY <1>6
  <2> HIDE DEF s1
  <2>4. /\ spool' \in [Contents -> Holding(S)] /\ spool'[c] = s1
        /\ \A d \in Contents : d # c => spool'[d] = spool[d]
    BY <1>2, <2>2, <2>3
  <2>5. SpoolTypeOK(S)'
    BY <1>2, <1>6, <2>4, TypedNext
  <2> QED
    BY <1>6, <2>2, <2>4, <2>5 DEF SpoolTyped, SameHold
<1>7. CASE /\ ~spool[c].onDisk
           /\ bytes' = [bytes EXCEPT ![spool[c].buf] = Append(@, chunk)]
           /\ UNCHANGED <<spool, pool, temps>>
  <2>1. spool[c].buf \in Buffers
    BY <1>5, <1>7 DEF HasStore
  <2>2. Append(bytes[spool[c].buf], chunk) \in Seq(S)
    BY <1>2, <1>3, <2>1
  <2>3. bytes' \in [Buffers -> Seq(S)]
    BY <1>2, <1>7, <2>1, <2>2
  <2>4. SpoolTypeOK(S)'
    BY <1>2, <1>7, <2>3, TypedNext
  <2> QED
    BY <1>4, <1>7, <2>4 DEF SpoolTyped, SameHold
<1>8. CASE /\ ~spool[c].onDisk
           /\ temps' = [temps EXCEPT ![c] = @ + 1]
           /\ spool' = [spool EXCEPT ![c].onDisk = TRUE, ![c].buf = NoBuffer,
                                     ![c].data = Append(bytes[spool[c].buf], chunk)]
           /\ Put(spool[c].buf)
  <2> DEFINE data == Append(bytes[spool[c].buf], chunk)
             s1 == [spool[c] EXCEPT !.onDisk = TRUE, !.buf = NoBuffer, !.data = data]
  <2>1. spool[c].buf \in Buffers
    BY <1>5, <1>8 DEF HasStore
  <2>2. data \in Seq(S)
    BY <1>2, <1>3, <2>1
  <2>3. spool' = [spool EXCEPT ![c] = s1]
    BY <1>8
  <2> HIDE DEF data
  <2>4. s1 \in Holding(S) /\ s1.stage = "writing" /\ s1.buf = NoBuffer /\ s1.onDisk
    BY <1>4, <2>2 DEF Holding
  <2> HIDE DEF s1
  <2>5. /\ spool' \in [Contents -> Holding(S)] /\ spool'[c] = s1
        /\ \A d \in Contents : d # c => spool'[d] = spool[d]
    BY <1>2, <2>3, <2>4
  <2>6. pool' \in [Buffers -> Nat] /\ bytes' \in [Buffers -> Seq(S)] /\ Returned(c)
    BY <1>2, <1>8, <2>1, PutFacts
  <2>7. temps' \in [Contents -> Nat]
    BY <1>2, <1>8
  <2>8. SpoolTypeOK(S)'
    BY <2>5, <2>6, <2>7, TypedNext
  <2> QED
    BY <1>8, <2>4, <2>5, <2>6, <2>8 DEF SpoolTyped
<1> QED
  BY <1>6, <1>7, <1>8 DEF Write

LEMMA WriteFailsFacts ==
  ASSUME SpoolTyped, NEW c \in Contents, WriteFails(c), HasStore(c)
  PROVE  /\ SpoolTyped'
         /\ \A d \in Contents : d # c => spool'[d] = spool[d]
         /\ spool'[c].stage = "writing" /\ spool'[c].onDisk = spool[c].onDisk
         /\ \A d \in Contents : temps'[d] >= temps[d]
         /\ \/ spool'[c].buf = spool[c].buf /\ pool' = pool
            \/ ~spool[c].onDisk /\ spool'[c].buf = NoBuffer /\ Returned(c)
<1>1. PICK S : SpoolTypeOK(S)
  BY DEF SpoolTyped
<1>2. /\ spool \in [Contents -> Holding(S)] /\ bytes \in [Buffers -> Seq(S)]
      /\ pool \in [Buffers -> Nat] /\ temps \in [Contents -> Nat]
  BY <1>1, TypedParts
<1>3. /\ spool[c] \in Holding(S) /\ spool[c].stage = "writing"
      /\ \A d \in Contents : temps[d] \in Nat
  BY <1>2 DEF WriteFails
<1>4. CASE UNCHANGED spoolVars
  <2>1. SpoolTypeOK(S)'
    BY <1>2, <1>4, TypedNext DEF spoolVars
  <2> QED
    BY <1>3, <1>4, <2>1 DEF spoolVars, SpoolTyped
<1>5. CASE /\ ~spool[c].onDisk
           /\ temps' = [temps EXCEPT ![c] = @ + 1]
           /\ UNCHANGED <<spool, bytes, pool>>
  <2>1. temps' \in [Contents -> Nat] /\ \A d \in Contents : temps'[d] >= temps[d]
    BY <1>2, <1>5
  <2>2. SpoolTypeOK(S)'
    BY <1>2, <1>5, <2>1, TypedNext
  <2> QED
    BY <1>3, <1>5, <2>1, <2>2 DEF SpoolTyped
<1>6. CASE /\ ~spool[c].onDisk
           /\ temps' = [temps EXCEPT ![c] = @ + 1]
           /\ spool' = [spool EXCEPT ![c].buf = NoBuffer] /\ Put(spool[c].buf)
  <2> DEFINE s1 == [spool[c] EXCEPT !.buf = NoBuffer]
  <2>1. spool[c].buf \in Buffers
    BY <1>3, <1>6 DEF HasStore, Holding
  <2>2. pool' \in [Buffers -> Nat] /\ bytes' \in [Buffers -> Seq(S)] /\ Returned(c)
    BY <1>2, <1>6, <2>1, PutFacts
  <2>3. temps' \in [Contents -> Nat] /\ \A d \in Contents : temps'[d] >= temps[d]
    BY <1>2, <1>6
  <2>4. s1 \in Holding(S) /\ s1.stage = "writing" /\ s1.buf = NoBuffer /\ s1.onDisk = spool[c].onDisk
    BY <1>3 DEF Holding
  <2>5. spool' = [spool EXCEPT ![c] = s1]
    BY <1>6
  <2> HIDE DEF s1
  <2>6. /\ spool' \in [Contents -> Holding(S)] /\ spool'[c] = s1
        /\ \A d \in Contents : d # c => spool'[d] = spool[d]
    BY <1>2, <2>4, <2>5
  <2>7. SpoolTypeOK(S)'
    BY <2>2, <2>3, <2>6, TypedNext
  <2> QED
    BY <1>6, <2>2, <2>3, <2>4, <2>6, <2>7 DEF SpoolTyped
<1> QED
  BY <1>4, <1>5, <1>6 DEF WriteFails

LEMMA ReadToFacts ==
  ASSUME SpoolTyped, NEW c \in Contents, NEW n \in Nat, ReadTo(c, n)
  PROVE  /\ SpoolTyped'
         /\ \A d \in Contents : d # c => spool'[d] = spool[d]
         /\ spool'[c].stage = "reading" /\ SameHold(c)
<1>1. PICK S : SpoolTypeOK(S)
  BY DEF SpoolTyped
<1>2. spool' = [spool EXCEPT ![c].stage = "reading", ![c].at = n] /\ UNCHANGED <<bytes, pool, temps>>
  BY DEF ReadTo
<1>3. SpoolTypeOK(S)'
  BY <1>1, <1>2 DEF SpoolTypeOK
<1> QED
  BY <1>1, <1>2, <1>3 DEF SpoolTypeOK, SpoolTyped, SameHold

LEMMA CloseFacts ==
  ASSUME SpoolTyped, NEW c \in Contents, Close(c), spool[c].onDisk => temps[c] > 0
  PROVE  /\ SpoolTyped'
         /\ \A d \in Contents : d # c => spool'[d] = spool[d] /\ temps'[d] = temps[d]
         /\ spool'[c].stage = "closed" /\ spool'[c].buf = NoBuffer /\ ~spool'[c].onDisk
         /\ Returned(c) \/ (spool[c].buf = NoBuffer /\ pool' = pool)
         /\ temps'[c] = IF spool[c].onDisk THEN temps[c] - 1 ELSE temps[c]
<1>1. PICK S : SpoolTypeOK(S)
  BY DEF SpoolTyped
<1>2. /\ spool \in [Contents -> Holding(S)] /\ bytes \in [Buffers -> Seq(S)]
      /\ pool \in [Buffers -> Nat] /\ temps \in [Contents -> Nat]
  BY <1>1, TypedParts
<1> DEFINE s1 == [Unused EXCEPT !.stage = "closed"]
<1>3. s1 \in Holding(S) /\ s1.stage = "closed" /\ s1.buf = NoBuffer /\ ~s1.onDisk
  <2>1. Unused \in Holding(S) /\ ~Unused.onDisk /\ Unused.buf = NoBuffer
    BY UnusedIsHolding DEF Unused
  <2> QED
    BY <2>1 DEF Holding
<1>4. spool' = [spool EXCEPT ![c] = s1]
  BY DEF Close
<1> HIDE DEF s1
<1>5. /\ spool' \in [Contents -> Holding(S)] /\ spool'[c] = s1
      /\ \A d \in Contents : d # c => spool'[d] = spool[d]
  BY <1>2, <1>3, <1>4
<1>6. /\ temps' \in [Contents -> Nat]
      /\ \A d \in Contents : d # c => temps'[d] = temps[d]
      /\ temps'[c] = IF spool[c].onDisk THEN temps[c] - 1 ELSE temps[c]
  BY <1>2 DEF Close
<1>7. /\ pool' \in [Buffers -> Nat] /\ bytes' \in [Buffers -> Seq(S)]
      /\ Returned(c) \/ (spool[c].buf = NoBuffer /\ pool' = pool)
  <2>1. CASE spool[c].buf # NoBuffer
    <3>1. spool[c].buf \in Buffers /\ Put(spool[c].buf)
      BY <1>2, <2>1 DEF Close, Holding
    <3> QED
      BY <1>2, <3>1, PutFacts
  <2>2. CASE spool[c].buf = NoBuffer
    BY <1>2, <2>2 DEF Close
  <2> QED
    BY <2>1, <2>2
<1>8. SpoolTypeOK(S)'
  BY <1>5, <1>6, <1>7, TypedNext
<1> QED
  BY <1>3, <1>5, <1>6, <1>7, <1>8 DEF SpoolTyped

LEMMA RemoveFailsFacts ==
  ASSUME SpoolTyped, NEW c \in Contents, RemoveFails(c)
  PROVE  /\ SpoolTyped'
         /\ \A d \in Contents : d # c => spool'[d] = spool[d]
         /\ spool'[c].stage = "closed" /\ spool[c].onDisk /\ SameHold(c)
<1>1. PICK S : SpoolTypeOK(S)
  BY DEF SpoolTyped
<1>2. SpoolTypeOK(S)'
  BY <1>1 DEF RemoveFails, SpoolTypeOK
<1> QED
  BY <1>1, <1>2 DEF RemoveFails, SpoolTypeOK, SpoolTyped, SameHold

(***************************************************************************)
(* A step of the reader, as far as the contents are concerned.             *)
(***************************************************************************)

\* The fields of the reader that the steps set are there.
Fields == /\ {"pc", "member", "at", "tell", "left", "lines", "record"} \subseteq DOMAIN rd
          /\ {"version", "header", "content", "offset", "size"} \subseteq DOMAIN rd.record

Idle == /\ rd.pc \notin InContent /\ rd'.pc \notin InContent
        /\ UNCHANGED spoolVars

SameContent == rd'.record.content = rd.record.content

Kept == /\ rd.pc \in InContent \ {"close"} /\ rd'.pc \in InContent /\ SameContent
        /\ UNCHANGED spoolVars

Made == /\ rd.pc \notin InContent /\ rd'.pc = "content"
        /\ rd'.record.content \in Contents /\ New(rd'.record.content)

Wrote == /\ rd.pc = "content" /\ rd'.pc = "content" /\ SameContent
         /\ \E chunk : Write(rd.record.content, chunk)

Failed == /\ rd.pc = "content" /\ rd'.pc = "close" /\ SameContent
          /\ file.diskFails /\ WriteFails(rd.record.content)

Closed == /\ rd.pc \in InContent /\ rd'.pc \notin InContent
          /\ Close(rd.record.content) \/ (file.diskFails /\ RemoveFails(rd.record.content))

LEMMA GotoFacts ==
  ASSUME Fields, NEW p, Goto(p)
  PROVE  Fields' /\ rd'.pc = p /\ SameContent
  BY DEF Fields, Goto, SameContent

LEMMA LeastNumber ==
  ASSUME NEW S \in SUBSET Nat, S # {}
  PROVE  LET m == CHOOSE c \in S : \A d \in S : c <= d IN m \in S /\ \A d \in S : m <= d
<1>1. IsWellFoundedOn(OpToRel(<, Nat), Nat)
  BY NatLessThanWellFounded
<1>2. PICK x \in S : \A y \in S : ~(<<y, x>> \in OpToRel(<, Nat))
  BY <1>1, WFMin
<1>3. \A y \in S : ~(y < x)
  BY <1>2 DEF OpToRel
<1>4. \A y \in S : x <= y
  BY <1>3
<1> QED
  BY <1>4

\* A content to make is there: the reader has none in hand.
LEMMA FreeContent ==
  ASSUME SpoolTyped, BuffersAreHeld, rd.pc = "header"
  PROVE  LET unused == {c \in Contents : spool[c].stage = "unused"}
             free == IF unused # {} THEN unused ELSE {c \in Contents : spool[c].stage = "closed"}
         IN  (CHOOSE c \in free : \A d \in free : c <= d) \in Contents
<1> DEFINE unused == {c \in Contents : spool[c].stage = "unused"}
           free == IF unused # {} THEN unused ELSE {c \in Contents : spool[c].stage = "closed"}
<1>1. \A c \in Contents : spool[c].stage \in {"unused", "closed"}
  BY DEF BuffersAreHeld, Live, InContent
<1>2. free # {} /\ free \subseteq Contents
  BY <1>1, ReaderAssumption
<1>3. free \in SUBSET Nat
  BY <1>2, ReaderAssumption
<1> HIDE DEF free
<1>4. (CHOOSE c \in free : \A d \in free : c <= d) \in free
  BY <1>2, <1>3, LeastNumber
<1>5. (CHOOSE c \in free : \A d \in free : c <= d) \in Contents
  BY <1>2, <1>4
<1> QED
  BY <1>5 DEF free

LEMMA ReaderSteps ==
  ASSUME SpoolTyped, Fields, BuffersAreHeld, ReadRecord
  PROVE  /\ Fields' /\ file' = file
         /\ Idle \/ Kept \/ Made \/ Wrote \/ Failed \/ Closed
<1> USE DEF InContent
<1>1. CASE ReadStart
  <2>1. /\ rd.pc = "idle" /\ file' = file /\ UNCHANGED spoolVars
    BY <1>1 DEF ReadStart
  <2>2. CASE Goto("eof") \/ Goto("failed")
    BY <2>1, <2>2, GotoFacts DEF Idle
  <2>3. CASE \E m, a : rd' = [rd EXCEPT !.pc = "version", !.member = m, !.lines = 0, !.at = a,
                                        !.record = [NoRecord EXCEPT !.offset = rd.tell]]
    BY <2>1, <2>3 DEF Idle, Fields, NoRecord
  <2> QED
    BY <1>1, <2>2, <2>3 DEF ReadStart, Fail
<1>2. CASE ReadVersion
  <2>1. /\ rd.pc = "version" /\ file' = file /\ UNCHANGED spoolVars
    BY <1>2 DEF ReadVersion
  <2>2. CASE Goto("eof") \/ Goto("failed")
    BY <2>1, <2>2, GotoFacts DEF Idle
  <2>3. CASE rd' = [rd EXCEPT !.pc = "header", !.at = Found.next, !.record.version = Line]
    BY <2>1, <2>3 DEF Idle, Fields
  <2> QED
    BY <1>2, <2>2, <2>3 DEF ReadVersion, Fail
<1>3. CASE ReadHeader
  <2>1. rd.pc = "header" /\ file' = file
    BY <1>3 DEF ReadHeader
  <2>2. CASE Goto("failed") /\ UNCHANGED spoolVars
    BY <2>1, <2>2, GotoFacts DEF Idle
  <2>3. CASE \E a, h : /\ rd' = [rd EXCEPT !.at = a, !.record.header = h]
                       /\ UNCHANGED spoolVars
    BY <2>1, <2>3 DEF Idle, Fields
  <2>4. CASE \E a, l, c : /\ c \in Contents /\ New(c)
                          /\ rd' = [rd EXCEPT !.pc = "content", !.at = a, !.left = l,
                                              !.record.content = c]
    BY <2>1, <2>4 DEF Made, Fields
  <2>5. CASE Found = NotFound \/ (Line = <<>> /\ rd.record.header["length"].sym # "length")
    BY <1>3, <2>2, <2>5 DEF ReadHeader, Fail
  <2>6. CASE Found # NotFound /\ Line # <<>>
    <3>1. /\ rd' = [rd EXCEPT !.at = Found.next, !.record.header = FieldSet(rd.record.header, Line)]
          /\ UNCHANGED spoolVars
      BY <1>3, <2>6 DEF ReadHeader
    <3> QED
      BY <2>3, <3>1
  <2>7. CASE Found # NotFound /\ Line = <<>> /\ rd.record.header["length"].sym = "length"
    <3> DEFINE unused == {c \in Contents : spool[c].stage = "unused"}
               free == IF unused # {} THEN unused ELSE {c \in Contents : spool[c].stage = "closed"}
               c0 == CHOOSE c \in free : \A d \in free : c <= d
    <3>1. /\ New(c0)
          /\ rd' = [rd EXCEPT !.pc = "content", !.at = Found.next,
                              !.left = rd.record.header["length"].num, !.record.content = c0]
      BY <1>3, <2>7 DEF ReadHeader
    <3>2. c0 \in Contents
      BY <2>1, FreeContent
    <3> HIDE DEF c0
    <3> QED
      BY <2>4, <3>1, <3>2
  <2> QED
    BY <2>5, <2>6, <2>7
<1>4. CASE ReadContent
  <2>1. rd.pc = "content" /\ file' = file
    BY <1>4 DEF ReadContent
  <2>2. CASE (Goto("boundary") \/ Goto("close")) /\ UNCHANGED spoolVars
    BY <2>1, <2>2, GotoFacts DEF Kept
  <2>3. CASE \E chunk, a, l : /\ Write(rd.record.content, chunk)
                              /\ rd' = [rd EXCEPT !.at = a, !.left = l]
    BY <2>1, <2>3 DEF Wrote, Fields, SameContent
  <2>4. CASE file.diskFails /\ WriteFails(rd.record.content) /\ Goto("close")
    BY <2>1, <2>4, GotoFacts DEF Failed
  <2> QED
    BY <1>4, <2>2, <2>3, <2>4 DEF ReadContent, FailClosing
<1>5. CASE ReadBoundary
  <2>1. rd.pc = "boundary" /\ file' = file /\ UNCHANGED spoolVars
    BY <1>5 DEF ReadBoundary
  <2>2. CASE Goto("close")
    BY <2>1, <2>2, GotoFacts DEF Kept
  <2>3. CASE \E a, l, p : /\ p \in {"drain", "boundary"}
                          /\ rd' = [rd EXCEPT !.at = a, !.lines = l, !.pc = p]
    BY <2>1, <2>3 DEF Kept, Fields, SameContent
  <2> QED
    BY <1>5, <2>2, <2>3 DEF ReadBoundary, FailClosing
<1>6. CASE ReadRest
  <2>1. rd.pc = "drain" /\ file' = file /\ UNCHANGED spoolVars
    BY <1>6 DEF ReadRest
  <2>2. CASE Goto("close")
    BY <2>1, <2>2, GotoFacts DEF Kept
  <2>3. CASE rd' = [rd EXCEPT !.pc = "got", !.record.offset = -1, !.record.size = -1]
    BY <2>1, <2>3 DEF Kept, Fields, SameContent
  <2>4. CASE \E n, s : rd' = [rd EXCEPT !.pc = "got", !.tell = n, !.record.size = s]
    BY <2>1, <2>4 DEF Kept, Fields, SameContent
  <2> QED
    BY <1>6, <2>2, <2>3, <2>4 DEF ReadRest, FailClosing
<1>7. CASE ReadClose
  <2>1. /\ rd.pc = "close" /\ file' = file /\ Goto("failed")
        /\ Close(rd.record.content) \/ (file.diskFails /\ RemoveFails(rd.record.content))
    BY <1>7 DEF ReadClose, Fail, CloseOnError
  <2> QED
    BY <2>1, GotoFacts DEF Closed
<1> QED
  BY <1>1, <1>2, <1>3, <1>4, <1>5, <1>6, <1>7 DEF ReadRecord

(***************************************************************************)
(* Each such step leaves the contents as the invariant says.               *)
(***************************************************************************)

LEMMA KeptHeld ==
  ASSUME BuffersAreHeld, FilesAreHeld, UNCHANGED <<file, spoolVars>>, Live' = Live,
         Live # {} => (rd'.pc = "close" \/ rd.pc # "close")
  PROVE  BuffersAreHeld' /\ FilesAreHeld'
<1>1. \A c \in Contents : HasStore(c)' = HasStore(c)
  BY DEF HasStore, spoolVars
<1>2. BuffersAreHeld'
  BY <1>1 DEF BuffersAreHeld, spoolVars
<1>3. FilesAreHeld'
  BY DEF FilesAreHeld, spoolVars
<1> QED
  BY <1>2, <1>3

\* While nothing is in hand the whole pool is there; the content in hand has at
\* most one buffer of it.
LEMMA HandEmpty ==
  ASSUME BuffersAreHeld, Live = {}
  PROVE  /\ \A b \in Buffers : pool[b] = 1
         /\ \A c \in Contents : spool[c].stage \in {"unused", "closed"} /\ spool[c].buf = NoBuffer
  BY DEF BuffersAreHeld

LEMMA InHand ==
  ASSUME BuffersAreHeld, NEW c, Live = {c}
  PROVE  /\ c \in Contents
         /\ \A d \in Contents : d # c => spool[d].stage \in {"unused", "closed"} /\ spool[d].buf = NoBuffer
         /\ spool[c].stage \in {"writing", "reading"} /\ (spool[c].onDisk => spool[c].buf = NoBuffer)
         /\ rd.pc # "close" => HasStore(c)
         /\ \A b \in Buffers : pool[b] = IF spool[c].buf = b THEN 0 ELSE 1
  BY DEF BuffersAreHeld

LEMMA ToHandEmpty ==
  ASSUME Live' = {}, \A b \in Buffers : pool'[b] = 1,
         \A c \in Contents : spool'[c].stage \in {"unused", "closed"} /\ spool'[c].buf = NoBuffer
  PROVE  BuffersAreHeld'
  BY DEF BuffersAreHeld

LEMMA ToInHand ==
  ASSUME NEW c \in Contents, Live' = {c},
         \A d \in Contents : d # c => spool'[d].stage \in {"unused", "closed"} /\ spool'[d].buf = NoBuffer,
         spool'[c].stage \in {"writing", "reading"}, spool'[c].onDisk => spool'[c].buf = NoBuffer,
         rd'.pc # "close" => spool'[c].onDisk \/ spool'[c].buf # NoBuffer,
         \A b \in Buffers : pool'[b] = IF spool'[c].buf = b THEN 0 ELSE 1
  PROVE  BuffersAreHeld'
  BY DEF BuffersAreHeld, HasStore

LEMMA MadeHeld ==
  ASSUME SpoolTyped, BuffersAreHeld, FilesAreHeld, file' = file, Made
  PROVE  SpoolTyped' /\ BuffersAreHeld' /\ FilesAreHeld'
<1> DEFINE c == rd'.record.content
<1>1. Live = {} /\ Live' = {c} /\ c \in Contents /\ New(c)
  BY DEF Made, Live, InContent
<1> HIDE DEF c
<1>2. /\ \A b \in Buffers : pool[b] = 1
      /\ \A d \in Contents : spool[d].stage \in {"unused", "closed"} /\ spool[d].buf = NoBuffer
  BY <1>1, HandEmpty
<1>3. /\ SpoolTyped' /\ temps' = temps
      /\ \A d \in Contents : d # c => spool'[d] = spool[d]
      /\ spool'[c].stage = "writing" /\ spool'[c].buf \in Buffers /\ ~spool'[c].onDisk
      /\ \A b \in Buffers : pool'[b] = IF spool'[c].buf = b THEN 0 ELSE 1
  BY <1>1, <1>2, NewFacts
<1>4. BuffersAreHeld'
  BY <1>1, <1>2, <1>3, SpoolAssumption, ToInHand
<1>5. FilesAreHeld'
  BY <1>1, <1>3 DEF FilesAreHeld
<1> QED
  BY <1>3, <1>4, <1>5

\* Writing to the content in hand, and reading in it.
LEMMA UsedHeld ==
  ASSUME SpoolTyped, BuffersAreHeld, FilesAreHeld, file' = file,
         NEW c, Live = {c}, Live' = {c}, rd.pc # "close",
         (\E chunk : Write(c, chunk)) \/ (\E n \in Nat : ReadTo(c, n))
  PROVE  SpoolTyped' /\ BuffersAreHeld' /\ FilesAreHeld'
<1>1. /\ c \in Contents /\ HasStore(c)
      /\ \A d \in Contents : d # c => spool[d].stage \in {"unused", "closed"} /\ spool[d].buf = NoBuffer
      /\ (spool[c].onDisk => spool[c].buf = NoBuffer)
      /\ \A b \in Buffers : pool[b] = IF spool[c].buf = b THEN 0 ELSE 1
  BY InHand
<1>2. /\ SpoolTyped'
      /\ \A d \in Contents : d # c => spool'[d] = spool[d]
      /\ spool'[c].stage \in {"writing", "reading"}
      /\ \/ SameHold(c)
         \/ /\ ~spool[c].onDisk /\ spool'[c].onDisk /\ spool'[c].buf = NoBuffer
            /\ Returned(c) /\ temps' = [temps EXCEPT ![c] = @ + 1]
  BY <1>1, WriteFacts, ReadToFacts
<1>3. \A d \in Contents : temps[d] \in Nat
  BY SpoolFields
<1>4. CASE SameHold(c)
  <2>1. BuffersAreHeld'
    BY <1>1, <1>2, <1>4, ToInHand DEF SameHold, HasStore
  <2>2. FilesAreHeld'
    BY <1>2, <1>4 DEF SameHold, FilesAreHeld
  <2> QED
    BY <1>2, <2>1, <2>2
<1>5. CASE /\ ~spool[c].onDisk /\ spool'[c].onDisk /\ spool'[c].buf = NoBuffer
           /\ Returned(c) /\ temps' = [temps EXCEPT ![c] = @ + 1]
  <2>1. \A b \in Buffers : pool'[b] = 1
    BY <1>1, <1>5 DEF Returned
  <2>2. BuffersAreHeld'
    BY <1>1, <1>2, <1>5, <2>1, SpoolAssumption, ToInHand
  <2>3. temps \in [Contents -> Nat]
    BY DEF SpoolTyped, SpoolTypeOK
  <2>4. /\ temps'[c] = temps[c] + 1
        /\ \A d \in Contents : d # c => temps'[d] = temps[d]
    BY <1>1, <1>5, <2>3
  <2>5. FilesAreHeld'
    BY <1>1, <1>2, <1>3, <1>5, <2>4 DEF FilesAreHeld
  <2> QED
    BY <1>2, <2>2, <2>5
<1> QED
  BY <1>2, <1>4, <1>5

LEMMA FailedHeld ==
  ASSUME SpoolTyped, BuffersAreHeld, FilesAreHeld, file' = file, Failed
  PROVE  SpoolTyped' /\ BuffersAreHeld' /\ FilesAreHeld'
<1> DEFINE c == rd.record.content
<1>1. Live = {c} /\ Live' = {c} /\ rd'.pc = "close" /\ rd.pc # "close" /\ file.diskFails /\ WriteFails(c)
  BY DEF Failed, SameContent, Live, InContent
<1> HIDE DEF c
<1>2. /\ c \in Contents /\ HasStore(c)
      /\ \A d \in Contents : d # c => spool[d].stage \in {"unused", "closed"} /\ spool[d].buf = NoBuffer
      /\ (spool[c].onDisk => spool[c].buf = NoBuffer)
      /\ \A b \in Buffers : pool[b] = IF spool[c].buf = b THEN 0 ELSE 1
  BY <1>1, InHand
<1>3. /\ SpoolTyped'
      /\ \A d \in Contents : d # c => spool'[d] = spool[d]
      /\ spool'[c].stage = "writing" /\ spool'[c].onDisk = spool[c].onDisk
      /\ \A d \in Contents : temps'[d] >= temps[d]
      /\ \/ spool'[c].buf = spool[c].buf /\ pool' = pool
         \/ ~spool[c].onDisk /\ spool'[c].buf = NoBuffer /\ Returned(c)
  BY <1>1, <1>2, WriteFailsFacts
<1>4. \A b \in Buffers : pool'[b] = IF spool'[c].buf = b THEN 0 ELSE 1
  <2>1. CASE spool'[c].buf = spool[c].buf /\ pool' = pool
    BY <1>2, <2>1
  <2>2. CASE ~spool[c].onDisk /\ spool'[c].buf = NoBuffer /\ Returned(c)
    BY <1>2, <2>2, SpoolAssumption DEF Returned
  <2> QED
    BY <1>3, <2>1, <2>2
<1>5. BuffersAreHeld'
  BY <1>1, <1>2, <1>3, <1>4, ToInHand
<1>6. /\ \A d \in Contents : temps[d] \in Nat /\ temps'[d] \in Nat
      /\ \A d \in Contents : spool'[d].onDisk = spool[d].onDisk
  BY <1>3, SpoolFields DEF SpoolTyped, SpoolTypeOK
<1>7. FilesAreHeld'
  BY <1>1, <1>3, <1>6 DEF FilesAreHeld
<1> QED
  BY <1>3, <1>5, <1>7

LEMMA ClosedHeld ==
  ASSUME SpoolTyped, BuffersAreHeld, FilesAreHeld, file' = file, Closed
  PROVE  SpoolTyped' /\ BuffersAreHeld' /\ FilesAreHeld'
<1> DEFINE c == rd.record.content
<1>1. /\ Live = {c} /\ Live' = {}
      /\ Close(c) \/ (file.diskFails /\ RemoveFails(c))
  BY DEF Closed, Live
<1> HIDE DEF c
<1>2. /\ c \in Contents
      /\ \A d \in Contents : d # c => spool[d].stage \in {"unused", "closed"} /\ spool[d].buf = NoBuffer
      /\ (spool[c].onDisk => spool[c].buf = NoBuffer)
      /\ \A b \in Buffers : pool[b] = IF spool[c].buf = b THEN 0 ELSE 1
  BY <1>1, InHand
<1>3. CASE Close(c)
  <2>1. spool[c].onDisk => temps[c] > 0
    BY <1>2 DEF FilesAreHeld
  <2>2. /\ SpoolTyped'
        /\ \A d \in Contents : d # c => spool'[d] = spool[d] /\ temps'[d] = temps[d]
        /\ spool'[c].stage = "closed" /\ spool'[c].buf = NoBuffer /\ ~spool'[c].onDisk
        /\ Returned(c) \/ (spool[c].buf = NoBuffer /\ pool' = pool)
        /\ temps'[c] = IF spool[c].onDisk THEN temps[c] - 1 ELSE temps[c]
    BY <1>2, <1>3, <2>1, CloseFacts
  <2>3. \A b \in Buffers : pool'[b] = 1
    BY <1>2, <2>2, SpoolAssumption DEF Returned
  <2>4. BuffersAreHeld'
    BY <1>1, <1>2, <2>2, <2>3, ToHandEmpty
  <2>5. FilesAreHeld'
    BY <1>1, <1>2, <2>2 DEF FilesAreHeld
  <2> QED
    BY <2>2, <2>4, <2>5
<1>4. CASE file.diskFails /\ RemoveFails(c)
  <2>1. /\ SpoolTyped'
        /\ \A d \in Contents : d # c => spool'[d] = spool[d]
        /\ spool'[c].stage = "closed" /\ spool[c].onDisk /\ SameHold(c)
    BY <1>2, <1>4, RemoveFailsFacts
  <2>2. \A b \in Buffers : pool'[b] = 1
    BY <1>2, <2>1, SpoolAssumption DEF SameHold
  <2>3. BuffersAreHeld'
    BY <1>1, <1>2, <2>1, <2>2, ToHandEmpty DEF SameHold
  <2>4. FilesAreHeld'
    BY <1>4, <2>1 DEF FilesAreHeld, SameHold
  <2> QED
    BY <2>1, <2>3, <2>4
<1> QED
  BY <1>1, <1>3, <1>4

LEMMA ReaderHeld ==
  ASSUME SpoolTyped, Fields, BuffersAreHeld, FilesAreHeld, ReadRecord
  PROVE  SpoolTyped' /\ Fields' /\ BuffersAreHeld' /\ FilesAreHeld'
<1>1. /\ Fields' /\ file' = file
      /\ Idle \/ Kept \/ Made \/ Wrote \/ Failed \/ Closed
  BY ReaderSteps
<1>2. CASE Idle
  <2>1. Live = {} /\ Live' = {} /\ UNCHANGED <<file, spoolVars>>
    BY <1>1, <1>2 DEF Idle, Live
  <2>2. SpoolTyped'
    BY <2>1 DEF SpoolTyped, SpoolTypeOK, spoolVars
  <2> QED
    BY <1>1, <2>1, <2>2, KeptHeld
<1>3. CASE Kept
  <2>1. Live' = Live /\ rd.pc # "close" /\ UNCHANGED <<file, spoolVars>>
    BY <1>1, <1>3 DEF Kept, SameContent, Live
  <2>2. SpoolTyped'
    BY <2>1 DEF SpoolTyped, SpoolTypeOK, spoolVars
  <2> QED
    BY <1>1, <2>1, <2>2, KeptHeld
<1>4. CASE Made
  BY <1>1, <1>4, MadeHeld
<1>5. CASE Wrote
  <2> DEFINE c == rd.record.content
  <2>1. Live = {c} /\ Live' = {c} /\ rd.pc # "close" /\ \E chunk : Write(c, chunk)
    BY <1>5 DEF Wrote, SameContent, Live, InContent
  <2> HIDE DEF c
  <2> QED
    BY <1>1, <2>1, UsedHeld
<1>6. CASE Failed
  BY <1>1, <1>6, FailedHeld
<1>7. CASE Closed
  BY <1>1, <1>7, ClosedHeld
<1> QED
  BY <1>1, <1>2, <1>3, <1>4, <1>5, <1>6, <1>7

(***************************************************************************)
(* ValidateWARCFile.                                                       *)
(***************************************************************************)

IInv == SpoolTyped /\ Fields /\ HeldInv

LEMMA InitHeld ==
  ASSUME Init
  PROVE  IInv
<1>1. rd = NewReader /\ rd.pc = "idle" /\ pc = "open"
  BY DEF Init, NewReader
<1>2. SpoolTypeOK({})
  <2>1. spool \in [Contents -> Holding({})]
    BY UnusedIsHolding DEF Init, SpoolInit
  <2>2. <<>> \in Seq({})
    OBVIOUS
  <2> QED
    BY <2>1, <2>2 DEF Init, SpoolInit, SpoolTypeOK, Holding
<1>3. Live = {}
  BY <1>1 DEF Live, InContent
<1>4. Fields
  BY <1>1 DEF Fields, NewReader, NoRecord
<1>5. \A c \in Contents : /\ spool[c].stage = "unused" /\ spool[c].buf = NoBuffer
                          /\ ~spool[c].onDisk /\ temps[c] = 0
  BY DEF Init, SpoolInit, Unused
<1>6. \A b \in Buffers : pool[b] = 1
  BY DEF Init, SpoolInit
<1>7. BuffersAreHeld
  BY <1>3, <1>5, <1>6 DEF BuffersAreHeld
<1>8. FilesAreHeld
  BY <1>5 DEF FilesAreHeld
<1> QED
  BY <1>1, <1>2, <1>4, <1>7, <1>8 DEF IInv, HeldInv, Agree, SpoolTyped

LEMMA UnchangedHeld ==
  ASSUME IInv, UNCHANGED readerVars
  PROVE  SpoolTyped' /\ Fields' /\ BuffersAreHeld' /\ FilesAreHeld'
<1>1. UNCHANGED <<file, spoolVars>> /\ rd' = rd
  BY DEF readerVars
<1>2. Live' = Live
  BY <1>1 DEF Live
<1>3. SpoolTyped' /\ Fields'
  BY <1>1 DEF IInv, SpoolTyped, SpoolTypeOK, spoolVars, Fields
<1> QED
  BY <1>1, <1>2, <1>3, KeptHeld DEF IInv, HeldInv

\* The digests are taken by reading the content from its start to its end and
\* going back.
LEMMA DigestHeld ==
  ASSUME IInv, BlockDigest \/ PayloadDigest
  PROVE  IInv'
<1>1. /\ pc \in {"block", "payload"} /\ pc' \in {"payload", "version"}
      /\ UNCHANGED <<file, rd>>
      /\ UNCHANGED spoolVars \/ ReadTo(Content, 0)
  BY DEF BlockDigest, PayloadDigest, Judge
<1>2. rd.pc = "got"
  BY <1>1 DEF IInv, HeldInv, Agree
<1>3. CASE UNCHANGED spoolVars
  <2>1. UNCHANGED readerVars
    BY <1>1, <1>3 DEF readerVars
  <2> QED
    BY <1>1, <1>2, <2>1, UnchangedHeld DEF IInv, HeldInv, Agree
<1>4. CASE ReadTo(Content, 0)
  <2> DEFINE c == rd.record.content
  <2>1. Live = {c} /\ Live' = {c} /\ (\E n \in Nat : ReadTo(c, n)) /\ Fields'
    BY <1>1, <1>2, <1>4 DEF Live, InContent, Content, Fields, IInv
  <2> HIDE DEF c
  <2>2. SpoolTyped' /\ BuffersAreHeld' /\ FilesAreHeld'
    BY <1>1, <1>2, <2>1, UsedHeld DEF IInv, HeldInv
  <2> QED
    BY <1>1, <1>2, <2>1, <2>2 DEF IInv, HeldInv, Agree
<1> QED
  BY <1>1, <1>3, <1>4

LEMMA NextHeld ==
  ASSUME IInv, [Next]_vars
  PROVE  IInv'
<1>1. CASE OpenWARCFile \/ Got \/ End
  <2>1. UNCHANGED readerVars /\ Agree'
    BY <1>1 DEF OpenWARCFile, Got, End, readerVars, Agree
  <2> QED
    BY <2>1, UnchangedHeld DEF IInv, HeldInv
<1>2. CASE Read
  <2>1. pc = "read" /\ pc' = pc /\ ReadRecord
    BY <1>2 DEF Read
  <2>2. SpoolTyped' /\ Fields' /\ BuffersAreHeld' /\ FilesAreHeld'
    BY <2>1, ReaderHeld DEF IInv, HeldInv
  <2> QED
    BY <2>1, <2>2 DEF IInv, HeldInv, Agree
<1>3. CASE BlockDigest \/ PayloadDigest
  BY <1>3, DigestHeld
<1>4. CASE verifyWARCVersion
  <2>1. /\ UNCHANGED readerVars /\ pc = "version" /\ pc' = "close"
    BY <1>4 DEF verifyWARCVersion, Judge, readerVars
  <2>2. Agree'
    BY <2>1 DEF Agree, readerVars, IInv, HeldInv
  <2> QED
    BY <2>1, <2>2, UnchangedHeld DEF IInv, HeldInv
<1>5. CASE CloseContent
  <2>1. /\ pc = "close" /\ pc' = "read" /\ rd' = [rd EXCEPT !.pc = "idle"] /\ file' = file
        /\ Close(rd.record.content) \/ (file.diskFails /\ RemoveFails(rd.record.content))
    BY <1>5 DEF CloseContent, Content
  <2>2. Fields' /\ Closed
    BY <2>1 DEF IInv, HeldInv, Agree, Fields, Closed, InContent
  <2>3. SpoolTyped' /\ BuffersAreHeld' /\ FilesAreHeld'
    BY <2>1, <2>2, ClosedHeld DEF IInv, HeldInv
  <2> QED
    BY <2>1, <2>2, <2>3 DEF IInv, HeldInv, Agree
<1>6. CASE Terminated \/ UNCHANGED vars
  <2>1. UNCHANGED readerVars /\ pc' = pc
    BY <1>6 DEF Terminated, vars
  <2>2. Agree'
    BY <2>1 DEF Agree, readerVars, IInv, HeldInv
  <2> QED
    BY <2>1, <2>2, UnchangedHeld DEF IInv, HeldInv
<1> QED
  BY <1>1, <1>2, <1>3, <1>4, <1>5, <1>6 DEF Next

(* For every file, whatever is in it and however the disk fails: when
   ValidateWARCFile is done with it, every buffer that its records had is back in
   the pool, once, and unless the disk failed no temporary file is left. *)
THEOREM NothingIsLeftHolds == Spec => []NothingIsLeft
<1>1. Init => IInv
  BY InitHeld
<1>2. IInv /\ [Next]_vars => IInv'
  BY NextHeld
<1>3. IInv => NothingIsLeft
  <2> SUFFICES ASSUME IInv, pc = "done"
               PROVE  /\ pool = [b \in Buffers |-> 1]
                      /\ ~file.diskFails => \A c \in Contents : temps[c] = 0
    BY DEF NothingIsLeft
  <2>1. Live = {}
    BY DEF IInv, HeldInv, Agree, Live, InContent
  <2>2. \A b \in Buffers : pool[b] = 1
    BY <2>1, HandEmpty DEF IInv, HeldInv
  <2>3. pool \in [Buffers -> Nat]
    BY DEF IInv, SpoolTyped, SpoolTypeOK
  <2>4. pool = [b \in Buffers |-> 1]
    BY <2>2, <2>3
  <2>5. ~file.diskFails => \A c \in Contents : temps[c] = 0
    BY <2>1 DEF IInv, HeldInv, FilesAreHeld
  <2> QED
    BY <2>4, <2>5
<1> QED
  BY <1>1, <1>2, <1>3, PTL DEF Spec

(***************************************************************************)
(* Sums over the natural numbers: Start is what its definition says.       *)
(***************************************************************************)

LEMMA Induction ==
  ASSUME NEW S \in SUBSET Nat, 0 \in S, \A n \in S : n + 1 \in S
  PROVE  S = Nat
<1> SUFFICES ASSUME Nat \ S # {} PROVE FALSE
  OBVIOUS
<1> DEFINE m == CHOOSE c \in Nat \ S : \A d \in Nat \ S : c <= d
<1>1. m \in Nat \ S
  BY LeastNumber
<1>2. \A d \in Nat \ S : m <= d
  BY LeastNumber
<1> HIDE DEF m
<1>3. m - 1 \in Nat
  BY <1>1
<1>4. m - 1 \in S
  BY <1>1, <1>2, <1>3
<1>5. (m - 1) + 1 \in S
  BY <1>4
<1> QED
  BY <1>1, <1>5

\* The sums of the values of s before each place up to n, in terms of g.
Sums(s, g, n) == [k \in 0..n |-> IF k <= 1 THEN 0 ELSE g[k - 1] + s[k - 1]]

LEMMA SumsAgree ==
  ASSUME NEW s, NEW n \in Nat, NEW m \in Nat, NEW g, NEW h,
         g = Sums(s, g, n), h = Sums(s, h, m)
  PROVE  \A k \in Nat : k <= n /\ k <= m => g[k] = h[k]
<1> DEFINE S == {k \in Nat : k <= n /\ k <= m => g[k] = h[k]}
<1>1. \A k \in 0..n : g[k] = IF k <= 1 THEN 0 ELSE g[k - 1] + s[k - 1]
  BY DEF Sums
<1>2. \A k \in 0..m : h[k] = IF k <= 1 THEN 0 ELSE h[k - 1] + s[k - 1]
  BY DEF Sums
<1>3. 0 \in S
  BY <1>1, <1>2
<1>4. ASSUME NEW k \in S PROVE k + 1 \in S
  <2>1. CASE k + 1 <= n /\ k + 1 <= m /\ k + 1 > 1
    <3>1. k + 1 \in 0..n /\ k + 1 \in 0..m /\ (k + 1) - 1 = k /\ ~(k + 1 <= 1)
      BY <2>1
    <3>2. g[k + 1] = g[k] + s[k] /\ h[k + 1] = h[k] + s[k]
      BY <1>1, <1>2, <3>1
    <3>3. g[k] = h[k]
      BY <1>4, <2>1
    <3> QED
      BY <3>2, <3>3
  <2>2. CASE k + 1 <= n /\ k + 1 <= m /\ k + 1 <= 1
    <3>1. k + 1 \in 0..n /\ k + 1 \in 0..m
      BY <2>2
    <3> QED
      BY <1>1, <1>2, <2>2, <3>1
  <2> QED
    BY <2>1, <2>2
<1> HIDE DEF S
<1>5. S = Nat
  BY <1>3, <1>4, Induction DEF S
<1> QED
  BY <1>5 DEF S

LEMMA SumsExist ==
  ASSUME NEW s, NEW n \in Nat
  PROVE  \E g : g = Sums(s, g, n)
<1> DEFINE S == {m \in Nat : \E g : g = Sums(s, g, m)}
<1>1. 0 \in S
  <2> DEFINE g == [k \in 0..0 |-> 0]
  <2>1. g = Sums(s, g, 0)
    BY DEF Sums
  <2> QED
    BY <2>1
<1>2. ASSUME NEW m \in S PROVE m + 1 \in S
  <2>1. PICK g : g = Sums(s, g, m)
    OBVIOUS
  <2> DEFINE h == [k \in 0..(m + 1) |-> IF k <= 1 THEN 0 ELSE g[k - 1] + s[k - 1]]
  <2>2. \A k \in 0..m : g[k] = IF k <= 1 THEN 0 ELSE g[k - 1] + s[k - 1]
    BY <2>1 DEF Sums
  <2>3. \A k \in 0..m : h[k] = g[k]
    BY <2>2
  <2>4. ASSUME NEW k \in 0..(m + 1)
        PROVE  h[k] = IF k <= 1 THEN 0 ELSE h[k - 1] + s[k - 1]
    <3>1. k > 1 => k - 1 \in 0..m
      OBVIOUS
    <3>2. k > 1 => h[k - 1] = g[k - 1]
      BY <2>3, <3>1
    <3>3. h[k] = IF k <= 1 THEN 0 ELSE g[k - 1] + s[k - 1]
      OBVIOUS
    <3> HIDE DEF h
    <3> QED
      BY <3>2, <3>3
  <2>5. h = [k \in 0..(m + 1) |-> h[k]]
    OBVIOUS
  <2> HIDE DEF h
  <2>7. h = [k \in 0..(m + 1) |-> IF k <= 1 THEN 0 ELSE h[k - 1] + s[k - 1]]
    BY <2>4, <2>5
  <2>6. h = Sums(s, h, m + 1)
    BY <2>7 DEF Sums
  <2> QED
    BY <2>6
<1> HIDE DEF S
<1>3. S = Nat
  BY <1>1, <1>2, Induction DEF S
<1> QED
  BY <1>3 DEF S

LEMMA SumsOverall ==
  ASSUME NEW s
  PROVE  \E g : g = [k \in Nat |-> IF k <= 1 THEN 0 ELSE g[k - 1] + s[k - 1]]
<1> DEFINE G(n) == CHOOSE g : g = Sums(s, g, n)
           F == [n \in Nat |-> G(n)[n]]
<1>1. \A n \in Nat : G(n) = Sums(s, G(n), n)
  BY SumsExist
<1> HIDE DEF G
<1>2. ASSUME NEW n \in Nat
      PROVE  F[n] = IF n <= 1 THEN 0 ELSE F[n - 1] + s[n - 1]
  <2>1. G(n)[n] = IF n <= 1 THEN 0 ELSE G(n)[n - 1] + s[n - 1]
    <3>1. \A k \in 0..n : G(n)[k] = IF k <= 1 THEN 0 ELSE G(n)[k - 1] + s[k - 1]
      BY <1>1 DEF Sums
    <3> QED
      BY <3>1
  <2>2. CASE n <= 1
    BY <2>1, <2>2
  <2>3. CASE n > 1
    <3>1. n - 1 \in Nat /\ n - 1 <= n
      BY <2>3
    <3>2. G(n)[n - 1] = G(n - 1)[n - 1]
      BY <1>1, <3>1, SumsAgree
    <3> QED
      BY <2>1, <2>3, <3>1, <3>2
  <2> QED
    BY <2>2, <2>3
<1>3. F = [n \in Nat |-> F[n]]
  OBVIOUS
<1> HIDE DEF F
<1>4. F = [k \in Nat |-> IF k <= 1 THEN 0 ELSE F[k - 1] + s[k - 1]]
  BY <1>2, <1>3
<1> QED
  BY <1>4

LEMMA StartIs ==
  /\ Start[1] = 0
  /\ \A k \in Nat : k > 0 => Start[k + 1] = Start[k] + Size(k)
<1> DEFINE s == [k \in Nat |-> Size(k)]
<1>1. \E g : g = [k \in Nat |-> IF k <= 1 THEN 0 ELSE g[k - 1] + s[k - 1]]
  BY SumsOverall
<1>2. \E g : g = [k \in Nat |-> IF k <= 1 THEN 0 ELSE g[k - 1] + Size(k - 1)]
  <2>1. PICK g : g = [k \in Nat |-> IF k <= 1 THEN 0 ELSE g[k - 1] + s[k - 1]]
    BY <1>1
  <2>2. ASSUME NEW k \in Nat
        PROVE  (IF k <= 1 THEN 0 ELSE g[k - 1] + s[k - 1]) = (IF k <= 1 THEN 0 ELSE g[k - 1] + Size(k - 1))
    <3>1. CASE k <= 1
      BY <3>1
    <3>2. CASE k > 1
      <4>1. k - 1 \in Nat
        BY <3>2
      <4>2. s[k - 1] = Size(k - 1)
        BY <4>1
      <4> QED
        BY <4>2
    <3> QED
      BY <3>1, <3>2
  <2> QED
    BY <2>1, <2>2
<1>3. Start = [k \in Nat |-> IF k <= 1 THEN 0 ELSE Start[k - 1] + Size(k - 1)]
  BY <1>2 DEF Start
<1>4. \A k \in Nat : Start[k] = IF k <= 1 THEN 0 ELSE Start[k - 1] + Size(k - 1)
  BY <1>3
<1>5. Start[1] = 0
  BY <1>4
<1>6. ASSUME NEW k \in Nat, k > 0
      PROVE  Start[k + 1] = Start[k] + Size(k)
  <2>1. k + 1 \in Nat /\ ~(k + 1 <= 1) /\ (k + 1) - 1 = k
    BY <1>6
  <2> QED
    BY <1>4, <2>1
<1> QED
  BY <1>5, <1>6

(***************************************************************************)
(* Where the reader is in the file.                                        *)
(***************************************************************************)

\* A step of the reader that leaves its member, its count of bytes and what it
\* has of the place of the record.
SamePlace == /\ rd'.member = rd.member /\ rd'.tell = rd.tell
             /\ rd'.record.offset = rd.record.offset /\ rd'.record.size = rd.record.size

Begun == /\ rd.pc = "idle" /\ rd'.pc = "version"
         /\ IsGzip => rd'.member = rd.member + 1
         /\ rd'.member \in Nat /\ rd'.tell = rd.tell /\ rd'.record.offset = rd.tell

Parsed == rd.pc \in Parsing /\ rd'.pc \in Parsing /\ SamePlace

Returns == /\ rd.pc = "drain" /\ rd'.pc = "got" /\ rd'.member = rd.member
           /\ IF IsGzip
              THEN /\ rd'.tell = rd.tell + Size(rd.member)
                   /\ rd'.record.offset = rd.record.offset /\ rd'.record.size = Size(rd.member)
              ELSE rd'.record.offset = -1 /\ rd'.record.size = -1

GivenUp == rd'.pc \in {"eof", "failed", "close"} /\ rd'.member = rd.member

LEMMA GotoPlace ==
  ASSUME Fields, NEW p, Goto(p)
  PROVE  rd'.pc = p /\ SamePlace
  BY DEF Fields, Goto, SamePlace

LEMMA ReaderPlaces ==
  ASSUME Fields, rd.member \in Nat, ReadRecord
  PROVE  Begun \/ Parsed \/ Returns \/ GivenUp
<1>1. ASSUME Goto("eof") \/ Goto("failed") \/ Goto("close")
      PROVE  GivenUp
  BY <1>1, GotoPlace DEF GivenUp, SamePlace
<1>2. ASSUME ReadStart, ~GivenUp
      PROVE  Begun
  <2>1. PICK m, a : /\ m = (IF IsGzip THEN rd.member + 1 ELSE 1) /\ rd.pc = "idle"
                    /\ rd' = [rd EXCEPT !.pc = "version", !.member = m, !.lines = 0, !.at = a,
                                        !.record = [NoRecord EXCEPT !.offset = rd.tell]]
    BY <1>1, <1>2 DEF ReadStart, Fail
  <2>2. m \in Nat /\ (IsGzip => m = rd.member + 1)
    BY <2>1
  <2> QED
    BY <2>1, <2>2 DEF Begun, Fields, NoRecord
<1>3. ASSUME ReadVersion, ~GivenUp
      PROVE  Parsed
  <2>1. /\ rd.pc = "version"
        /\ rd' = [rd EXCEPT !.pc = "header", !.at = Found.next, !.record.version = Line]
    BY <1>1, <1>3 DEF ReadVersion, Fail
  <2> QED
    BY <2>1 DEF Parsed, SamePlace, Parsing, Fields
<1>4. ASSUME ReadHeader, ~GivenUp
      PROVE  Parsed
  <2>1. rd.pc = "header" /\ Found # NotFound /\ ~Goto("failed")
    BY <1>1, <1>4 DEF ReadHeader, Fail
  <2>2. CASE Line # <<>>
    <3>1. rd' = [rd EXCEPT !.at = Found.next, !.record.header = FieldSet(rd.record.header, Line)]
      BY <1>4, <2>1, <2>2 DEF ReadHeader
    <3> QED
      BY <2>1, <3>1 DEF Parsed, SamePlace, Parsing, Fields
  <2>3. CASE Line = <<>>
    <3>1. \E c : rd' = [rd EXCEPT !.pc = "content", !.at = Found.next,
                                 !.left = rd.record.header["length"].num, !.record.content = c]
      BY <1>4, <2>1, <2>3 DEF ReadHeader, Fail
    <3>2. rd'.pc = "content" /\ rd'.member = rd.member /\ rd'.tell = rd.tell
      BY <3>1 DEF Fields
    <3>3. \E c : rd'.record = [rd.record EXCEPT !.content = c]
      BY <3>1 DEF Fields
    <3>4. rd'.record.offset = rd.record.offset /\ rd'.record.size = rd.record.size
      BY <3>3 DEF Fields
    <3> QED
      BY <2>1, <3>2, <3>4 DEF Parsed, SamePlace, Parsing
  <2> QED
    BY <2>2, <2>3
<1>5. ASSUME ReadContent, ~GivenUp
      PROVE  Parsed
  <2>1. rd.pc = "content" /\ (Goto("boundary") \/ \E a, l : rd' = [rd EXCEPT !.at = a, !.left = l])
    BY <1>1, <1>5 DEF ReadContent, FailClosing
  <2>2. CASE Goto("boundary")
    BY <2>1, <2>2, GotoPlace DEF Parsed, Parsing
  <2>3. CASE \E a, l : rd' = [rd EXCEPT !.at = a, !.left = l]
    BY <2>1, <2>3 DEF Parsed, SamePlace, Parsing, Fields
  <2> QED
    BY <2>1, <2>2, <2>3
<1>6. ASSUME ReadBoundary, ~GivenUp
      PROVE  Parsed
  <2> DEFINE p == IF rd.lines = 1 THEN "drain" ELSE "boundary"
  <2>1. /\ rd.pc = "boundary"
        /\ rd' = [rd EXCEPT !.at = Found.next, !.lines = @ + 1, !.pc = p]
    BY <1>1, <1>6 DEF ReadBoundary, FailClosing
  <2>2. p \in {"drain", "boundary"}
    OBVIOUS
  <2> HIDE DEF p
  <2> QED
    BY <2>1, <2>2 DEF Parsed, SamePlace, Parsing, Fields
<1>7. ASSUME ReadRest, ~GivenUp
      PROVE  Returns
  <2>1. CASE ~IsGzip
    <3>1. /\ rd.pc = "drain"
          /\ rd' = [rd EXCEPT !.pc = "got", !.record.offset = -1, !.record.size = -1]
      BY <1>7, <2>1 DEF ReadRest
    <3>2. /\ rd'.pc = "got" /\ rd'.member = rd.member
          /\ rd'.record = [[rd.record EXCEPT !.offset = -1] EXCEPT !.size = -1]
      BY <3>1 DEF Fields
    <3>3. rd'.record.offset = -1 /\ rd'.record.size = -1
      BY <3>2 DEF Fields
    <3> QED
      BY <2>1, <3>1, <3>2, <3>3 DEF Returns
  <2>2. CASE IsGzip
    <3>1. /\ rd.pc = "drain"
          /\ rd' = [rd EXCEPT !.pc = "got", !.tell = @ + Size(rd.member), !.record.size = Size(rd.member)]
      BY <1>1, <1>7, <2>2 DEF ReadRest, FailClosing, Drained
    <3> QED
      BY <2>2, <3>1 DEF Returns, Fields
  <2> QED
    BY <2>1, <2>2
<1>8. ASSUME ReadClose
      PROVE  GivenUp
  BY <1>1, <1>8 DEF ReadClose, Fail
<1> QED
  BY <1>2, <1>3, <1>4, <1>5, <1>6, <1>7, <1>8 DEF ReadRecord

\* What depends on the file alone is the same after a step.
LEMMA SameFile ==
  ASSUME file' = file
  PROVE  IsGzip' = IsGzip /\ Start' = Start /\ \A k : Size(k)' = Size(k)
  BY DEF IsGzip, Start, Size

OffsetsTyped == \E S : offsets \in Seq(S)

PlaceInv == Fields /\ OffsetsTyped /\ OffsetInv

LEMMA ReaderOffsets ==
  ASSUME PlaceInv, Fields', Begun \/ Parsed \/ Returns \/ GivenUp, pc' = pc, pc = "read",
         UNCHANGED <<file, offsets>>
  PROVE  PlaceInv'
<1>1. /\ IsGzip' = IsGzip /\ Start' = Start
  BY SameFile
<1>2. \A k : Size(k)' = Size(k)
  BY SameFile
<1>3. OffsetsAreExact' /\ OffsetsTyped'
  BY <1>1, <1>2 DEF OffsetsAreExact, OffsetsTyped, PlaceInv, OffsetInv
<1>4. rd.member \in Nat /\ MembersAreCounted
  BY DEF PlaceInv, OffsetInv
<1>5. Len(offsets) \in Nat
  BY DEF PlaceInv, OffsetsTyped
<1>6. CASE Begun
  <2>1. rd'.member \in Nat /\ rd'.pc = "version"
    BY <1>6 DEF Begun
  <2>2. MembersAreCounted'
    BY <1>1, <1>4, <1>5, <1>6 DEF Begun, MembersAreCounted, Parsing
  <2> QED
    BY <1>3, <2>1, <2>2 DEF PlaceInv, OffsetInv
<1>7. CASE Parsed
  <2>1. rd'.member \in Nat /\ rd'.pc \in Parsing /\ rd'.pc \notin {"got", "idle"}
    BY <1>4, <1>7 DEF Parsed, SamePlace, Parsing
  <2>2. MembersAreCounted'
    BY <1>1, <1>4, <1>7, <2>1 DEF Parsed, SamePlace, MembersAreCounted
  <2> QED
    BY <1>3, <2>1, <2>2 DEF PlaceInv, OffsetInv
<1>8. CASE Returns
  <2>1. rd'.member \in Nat /\ rd'.member = rd.member /\ rd'.pc = "got"
    BY <1>4, <1>8 DEF Returns
  <2>2. ASSUME IsGzip
        PROVE  /\ rd.member = Len(offsets) + 1 /\ rd.tell = Start[rd.member] /\ rd.record.offset = rd.tell
               /\ rd'.tell = Start[rd.member] + Size(rd.member)
               /\ rd'.record.offset = Start[rd.member] /\ rd'.record.size = Size(rd.member)
    BY <1>4, <1>8, <2>2 DEF Returns, MembersAreCounted, Parsing
  <2>3. ASSUME IsGzip
        PROVE  rd'.tell = Start[rd.member + 1]
    <3>1. rd.member > 0
      BY <1>5, <2>2, <2>3
    <3> QED
      BY <1>4, <2>2, <2>3, <3>1, StartIs
  <2>4. Size(rd.member)' = Size(rd.member)
    BY <1>2, <2>1 DEF Size
  <2>5. MembersAreCounted'
    BY <1>1, <2>1, <2>2, <2>3, <2>4 DEF MembersAreCounted, Parsing
  <2>6. ~IsGzip => rd'.record.offset = -1 /\ rd'.record.size = -1
    BY <1>8 DEF Returns
  <2> QED
    BY <1>1, <1>3, <2>1, <2>5, <2>6 DEF PlaceInv, OffsetInv
<1>9. CASE GivenUp
  BY <1>3, <1>4, <1>9 DEF GivenUp, PlaceInv, OffsetInv, MembersAreCounted, Parsing
<1> QED
  BY <1>6, <1>7, <1>8, <1>9

LEMMA GotOffsets ==
  ASSUME PlaceInv, Got
  PROVE  PlaceInv'
<1> DEFINE new == [offset |-> rd.record.offset, size |-> rd.record.size]
<1>1. /\ pc = "read" /\ rd.pc = "got" /\ pc' \in {"close", "block"}
      /\ offsets' = Append(offsets, new) /\ file' = file /\ rd' = rd
  BY DEF Got, readerVars
<1>2. PICK S : offsets \in Seq(S)
  BY DEF PlaceInv, OffsetsTyped
<1>3. /\ IsGzip' = IsGzip /\ Start' = Start
  BY <1>1, SameFile
<1>4. \A k : Size(k)' = Size(k)
  BY <1>1, SameFile
<1>5. /\ DOMAIN offsets = 1..Len(offsets) /\ Len(offsets) \in Nat
      /\ Len(offsets') = Len(offsets) + 1 /\ DOMAIN offsets' = 1..(Len(offsets) + 1)
      /\ \A k \in DOMAIN offsets : offsets'[k] = offsets[k]
      /\ offsets'[Len(offsets) + 1] = new
      /\ offsets' \in Seq(S \cup {new})
  <2> HIDE DEF new
  <2>1. offsets \in Seq(S \cup {new}) /\ new \in S \cup {new}
    BY <1>2
  <2> QED
    BY <1>1, <2>1
<1>6. new = IF IsGzip THEN [offset |-> Start[Len(offsets) + 1], size |-> Size(Len(offsets) + 1)]
            ELSE [offset |-> -1, size |-> -1]
  BY <1>1 DEF PlaceInv, OffsetInv, MembersAreCounted
<1> HIDE DEF new
<1>7. ASSUME NEW k \in DOMAIN offsets'
      PROVE  offsets'[k] = IF IsGzip THEN [offset |-> Start[k], size |-> Size(k)]
                           ELSE [offset |-> -1, size |-> -1]
  <2>1. CASE k \in DOMAIN offsets
    BY <1>5, <2>1 DEF PlaceInv, OffsetInv, OffsetsAreExact
  <2>2. CASE k = Len(offsets) + 1
    BY <1>5, <1>6, <2>2
  <2> QED
    BY <1>5, <2>1, <2>2
<1>8. OffsetsAreExact'
  BY <1>3, <1>4, <1>7 DEF OffsetsAreExact
<1>9. MembersAreCounted'
  <2>1. Size(rd.member)' = Size(rd.member)
    BY <1>1, <1>4 DEF Size
  <2> QED
    BY <1>1, <1>3, <1>5, <2>1 DEF PlaceInv, OffsetInv, MembersAreCounted, Parsing
<1>10. OffsetsTyped' /\ Fields'
  BY <1>1, <1>5 DEF OffsetsTyped, PlaceInv, Fields
<1> QED
  BY <1>1, <1>3, <1>8, <1>9, <1>10 DEF PlaceInv, OffsetInv

\* The steps that leave the file, the list, and the reader where they are; the
\* last one gives the record back.
LEMMA OtherOffsets ==
  ASSUME PlaceInv, UNCHANGED <<file, offsets>>,
         \/ rd' = rd /\ (rd.pc = "got" => (pc = "read" <=> pc' = "read"))
         \/ rd' = [rd EXCEPT !.pc = "idle"] /\ rd.pc = "got" /\ pc # "read"
  PROVE  PlaceInv'
<1>1. /\ IsGzip' = IsGzip /\ Start' = Start
  BY SameFile
<1>2. \A k : Size(k)' = Size(k)
  BY SameFile
<1>3. OffsetsAreExact' /\ OffsetsTyped'
  BY <1>1, <1>2 DEF OffsetsAreExact, OffsetsTyped, PlaceInv, OffsetInv
<1>4. CASE rd' = rd /\ (rd.pc = "got" => (pc = "read" <=> pc' = "read"))
  <2>1. Size(rd.member)' = Size(rd.member)
    BY <1>2, <1>4 DEF Size
  <2>2. MembersAreCounted'
    BY <1>1, <1>4, <2>1 DEF PlaceInv, OffsetInv, MembersAreCounted
  <2> QED
    BY <1>1, <1>3, <1>4, <2>2 DEF PlaceInv, OffsetInv, Fields
<1>5. CASE rd' = [rd EXCEPT !.pc = "idle"] /\ rd.pc = "got" /\ pc # "read"
  <2>1. Fields' /\ rd'.pc = "idle" /\ rd'.member = rd.member /\ rd'.tell = rd.tell
    BY <1>5 DEF PlaceInv, Fields
  <2>2. MembersAreCounted'
    BY <1>1, <1>5, <2>1 DEF PlaceInv, OffsetInv, MembersAreCounted, Parsing
  <2> QED
    BY <1>1, <1>3, <2>1, <2>2 DEF PlaceInv, OffsetInv
<1> QED
  BY <1>4, <1>5

LEMMA NextOffsets ==
  ASSUME IInv, PlaceInv, [Next]_vars
  PROVE  PlaceInv'
<1>1. CASE OpenWARCFile \/ End
  <2>1. UNCHANGED <<file, offsets>> /\ rd' = rd /\ rd.pc # "got"
    BY <1>1 DEF OpenWARCFile, End, readerVars, IInv, HeldInv, Agree
  <2> QED
    BY <2>1, OtherOffsets
<1>2. CASE Read
  <2>1. pc = "read" /\ pc' = pc /\ ReadRecord /\ offsets' = offsets
    BY <1>2 DEF Read
  <2>2. Fields' /\ file' = file
    BY <2>1, ReaderSteps DEF IInv, HeldInv
  <2>3. Begun \/ Parsed \/ Returns \/ GivenUp
    BY <2>1, ReaderPlaces DEF PlaceInv, OffsetInv
  <2> QED
    BY <2>1, <2>2, <2>3, ReaderOffsets
<1>3. CASE Got
  BY <1>3, GotOffsets
<1>4. CASE BlockDigest \/ PayloadDigest \/ verifyWARCVersion
  <2>1. /\ UNCHANGED <<file, offsets>> /\ rd' = rd /\ pc # "read" /\ pc' # "read"
    BY <1>4 DEF BlockDigest, PayloadDigest, verifyWARCVersion, Judge
  <2> QED
    BY <2>1, OtherOffsets
<1>5. CASE CloseContent
  <2>1. /\ UNCHANGED <<file, offsets>> /\ rd' = [rd EXCEPT !.pc = "idle"] /\ rd.pc = "got" /\ pc # "read"
    BY <1>5 DEF CloseContent, IInv, HeldInv, Agree
  <2> QED
    BY <2>1, OtherOffsets
<1>6. CASE Terminated \/ UNCHANGED vars
  <2>1. /\ UNCHANGED <<file, offsets>> /\ rd' = rd /\ pc' = pc
    BY <1>6 DEF Terminated, vars, readerVars
  <2> QED
    BY <2>1, OtherOffsets
<1> QED
  BY <1>1, <1>2, <1>3, <1>4, <1>5, <1>6 DEF Next

(* For every file and every size of the buffer: with gzip the offset and the
   size of a record that is returned are those of its member, whatever came
   before it; without, they are -1. *)
THEOREM OffsetsAreExactHolds == Spec => []OffsetsAreExact
<1>1. Init => IInv /\ PlaceInv
  <2> SUFFICES ASSUME Init PROVE PlaceInv
    BY InitHeld
  <2>1. rd = NewReader /\ offsets = <<>>
    BY DEF Init
  <2>2. rd.pc = "idle" /\ rd.member = 0 /\ rd.tell = 0
    BY <2>1 DEF NewReader
  <2>3. OffsetsTyped /\ Len(offsets) = 0 /\ DOMAIN offsets = {}
    <3>1. <<>> \in Seq({}) /\ Len(<<>>) = 0 /\ DOMAIN <<>> = {}
      OBVIOUS
    <3> QED
      BY <2>1, <3>1 DEF OffsetsTyped
  <2>4. Fields
    BY InitHeld DEF IInv
  <2>5. rd.tell = Start[rd.member + 1]
    BY <2>2, StartIs
  <2>6. MembersAreCounted
    BY <2>2, <2>3, <2>5 DEF MembersAreCounted, Parsing
  <2>7. OffsetsAreExact
    BY <2>3 DEF OffsetsAreExact
  <2> QED
    BY <2>2, <2>3, <2>4, <2>6, <2>7 DEF PlaceInv, OffsetInv
<1>2. IInv /\ PlaceInv /\ [Next]_vars => (IInv /\ PlaceInv)'
  BY NextHeld, NextOffsets
<1>3. PlaceInv => OffsetsAreExact
  BY DEF PlaceInv, OffsetInv
<1> QED
  BY <1>1, <1>2, <1>3, PTL DEF Spec

(***************************************************************************)
(* The text of a record: three symbols for each line of its header, two    *)
(* for the empty line, the content, and four for the boundary.             *)
(***************************************************************************)

LEMMA Symbols ==
  /\ CR # LF /\ CR.sym = "CR" /\ LF.sym = "LF" /\ Missing.sym = "missing"
  /\ CR # Missing /\ LF # Missing
  /\ \A v : Sym(v).sym = v
  /\ \A v : v \notin {"CR", "LF"} => Sym(v) # CR /\ Sym(v) # LF
  BY DEF CR, LF, Missing, Sym

LEMMA Joined ==
  ASSUME NEW S, NEW s \in Seq(S), NEW u \in Seq(S)
  PROVE  /\ s \o u \in Seq(S) /\ Len(s \o u) = Len(s) + Len(u)
         /\ \A i \in 1..Len(s) : (s \o u)[i] = s[i]
         /\ \A i \in 1..Len(u) : (s \o u)[Len(s) + i] = u[i]
  OBVIOUS

\* The text has these lines so far.
HasLines(S, t, L) ==
    /\ t \in Seq(S) /\ L \in Seq(S) /\ Len(t) = 3 * Len(L)
    /\ \A i \in 1..Len(L) : t[3 * i - 2] = L[i] /\ t[3 * i - 1] = CR /\ t[3 * i] = LF

LEMMA OneLine ==
  ASSUME NEW S, CR \in S, LF \in S, NEW v \in S
  PROVE  HasLines(S, <<v>> \o CRLF, <<v>>)
<1> DEFINE t == <<v>> \o CRLF
           L == <<v>>
<1>1. t \in Seq(S) /\ Len(t) = 3 /\ t[1] = v /\ t[2] = CR /\ t[3] = LF
  BY DEF CRLF
<1>2. L \in Seq(S) /\ Len(L) = 1 /\ L[1] = v
  OBVIOUS
<1> HIDE DEF t, L
<1>3. \A i \in 1..1 : t[3 * i - 2] = L[i] /\ t[3 * i - 1] = CR /\ t[3 * i] = LF
  <2> TAKE i \in 1..1
  <2>1. i = 1 /\ 3 * i - 2 = 1 /\ 3 * i - 1 = 2 /\ 3 * i = 3
    OBVIOUS
  <2> QED
    BY <1>1, <1>2, <2>1
<1>4. HasLines(S, t, L)
  BY <1>1, <1>2, <1>3 DEF HasLines
<1> QED
  BY <1>4 DEF t, L

\* A field more is a line more, unless the field is missing.
LEMMA OneMoreLine ==
  ASSUME NEW S, CR \in S, LF \in S, NEW t, NEW L, HasLines(S, t, L), NEW f \in S
  PROVE  HasLines(S, t \o FieldLine(f), WithField(L, f))
<1>1. /\ t \in Seq(S) /\ L \in Seq(S) /\ Len(t) = 3 * Len(L) /\ Len(L) \in Nat
      /\ \A i \in 1..Len(L) : t[3 * i - 2] = L[i] /\ t[3 * i - 1] = CR /\ t[3 * i] = LF
  BY DEF HasLines
<1>2. CASE f = Missing
  <2>1. FieldLine(f) = <<>> /\ WithField(L, f) = L
    BY <1>2 DEF FieldLine, WithField
  <2>2. t \o <<>> = t
    BY <1>1
  <2> QED
    BY <2>1, <2>2
<1>3. CASE f # Missing
  <2> DEFINE n == Len(L)
             u == <<f>> \o CRLF
             s == t \o u
             M == Append(L, f)
  <2>1. u \in Seq(S) /\ Len(u) = 3 /\ u[1] = f /\ u[2] = CR /\ u[3] = LF
    BY DEF CRLF
  <2>2. M \in Seq(S) /\ Len(M) = n + 1 /\ M[n + 1] = f /\ \A i \in 1..n : M[i] = L[i]
    BY <1>1
  <2> HIDE DEF u, M
  <2>3. /\ s \in Seq(S) /\ Len(s) = Len(t) + Len(u) /\ (\A i \in 1..Len(t) : s[i] = t[i])
        /\ \A i \in 1..Len(u) : s[Len(t) + i] = u[i]
    <3>1. t \in Seq(S) /\ u \in Seq(S)
      BY <1>1, <2>1
    <3> QED
      BY <3>1, Joined
  <2> HIDE DEF s
  <2>4. s[3 * n + 1] = f /\ s[3 * n + 2] = CR /\ s[3 * n + 3] = LF /\ Len(s) = 3 * (n + 1)
    <3>1. 1 \in 1..3 /\ 2 \in 1..3 /\ 3 \in 1..3
      OBVIOUS
    <3> QED
      BY <1>1, <2>1, <2>3, <3>1
  <2>5. \A i \in 1..(n + 1) : s[3 * i - 2] = M[i] /\ s[3 * i - 1] = CR /\ s[3 * i] = LF
    <3> TAKE i \in 1..(n + 1)
    <3>1. CASE i = n + 1
      <4>1. 3 * i - 2 = 3 * n + 1 /\ 3 * i - 1 = 3 * n + 2 /\ 3 * i = 3 * n + 3
        BY <1>1, <3>1
      <4> QED
        BY <2>2, <2>4, <3>1, <4>1
    <3>2. CASE i # n + 1
      <4>1. i \in 1..n /\ 3 * i - 2 \in 1..Len(t) /\ 3 * i - 1 \in 1..Len(t) /\ 3 * i \in 1..Len(t)
        BY <1>1, <3>2
      <4> QED
        BY <1>1, <2>2, <2>3, <4>1
    <3> QED
      BY <3>1, <3>2
  <2>6. HasLines(S, s, M)
    BY <2>2, <2>3, <2>4, <2>5 DEF HasLines
  <2>7. FieldLine(f) = u /\ WithField(L, f) = M
    BY <1>3 DEF FieldLine, WithField, u, M
  <2> QED
    BY <2>6, <2>7 DEF s
<1> QED
  BY <1>2, <1>3

\* The text of a record, by its places.
IsText(S, t, L, content) ==
    LET h == 3 * Len(L) + 2  n == Len(content) IN
    /\ t \in Seq(S) /\ L \in Seq(S) /\ Len(t) = h + n + 4
    /\ \A i \in 1..Len(L) : t[3 * i - 2] = L[i] /\ t[3 * i - 1] = CR /\ t[3 * i] = LF
    /\ t[h - 1] = CR /\ t[h] = LF
    /\ \A i \in 1..n : t[h + i] = Sym(content[i])
    /\ t[h + n + 1] = CR /\ t[h + n + 2] = LF /\ t[h + n + 3] = CR /\ t[h + n + 4] = LF

\* The header, an empty line, the content and the boundary.
LEMMA HasText ==
  ASSUME NEW S, CR \in S, LF \in S, NEW t, NEW L, HasLines(S, t, L),
         NEW content, Len(content) \in Nat, DOMAIN content = 1..Len(content),
         \A i \in DOMAIN content : Sym(content[i]) \in S
  PROVE  IsText(S, t \o CRLF \o [i \in DOMAIN content |-> Sym(content[i])] \o CRLF \o CRLF, L, content)
<1> DEFINE n == Len(content)
           body == [i \in DOMAIN content |-> Sym(content[i])]
           t1 == t \o CRLF
           t2 == t1 \o body
           t3 == t2 \o CRLF
           t4 == t3 \o CRLF
           h == 3 * Len(L) + 2
<1>1. /\ t \in Seq(S) /\ L \in Seq(S) /\ Len(t) = 3 * Len(L) /\ Len(L) \in Nat
      /\ \A i \in 1..Len(L) : t[3 * i - 2] = L[i] /\ t[3 * i - 1] = CR /\ t[3 * i] = LF
  BY DEF HasLines
<1>2. body \in Seq(S) /\ Len(body) = n /\ \A i \in 1..n : body[i] = Sym(content[i])
  OBVIOUS
<1>3. CRLF \in Seq(S) /\ Len(CRLF) = 2 /\ CRLF[1] = CR /\ CRLF[2] = LF
  BY DEF CRLF
<1> HIDE DEF body
<1>4. /\ t1 \in Seq(S) /\ Len(t1) = Len(t) + Len(CRLF) /\ (\A i \in 1..Len(t) : t1[i] = t[i])
      /\ \A i \in 1..Len(CRLF) : t1[Len(t) + i] = CRLF[i]
  <2>1. t \in Seq(S) /\ CRLF \in Seq(S)
    BY <1>1, <1>3
  <2> QED
    BY <2>1, Joined
<1> HIDE DEF t1
<1>5. /\ t2 \in Seq(S) /\ Len(t2) = Len(t1) + Len(body) /\ (\A i \in 1..Len(t1) : t2[i] = t1[i])
      /\ \A i \in 1..Len(body) : t2[Len(t1) + i] = body[i]
  <2>1. t1 \in Seq(S) /\ body \in Seq(S)
    BY <1>2, <1>4
  <2> QED
    BY <2>1, Joined
<1> HIDE DEF t2
<1>6. /\ t3 \in Seq(S) /\ Len(t3) = Len(t2) + Len(CRLF) /\ (\A i \in 1..Len(t2) : t3[i] = t2[i])
      /\ \A i \in 1..Len(CRLF) : t3[Len(t2) + i] = CRLF[i]
  <2>1. t2 \in Seq(S) /\ CRLF \in Seq(S)
    BY <1>3, <1>5
  <2> QED
    BY <2>1, Joined
<1> HIDE DEF t3
<1>7. /\ t4 \in Seq(S) /\ Len(t4) = Len(t3) + Len(CRLF) /\ (\A i \in 1..Len(t3) : t4[i] = t3[i])
      /\ \A i \in 1..Len(CRLF) : t4[Len(t3) + i] = CRLF[i]
  <2>1. t3 \in Seq(S) /\ CRLF \in Seq(S)
    BY <1>3, <1>6
  <2> QED
    BY <2>1, Joined
<1> HIDE DEF t4
<1>8. 1 \in 1..2 /\ 2 \in 1..2
  OBVIOUS
<1>9. /\ Len(t1) = h /\ Len(t2) = h + n /\ Len(t3) = h + n + 2 /\ Len(t4) = h + n + 4
      /\ h \in Nat /\ n \in Nat /\ h >= 2
  BY <1>1, <1>2, <1>3, <1>4, <1>5, <1>6, <1>7
<1> HIDE DEF n
<1>a. Len(t) = h - 2
  BY <1>1
<1>b. t1[h - 1] = CR /\ t1[h] = LF
  <2>1. Len(t) + 1 = h - 1 /\ Len(t) + 2 = h
    BY <1>1
  <2> QED
    BY <1>3, <1>4, <1>8, <2>1
<1> HIDE DEF h
<1>10. \A i \in 1..h : t4[i] = t1[i]
  BY <1>5, <1>6, <1>7, <1>9
<1>11. \A i \in 1..(h - 2) : t4[i] = t[i]
  BY <1>4, <1>9, <1>10, <1>a
<1>12. \A i \in 1..Len(L) : t4[3 * i - 2] = L[i] /\ t4[3 * i - 1] = CR /\ t4[3 * i] = LF
  <2> TAKE i \in 1..Len(L)
  <2>1. 3 * i - 2 \in 1..(h - 2) /\ 3 * i - 1 \in 1..(h - 2) /\ 3 * i \in 1..(h - 2)
    BY <1>1, <1>a
  <2> QED
    BY <1>1, <1>11, <2>1
<1>13. t4[h - 1] = CR /\ t4[h] = LF
  BY <1>9, <1>10, <1>b
<1>14. \A i \in 1..n : t4[h + i] = Sym(content[i])
  <2> TAKE i \in 1..n
  <2>1. h + i \in 1..(h + n) /\ h + i \in 1..(h + n + 2)
    BY <1>9
  <2>2. t4[h + i] = t2[h + i]
    BY <1>6, <1>7, <1>9, <2>1
  <2> QED
    BY <1>2, <1>5, <1>9, <2>2
<1>15. t4[h + n + 1] = CR /\ t4[h + n + 2] = LF
  <2>1. t3[h + n + 1] = CR /\ t3[h + n + 2] = LF
    BY <1>3, <1>6, <1>8, <1>9
  <2>2. h + n + 1 \in 1..(h + n + 2) /\ h + n + 2 \in 1..(h + n + 2)
    BY <1>9
  <2>3. t4[h + n + 1] = t3[h + n + 1] /\ t4[h + n + 2] = t3[h + n + 2]
    BY <1>7, <1>9, <2>2
  <2> QED
    BY <2>1, <2>3
<1>16. t4[h + n + 3] = CR /\ t4[h + n + 4] = LF
  <2>1. (h + n + 2) + 1 = h + n + 3 /\ (h + n + 2) + 2 = h + n + 4
    BY <1>9
  <2> QED
    BY <1>3, <1>7, <1>8, <1>9, <2>1
<1> QED
  BY <1>1, <1>7, <1>9, <1>12, <1>13, <1>14, <1>15, <1>16 DEF IsText, h, n, t4, t3, t2, t1, body

\* What the lines of a header are, as far as the fields in D have been written.
AreLines(S, L, r, D) ==
    /\ L \in Seq(S) /\ Len(L) >= 1 /\ L[1] = Sym(r.version)
    /\ \A i \in 2..Len(L) : \E f \in D : r[f] # Missing /\ L[i] = r[f]
    /\ \A f \in D : r[f] # Missing => \E i \in 2..Len(L) : L[i] = r[f]
    /\ \A i, j \in 2..Len(L) : L[i] = L[j] => i = j

\* The fields are called what they are.
Named(r) == \A f \in FieldNames : r[f] = Missing \/ r[f].sym = f

\* A field bears its own name, and is no line end.
LEMMA RecordIsNamed ==
  ASSUME NEW r, IsRecord(r)
  PROVE  /\ Named(r) /\ r.first \in FieldNames /\ r[r.first] # Missing
         /\ \A f \in FieldNames : r[f] # CR /\ r[f] # LF
<1>1. Named(r) /\ \A f \in FieldNames : r[f] # CR /\ r[f] # LF
  BY Symbols DEF IsRecord, Named, FieldNames, Digest
<1> QED
  BY <1>1 DEF IsRecord

Grown(S, L, r, D, g) ==
    LET M == WithField(L, r[g]) IN
    /\ AreLines(S, M, r, D \cup {g})
    /\ Len(L) \in Nat /\ Len(M) >= Len(L)
    /\ r[g] # Missing => Len(M) = Len(L) + 1 /\ M[Len(L) + 1] = r[g]
    /\ \A i \in 1..Len(L) : M[i] = L[i]

\* A field whose name is not yet in the lines may be added to them.
LEMMA LinesGrow ==
  ASSUME NEW S, NEW L, NEW r, NEW D \in SUBSET FieldNames, AreLines(S, L, r, D), Named(r),
         NEW g \in FieldNames \ D, r[g] \in S
  PROVE  Grown(S, L, r, D, g)
<1>1. /\ L \in Seq(S) /\ Len(L) \in Nat /\ Len(L) >= 1 /\ L[1] = Sym(r.version)
      /\ \A i \in 2..Len(L) : \E f \in D : r[f] # Missing /\ L[i] = r[f]
      /\ \A f \in D : r[f] # Missing => \E i \in 2..Len(L) : L[i] = r[f]
      /\ \A i, j \in 2..Len(L) : L[i] = L[j] => i = j
  BY DEF AreLines
<1>2. CASE r[g] = Missing
  <2>1. WithField(L, r[g]) = L
    BY <1>2 DEF WithField
  <2>2. AreLines(S, L, r, D \cup {g})
    BY <1>1, <1>2 DEF AreLines
  <2> QED
    BY <1>1, <1>2, <2>1, <2>2 DEF Grown
<1>3. CASE r[g] # Missing
  <2> DEFINE M == Append(L, r[g])
             n == Len(L)
  <2>1. M \in Seq(S) /\ Len(M) = n + 1 /\ M[n + 1] = r[g] /\ \A i \in 1..n : M[i] = L[i]
    BY <1>1
  <2>2. WithField(L, r[g]) = M
    BY <1>3 DEF WithField
  <2> HIDE DEF M
  <2>3. ASSUME NEW i \in 2..n PROVE M[i] # r[g]
    <3>1. PICK f \in D : r[f] # Missing /\ L[i] = r[f]
      BY <1>1
    <3>2. r[f].sym = f /\ r[g].sym = g /\ f # g
      BY <1>3, <3>1 DEF Named
    <3> QED
      BY <1>1, <2>1, <3>1, <3>2
  <2>4. \A i \in 2..(n + 1) : \E f \in D \cup {g} : r[f] # Missing /\ M[i] = r[f]
    <3> TAKE i \in 2..(n + 1)
    <3>1. CASE i = n + 1
      BY <1>3, <2>1, <3>1
    <3>2. CASE i # n + 1
      <4>1. i \in 2..n /\ M[i] = L[i]
        BY <1>1, <2>1, <3>2
      <4>2. PICK f \in D : r[f] # Missing /\ L[i] = r[f]
        BY <1>1, <4>1
      <4> QED
        BY <4>1, <4>2
    <3> QED
      BY <3>1, <3>2
  <2>5. \A f \in D \cup {g} : r[f] # Missing => \E i \in 2..(n + 1) : M[i] = r[f]
    <3> SUFFICES ASSUME NEW f \in D \cup {g}, r[f] # Missing PROVE \E i \in 2..(n + 1) : M[i] = r[f]
      OBVIOUS
    <3>1. CASE f = g
      <4>1. n + 1 \in 2..(n + 1)
        BY <1>1
      <4> QED
        BY <2>1, <3>1, <4>1
    <3>2. CASE f # g
      <4>1. PICK i \in 2..n : L[i] = r[f]
        BY <1>1, <3>2
      <4>2. i \in 2..(n + 1) /\ M[i] = L[i]
        BY <1>1, <2>1
      <4> QED
        BY <4>1, <4>2
    <3> QED
      BY <3>1, <3>2
  <2>6. \A i, j \in 2..(n + 1) : M[i] = M[j] => i = j
    <3> SUFFICES ASSUME NEW i \in 2..(n + 1), NEW j \in 2..(n + 1), M[i] = M[j] PROVE i = j
      OBVIOUS
    <3>1. CASE i = n + 1 \/ j = n + 1
      BY <1>1, <2>1, <2>3, <3>1
    <3>2. CASE i # n + 1 /\ j # n + 1
      <4>1. i \in 2..n /\ j \in 2..n /\ M[i] = L[i] /\ M[j] = L[j]
        BY <1>1, <2>1, <3>2
      <4> QED
        BY <1>1, <4>1
    <3> QED
      BY <3>1, <3>2
  <2>7. M[1] = Sym(r.version)
    BY <1>1, <2>1
  <2>8. AreLines(S, M, r, D \cup {g})
    BY <1>1, <2>1, <2>4, <2>5, <2>6, <2>7 DEF AreLines
  <2> QED
    BY <1>1, <2>1, <2>2, <2>8 DEF Grown
<1> QED
  BY <1>2, <1>3

\* The lines of a record: the second one is the field that comes first.
LinesAre(S, r) ==
    LET L == LinesOf(r) IN
    /\ AreLines(S, L, r, FieldNames) /\ Len(L) >= 2
    /\ L[2] = r[r.first]

\* The header as far as the fields in D have been written.
Written(S, t, L, r, D) ==
    HasLines(S, t, L) /\ AreLines(S, L, r, D) /\ Len(L) >= 2 /\ L[2] = r[r.first]

\* A header begins with the version and the first field.
LEMMA FirstLines ==
  ASSUME NEW S, CR \in S, LF \in S, NEW r, IsRecord(r), Sym(r.version) \in S, r[r.first] \in S
  PROVE  Written(S, <<Sym(r.version)>> \o CRLF \o FieldLine(r[r.first]),
               <<Sym(r.version), r[r.first]>>, r, {r.first})
<1> DEFINE v == Sym(r.version)
           f == r[r.first]
           t == <<v>> \o CRLF
           M == <<v, f>>
<1>1. f # Missing
  BY RecordIsNamed
<1>2. HasLines(S, t, <<v>>)
  BY OneLine
<1>3. WithField(<<v>>, f) = M
  <2>1. WithField(<<v>>, f) = Append(<<v>>, f)
    BY <1>1 DEF WithField
  <2> HIDE DEF v, f
  <2> QED
    BY <2>1
<1>4. HasLines(S, t \o FieldLine(f), M)
  <2> HIDE DEF v, f, t, M
  <2>1. HasLines(S, t \o FieldLine(f), WithField(<<v>>, f))
    BY <1>2, OneMoreLine DEF f
  <2> QED
    BY <1>3, <2>1
<1>5. M \in Seq(S) /\ Len(M) = 2 /\ M[1] = v /\ M[2] = f
  <2>1. v \in S /\ f \in S
    OBVIOUS
  <2> HIDE DEF v, f
  <2> QED
    BY <2>1
<1> HIDE DEF M
<1>6. \A i \in 2..2 : i = 2
  OBVIOUS
<1>7. AreLines(S, M, r, {r.first})
  BY <1>1, <1>5, <1>6 DEF AreLines
<1> QED
  BY <1>4, <1>5, <1>7 DEF Written, M

\* It goes on with a field, unless that one came first.
LEMMA OneMoreField ==
  ASSUME NEW S, CR \in S, LF \in S, Missing \in S, NEW t, NEW L, NEW r, NEW D \in SUBSET FieldNames,
         Written(S, t, L, r, D), Named(r), NEW g \in FieldNames, r[g] \in S,
         r.first \in D, g = r.first \/ g \notin D
  PROVE  Written(S, t \o FieldLine(Other(r, g)), WithField(L, Other(r, g)), r, D \cup {g})
<1> DEFINE o == Other(r, g)
           M == WithField(L, o)
<1>1. HasLines(S, t, L) /\ AreLines(S, L, r, D) /\ Len(L) >= 2 /\ L[2] = r[r.first]
  BY DEF Written
<1>2. o \in S
  BY DEF Other
<1>3. HasLines(S, t \o FieldLine(o), M)
  <2> HIDE DEF o
  <2> QED
    BY <1>1, <1>2, OneMoreLine
<1>4. AreLines(S, M, r, D \cup {g}) /\ Len(M) >= 2 /\ M[2] = r[r.first]
  <2>1. CASE g = r.first
    <3>1. M = L /\ D \cup {g} = D
      BY <2>1 DEF WithField, Other
    <3> QED
      BY <1>1, <3>1
  <2>2. CASE g # r.first
    <3>1. o = r[g] /\ g \in FieldNames \ D
      BY <2>2 DEF Other
    <3>2. Grown(S, L, r, D, g)
      BY <1>1, <3>1, LinesGrow
    <3>3. /\ AreLines(S, M, r, D \cup {g}) /\ Len(L) \in Nat /\ Len(M) >= Len(L)
          /\ \A i \in 1..Len(L) : M[i] = L[i]
      BY <3>1, <3>2 DEF Grown
    <3>4. Len(M) \in Nat
      BY <3>3 DEF AreLines
    <3> HIDE DEF M
    <3>5. 2 \in 1..Len(L)
      BY <1>1, <3>3
    <3> QED
      BY <1>1, <3>3, <3>4, <3>5
  <2> QED
    BY <2>1, <2>2
<1> QED
  BY <1>3, <1>4 DEF Written

\* What WriteRecord writes of a record.
LEMMA RenderIs ==
  ASSUME NEW r, IsRecord(r)
  PROVE  \E S : IsText(S, Render(r), LinesOf(r), r.content) /\ LinesAre(S, r)
<1> DEFINE C == {Sym(r.content[i]) : i \in DOMAIN r.content}
           S == {CR, LF, Missing, Sym(r.version)} \cup {r[f] : f \in FieldNames} \cup C
           t0 == <<Sym(r.version)>> \o CRLF \o FieldLine(r[r.first])
           t1 == t0 \o FieldLine(Other(r, "block"))
           t2 == t1 \o FieldLine(Other(r, "type"))
           t3 == t2 \o FieldLine(Other(r, "ctype"))
           t4 == t3 \o FieldLine(Other(r, "length"))
           t5 == t4 \o FieldLine(Other(r, "payload"))
           t6 == t5 \o FieldLine(Other(r, "uri"))
           L0 == <<Sym(r.version), r[r.first]>>
           L1 == WithField(L0, Other(r, "block"))
           L2 == WithField(L1, Other(r, "type"))
           L3 == WithField(L2, Other(r, "ctype"))
           L4 == WithField(L3, Other(r, "length"))
           L5 == WithField(L4, Other(r, "payload"))
           L6 == WithField(L5, Other(r, "uri"))
           D1 == {r.first} \cup {"block"}
           D2 == D1 \cup {"type"}
           D3 == D2 \cup {"ctype"}
           D4 == D3 \cup {"length"}
           D5 == D4 \cup {"payload"}
           D6 == D5 \cup {"uri"}
<1>1. /\ CR \in S /\ LF \in S /\ Missing \in S /\ Sym(r.version) \in S
      /\ \A f \in FieldNames : r[f] \in S
      /\ \A i \in DOMAIN r.content : Sym(r.content[i]) \in S
  OBVIOUS
<1> HIDE DEF S
<1>2. Named(r) /\ r.first \in FieldNames
  BY RecordIsNamed
<1>3. Written(S, t0, L0, r, {r.first})
  <2>1. r[r.first] \in S
    BY <1>1, <1>2
  <2> QED
    BY <1>1, <2>1, FirstLines
<1>4. /\ "block" \in FieldNames /\ "type" \in FieldNames /\ "ctype" \in FieldNames
      /\ "length" \in FieldNames /\ "payload" \in FieldNames /\ "uri" \in FieldNames
  BY DEF FieldNames
<1>5. /\ {r.first} \in SUBSET FieldNames /\ D1 \in SUBSET FieldNames /\ D2 \in SUBSET FieldNames
      /\ D3 \in SUBSET FieldNames /\ D4 \in SUBSET FieldNames /\ D5 \in SUBSET FieldNames
  BY <1>2, <1>4
<1>6. D6 = FieldNames
  BY <1>2 DEF FieldNames
<1>7. Written(S, t6, L6, r, D6)
  <2>1. r.first \in {r.first} /\ ("block" = r.first \/ "block" \notin {r.first})
    OBVIOUS
  <2>2. r.first \in D1 /\ ("type" = r.first \/ "type" \notin D1)
    OBVIOUS
  <2>3. r.first \in D2 /\ ("ctype" = r.first \/ "ctype" \notin D2)
    OBVIOUS
  <2>4. r.first \in D3 /\ ("length" = r.first \/ "length" \notin D3)
    OBVIOUS
  <2>5. r.first \in D4 /\ ("payload" = r.first \/ "payload" \notin D4)
    OBVIOUS
  <2>6. r.first \in D5 /\ ("uri" = r.first \/ "uri" \notin D5)
    OBVIOUS
  <2> HIDE DEF t0, L0
  <2>7. Written(S, t1, L1, r, D1)
    BY <1>1, <1>2, <1>3, <1>4, <1>5, <2>1, OneMoreField
  <2> HIDE DEF t1, L1, D1
  <2>8. Written(S, t2, L2, r, D2)
    BY <1>1, <1>2, <1>4, <1>5, <2>2, <2>7, OneMoreField
  <2> HIDE DEF t2, L2, D2
  <2>9. Written(S, t3, L3, r, D3)
    BY <1>1, <1>2, <1>4, <1>5, <2>3, <2>8, OneMoreField
  <2> HIDE DEF t3, L3, D3
  <2>10. Written(S, t4, L4, r, D4)
    BY <1>1, <1>2, <1>4, <1>5, <2>4, <2>9, OneMoreField
  <2> HIDE DEF t4, L4, D4
  <2>11. Written(S, t5, L5, r, D5)
    BY <1>1, <1>2, <1>4, <1>5, <2>5, <2>10, OneMoreField
  <2> HIDE DEF t5, L5, D5
  <2> QED
    BY <1>1, <1>2, <1>4, <1>5, <2>6, <2>11, OneMoreField
<1>8. LinesOf(r) = L6 /\ Render(r) = t6 \o CRLF \o [i \in DOMAIN r.content |-> Sym(r.content[i])] \o CRLF \o CRLF
  BY DEF LinesOf, Render
<1>9. Len(r.content) \in Nat /\ DOMAIN r.content = 1..Len(r.content)
  BY DEF IsRecord
<1> HIDE DEF t6, L6, D6
<1>10. HasLines(S, t6, L6) /\ AreLines(S, L6, r, FieldNames) /\ Len(L6) >= 2 /\ L6[2] = r[r.first]
  BY <1>6, <1>7 DEF Written
<1>11. IsText(S, Render(r), LinesOf(r), r.content)
  BY <1>1, <1>8, <1>9, <1>10, HasText
<1>12. LinesAre(S, r)
  BY <1>8, <1>10 DEF LinesAre
<1> QED
  BY <1>11, <1>12

(***************************************************************************)
(* readUntilDelim.                                                         *)
(***************************************************************************)

\* Where a line that starts after p may end, and what the first end of it is.
LineEnds(t, p) == {i \in 1..(Len(t) - 1) : i > p /\ t[i] = CR /\ t[i + 1] = LF}

IsFirstEnd(t, p, found) ==
    IF LineEnds(t, p) = {} THEN found = NotFound
    ELSE /\ found.line \in LineEnds(t, p) /\ \A i \in LineEnds(t, p) : found.line <= i
         /\ found.next = found.line + 1

\* A chunk is not empty before the end of the text, and has no LF inside.
LEMMA ChunkFacts ==
  ASSUME NEW S, NEW t \in Seq(S), NEW q \in 0..Len(t)
  PROVE  LET e == ChunkEnd(t, q) IN
         /\ e \in q..Len(t) /\ (e = Len(t) \/ e > q)
         /\ \A i \in (q + 1)..(e - 1) : t[i] # LF
<1> DEFINE n == Len(t)
           Is(e) == /\ e = n \/ e = q + BufSize \/ (e > q /\ t[e] = LF)
                    /\ \A i \in (q + 1)..(e - 1) : t[i] # LF /\ i # q + BufSize
<1>0. n \in Nat /\ q \in Nat /\ q <= n /\ BufSize \in Nat /\ BufSize > 0
  BY ReaderAssumption
<1> HIDE DEF n
<1>1. \E e \in q..n : Is(e)
  <2>1. CASE q = n
    BY <1>0, <2>1
  <2>2. CASE q < n
    <3> DEFINE E == {e \in (q + 1)..n : e = n \/ e = q + BufSize \/ t[e] = LF}
               m == CHOOSE c \in E : \A d \in E : c <= d
    <3>1. E \in SUBSET Nat /\ n \in E
      BY <1>0, <2>2
    <3>2. m \in E /\ \A d \in E : m <= d
      BY <3>1, LeastNumber
    <3> HIDE DEF m
    <3>3. m \in q..n /\ m > q /\ (m = n \/ m = q + BufSize \/ t[m] = LF)
      BY <1>0, <3>2
    <3>4. ASSUME NEW i \in (q + 1)..(m - 1) PROVE t[i] # LF /\ i # q + BufSize
      <4>1. i \in (q + 1)..n /\ i < m
        BY <1>0, <3>3
      <4>2. i \notin E
        BY <1>0, <3>2, <3>3, <4>1
      <4> QED
        BY <4>1, <4>2
    <3> QED
      BY <3>3, <3>4
  <2> QED
    BY <1>0, <2>1, <2>2
<1>2. ChunkEnd(t, q) = CHOOSE e \in q..n : Is(e)
  BY DEF ChunkEnd, n
<1>3. ChunkEnd(t, q) \in q..n /\ Is(ChunkEnd(t, q))
  BY <1>1, <1>2
<1>4. ChunkEnd(t, q) = n \/ ChunkEnd(t, q) > q
  BY <1>0, <1>3
<1> QED
  BY <1>3, <1>4 DEF n

\* A function that is given at some places and elsewhere looks further on.
LooksOn(f, n, p, stop, val, next) ==
    f = [q \in p..n |-> IF stop[q] THEN val[q] ELSE f[next[q]]]

LEMMA LookingOn ==
  ASSUME NEW n \in Nat, NEW p \in 0..n, NEW stop \in [p..n -> BOOLEAN], NEW val, NEW next,
         \A q \in p..n : stop[q] \/ next[q] \in (q + 1)..n
  PROVE  \E f : LooksOn(f, n, p, stop, val, next)
<1> DEFINE Is(f, k) == f = [q \in (n - k)..n |-> IF stop[q] THEN val[q] ELSE f[next[q]]]
           S == {k \in Nat : k <= n - p => \E f : Is(f, k)}
<1>1. 0 \in S
  <2>1. stop[n]
    <3>1. n \in p..n /\ ~(next[n] \in (n + 1)..n)
      OBVIOUS
    <3> QED
      BY <3>1
  <2> DEFINE f == [q \in (n - 0)..n |-> val[n]]
  <2>2. \A q \in (n - 0)..n : q = n
    OBVIOUS
  <2>3. f = [q \in (n - 0)..n |-> IF stop[q] THEN val[q] ELSE f[next[q]]]
    BY <2>1, <2>2
  <2> HIDE DEF f
  <2>4. Is(f, 0)
    BY <2>3
  <2> QED
    BY <2>4
<1>2. ASSUME NEW k \in S PROVE k + 1 \in S
  <2> SUFFICES ASSUME k + 1 <= n - p PROVE \E h : Is(h, k + 1)
    OBVIOUS
  <2>1. k <= n - p
    OBVIOUS
  <2>2. PICK f : Is(f, k)
    BY <2>1
  <2> DEFINE a == n - k
             b == n - (k + 1)
             h == [q \in b..n |-> IF q >= a THEN f[q] ELSE IF stop[q] THEN val[q] ELSE f[next[q]]]
  <2>3. a \in p..n /\ b \in p..n /\ b + 1 = a
    BY <2>1
  <2>4. f = [q \in a..n |-> IF stop[q] THEN val[q] ELSE f[next[q]]]
    BY <2>2
  <2> HIDE DEF a, b
  <2>5. \A q \in a..n : f[q] = IF stop[q] THEN val[q] ELSE f[next[q]]
    BY <2>4
  <2>6. \A q \in a..n : h[q] = f[q]
    BY <2>3
  <2>7. \A q \in b..n : q \in p..n /\ (q >= a \/ q = b) /\ (q >= a => q \in a..n)
    BY <2>3
  <2>8. \A q \in b..n : ~stop[q] => next[q] \in a..n
    <3> TAKE q \in b..n
    <3>1. ~stop[q] => next[q] \in (q + 1)..n
      BY <2>7
    <3> QED
      BY <2>3, <2>7, <3>1
  <2>9. \A q \in b..n : h[q] = IF q >= a THEN f[q] ELSE IF stop[q] THEN val[q] ELSE f[next[q]]
    OBVIOUS
  <2>10. h = [q \in b..n |-> h[q]]
    OBVIOUS
  <2> HIDE DEF h
  <2>11. ASSUME NEW q \in b..n
         PROVE  h[q] = IF stop[q] THEN val[q] ELSE h[next[q]]
    <3>1. ~stop[q] => h[next[q]] = f[next[q]]
      BY <2>6, <2>8
    <3>2. CASE q >= a
      BY <2>5, <2>6, <2>7, <3>1, <3>2
    <3>3. CASE ~(q >= a)
      BY <2>9, <3>1, <3>3
    <3> QED
      BY <3>2, <3>3
  <2>12. h = [q \in b..n |-> IF stop[q] THEN val[q] ELSE h[next[q]]]
    BY <2>10, <2>11
  <2>13. Is(h, k + 1)
    BY <2>12 DEF b
  <2> QED
    BY <2>13
<1> HIDE DEF S
<1>3. n - p \in S
  <2>1. S = Nat
    BY <1>1, <1>2, Induction DEF S
  <2> QED
    BY <2>1
<1>4. PICK f : Is(f, n - p)
  BY <1>3 DEF S
<1>5. n - (n - p) = p
  OBVIOUS
<1> QED
  BY <1>4, <1>5 DEF LooksOn

(* readUntilDelim, on any text, from any place and with a buffer of any size: it
   finds the first CR LF there is, also when the buffer ends between the two,
   and what follows starts right after it. *)
THEOREM UntilDelimIsFirstEnd ==
  ASSUME NEW S, NEW t \in Seq(S), NEW p \in 0..Len(t)
  PROVE  IsFirstEnd(t, p, UntilDelim(t, p))
<1> DEFINE n == Len(t)
           Ends(q, e) == {i \in 1..(n - 1) : /\ i > p /\ i > q - Overlap /\ i < e
                                             /\ t[i] = CR /\ t[i + 1] = LF}
           Scan[q \in p..n] ==
               LET e == ChunkEnd(t, q) IN
               CASE Ends(q, e) # {} -> [line |-> CHOOSE i \in Ends(q, e) : TRUE, next |-> e]
                 [] Ends(q, e) = {} /\ e = n -> NotFound
                 [] OTHER -> Scan[e]
           next == [q \in p..n |-> ChunkEnd(t, q)]
           stop == [q \in p..n |-> Ends(q, next[q]) # {} \/ next[q] = n]
           val  == [q \in p..n |-> IF Ends(q, next[q]) # {}
                                   THEN [line |-> CHOOSE i \in Ends(q, next[q]) : TRUE, next |-> next[q]]
                                   ELSE NotFound]
           G(f) == [q \in p..n |->
                       LET e == ChunkEnd(t, q) IN
                       CASE Ends(q, e) # {} -> [line |-> CHOOSE i \in Ends(q, e) : TRUE, next |-> e]
                         [] Ends(q, e) = {} /\ e = n -> NotFound
                         [] OTHER -> f[e]]
<1>1. UntilDelim(t, p) = Scan[p]
  BY DEF UntilDelim
<1>2. n \in Nat /\ p \in 0..n
  OBVIOUS
<1>3. \A q \in p..n : /\ next[q] \in q..n /\ (next[q] = n \/ next[q] > q)
                      /\ \A i \in (q + 1)..(next[q] - 1) : t[i] # LF
  <2> TAKE q \in p..n
  <2>1. q \in 0..Len(t)
    OBVIOUS
  <2> QED
    BY <2>1, ChunkFacts
<1>4. stop \in [p..n -> BOOLEAN] /\ \A q \in p..n : stop[q] \/ next[q] \in (q + 1)..n
  <2>1. stop \in [p..n -> BOOLEAN]
    OBVIOUS
  <2>2. \A q \in p..n : next[q] = n => stop[q]
    OBVIOUS
  <2> HIDE DEF n, next, stop
  <2> QED
    BY <1>2, <1>3, <2>1, <2>2
<1>5. PICK f : f = [q \in p..n |-> IF stop[q] THEN val[q] ELSE f[next[q]]]
  <2> HIDE DEF n, next, stop, val
  <2>1. \E f : LooksOn(f, n, p, stop, val, next)
    BY <1>2, <1>4, LookingOn
  <2> QED
    BY <2>1 DEF LooksOn
<1>6. f = G(f)
  <2>1. ASSUME NEW q \in p..n
        PROVE  G(f)[q] = IF stop[q] THEN val[q] ELSE f[next[q]]
    <3> DEFINE e == ChunkEnd(t, q)
    <3>1. next[q] = e
      OBVIOUS
    <3>2. stop[q] = (Ends(q, e) # {} \/ e = n)
      BY <3>1
    <3>3. Ends(q, e) # {} => val[q] = [line |-> CHOOSE i \in Ends(q, e) : TRUE, next |-> e]
      BY <3>1
    <3>4. Ends(q, e) = {} => val[q] = NotFound
      BY <3>1
    <3>5. G(f)[q] = CASE Ends(q, e) # {} -> [line |-> CHOOSE i \in Ends(q, e) : TRUE, next |-> e]
                      [] Ends(q, e) = {} /\ e = n -> NotFound
                      [] OTHER -> f[e]
      OBVIOUS
    <3> HIDE DEF n, next, stop, val, e, Ends, G
    <3> QED
      BY <3>1, <3>2, <3>3, <3>4, <3>5
  <2>2. G(f) = [q \in p..n |-> G(f)[q]]
    OBVIOUS
  <2> HIDE DEF n, next, stop, val, Ends, G
  <2>3. G(f) = [q \in p..n |-> IF stop[q] THEN val[q] ELSE f[next[q]]]
    BY <2>1, <2>2
  <2> QED
    BY <1>5, <2>3
<1>7. Scan = G(Scan)
  <2>1. Scan = CHOOSE g : g = G(g)
    OBVIOUS
  <2> HIDE DEF G, Scan
  <2> QED
    BY <1>6, <2>1
<1>8. \A q \in p..n :
         /\ Ends(q, next[q]) # {} =>
               Scan[q] = [line |-> CHOOSE i \in Ends(q, next[q]) : TRUE, next |-> next[q]]
         /\ Ends(q, next[q]) = {} => Scan[q] = IF next[q] = n THEN NotFound ELSE Scan[next[q]]
  <2> TAKE q \in p..n
  <2> DEFINE e == ChunkEnd(t, q)
  <2>1. next[q] = e
    OBVIOUS
  <2>2. G(Scan)[q] = CASE Ends(q, e) # {} -> [line |-> CHOOSE i \in Ends(q, e) : TRUE, next |-> e]
                       [] Ends(q, e) = {} /\ e = n -> NotFound
                       [] OTHER -> Scan[e]
    <3> HIDE DEF Scan
    <3> QED
      OBVIOUS
  <2> HIDE DEF n, next, e, Ends, G, Scan
  <2> QED
    BY <1>7, <2>1, <2>2
<1> HIDE DEF next, stop, val, G, Scan
\* From the place of a chunk on, if no line ended before it.
<1> DEFINE Right(q) == (\A i \in LineEnds(t, p) : i >= q) => IsFirstEnd(t, p, Scan[q])
<1>9. ASSUME NEW q \in p..n, next[q] < n => Right(next[q])
      PROVE  Right(q)
  <2> SUFFICES ASSUME \A i \in LineEnds(t, p) : i >= q
               PROVE  IsFirstEnd(t, p, Scan[q])
    OBVIOUS
  <2> DEFINE e == next[q]
  <2>1. e \in q..n /\ e \in Nat /\ q \in Nat
    BY <1>2, <1>3
  <2>2. Ends(q, e) = {i \in LineEnds(t, p) : i < e}
    <3>1. \A i \in LineEnds(t, p) : i \in Nat /\ i > q - Overlap
      BY <2>1 DEF LineEnds, Overlap
    <3> QED
      BY <3>1 DEF LineEnds
  <2>3. \A i \in LineEnds(t, p) : i < e => i = e - 1
    <3> SUFFICES ASSUME NEW i \in LineEnds(t, p), i < e, i # e - 1 PROVE FALSE
      OBVIOUS
    <3>1. i \in Nat /\ i >= q /\ t[i + 1] = LF
      BY DEF LineEnds
    <3>2. i + 1 \in (q + 1)..(e - 1)
      BY <2>1, <3>1
    <3> QED
      BY <1>3, <3>1, <3>2
  <2> HIDE DEF Ends, e
  <2>4. CASE Ends(q, e) # {}
    <3>1. e - 1 \in LineEnds(t, p) /\ Ends(q, e) = {e - 1}
      BY <2>2, <2>3, <2>4
    <3>2. Scan[q] = [line |-> e - 1, next |-> e]
      BY <1>8, <2>4, <3>1 DEF e
    <3>3. \A i \in LineEnds(t, p) : e - 1 <= i
      BY <2>1, <2>2, <2>3 DEF LineEnds
    <3> QED
      BY <2>1, <3>1, <3>2, <3>3 DEF IsFirstEnd
  <2>5. CASE Ends(q, e) = {} /\ e = n
    <3>1. LineEnds(t, p) = {}
      BY <2>2, <2>5 DEF LineEnds
    <3> QED
      BY <1>8, <2>5, <3>1 DEF IsFirstEnd, e
  <2>6. CASE Ends(q, e) = {} /\ e # n
    <3>0. \A i \in LineEnds(t, p) : i \in Nat
      BY DEF LineEnds
    <3>1. \A i \in LineEnds(t, p) : i >= e
      BY <2>1, <2>2, <2>6, <3>0
    <3>2. e < n
      BY <2>1, <2>6
    <3>3. IsFirstEnd(t, p, Scan[e])
      BY <1>9, <3>1, <3>2 DEF e
    <3> QED
      BY <1>8, <2>6, <3>3 DEF e
  <2> QED
    BY <2>4, <2>5, <2>6
<1> HIDE DEF Right, Ends
<1>10. \A q \in p..n : Right(q)
  <2> DEFINE Q == {k \in Nat : \A q \in p..n : n - q <= k => Right(q)}
  <2>1. 0 \in Q
    <3> SUFFICES ASSUME NEW q \in p..n, n - q <= 0 PROVE Right(q)
      OBVIOUS
    <3>1. ~(next[q] < n)
      BY <1>2, <1>3
    <3> QED
      BY <1>9, <3>1
  <2>2. ASSUME NEW k \in Q PROVE k + 1 \in Q
    <3> SUFFICES ASSUME NEW q \in p..n, n - q <= k + 1 PROVE Right(q)
      OBVIOUS
    <3>1. ASSUME next[q] < n PROVE next[q] \in p..n /\ n - next[q] <= k
      BY <1>2, <1>3, <3>1
    <3>2. next[q] < n => Right(next[q])
      BY <3>1
    <3> QED
      BY <1>9, <3>2
  <2>0. Q \in SUBSET Nat
    OBVIOUS
  <2> HIDE DEF Q
  <2>3. Q = Nat
    BY <2>0, <2>1, <2>2, Induction
  <2>4. ASSUME NEW q \in p..n PROVE Right(q)
    <3>1. n - q \in Nat
      BY <1>2
    <3>2. n - q \in Q
      BY <2>3, <3>1
    <3> QED
      BY <3>1, <3>2 DEF Q
  <2> QED
    BY <2>4
<1>11. \A i \in LineEnds(t, p) : i >= p
  BY DEF LineEnds
<1>12. p \in p..n
  BY <1>2
<1> QED
  BY <1>1, <1>10, <1>11, <1>12 DEF Right

(***************************************************************************)
(* The text of a record in a file.                                         *)
(***************************************************************************)

\* A text, written once.
OneText(r) == IF r.damage = "double" THEN Render(r) ELSE TextOf(r)

\* How much of the text there is, the missing CR counted.
Rest0(r) == CASE r.damage = "torn"  -> Len(Render(r)) - 5
              [] r.damage = "short" -> Len(Render(r)) - 2
              [] OTHER              -> Len(Render(r))

Shift(r) == IF r.damage = "bare" THEN 1 ELSE 0

\* What a damage leaves of it, told by place.
LEMMA OneTextIs ==
  ASSUME NEW r, NEW S, Render(r) \in Seq(S), Len(Render(r)) >= 9,
         r.damage \in Damage \ {"empty", "junk"}
  PROVE  /\ OneText(r) \in Seq(S) /\ Len(OneText(r)) = Rest0(r) - Shift(r)
         /\ \A i \in 3..Rest0(r) : OneText(r)[i - Shift(r)] = Render(r)[i]
         /\ OneText(r)[1] = Render(r)[1]
         /\ r.damage # "bare" => OneText(r)[2] = Render(r)[2]
         /\ Rest0(r) \in Nat /\ Rest0(r) >= 4
<1> DEFINE t == Render(r)
           u == OneText(r)
           d == r.damage
<1>1. t \in Seq(S) /\ Len(t) \in Nat /\ Len(t) >= 9
  OBVIOUS
<1>2. CASE d = "torn"
  <2>1. u = SubSeq(t, 1, Len(t) - 5)
    BY <1>2 DEF OneText, TextOf, MemberOf
  <2>2. u \in Seq(S) /\ Len(u) = Len(t) - 5 /\ \A i \in 1..(Len(t) - 5) : u[i] = t[i]
    BY <1>1, <2>1
  <2>3. Rest0(r) = Len(t) - 5 /\ Shift(r) = 0
    BY <1>2 DEF Rest0, Shift
  <2> HIDE DEF u, t
  <2> QED
    BY <1>1, <2>2, <2>3 DEF u, t
<1>3. CASE d = "short"
  <2>1. u = SubSeq(t, 1, Len(t) - 2)
    BY <1>3 DEF OneText, TextOf, MemberOf
  <2>2. u \in Seq(S) /\ Len(u) = Len(t) - 2 /\ \A i \in 1..(Len(t) - 2) : u[i] = t[i]
    BY <1>1, <2>1
  <2>3. Rest0(r) = Len(t) - 2 /\ Shift(r) = 0
    BY <1>3 DEF Rest0, Shift
  <2> HIDE DEF u, t
  <2> QED
    BY <1>1, <2>2, <2>3 DEF u, t
<1>4. CASE d = "bare"
  <2> DEFINE v == SubSeq(t, 3, Len(t))
             w == <<t[1]>>
  <2>1. u = w \o v
    BY <1>4 DEF OneText, TextOf, MemberOf
  <2>2. v \in Seq(S) /\ Len(v) = Len(t) - 2 /\ \A i \in 1..(Len(t) - 2) : v[i] = t[i + 2]
    BY <1>1
  <2>3. w \in Seq(S) /\ Len(w) = 1 /\ w[1] = t[1]
    BY <1>1
  <2>4. Rest0(r) = Len(t) /\ Shift(r) = 1
    BY <1>4 DEF Rest0, Shift
  <2> HIDE DEF u, t, v, w
  <2>5. /\ w \o v \in Seq(S) /\ Len(w \o v) = Len(w) + Len(v)
        /\ \A i \in 1..Len(w) : (w \o v)[i] = w[i]
        /\ \A i \in 1..Len(v) : (w \o v)[Len(w) + i] = v[i]
    <3>1. w \in Seq(S) /\ v \in Seq(S)
      BY <2>2, <2>3
    <3> QED
      BY <3>1, Joined
  <2>6. u \in Seq(S) /\ Len(u) = Len(t) - 1 /\ u[1] = t[1] /\ \A i \in 1..(Len(t) - 2) : u[1 + i] = v[i]
    <3>1. 1 \in 1..1
      OBVIOUS
    <3> QED
      BY <1>1, <2>1, <2>2, <2>3, <2>5, <3>1
  <2>7. \A i \in 3..Len(t) : u[i - 1] = t[i]
    <3> TAKE i \in 3..Len(t)
    <3>1. i - 2 \in 1..(Len(t) - 2) /\ 1 + (i - 2) = i - 1 /\ (i - 2) + 2 = i
      BY <1>1
    <3> QED
      BY <2>2, <2>6, <3>1
  <2> QED
    BY <1>1, <1>4, <2>4, <2>6, <2>7 DEF u, t
<1>5. CASE d \in {"none", "crc", "double"}
  <2>1. u = t
    BY <1>5 DEF OneText, TextOf, MemberOf
  <2>2. Rest0(r) = Len(t) /\ Shift(r) = 0
    BY <1>5 DEF Rest0, Shift
  <2> HIDE DEF t, u
  <2> QED
    BY <1>1, <2>1, <2>2 DEF t, u
<1> QED
  BY <1>2, <1>3, <1>4, <1>5 DEF Damage

\* The places of a record that begins after p.  One with a boundary missing, or
\* more, has none where its content should end.
Stands(t, p, r) ==
    LET L == LinesOf(r)  b == Origin(r, p)  h == HeaderEnd(r, p)  n == Len(r.content) IN
    /\ t[p + 1] = Sym(r.version)
    /\ IF r.damage = "bare" THEN t[p + 2] = LF ELSE t[p + 2] = CR /\ t[p + 3] = LF
    /\ \A i \in 2..Len(L) : t[b + 3 * i - 2] = L[i] /\ t[b + 3 * i - 1] = CR /\ t[b + 3 * i] = LF
    /\ t[h - 1] = CR
    /\ \/ r.damage = "torn" /\ Len(t) = h - 1
       \/ h <= Len(t) /\ t[h] = LF
    /\ r.damage \in {"torn", "short"} => ~IsBoundary(t, h + n)
    /\ r.damage \in {"none", "bare", "double", "crc"} =>
           IsBoundary(t, h + n) /\ \A i \in 1..n : t[h + i] = Sym(r.content[i])

\* The text of a record is there, and what follows it does not complete it.
Agrees(t, p, r) ==
    LET u == OneText(r)  e == p + Len(u) IN
    /\ e <= Len(t) /\ \A i \in 1..Len(u) : t[p + i] = u[i]
    /\ r.damage = "short" => e = Len(t) \/ t[e + 1] # CR
    /\ r.damage = "torn" => \/ e = Len(t)
                            \/ r.content # <<>> /\ ~(t[e + 2] = CR /\ t[e + 4] = CR)

\* What agrees with the text of a record, and ends as it does, stands for it.
LEMMA AgreesStands ==
  ASSUME NEW r, IsRecord(r), r.damage \notin {"empty", "junk"}, NEW t, Len(t) \in Nat, NEW p \in Nat,
         Agrees(t, p, r)
  PROVE  Stands(t, p, r)
<1>1. PICK S : IsText(S, Render(r), LinesOf(r), r.content) /\ LinesAre(S, r)
  BY RenderIs
<1> DEFINE R == Render(r)
           u == OneText(r)
           L == LinesOf(r)
           l == Len(L)
           n == Len(r.content)
           h == 3 * l + 2
           c == Rest0(r)
           s == Shift(r)
           b == Origin(r, p)
           d == r.damage
           e == p + Len(u)
<1>2. /\ R \in Seq(S) /\ L \in Seq(S) /\ l \in Nat /\ l >= 2 /\ Len(R) = h + n + 4
      /\ \A i \in 1..l : R[3 * i - 2] = L[i] /\ R[3 * i - 1] = CR /\ R[3 * i] = LF
      /\ R[h - 1] = CR /\ R[h] = LF
      /\ \A i \in 1..n : R[h + i] = Sym(r.content[i])
      /\ R[h + n + 1] = CR /\ R[h + n + 2] = LF /\ R[h + n + 3] = CR /\ R[h + n + 4] = LF
      /\ L[1] = Sym(r.version)
  <2>1. IsText(S, R, L, r.content) /\ LinesAre(S, r)
    BY <1>1
  <2>2. l >= 2 /\ L[1] = Sym(r.version) /\ L \in Seq(S)
    BY <2>1 DEF LinesAre, AreLines
  <2> HIDE DEF R, L
  <2>3. /\ R \in Seq(S) /\ L \in Seq(S) /\ Len(R) = h + n + 4
        /\ \A i \in 1..l : R[3 * i - 2] = L[i] /\ R[3 * i - 1] = CR /\ R[3 * i] = LF
    BY <2>1 DEF IsText
  <2>4. /\ R[h - 1] = CR /\ R[h] = LF
        /\ R[h + n + 1] = CR /\ R[h + n + 2] = LF /\ R[h + n + 3] = CR /\ R[h + n + 4] = LF
    BY <2>1 DEF IsText
  <2>5. \A i \in 1..n : R[h + i] = Sym(r.content[i])
    BY <2>1 DEF IsText
  <2>6. l \in Nat
    BY <2>3
  <2> HIDE DEF l, h, n
  <2> QED
    BY <2>2, <2>3, <2>4, <2>5, <2>6 DEF l
<1>3. n \in Nat /\ (n = 0 => r.content = <<>>) /\ (r.content = <<>> => n = 0) /\ d \in Damage
  BY DEF IsRecord
<1> HIDE DEF R, u, L, n
<1>4. h \in Nat /\ h >= 8 /\ Len(R) \in Nat /\ Len(R) >= 12
  <2>1. l \in Nat /\ l >= 2 /\ Len(R) = h + n + 4 /\ n \in Nat
    BY <1>2, <1>3
  <2> HIDE DEF l
  <2> QED
    BY <2>1
<1>5. /\ u \in Seq(S) /\ Len(u) = c - s
      /\ \A i \in 3..c : u[i - s] = R[i]
      /\ u[1] = R[1]
      /\ d # "bare" => u[2] = R[2]
      /\ c \in Nat /\ c >= 4
  <2>1. r.damage \in Damage \ {"empty", "junk"}
    BY <1>3
  <2>2. Render(r) \in Seq(S) /\ Len(Render(r)) >= 9
    BY <1>2, <1>4 DEF R
  <2>3. /\ OneText(r) \in Seq(S) /\ Len(OneText(r)) = Rest0(r) - Shift(r)
        /\ \A i \in 3..Rest0(r) : OneText(r)[i - Shift(r)] = Render(r)[i]
        /\ OneText(r)[1] = Render(r)[1]
        /\ r.damage # "bare" => OneText(r)[2] = Render(r)[2]
        /\ Rest0(r) \in Nat /\ Rest0(r) >= 4
    BY <2>1, <2>2, OneTextIs
  <2> QED
    BY <2>3 DEF R, u
<1>6. /\ s \in {0, 1} /\ b = p - s /\ (d = "bare" <=> s = 1)
      /\ HeaderEnd(r, p) = b + h
  BY DEF Shift, Origin, HeaderEnd, L
<1>7. c = CASE d = "torn" -> h + n - 1 [] d = "short" -> h + n + 2 [] OTHER -> h + n + 4
  BY <1>2, <1>3, <1>4 DEF Rest0, R
<1>8. /\ e <= Len(t) /\ \A i \in 1..Len(u) : t[p + i] = u[i]
      /\ d = "short" => e = Len(t) \/ t[e + 1] # CR
      /\ d = "torn" => e = Len(t) \/ (r.content # <<>> /\ ~(t[e + 2] = CR /\ t[e + 4] = CR))
  BY DEF Agrees, u
<1> HIDE DEF l, h, c, s, b, d
<1>a. Len(u) = c - s /\ c \in Nat /\ c >= 4 /\ s \in {0, 1} /\ b = p - s /\ Len(u) \in Nat
  BY <1>5, <1>6
<1>9. e = b + c /\ b \in Int
  BY <1>a
<1>10. \A i \in 3..c : t[b + i] = R[i]
  <2> TAKE i \in 3..c
  <2>1. i - s \in 1..Len(u) /\ p + (i - s) = b + i
    BY <1>a
  <2>2. t[p + (i - s)] = u[i - s] /\ u[i - s] = R[i]
    BY <1>5, <1>8, <2>1
  <2> QED
    BY <2>1, <2>2
<1>11. t[p + 1] = Sym(r.version)
  <2>1. 1 \in 1..Len(u) /\ 1 \in 1..l /\ 3 * 1 - 2 = 1
    BY <1>2, <1>5, <1>6
  <2> QED
    BY <1>2, <1>5, <1>8, <2>1
<1>12. t[b + 3] = LF
  <2>1. 3 \in 3..c /\ 1 \in 1..l /\ 3 * 1 = 3
    BY <1>2, <1>5
  <2> QED
    BY <1>2, <1>10, <2>1
<1>13. IF d = "bare" THEN t[p + 2] = LF ELSE t[p + 2] = CR /\ t[p + 3] = LF
  <2>1. CASE d = "bare"
    <3>1. b + 3 = p + 2
      BY <1>6, <2>1
    <3> QED
      BY <1>12, <2>1, <3>1
  <2>2. CASE d # "bare"
    <3>1. b + 3 = p + 3 /\ 2 \in 1..Len(u) /\ 1 \in 1..l /\ 3 * 1 - 1 = 2
      BY <1>2, <1>5, <1>6, <2>2
    <3> QED
      BY <1>2, <1>5, <1>8, <1>12, <2>2, <3>1
  <2> QED
    BY <2>1, <2>2
<1>14. c >= h - 1 /\ (c >= h \/ (d = "torn" /\ n = 0 /\ c = h - 1))
  BY <1>3, <1>4, <1>7
<1>15. \A i \in 2..l : t[b + 3 * i - 2] = L[i] /\ t[b + 3 * i - 1] = CR /\ t[b + 3 * i] = LF
  <2> TAKE i \in 2..l
  <2>1. i \in 1..l /\ 3 * i - 2 \in 3..c /\ 3 * i - 1 \in 3..c /\ 3 * i \in 3..c
    BY <1>2, <1>5, <1>14 DEF h
  <2>2. b + (3 * i - 2) = b + 3 * i - 2 /\ b + (3 * i - 1) = b + 3 * i - 1
    BY <1>2, <1>9
  <2> QED
    BY <1>2, <1>10, <2>1, <2>2
<1>16. t[b + h - 1] = CR
  <2>1. h - 1 \in 3..c /\ b + (h - 1) = b + h - 1
    BY <1>4, <1>5, <1>9, <1>14
  <2> QED
    BY <1>2, <1>10, <2>1
<1>17. (d = "torn" /\ Len(t) = b + h - 1) \/ (b + h <= Len(t) /\ t[b + h] = LF)
  <2>1. CASE c >= h
    <3>1. h \in 3..c /\ b + h <= Len(t)
      BY <1>4, <1>5, <1>8, <1>9, <2>1
    <3> QED
      BY <1>2, <1>10, <3>1
  <2>2. CASE d = "torn" /\ n = 0 /\ c = h - 1
    <3>1. e = Len(t)
      BY <1>3, <1>8, <2>2
    <3> QED
      BY <1>9, <2>2, <3>1, <1>4
  <2> QED
    BY <1>14, <2>1, <2>2
<1>18. d \in {"torn", "short"} => ~IsBoundary(t, b + h + n)
  <2>1. CASE d = "torn"
    <3>1. e = b + h + n - 1
      BY <1>3, <1>4, <1>7, <1>9, <2>1
    <3>2. e = Len(t) => ~(b + h + n + 4 <= Len(t))
      BY <1>3, <1>4, <1>9, <3>1
    <3>3. e + 2 = b + h + n + 1 /\ e + 4 = b + h + n + 3
      BY <1>3, <1>4, <1>9, <3>1
    <3> HIDE DEF e
    <3> QED
      BY <1>8, <2>1, <3>2, <3>3 DEF IsBoundary
  <2>2. CASE d = "short"
    <3>1. e = b + h + n + 2
      BY <1>3, <1>4, <1>7, <1>9, <2>2
    <3>2. e = Len(t) => ~(b + h + n + 4 <= Len(t))
      BY <1>3, <1>4, <1>9, <3>1
    <3>3. e + 1 = b + h + n + 3
      BY <1>3, <1>4, <1>9, <3>1
    <3> HIDE DEF e
    <3> QED
      BY <1>8, <2>2, <3>2, <3>3 DEF IsBoundary
  <2> QED
    BY <2>1, <2>2
<1>19. d \in {"none", "bare", "double", "crc"} =>
           IsBoundary(t, b + h + n) /\ \A i \in 1..n : t[b + h + i] = Sym(r.content[i])
  <2> SUFFICES ASSUME d \in {"none", "bare", "double", "crc"}
               PROVE  IsBoundary(t, b + h + n) /\ \A i \in 1..n : t[b + h + i] = Sym(r.content[i])
    OBVIOUS
  <2>1. c = h + n + 4
    BY <1>7
  <2>2. \A j \in 1..(n + 4) : t[b + h + j] = R[h + j]
    <3> TAKE j \in 1..(n + 4)
    <3>1. h + j \in 3..c /\ b + (h + j) = b + h + j
      BY <1>3, <1>4, <1>9, <2>1
    <3> QED
      BY <1>10, <3>1
  <2>3. \A i \in 1..n : t[b + h + i] = Sym(r.content[i])
    <3> TAKE i \in 1..n
    <3>1. i \in 1..(n + 4)
      BY <1>3
    <3> QED
      BY <1>2, <2>2, <3>1
  <2>4. /\ t[b + h + n + 1] = CR /\ t[b + h + n + 2] = LF
        /\ t[b + h + n + 3] = CR /\ t[b + h + n + 4] = LF
    <3>1. /\ n + 1 \in 1..(n + 4) /\ n + 2 \in 1..(n + 4) /\ n + 3 \in 1..(n + 4) /\ n + 4 \in 1..(n + 4)
          /\ b + h + (n + 1) = b + h + n + 1 /\ b + h + (n + 2) = b + h + n + 2
          /\ b + h + (n + 3) = b + h + n + 3 /\ b + h + (n + 4) = b + h + n + 4
          /\ h + (n + 1) = h + n + 1 /\ h + (n + 2) = h + n + 2
          /\ h + (n + 3) = h + n + 3 /\ h + (n + 4) = h + n + 4
      BY <1>3, <1>4, <1>9
    <3> QED
      BY <1>2, <2>2, <3>1
  <2>5. b + h + n + 4 <= Len(t)
    BY <1>3, <1>4, <1>8, <1>9, <2>1
  <2> QED
    BY <2>3, <2>4, <2>5 DEF IsBoundary
<1> DEFINE H == HeaderEnd(r, p)
<1>20. H = b + h
  BY <1>6
<1> HIDE DEF H
<1>21. /\ t[H - 1] = CR
       /\ (d = "torn" /\ Len(t) = H - 1) \/ (H <= Len(t) /\ t[H] = LF)
       /\ d \in {"torn", "short"} => ~IsBoundary(t, H + n)
       /\ d \in {"none", "bare", "double", "crc"} =>
              IsBoundary(t, H + n) /\ \A i \in 1..n : t[H + i] = Sym(r.content[i])
  <2>1. t[H - 1] = CR
    BY <1>4, <1>9, <1>16, <1>20
  <2>2. (d = "torn" /\ Len(t) = H - 1) \/ (H <= Len(t) /\ t[H] = LF)
    BY <1>4, <1>9, <1>17, <1>20
  <2>3. d \in {"torn", "short"} => ~IsBoundary(t, H + n)
    BY <1>18, <1>20
  <2>4. d \in {"none", "bare", "double", "crc"} =>
            IsBoundary(t, H + n) /\ \A i \in 1..n : t[H + i] = Sym(r.content[i])
    BY <1>19, <1>20
  <2> QED
    BY <2>1, <2>2, <2>3, <2>4
<1>22. \A i \in 2..Len(LinesOf(r)) :
           /\ t[Origin(r, p) + 3 * i - 2] = LinesOf(r)[i]
           /\ t[Origin(r, p) + 3 * i - 1] = CR /\ t[Origin(r, p) + 3 * i] = LF
  BY <1>15 DEF L, l, b
<1>23. IF r.damage = "bare" THEN t[p + 2] = LF ELSE t[p + 2] = CR /\ t[p + 3] = LF
  BY <1>13 DEF d
<1>24. /\ t[HeaderEnd(r, p) - 1] = CR
       /\ (r.damage = "torn" /\ Len(t) = HeaderEnd(r, p) - 1) \/ (HeaderEnd(r, p) <= Len(t) /\ t[HeaderEnd(r, p)] = LF)
       /\ r.damage \in {"torn", "short"} => ~IsBoundary(t, HeaderEnd(r, p) + Len(r.content))
       /\ r.damage \in {"none", "bare", "double", "crc"} =>
              /\ IsBoundary(t, HeaderEnd(r, p) + Len(r.content))
              /\ \A i \in 1..Len(r.content) : t[HeaderEnd(r, p) + i] = Sym(r.content[i])
  BY <1>21 DEF d, H, n
<1> QED
  BY <1>11, <1>22, <1>23, <1>24 DEF Stands

\* Begin is what its definition says.
LEMMA BeginIs ==
  ASSUME NEW f
  PROVE  /\ Begin(f)[1] = 0
         /\ \A k \in Nat : k > 0 => Begin(f)[k + 1] = Begin(f)[k] + Len(TextOf(f.records[k]))
<1> DEFINE s == [k \in Nat |-> Len(TextOf(f.records[k]))]
           B == Begin(f)
<1>1. PICK g : g = [k \in Nat |-> IF k <= 1 THEN 0 ELSE g[k - 1] + s[k - 1]]
  BY SumsOverall
<1>2. \E h : h = [k \in Nat |-> IF k <= 1 THEN 0 ELSE h[k - 1] + Len(TextOf(f.records[k - 1]))]
  <2>1. ASSUME NEW k \in Nat
        PROVE  (IF k <= 1 THEN 0 ELSE g[k - 1] + s[k - 1])
               = (IF k <= 1 THEN 0 ELSE g[k - 1] + Len(TextOf(f.records[k - 1])))
    <3>1. CASE k <= 1
      BY <3>1
    <3>2. CASE k > 1
      <4>1. k - 1 \in Nat
        BY <3>2
      <4>2. s[k - 1] = Len(TextOf(f.records[k - 1]))
        BY <4>1
      <4> QED
        BY <4>2
    <3> QED
      BY <3>1, <3>2
  <2> QED
    BY <1>1, <2>1
<1>3. B = [k \in Nat |-> IF k <= 1 THEN 0 ELSE B[k - 1] + Len(TextOf(f.records[k - 1]))]
  BY <1>2 DEF Begin
<1> HIDE DEF B
<1>4. \A k \in Nat : B[k] = IF k <= 1 THEN 0 ELSE B[k - 1] + Len(TextOf(f.records[k - 1]))
  BY <1>3
<1>5. B[1] = 0
  BY <1>4
<1>6. ASSUME NEW k \in Nat, k > 0
      PROVE  B[k + 1] = B[k] + Len(TextOf(f.records[k]))
  <2>1. k + 1 \in Nat /\ ~(k + 1 <= 1) /\ (k + 1) - 1 = k
    BY <1>6
  <2> QED
    BY <1>4, <2>1
<1> QED
  BY <1>5, <1>6 DEF B

\* A file with records, each of which is one.
LEMMA FileIs ==
  ASSUME NEW f \in Files, f.format # "short"
  PROVE  /\ IsGzipFile(f) \/ IsStream(f)
         /\ Len(f.records) \in Nat /\ DOMAIN f.records = 1..Len(f.records)
         /\ \A k \in DOMAIN f.records : IsRecord(f.records[k])
<1>1. /\ IsGzipFile(f) \/ IsStream(f)
      /\ f.records \in Seq({f.records[k] : k \in DOMAIN f.records})
      /\ \A k \in DOMAIN f.records : IsRecord(f.records[k])
  BY FilesAssumption
<1> QED
  BY <1>1

LEMMA RenderLength ==
  ASSUME NEW r, IsRecord(r)
  PROVE  \E S : /\ Render(r) \in Seq(S) /\ Len(Render(r)) \in Nat /\ Len(Render(r)) >= 12
                /\ Len(Render(r)) = 3 * Len(LinesOf(r)) + Len(r.content) + 6
                /\ Len(r.content) \in Nat /\ Len(LinesOf(r)) \in Nat /\ Len(LinesOf(r)) >= 2
                /\ Render(r)[1] = Sym(r.version) /\ Render(r)[4] = LinesOf(r)[2] /\ Render(r)[3] = LF
<1>1. PICK S : IsText(S, Render(r), LinesOf(r), r.content) /\ LinesAre(S, r)
  BY RenderIs
<1> DEFINE R == Render(r)
           L == LinesOf(r)
           l == Len(L)
           n == Len(r.content)
<1>2. l >= 2 /\ L[1] = Sym(r.version) /\ L \in Seq(S)
  BY <1>1 DEF LinesAre, AreLines
<1>3. /\ R \in Seq(S) /\ Len(R) = 3 * l + 2 + n + 4
      /\ \A i \in 1..l : R[3 * i - 2] = L[i] /\ R[3 * i - 1] = CR /\ R[3 * i] = LF
  BY <1>1 DEF IsText
<1>4. n \in Nat /\ l \in Nat
  BY <1>2 DEF IsRecord
<1> HIDE DEF R, L, l, n
<1>5. 1 \in 1..l /\ 2 \in 1..l /\ 3 * 1 - 2 = 1 /\ 3 * 1 = 3 /\ 3 * 2 - 2 = 4
  BY <1>2, <1>4 DEF l
<1>6. R[1] = L[1] /\ R[4] = L[2] /\ R[3] = LF
  BY <1>3, <1>5
<1>7. Len(R) = 3 * l + n + 6 /\ Len(R) >= 12 /\ Len(R) \in Nat
  BY <1>2, <1>3, <1>4 DEF l
<1> QED
  BY <1>2, <1>3, <1>4, <1>6, <1>7 DEF R, L, l, n

\* How the text of a record begins: no boundary does so.
LEMMA TextBegins ==
  ASSUME NEW r, IsRecord(r), r.damage \notin {"empty", "junk"}
  PROVE  /\ \E S : TextOf(r) \in Seq(S) /\ OneText(r) \in Seq(S)
         /\ Len(TextOf(r)) = IF r.damage = "double" THEN 2 * Len(OneText(r)) ELSE Len(OneText(r))
         /\ \A i \in 1..Len(OneText(r)) : TextOf(r)[i] = OneText(r)[i]
         /\ r.damage = "double" => \A i \in 1..Len(OneText(r)) : TextOf(r)[Len(OneText(r)) + i] = OneText(r)[i]
         /\ Len(OneText(r)) \in Nat /\ Len(OneText(r)) >= 4
         /\ OneText(r)[1] # CR /\ ~(OneText(r)[2] = CR /\ OneText(r)[4] = CR)
<1>1. PICK S : /\ Render(r) \in Seq(S) /\ Len(Render(r)) \in Nat /\ Len(Render(r)) >= 12
               /\ Len(Render(r)) = 3 * Len(LinesOf(r)) + Len(r.content) + 6
               /\ Len(r.content) \in Nat /\ Len(LinesOf(r)) \in Nat /\ Len(LinesOf(r)) >= 2
               /\ Render(r)[1] = Sym(r.version) /\ Render(r)[4] = LinesOf(r)[2] /\ Render(r)[3] = LF
  BY RenderLength
<1> DEFINE R == Render(r)
           u == OneText(r)
           v == TextOf(r)
           c == Rest0(r)
           s == Shift(r)
<1>2. r.damage \in Damage \ {"empty", "junk"}
  BY DEF IsRecord
<1>3. /\ u \in Seq(S) /\ Len(u) = c - s
      /\ \A i \in 3..c : u[i - s] = R[i]
      /\ u[1] = R[1] /\ c \in Nat /\ c >= 4
  <2>1. R \in Seq(S) /\ Len(R) >= 9
    <3>1. R \in Seq(S) /\ Len(R) \in Nat /\ Len(R) >= 12
      BY <1>1
    <3> HIDE DEF R
    <3> QED
      BY <3>1
  <2> QED
    BY <1>2, <2>1, OneTextIs
<1>4. c >= 7 /\ c \in Nat
  <2>1. Len(R) \in Nat /\ Len(R) >= 12
    BY <1>1
  <2>2. c = CASE r.damage = "torn" -> Len(R) - 5 [] r.damage = "short" -> Len(R) - 2 [] OTHER -> Len(R)
    BY DEF Rest0
  <2> HIDE DEF R, c
  <2> QED
    BY <2>1, <2>2
<1>5. LinesOf(r)[2] # CR
  <2>1. PICK S1 : LinesAre(S1, r)
    BY RenderIs
  <2>2. LinesOf(r)[2] = r[r.first]
    BY <2>1 DEF LinesAre
  <2> QED
    BY <2>2, RecordIsNamed
<1>6. u[1] # CR
  BY <1>1, <1>3, Symbols DEF IsRecord
<1>7. ~(u[2] = CR /\ u[4] = CR)
  <2>1. CASE r.damage = "bare"
    <3>0. 3 \in 3..c /\ 3 - 1 = 2
      <4> HIDE DEF c
      <4> QED
        BY <1>4
    <3>1. s = 1 /\ 3 \in 3..c /\ 3 - 1 = 2
      BY <2>1, <3>0 DEF Shift
    <3>2. u[2] = LF
      BY <1>1, <1>3, <3>1
    <3> QED
      BY <3>2, Symbols
  <2>2. CASE r.damage # "bare"
    <3>0. 4 \in 3..c /\ 4 - 0 = 4
      <4> HIDE DEF c
      <4> QED
        BY <1>4
    <3>1. s = 0 /\ 4 \in 3..c /\ 4 - 0 = 4
      BY <2>2, <3>0 DEF Shift
    <3>2. u[4] = LinesOf(r)[2]
      BY <1>1, <1>3, <3>1
    <3> QED
      BY <1>5, <3>2
  <2> QED
    BY <2>1, <2>2
<1>8. Len(u) \in Nat /\ Len(u) >= 4
  <2>1. s \in {0, 1}
    BY DEF Shift
  <2> HIDE DEF u, c, s
  <2> QED
    BY <1>3, <1>4, <2>1
<1>9. CASE r.damage = "double"
  <2>1. u = R /\ v = R \o R
    BY <1>9 DEF OneText, TextOf, MemberOf
  <2>2. R \in Seq(S)
    BY <1>1
  <2> HIDE DEF R, u, v
  <2>3. /\ R \o R \in Seq(S) /\ Len(R \o R) = Len(R) + Len(R)
        /\ \A i \in 1..Len(R) : (R \o R)[i] = R[i]
        /\ \A i \in 1..Len(R) : (R \o R)[Len(R) + i] = R[i]
    BY <2>2, Joined
  <2>4. Len(v) = 2 * Len(u)
    BY <1>8, <2>1, <2>3
  <2> QED
    BY <1>3, <1>6, <1>7, <1>8, <1>9, <2>1, <2>2, <2>3, <2>4 DEF u, v
<1>10. CASE r.damage # "double"
  <2>1. u = v
    BY <1>10 DEF OneText
  <2> HIDE DEF u, v
  <2> QED
    BY <1>3, <1>6, <1>7, <1>8, <1>10, <2>1 DEF u, v
<1> QED
  BY <1>9, <1>10

\* A record stands at the start of its own text.
LEMMA OwnText ==
  ASSUME NEW r, IsRecord(r), r.damage \notin {"empty", "junk"}
  PROVE  /\ \E S : TextOf(r) \in Seq(S)
         /\ Len(TextOf(r)) \in Nat /\ Stands(TextOf(r), 0, r)
<1> DEFINE t == TextOf(r)
           u == OneText(r)
<1>1. /\ \E S : t \in Seq(S) /\ u \in Seq(S)
      /\ Len(t) = IF r.damage = "double" THEN 2 * Len(u) ELSE Len(u)
      /\ \A i \in 1..Len(u) : t[i] = u[i]
      /\ Len(u) \in Nat /\ Len(u) >= 4
  BY TextBegins
<1> HIDE DEF t, u
<1>2. Agrees(t, 0, r)
  <2>1. Len(u) <= Len(t) /\ (r.damage # "double" => Len(u) = Len(t))
    BY <1>1
  <2>2. 0 + Len(u) = Len(u) /\ \A i \in 1..Len(u) : t[0 + i] = u[i]
    BY <1>1
  <2> QED
    BY <2>1, <2>2 DEF Agrees, u
<1>3. Len(t) \in Nat
  BY <1>1
<1>4. Stands(t, 0, r)
  <2>1. 0 \in Nat
    OBVIOUS
  <2> QED
    BY <1>2, <1>3, <2>1, AgreesStands
<1> QED
  BY <1>1, <1>3, <1>4 DEF t

\* In a gzip file a record stands at the start of its member.
LEMMA InMember ==
  ASSUME NEW f \in Files, f.format = "gzip", NEW k \in DOMAIN f.records,
         f.records[k].damage \notin {"empty", "junk"}
  PROVE  /\ f.members[k].text = TextOf(f.records[k])
         /\ \E S : f.members[k].text \in Seq(S)
         /\ Stands(f.members[k].text, 0, f.records[k])
<1>1. IsRecord(f.records[k]) /\ IsGzipFile(f)
  BY FileIs DEF IsStream
<1>2. f.members[k].text = TextOf(f.records[k])
  BY <1>1 DEF IsGzipFile, TextOf
<1> QED
  BY <1>1, <1>2, OwnText

\* What begins later ends later.
LEMMA BeginGrows ==
  ASSUME NEW f \in Files, IsStream(f), NEW k \in DOMAIN f.records
  PROVE  /\ Begin(f)[k] \in Nat /\ Begin(f)[k + 1] \in Nat
         /\ Begin(f)[k + 1] = Begin(f)[k] + Len(TextOf(f.records[k]))
         /\ Begin(f)[k + 1] <= Len(StreamOf(f))
         /\ k = Len(f.records) => Begin(f)[k + 1] = Len(StreamOf(f))
<1> DEFINE B == Begin(f)
           N == Len(f.records)
           S == {j \in Nat : j <= N => B[j + 1] \in Nat}
           P == {j \in Nat : (k + 1) + j <= N + 1 => B[k + 1] <= B[(k + 1) + j]}
<1>1. /\ N \in Nat /\ DOMAIN f.records = 1..N
      /\ \A j \in DOMAIN f.records : IsRecord(f.records[j])
  BY FileIs DEF IsStream
<1>2. B[1] = 0 /\ \A j \in Nat : j > 0 => B[j + 1] = B[j] + Len(TextOf(f.records[j]))
  BY BeginIs
<1>3. \A j \in 1..N : Len(TextOf(f.records[j])) \in Nat
  <2> TAKE j \in 1..N
  <2>1. IsRecord(f.records[j]) /\ f.records[j].damage \notin {"empty", "junk"}
    BY <1>1 DEF IsStream
  <2>2. \E S1 : TextOf(f.records[j]) \in Seq(S1)
    BY <2>1, TextBegins
  <2> QED
    BY <2>2
<1> HIDE DEF B, N
<1>4. S = Nat
  <2>1. 0 \in S
    <3>1. 0 + 1 = 1 /\ 0 \in Nat
      OBVIOUS
    <3> QED
      BY <1>2, <3>1
  <2>2. ASSUME NEW j \in S PROVE j + 1 \in S
    <3>1. CASE j + 1 <= N
      <4>1. j + 1 \in 1..N /\ j <= N /\ j + 1 > 0 /\ j + 1 \in Nat
        BY <1>1, <3>1
      <4>2. B[j + 1] \in Nat /\ B[(j + 1) + 1] = B[j + 1] + Len(TextOf(f.records[j + 1]))
        BY <1>2, <4>1
      <4> QED
        BY <1>3, <4>1, <4>2
    <3>2. CASE ~(j + 1 <= N)
      BY <3>2
    <3> QED
      BY <3>1, <3>2
  <2> HIDE DEF S
  <2> QED
    BY <2>1, <2>2, Induction DEF S
<1>5. \A j \in 1..(N + 1) : B[j] \in Nat
  <2> TAKE j \in 1..(N + 1)
  <2>1. j - 1 \in Nat /\ j - 1 <= N /\ (j - 1) + 1 = j
    BY <1>1
  <2>2. j - 1 \in S
    BY <1>4, <2>1
  <2> DEFINE i == j - 1
  <2> HIDE DEF i
  <2>3. i \in S /\ i <= N /\ i + 1 = j
    BY <2>1, <2>2 DEF i
  <2>4. B[i + 1] \in Nat
    BY <2>3
  <2> QED
    BY <2>3, <2>4
<1>6. k \in 1..N
  BY <1>1
<1>7. P = Nat
  <2>1. 0 \in P
    <3>1. (k + 1) + 0 = k + 1 /\ k + 1 \in 1..(N + 1)
      BY <1>1, <1>6
    <3>2. B[k + 1] \in Nat
      BY <1>5, <3>1
    <3> QED
      BY <3>1, <3>2
  <2>2. ASSUME NEW j \in P PROVE j + 1 \in P
    <3>1. CASE (k + 1) + (j + 1) <= N + 1
      <4> DEFINE m == (k + 1) + j
      <4>1. m \in 1..N /\ m + 1 = (k + 1) + (j + 1) /\ m <= N + 1 /\ m > 0 /\ m \in Nat /\ m \in 1..(N + 1)
        BY <1>1, <1>6, <3>1
      <4>2. B[k + 1] <= B[m] /\ B[m + 1] = B[m] + Len(TextOf(f.records[m]))
        BY <1>2, <4>1
      <4>3. B[m] \in Nat /\ B[k + 1] \in Nat /\ Len(TextOf(f.records[m])) \in Nat
        <5>1. k + 1 \in 1..(N + 1)
          BY <1>1, <1>6
        <5> QED
          BY <1>3, <1>5, <4>1, <5>1
      <4> HIDE DEF m
      <4>4. B[k + 1] <= B[(k + 1) + (j + 1)]
        BY <4>1, <4>2, <4>3
      <4> QED
        BY <4>4
    <3>2. CASE ~((k + 1) + (j + 1) <= N + 1)
      BY <3>2
    <3> QED
      BY <3>1, <3>2
  <2> HIDE DEF P
  <2> QED
    BY <2>1, <2>2, Induction DEF P
<1>8. B[k + 1] <= B[N + 1]
  <2>1. N - k \in P /\ (k + 1) + (N - k) = N + 1
    BY <1>1, <1>6, <1>7
  <2> QED
    BY <1>1, <2>1
<1>9. Len(StreamOf(f)) = B[N + 1]
  BY DEF IsStream, B, N
<1>10. k > 0 /\ k \in Nat /\ k \in 1..(N + 1) /\ k + 1 \in 1..(N + 1)
  BY <1>1, <1>6
<1> QED
  BY <1>2, <1>5, <1>8, <1>9, <1>10 DEF B, N

\* Where a stream goes on after a record: with the record again, with the next
\* one, or not at all.
GoesOn(f, k, p) ==
    LET e == p + Len(OneText(f.records[k])) IN
    \/ e \in Places(f, k)
    \/ k + 1 \in DOMAIN f.records /\ e \in Places(f, k + 1)
    \/ k = Len(f.records) /\ e = Len(StreamOf(f))

\* Where a record of a stream stands, and what is behind it.
LEMMA PlacesIn ==
  ASSUME NEW f \in Files, IsStream(f), NEW k \in DOMAIN f.records, NEW p \in Places(f, k)
  PROVE  LET r == f.records[k]  u == OneText(r)  v == TextOf(r)  b == Begin(f)[k] IN
         /\ p \in Nat /\ Len(u) \in Nat /\ Len(v) \in Nat /\ b \in Nat
         /\ b + Len(v) <= Len(StreamOf(f))
         /\ Begin(f)[k + 1] = b + Len(v)
         /\ p + Len(u) = Begin(f)[k + 1] \/ (r.damage = "double" /\ p = b /\ p + Len(u) <= b + Len(v) /\ p + Len(u) \in Places(f, k))
         /\ \A i \in 1..Len(u) : StreamOf(f)[p + i] = u[i]
<1> DEFINE r == f.records[k]
           u == OneText(r)
           v == TextOf(r)
           t == StreamOf(f)
           b == Begin(f)[k]
           e == Begin(f)[k + 1]
<1>1. IsRecord(r) /\ r.damage \notin {"empty", "junk"}
  BY FileIs DEF IsStream
<1>2. /\ \E S : v \in Seq(S) /\ u \in Seq(S)
      /\ Len(v) = IF r.damage = "double" THEN 2 * Len(u) ELSE Len(u)
      /\ \A i \in 1..Len(u) : v[i] = u[i]
      /\ r.damage = "double" => \A i \in 1..Len(u) : v[Len(u) + i] = u[i]
      /\ Len(u) \in Nat /\ Len(u) >= 4
  BY <1>1, TextBegins
<1>3. b \in Nat /\ e \in Nat /\ e = b + Len(v) /\ e <= Len(t)
  BY BeginGrows
<1>4. \A i \in 1..Len(v) : t[b + i] = v[i]
  BY DEF IsStream
<1>5. p = b \/ (r.damage = "double" /\ p = b + Len(Render(r)))
  BY DEF Places, IsStream
<1>6. r.damage = "double" => Render(r) = u /\ b + Len(u) \in Places(f, k)
  BY DEF OneText, Places, IsStream
<1>10. Len(v) \in Nat
  BY <1>2
<1> HIDE DEF r, u, v, t, b, e
<1>7. CASE p = b
  <2>1. \A i \in 1..Len(u) : t[p + i] = u[i]
    <3> TAKE i \in 1..Len(u)
    <3>1. i \in 1..Len(v)
      BY <1>2
    <3> QED
      BY <1>2, <1>4, <1>7, <3>1
  <2>2. r.damage # "double" => p + Len(u) = e
    BY <1>2, <1>3, <1>7
  <2>3. r.damage = "double" => p + Len(u) <= b + Len(v) /\ p + Len(u) \in Places(f, k)
    BY <1>2, <1>3, <1>6, <1>7
  <2>4. b + Len(v) <= Len(t)
    BY <1>3
  <2> QED
    BY <1>2, <1>3, <1>7, <1>10, <2>1, <2>2, <2>3, <2>4 DEF r, u, v, t, b, e
<1>8. CASE r.damage = "double" /\ p = b + Len(u)
  <2>1. \A i \in 1..Len(u) : t[p + i] = u[i]
    <3> TAKE i \in 1..Len(u)
    <3>1. Len(u) + i \in 1..Len(v) /\ b + (Len(u) + i) = p + i
      BY <1>2, <1>3, <1>8
    <3>2. v[Len(u) + i] = u[i]
      BY <1>2, <1>8
    <3>3. t[b + (Len(u) + i)] = v[Len(u) + i]
      BY <1>4, <3>1
    <3> QED
      BY <3>1, <3>2, <3>3
  <2>2. p + Len(u) = e /\ p \in Nat
    BY <1>2, <1>3, <1>8
  <2>4. b + Len(v) <= Len(t)
    BY <1>3
  <2> QED
    BY <1>2, <1>3, <1>10, <2>1, <2>2, <2>4 DEF r, u, v, t, b, e
<1> QED
  BY <1>5, <1>6, <1>7, <1>8

\* In a stream a record stands at each of its places, if it does not end in its
\* header where another one follows.
LEMMA InStream ==
  ASSUME NEW f \in Files, IsStream(f), NEW k \in DOMAIN f.records, NEW p \in Places(f, k),
         ~(f.records[k].damage = "torn" /\ f.records[k].content = <<>> /\ k < Len(f.records))
  PROVE  /\ p \in Nat /\ Stands(StreamOf(f), p, f.records[k])
         /\ GoesOn(f, k, p)
<1> DEFINE r == f.records[k]
           u == OneText(r)
           v == TextOf(r)
           t == StreamOf(f)
           N == Len(f.records)
           e == p + Len(u)
           b == Begin(f)[k + 1]
           q == f.records[k + 1]
<1>1. IsRecord(r) /\ r.damage \notin {"empty", "junk", "crc"} /\ N \in Nat /\ DOMAIN f.records = 1..N
  BY FileIs DEF IsStream
<1>2. /\ p \in Nat /\ Len(u) \in Nat /\ Len(v) \in Nat
      /\ b <= Len(t) /\ b \in Nat
      /\ e = b \/ (r.damage = "double" /\ e <= b /\ e \in Places(f, k))
      /\ \A i \in 1..Len(u) : t[p + i] = u[i]
      /\ k = N => b = Len(t)
  BY PlacesIn, BeginGrows
<1>3. Len(t) \in Nat
  <2>1. t \in Seq({t[i] : i \in DOMAIN t})
    BY DEF IsStream
  <2> QED
    BY <2>1
<1>4. k \in 1..N /\ k + 1 \in Nat /\ (k # N => k + 1 \in DOMAIN f.records)
  BY <1>1
<1>5. k # N => /\ t[b + 1] # CR /\ ~(t[b + 2] = CR /\ t[b + 4] = CR)
               /\ b \in Places(f, k + 1)
  <2> SUFFICES ASSUME k # N
               PROVE  t[b + 1] # CR /\ ~(t[b + 2] = CR /\ t[b + 4] = CR) /\ b \in Places(f, k + 1)
    OBVIOUS
  <2>1. IsRecord(q) /\ q.damage \notin {"empty", "junk"} /\ k + 1 \in DOMAIN f.records
    BY <1>4, FileIs DEF IsStream
  <2>2. /\ Len(OneText(q)) \in Nat /\ Len(OneText(q)) >= 4
        /\ OneText(q)[1] # CR /\ ~(OneText(q)[2] = CR /\ OneText(q)[4] = CR)
    BY <2>1, TextBegins
  <2>3. b \in Places(f, k + 1)
    BY DEF Places, IsStream
  <2>4. \A i \in 1..Len(OneText(q)) : t[b + i] = OneText(q)[i]
    BY <2>1, <2>3, PlacesIn
  <2>5. 1 \in 1..Len(OneText(q)) /\ 2 \in 1..Len(OneText(q)) /\ 4 \in 1..Len(OneText(q))
    BY <2>2
  <2> QED
    BY <2>2, <2>3, <2>4, <2>5
<1>6. GoesOn(f, k, p)
  BY <1>2, <1>4, <1>5 DEF GoesOn
<1>7. r.damage = "torn" => k = N \/ r.content # <<>>
  BY <1>4
<1> HIDE DEF r, u, v, t, N, b, q
<1>8. Agrees(t, p, r)
  <2>1. e <= Len(t)
    BY <1>2, <1>3
  <2>2. r.damage \in {"short", "torn"} => e = b
    BY <1>2
  <2>3. r.damage = "short" => e = Len(t) \/ t[e + 1] # CR
    BY <1>2, <1>5, <2>2
  <2>4. r.damage = "torn" => e = Len(t) \/ (r.content # <<>> /\ ~(t[e + 2] = CR /\ t[e + 4] = CR))
    BY <1>2, <1>5, <1>7, <2>2
  <2> QED
    BY <1>2, <2>1, <2>3, <2>4 DEF Agrees, u
<1>9. Stands(t, p, r)
  BY <1>1, <1>2, <1>3, <1>8, AgreesStands
<1> QED
  BY <1>2, <1>6, <1>9 DEF r, t

\* A record that is all there ends with its boundary.
LEMMA EndsSo ==
  ASSUME NEW r, IsRecord(r), r.damage \in {"none", "bare", "double"}, NEW p \in Nat
  PROVE  HeaderEnd(r, p) + Len(r.content) + 4 = p + Len(OneText(r))
<1> DEFINE R == Render(r)
           l == Len(LinesOf(r))
           n == Len(r.content)
           u == OneText(r)
<1>1. PICK S : /\ R \in Seq(S) /\ Len(R) \in Nat /\ Len(R) >= 12
               /\ Len(R) = 3 * l + n + 6 /\ n \in Nat /\ l \in Nat
  BY RenderLength
<1>2. Len(u) = Rest0(r) - Shift(r)
  <2>1. R \in Seq(S) /\ Len(R) >= 9
    <3> HIDE DEF R, l, n
    <3> QED
      BY <1>1
  <2> QED
    BY <2>1, OneTextIs DEF Damage
<1>3. Rest0(r) = Len(R)
  BY DEF Rest0
<1>4. HeaderEnd(r, p) = p - Shift(r) + 3 * l + 2 /\ Shift(r) \in {0, 1}
  <2>1. Origin(r, p) = p - Shift(r) /\ Shift(r) \in {0, 1}
    BY DEF Origin, Shift
  <2> QED
    BY <2>1 DEF HeaderEnd
<1> HIDE DEF R, l, n, u
<1>5. HeaderEnd(r, p) + n + 4 = p + Len(u)
  <2>1. PICK d \in {0, 1} : d = Shift(r)
    BY <1>4
  <2>2. Len(u) = 3 * l + n + 6 - d
    BY <1>1, <1>2, <1>3, <2>1
  <2>3. HeaderEnd(r, p) = p - d + 3 * l + 2
    BY <1>4, <2>1
  <2>4. n \in Nat /\ l \in Nat
    BY <1>1
  <2>5. p - d + 3 * l + 2 + n + 4 = p + (3 * l + n + 6 - d)
    BY <2>4
  <2> QED
    BY <2>2, <2>3, <2>5
<1> QED
  BY <1>5 DEF n, u

(***************************************************************************)
(* The lines that readUntilDelim finds in a record.                        *)
(***************************************************************************)

\* The first CR LF there is, is the one that is found.
LEMMA EndAt ==
  ASSUME NEW S, NEW t \in Seq(S), NEW p \in 0..Len(t), NEW i \in (p + 1)..(Len(t) - 1),
         t[i] = CR, t[i + 1] = LF, \A j \in (p + 1)..(i - 1) : t[j] # CR \/ t[j + 1] # LF
  PROVE  /\ UntilDelim(t, p) # NotFound
         /\ UntilDelim(t, p).line = i /\ UntilDelim(t, p).next = i + 1
<1> DEFINE u == UntilDelim(t, p)
<1>1. IsFirstEnd(t, p, u)
  BY UntilDelimIsFirstEnd
<1> HIDE DEF u
<1>2. Len(t) \in Nat /\ p \in Nat /\ i \in Nat /\ i > p /\ i > 0
  OBVIOUS
<1>3. i \in LineEnds(t, p)
  BY <1>2 DEF LineEnds
<1>4. u.line \in LineEnds(t, p) /\ u.line <= i /\ u.next = u.line + 1
  BY <1>1, <1>3 DEF IsFirstEnd
<1>5. u.line \in 1..(Len(t) - 1) /\ u.line > p /\ t[u.line] = CR /\ t[u.line + 1] = LF
  BY <1>4 DEF LineEnds
<1>6. u.line = i
  <2>1. CASE u.line < i
    <3>1. u.line \in (p + 1)..(i - 1)
      BY <1>2, <1>5, <2>1
    <3> QED
      BY <1>5, <3>1
  <2> QED
    BY <1>2, <1>4, <1>5, <2>1
<1>7. u # NotFound
  BY <1>2, <1>6 DEF NotFound
<1> QED
  BY <1>4, <1>6, <1>7 DEF u

LEMMA LineIs ==
  ASSUME NEW S, NEW t \in Seq(S), NEW p \in 0..Len(t)
  PROVE  /\ SubSeq(t, p + 1, p) = <<>>
         /\ p + 1 <= Len(t) => SubSeq(t, p + 1, p + 1) = <<t[p + 1]>>
         /\ p + 3 <= Len(t) => Len(SubSeq(t, p + 1, p + 3)) = 3
<1>1. SubSeq(t, p + 1, p) = <<>>
  OBVIOUS
<1>2. ASSUME p + 1 <= Len(t) PROVE SubSeq(t, p + 1, p + 1) = <<t[p + 1]>>
  <2> DEFINE s == SubSeq(t, p + 1, p + 1)
  <2>1. s \in Seq(S) /\ Len(s) = 1 /\ s[1] = t[p + 1]
    BY <1>2
  <2> HIDE DEF s
  <2>2. s = <<t[p + 1]>>
    BY <2>1
  <2> QED
    BY <2>2 DEF s
<1>3. ASSUME p + 3 <= Len(t) PROVE Len(SubSeq(t, p + 1, p + 3)) = 3
  BY <1>3
<1> QED
  BY <1>1, <1>2, <1>3

\* The line of the boundary that should be after e.
LEMMA BoundaryLine ==
  ASSUME NEW S, NEW t \in Seq(S), NEW e \in 0..Len(t)
  PROVE  LET u == UntilDelim(t, e) IN
         IF e + 2 <= Len(t) /\ t[e + 1] = CR /\ t[e + 2] = LF
         THEN u # NotFound /\ SubSeq(t, e + 1, u.line - 1) = <<>> /\ u.next = e + 2
         ELSE u = NotFound \/ SubSeq(t, e + 1, u.line - 1) # <<>>
<1> DEFINE u == UntilDelim(t, e)
<1>0. Len(t) \in Nat /\ e \in Nat
  OBVIOUS
<1>1. CASE e + 2 <= Len(t) /\ t[e + 1] = CR /\ t[e + 2] = LF
  <2>1. /\ e + 1 \in (e + 1)..(Len(t) - 1) /\ (e + 1) + 1 = e + 2 /\ (e + 1) - 1 = e
        /\ \A j \in (e + 1)..((e + 1) - 1) : FALSE
    BY <1>0, <1>1
  <2>2. u # NotFound /\ u.line = e + 1 /\ u.next = (e + 1) + 1
    BY <1>1, <2>1, EndAt
  <2> HIDE DEF u
  <2>3. SubSeq(t, e + 1, u.line - 1) = <<>>
    BY <2>1, <2>2, LineIs
  <2> QED
    BY <1>1, <2>1, <2>2, <2>3 DEF u
<1>2. CASE ~(e + 2 <= Len(t) /\ t[e + 1] = CR /\ t[e + 2] = LF)
  <2>1. IsFirstEnd(t, e, u)
    BY UntilDelimIsFirstEnd
  <2> HIDE DEF u
  <2>2. ASSUME u # NotFound
        PROVE  SubSeq(t, e + 1, u.line - 1) # <<>>
    <3>1. u.line \in LineEnds(t, e)
      BY <2>1, <2>2 DEF IsFirstEnd
    <3>2. u.line \in 1..(Len(t) - 1) /\ u.line > e /\ t[u.line] = CR /\ t[u.line + 1] = LF
      BY <3>1 DEF LineEnds
    <3>3. u.line # e + 1
      BY <1>0, <1>2, <3>2
    <3> DEFINE m == u.line - 1
    <3>4. m \in Nat /\ m >= e + 1 /\ m <= Len(t) /\ e + 1 \in Nat /\ e + 1 >= 1
      BY <1>0, <3>2, <3>3
    <3> HIDE DEF m
    <3>5. SubSeq(t, e + 1, m) # <<>>
      <4> DEFINE s == SubSeq(t, e + 1, m)
      <4>1. Len(s) = m - (e + 1) + 1
        BY <3>4
      <4>2. m - (e + 1) + 1 > 0
        BY <1>0, <3>4
      <4>3. Len(<<>>) = 0
        OBVIOUS
      <4> HIDE DEF s
      <4>4. s # <<>>
        BY <4>1, <4>2, <4>3
      <4> QED
        BY <4>4 DEF s
    <3> QED
      BY <3>5 DEF m
  <2> QED
    BY <1>2, <2>2 DEF u
<1> QED
  BY <1>1, <1>2

\* What is known of the numbers and symbols of a record.
LEMMA StandsNumbers ==
  ASSUME NEW r, IsRecord(r), NEW S, NEW t \in Seq(S), NEW p \in Nat, Stands(t, p, r)
  PROVE  LET L == LinesOf(r)  b == Origin(r, p)  h == HeaderEnd(r, p) IN
         /\ Len(L) \in Nat /\ Len(L) >= 2 /\ b \in Int /\ h = b + 3 * Len(L) + 2 /\ h \in Nat
         /\ r.damage = "bare" => b = p - 1
         /\ r.damage # "bare" => b = p
         /\ b >= p - 1 /\ b <= p /\ Len(t) \in Nat /\ Len(t) >= h - 1 /\ h >= b + 8
         /\ L[1] = Sym(r.version) /\ Sym(r.version) # CR
         /\ \A i \in 2..Len(L) : /\ L[i] # CR /\ \E f \in FieldNames : r[f] # Missing /\ L[i] = r[f]
         /\ \A f \in FieldNames : r[f] # Missing => \E i \in 2..Len(L) : L[i] = r[f]
         /\ \A i, j \in 2..Len(L) : L[i] = L[j] => i = j
<1>1. PICK S1 : LinesAre(S1, r)
  BY RenderIs
<1> DEFINE L == LinesOf(r)
           b == Origin(r, p)
           h == HeaderEnd(r, p)
<1>2. /\ L \in Seq(S1) /\ Len(L) >= 2 /\ L[1] = Sym(r.version)
      /\ \A i \in 2..Len(L) : \E f \in FieldNames : r[f] # Missing /\ L[i] = r[f]
      /\ \A f \in FieldNames : r[f] # Missing => \E i \in 2..Len(L) : L[i] = r[f]
      /\ \A i, j \in 2..Len(L) : L[i] = L[j] => i = j
  BY <1>1 DEF LinesAre, AreLines
<1>3. \A i \in 2..Len(L) : L[i] # CR
  BY <1>2, RecordIsNamed
<1>4. Sym(r.version) # CR
  BY Symbols DEF IsRecord
<1>5. h = b + 3 * Len(L) + 2
  BY DEF HeaderEnd
<1>6. b = IF r.damage = "bare" THEN p - 1 ELSE p
  BY DEF Origin
<1>7. (r.damage = "torn" /\ Len(t) = h - 1) \/ (h <= Len(t) /\ t[h] = LF)
  BY DEF Stands
<1>8. Len(L) \in Nat /\ Len(t) \in Nat
  BY <1>2
<1> HIDE DEF L, b, h
<1>9. b \in Int /\ b >= p - 1 /\ b <= p /\ h \in Nat /\ h >= b + 8
  BY <1>2, <1>5, <1>6, <1>8
<1>10. Len(t) >= h - 1
  BY <1>7, <1>8, <1>9
<1> QED
  BY <1>2, <1>3, <1>4, <1>5, <1>6, <1>8, <1>9, <1>10 DEF L, b, h

\* The line of the version is the version, or has two fields and a LF in it.
LEMMA VersionLine ==
  ASSUME NEW r, IsRecord(r), NEW S, NEW t \in Seq(S), NEW p \in Nat, Stands(t, p, r)
  PROVE  LET u == UntilDelim(t, p)  line == SubSeq(t, p + 1, u.line - 1) IN
         /\ u # NotFound /\ u.next = Origin(r, p) + 3 * (FirstField(r) - 1)
         /\ IF r.damage = "bare" THEN Len(line) = 3 ELSE line = <<Sym(r.version)>>
<1> DEFINE L == LinesOf(r)
           b == Origin(r, p)
           h == HeaderEnd(r, p)
           u == UntilDelim(t, p)
<1>1. /\ Len(L) \in Nat /\ Len(L) >= 2 /\ b \in Int /\ h = b + 3 * Len(L) + 2 /\ h \in Nat
      /\ r.damage = "bare" => b = p - 1
      /\ r.damage # "bare" => b = p
      /\ b >= p - 1 /\ Len(t) \in Nat /\ Len(t) >= h - 1 /\ h >= b + 8
      /\ Sym(r.version) # CR
      /\ \A i \in 2..Len(L) : L[i] # CR
  BY StandsNumbers
<1>2. /\ t[p + 1] = Sym(r.version)
      /\ IF r.damage = "bare" THEN t[p + 2] = LF ELSE t[p + 2] = CR /\ t[p + 3] = LF
      /\ \A i \in 2..Len(L) : t[b + 3 * i - 2] = L[i] /\ t[b + 3 * i - 1] = CR /\ t[b + 3 * i] = LF
  BY DEF Stands
<1> HIDE DEF L, b, h, u
<1>3. p \in 0..Len(t) /\ p + 6 <= Len(t)
  BY <1>1
<1>4. CASE r.damage = "bare"
  <2>1. 2 \in 2..Len(L) /\ b + 3 * 2 - 2 = p + 3 /\ b + 3 * 2 - 1 = p + 4 /\ b + 3 * 2 = p + 5
    BY <1>1, <1>4
  <2>2. t[p + 3] # CR /\ t[p + 4] = CR /\ t[p + 5] = LF
    BY <1>1, <1>2, <2>1
  <2>3. t[p + 1] # CR /\ t[p + 2] # CR
    BY <1>1, <1>2, <1>4, Symbols
  <2>4. /\ p + 4 \in (p + 1)..(Len(t) - 1) /\ (p + 4) + 1 = p + 5 /\ (p + 4) - 1 = p + 3
        /\ \A j \in (p + 1)..((p + 4) - 1) : j = p + 1 \/ j = p + 2 \/ j = p + 3
    BY <1>3
  <2>5. u # NotFound /\ u.line = p + 4 /\ u.next = (p + 4) + 1
    <3>1. \A j \in (p + 1)..((p + 4) - 1) : t[j] # CR \/ t[j + 1] # LF
      BY <2>2, <2>3, <2>4
    <3> QED
      BY <1>3, <2>2, <2>4, <3>1, EndAt DEF u
  <2>6. Len(SubSeq(t, p + 1, u.line - 1)) = 3
    <3>1. p + 3 <= Len(t)
      BY <1>3
    <3>2. Len(SubSeq(t, p + 1, p + 3)) = 3
      BY <1>3, <3>1, LineIs
    <3> QED
      BY <2>4, <2>5, <3>2
  <2>7. u.next = b + 3 * (FirstField(r) - 1)
    <3>1. FirstField(r) = 3 /\ 3 - 1 = 2
      BY <1>4 DEF FirstField
    <3> QED
      BY <2>1, <2>4, <2>5, <3>1
  <2> QED
    BY <1>4, <2>5, <2>6, <2>7 DEF u, b
<1>5. CASE r.damage # "bare"
  <2>1. t[p + 1] # CR /\ t[p + 2] = CR /\ t[p + 3] = LF
    BY <1>1, <1>2, <1>5
  <2>2. /\ p + 2 \in (p + 1)..(Len(t) - 1) /\ (p + 2) + 1 = p + 3 /\ (p + 2) - 1 = p + 1
        /\ \A j \in (p + 1)..((p + 2) - 1) : j = p + 1
    BY <1>3
  <2>3. u # NotFound /\ u.line = p + 2 /\ u.next = (p + 2) + 1
    <3>1. \A j \in (p + 1)..((p + 2) - 1) : t[j] # CR \/ t[j + 1] # LF
      BY <2>1, <2>2
    <3> QED
      BY <1>3, <2>1, <2>2, <3>1, EndAt DEF u
  <2>4. SubSeq(t, p + 1, u.line - 1) = <<Sym(r.version)>>
    <3>1. p + 1 <= Len(t)
      BY <1>3
    <3>2. SubSeq(t, p + 1, p + 1) = <<t[p + 1]>>
      BY <1>3, <3>1, LineIs
    <3> QED
      BY <1>2, <2>2, <2>3, <3>2
  <2>5. u.next = b + 3 * (FirstField(r) - 1)
    <3>1. FirstField(r) = 2 /\ b = p
      BY <1>1, <1>5 DEF FirstField
    <3> QED
      BY <2>2, <2>3, <3>1
  <2> QED
    BY <1>5, <2>3, <2>4, <2>5 DEF u, b
<1> QED
  BY <1>4, <1>5

\* Each further line is one field.
LEMMA FieldOnLine ==
  ASSUME NEW r, IsRecord(r), NEW S, NEW t \in Seq(S), NEW p \in Nat, Stands(t, p, r),
         NEW i \in 1..(Len(LinesOf(r)) - 1)
  PROVE  LET at == Origin(r, p) + 3 * i  u == UntilDelim(t, at) IN
         /\ u # NotFound /\ u.next = Origin(r, p) + 3 * (i + 1)
         /\ SubSeq(t, at + 1, u.line - 1) = <<LinesOf(r)[i + 1]>>
<1> DEFINE L == LinesOf(r)
           b == Origin(r, p)
           h == HeaderEnd(r, p)
           at == b + 3 * i
           u == UntilDelim(t, at)
<1>1. /\ Len(L) \in Nat /\ Len(L) >= 2 /\ b \in Int /\ h = b + 3 * Len(L) + 2 /\ h \in Nat
      /\ b >= p - 1 /\ Len(t) \in Nat /\ Len(t) >= h - 1 /\ h >= b + 8
      /\ \A j \in 2..Len(L) : L[j] # CR
  BY StandsNumbers
<1>2. \A j \in 2..Len(L) : t[b + 3 * j - 2] = L[j] /\ t[b + 3 * j - 1] = CR /\ t[b + 3 * j] = LF
  BY DEF Stands
<1>3. i \in 1..(Len(L) - 1)
  OBVIOUS
<1> HIDE DEF L, b, h
<1>4. /\ i + 1 \in 2..Len(L) /\ b + 3 * (i + 1) - 2 = at + 1 /\ b + 3 * (i + 1) - 1 = at + 2
      /\ b + 3 * (i + 1) = at + 3 /\ at \in 0..Len(t) /\ at + 4 <= Len(t)
  BY <1>1, <1>3
<1>5. t[at + 1] = L[i + 1] /\ t[at + 1] # CR /\ t[at + 2] = CR /\ t[at + 3] = LF
  BY <1>1, <1>2, <1>4
<1> HIDE DEF at, u
<1>6. /\ at + 2 \in (at + 1)..(Len(t) - 1) /\ (at + 2) + 1 = at + 3 /\ (at + 2) - 1 = at + 1
      /\ \A j \in (at + 1)..((at + 2) - 1) : j = at + 1
  BY <1>1, <1>4
<1>7. u # NotFound /\ u.line = at + 2 /\ u.next = (at + 2) + 1
  <2>1. \A j \in (at + 1)..((at + 2) - 1) : t[j] # CR \/ t[j + 1] # LF
    BY <1>5, <1>6
  <2> QED
    BY <1>4, <1>5, <1>6, <2>1, EndAt DEF u
<1>8. SubSeq(t, at + 1, u.line - 1) = <<L[i + 1]>>
  <2>1. at + 1 <= Len(t)
    BY <1>1, <1>4
  <2>2. SubSeq(t, at + 1, at + 1) = <<t[at + 1]>>
    BY <1>4, <2>1, LineIs
  <2> QED
    BY <1>5, <1>6, <1>7, <2>2
<1>9. u.next = b + 3 * (i + 1)
  BY <1>4, <1>6, <1>7
<1> QED
  BY <1>7, <1>8, <1>9 DEF L, b, at, u

\* Then comes the empty line, if it has not been torn off.
LEMMA EmptyLine ==
  ASSUME NEW r, IsRecord(r), NEW S, NEW t \in Seq(S), NEW p \in Nat, Stands(t, p, r)
  PROVE  LET h == HeaderEnd(r, p)  at == Origin(r, p) + 3 * Len(LinesOf(r))  u == UntilDelim(t, at) IN
         \/ u = NotFound /\ r.damage = "torn"
         \/ /\ u # NotFound /\ u.next = h /\ h <= Len(t)
            /\ SubSeq(t, at + 1, u.line - 1) = <<>>
<1> DEFINE b == Origin(r, p)
           l == Len(LinesOf(r))
           h == HeaderEnd(r, p)
           at == b + 3 * l
           u == UntilDelim(t, at)
<1>1. /\ l \in Nat /\ l >= 2 /\ b \in Int /\ h = b + 3 * l + 2 /\ h \in Nat
      /\ b >= p - 1 /\ Len(t) \in Nat /\ Len(t) >= h - 1 /\ h >= b + 8
  BY StandsNumbers
<1>2. t[h - 1] = CR /\ ((r.damage = "torn" /\ Len(t) = h - 1) \/ (h <= Len(t) /\ t[h] = LF))
  BY DEF Stands
<1> HIDE DEF b, l, h
<1>3. at + 1 = h - 1 /\ at + 2 = h /\ at \in 0..Len(t)
  BY <1>1
<1> HIDE DEF at, u
<1>4. CASE r.damage = "torn" /\ Len(t) = h - 1
  <2>1. LineEnds(t, at) = {}
    <3>1. \A i \in 1..(Len(t) - 1) : ~(i > at)
      BY <1>1, <1>3, <1>4
    <3> QED
      BY <3>1 DEF LineEnds
  <2>2. IsFirstEnd(t, at, u)
    BY <1>3, UntilDelimIsFirstEnd DEF u
  <2> QED
    BY <1>4, <2>1, <2>2 DEF IsFirstEnd, u, at, b, l
<1>5. CASE h <= Len(t) /\ t[h] = LF
  <2>1. at + 2 <= Len(t) /\ t[at + 1] = CR /\ t[at + 2] = LF
    BY <1>2, <1>3, <1>5
  <2>2. u # NotFound /\ SubSeq(t, at + 1, u.line - 1) = <<>> /\ u.next = at + 2
    BY <1>3, <2>1, BoundaryLine DEF u
  <2> QED
    BY <1>3, <1>5, <2>2 DEF u, at, b, l, h
<1> QED
  BY <1>2, <1>4, <1>5

(***************************************************************************)
(* The header of a record, and its boundary.                               *)
(***************************************************************************)

\* Each field is on one line, and each line has one field.
LEMMA LinesFacts ==
  ASSUME NEW r, IsRecord(r)
  PROVE  LET L == LinesOf(r) IN
         /\ Len(L) \in Nat /\ Len(L) >= 2
         /\ L[2] = r[r.first]
         /\ \A i \in 2..Len(L) : \E f \in FieldNames : r[f] # Missing /\ L[i] = r[f]
         /\ \A f \in FieldNames : r[f] # Missing => \E i \in 2..Len(L) : L[i] = r[f]
         /\ \A i, j \in 2..Len(L) : L[i] = L[j] => i = j
<1>1. PICK S : LinesAre(S, r)
  BY RenderIs
<1> DEFINE L == LinesOf(r)
<1>2. AreLines(S, L, r, FieldNames) /\ Len(L) >= 2 /\ L[2] = r[r.first]
  BY <1>1 DEF LinesAre
<1> HIDE DEF L
<1>3. L \in Seq(S)
  BY <1>2 DEF AreLines
<1>4. Len(L) \in Nat
  BY <1>3
<1> QED
  BY <1>2, <1>4 DEF AreLines, L

LEMMA HeaderBegins ==
  ASSUME NEW r
  PROVE  HeaderAt(r, FirstField(r) - 1) = [f \in FieldNames |-> Missing]
<1>1. FirstField(r) \in {2, 3}
  BY DEF FirstField
<1>2. \A j \in FirstField(r)..(FirstField(r) - 1) : FALSE
  BY <1>1
<1> QED
  BY <1>2 DEF HeaderAt

\* A line adds its field to the header, and no other.
LEMMA HeaderGrows ==
  ASSUME NEW r, IsRecord(r), NEW i \in (FirstField(r) - 1)..(Len(LinesOf(r)) - 1)
  PROVE  FieldSet(HeaderAt(r, i), <<LinesOf(r)[i + 1]>>) = HeaderAt(r, i + 1)
<1> DEFINE L == LinesOf(r)
           F == FirstField(r)
           h == HeaderAt(r, i)
           line == <<L[i + 1]>>
<1>1. /\ Len(L) \in Nat /\ Len(L) >= 2
      /\ \A j \in 2..Len(L) : \E f \in FieldNames : r[f] # Missing /\ L[j] = r[f]
  BY LinesFacts
<1>2. F \in {2, 3} /\ i \in (F - 1)..(Len(L) - 1)
  BY DEF FirstField
<1>3. Named(r)
  BY RecordIsNamed
<1> HIDE DEF L, F
<1>4. i + 1 \in 2..Len(L) /\ i + 1 \in F..(i + 1) /\ \A j \in F..(i + 1) : j \in F..i \/ j = i + 1
  BY <1>1, <1>2
<1>5. PICK g \in FieldNames : r[g] # Missing /\ L[i + 1] = r[g]
  BY <1>1, <1>4
<1>6. r[g].sym = g
  BY <1>3, <1>5 DEF Named
<1>7. line[1] = r[g] /\ Len(line) = 1
  BY <1>5
<1>8. FieldSet(h, line) = [h EXCEPT ![g] = r[g]]
  BY <1>5, <1>6, <1>7 DEF FieldSet
<1>9. h = [f \in FieldNames |-> IF \E j \in F..i : L[j] = r[f] THEN r[f] ELSE Missing]
  BY DEF HeaderAt, L, F
<1>10. HeaderAt(r, i + 1) = [f \in FieldNames |-> IF \E j \in F..(i + 1) : L[j] = r[f] THEN r[f] ELSE Missing]
  BY DEF HeaderAt, L, F
<1> HIDE DEF h, line
<1>11. \A f \in FieldNames : [h EXCEPT ![g] = r[g]][f] = HeaderAt(r, i + 1)[f]
  <2> TAKE f \in FieldNames
  <2>1. CASE f = g
    <3>1. HeaderAt(r, i + 1)[f] = r[f]
      BY <1>4, <1>5, <1>10, <2>1
    <3> QED
      BY <1>9, <2>1, <3>1
  <2>2. CASE f # g
    <3>1. L[i + 1] = r[f] => r[f] = Missing
      BY <1>3, <1>5, <1>6, <2>2 DEF Named
    <3>2. F..i \subseteq F..(i + 1)
      BY <1>2
    <3>3. HeaderAt(r, i + 1)[f] = h[f]
      <4>1. CASE \E j \in F..i : L[j] = r[f]
        BY <1>9, <1>10, <3>2, <4>1
      <4>2. CASE ~\E j \in F..i : L[j] = r[f]
        BY <1>4, <1>9, <1>10, <3>1, <4>2
      <4> QED
        BY <4>1, <4>2
    <3> QED
      BY <1>9, <2>2, <3>3
  <2> QED
    BY <2>1, <2>2
<1>12. [h EXCEPT ![g] = r[g]] = HeaderAt(r, i + 1)
  BY <1>9, <1>10, <1>11
<1> QED
  BY <1>8, <1>12 DEF h, line, L

\* At its end the header has every field but one that is hidden.
LEMMA HeaderFull ==
  ASSUME NEW r, IsRecord(r)
  PROVE  \A f \in FieldNames : HeaderAt(r, Len(LinesOf(r)))[f] = Seen(r, f)
<1> DEFINE L == LinesOf(r)
           F == FirstField(r)
           h == HeaderAt(r, Len(L))
           hidden == r.first
<1>1. /\ Len(L) \in Nat /\ Len(L) >= 2
      /\ L[2] = r[hidden]
      /\ \A f \in FieldNames : r[f] # Missing => \E i \in 2..Len(L) : L[i] = r[f]
      /\ \A i, j \in 2..Len(L) : L[i] = L[j] => i = j
  BY LinesFacts
<1>2. Named(r)
  BY RecordIsNamed
<1> HIDE DEF L
<1>4. hidden \in FieldNames /\ L[2] = r[hidden] /\ r[hidden] # Missing
  BY <1>1, RecordIsNamed
<1> HIDE DEF hidden
<1>5. h = [f \in FieldNames |-> IF \E j \in F..Len(L) : L[j] = r[f] THEN r[f] ELSE Missing]
  BY DEF HeaderAt, L
<1> HIDE DEF h
<1>6. \A f \in FieldNames : h[f] = IF r.damage = "bare" /\ f = hidden THEN Missing ELSE r[f]
  <2> TAKE f \in FieldNames
  <2>1. CASE r[f] = Missing
    BY <1>5, <2>1
  <2>2. CASE r[f] # Missing /\ r.damage = "bare" /\ f = hidden
    <3>1. F = 3
      BY <2>2 DEF FirstField
    <3>2. \A j \in 3..Len(L) : L[j] # r[f]
      <4> TAKE j \in 3..Len(L)
      <4>1. j \in 2..Len(L) /\ 2 \in 2..Len(L) /\ j # 2
        BY <1>1
      <4> QED
        BY <1>1, <1>4, <2>2, <4>1
    <3> QED
      BY <1>5, <2>2, <3>1, <3>2
  <2>3. CASE r[f] # Missing /\ ~(r.damage = "bare" /\ f = hidden)
    <3>1. PICK i \in 2..Len(L) : L[i] = r[f]
      BY <1>1, <2>3
    <3>2. i \in F..Len(L)
      <4>1. CASE r.damage = "bare"
        <5>1. i # 2
          BY <1>2, <1>4, <2>3, <3>1, <4>1 DEF Named
        <5>2. F = 3
          BY <4>1 DEF FirstField
        <5> QED
          BY <1>1, <3>1, <5>1, <5>2
      <4>2. CASE r.damage # "bare"
        <5>1. F = 2
          BY <4>2 DEF FirstField
        <5> QED
          BY <3>1, <5>1
      <4> QED
        BY <4>1, <4>2
    <3> QED
      BY <1>5, <2>3, <3>1, <3>2
  <2> QED
    BY <2>1, <2>2, <2>3
<1> QED
  BY <1>6 DEF Seen, hidden, h, L

\* The header ends as far behind its beginning, wherever that is.
LEMMA HeaderEndMoves ==
  ASSUME NEW r, IsRecord(r), NEW p \in Nat
  PROVE  HeaderEnd(r, p) = p + HeaderEnd(r, 0) /\ HeaderEnd(r, 0) \in Nat
<1> DEFINE l == Len(LinesOf(r))
<1>1. l \in Nat /\ l >= 2
  BY LinesFacts
<1> HIDE DEF l
<1>2. Origin(r, p) = p + Origin(r, 0) /\ Origin(r, 0) \in {-1, 0}
  BY DEF Origin
<1> QED
  BY <1>1, <1>2 DEF HeaderEnd, l

\* A record that is all there, and as long as it says, ends with a boundary, and
\* what is before that is its content.
LEMMA WholeEnds ==
  ASSUME NEW r, IsRecord(r), NEW t, NEW p, Stands(t, p, r),
         r.damage \in {"none", "bare", "double"}, Announced(r) = Len(r.content)
  PROVE  LET h == HeaderEnd(r, p)  n == Announced(r) IN
         IsBoundary(t, h + n) /\ Chunks(t, h, n) = r.content
<1> DEFINE h == HeaderEnd(r, p)
           n == Announced(r)
           c == r.content
<1>1. n = Len(c)
  OBVIOUS
<1>2. IsBoundary(t, h + Len(c)) /\ \A i \in 1..Len(c) : t[h + i] = Sym(c[i])
  BY DEF Stands
<1>3. c \in Seq({c[i] : i \in DOMAIN c})
  BY DEF IsRecord
<1> HIDE DEF h, n, c
<1>4. \A i \in 1..Len(c) : t[h + i].sym = c[i]
  BY <1>2, Symbols
<1>5. Chunks(t, h, n) = c
  BY <1>1, <1>3, <1>4 DEF Chunks
<1> QED
  BY <1>1, <1>2, <1>5 DEF h, n, c

\* The lengths of a record whose length is seen are numbers.
LEMMA AnnouncedIs ==
  ASSUME NEW r, IsRecord(r), Seen(r, "length") # Missing
  PROVE  /\ r.length.sym = "length" /\ r.length.num \in Int /\ Seen(r, "length") = r.length
         /\ Announced(r) \in Nat /\ Announced(r) = IF r.length.num < 0 THEN 0 ELSE r.length.num
<1>1. r.length # Missing /\ Seen(r, "length") = r.length
  BY DEF Seen
<1>2. r.length.sym = "length" /\ r.length.num \in Int
  BY <1>1 DEF IsRecord
<1> QED
  BY <1>1, <1>2 DEF Announced

(***************************************************************************)
(* Where the reader is, and what follows for the file.                     *)
(***************************************************************************)

\* A record that is reached and not good spoils the file.
LEMMA NotGood ==
  ASSUME file \in Files, file.format # "short", NEW k \in DOMAIN file.records, Past(k),
         file.records[k].damage # "empty", ~Good(file.records[k])
  PROVE  ~AllGood
<1>1. Len(file.records) \in Nat /\ DOMAIN file.records = 1..Len(file.records)
  BY FileIs
<1>2. k \in Nat /\ \A j \in 1..k : j \in 1..(k - 1) \/ j = k
  BY <1>1
<1>3. k \in Reached
  BY <1>2 DEF Reached, Past
<1> QED
  BY <1>3 DEF AllGood

\* At the end of what is read, all of it has been seen.
LEMMA AllPast ==
  ASSUME file \in Files, file.format # "short", NEW k, Past(k),
         k = Len(file.records) + 1 \/ (k \in DOMAIN file.records /\ file.records[k].damage = "empty")
  PROVE  AllGood
<1>1. Len(file.records) \in Nat /\ DOMAIN file.records = 1..Len(file.records)
  BY FileIs
<1>2. \A j \in Reached : j \in 1..(k - 1)
  <2> TAKE j \in Reached
  <2>1. j \in 1..Len(file.records) /\ \A i \in 1..j : file.records[i].damage # "empty"
    BY <1>1 DEF Reached
  <2>2. CASE k = Len(file.records) + 1
    BY <1>1, <2>1, <2>2
  <2>3. CASE k \in DOMAIN file.records /\ file.records[k].damage = "empty"
    <3>1. k \notin 1..j
      BY <2>1, <2>3
    <3> QED
      BY <1>1, <2>1, <2>3, <3>1
  <2> QED
    BY <2>2, <2>3
<1> QED
  BY <1>2 DEF AllGood, Past

LEMMA PastGrows ==
  ASSUME NEW k \in Nat, Past(k), Good(file.records[k])
  PROVE  Past(k + 1)
<1>1. file.records[k].damage # "empty"
  BY DEF Good, Framed
<1>2. \A j \in 1..((k + 1) - 1) : j \in 1..(k - 1) \/ j = k
  OBVIOUS
<1> QED
  BY <1>1, <1>2 DEF Past

\* What is known of the record the reader is in.
LEMMA AtRecord ==
  ASSUME file \in Files, KeepsTrack, NEW k, NEW p, IsAt(k, p)
  PROVE  LET r == file.records[k] IN
         /\ IsRecord(r) /\ r.damage \notin {"empty", "junk"} /\ p \in Nat
         /\ \E S : Text \in Seq(S)
         /\ Stands(Text, p, r)
         /\ IsGzip => Text = TextOf(r) /\ p = 0
         /\ ~IsGzip => Text = StreamOf(file) /\ IsStream(file) /\ ~LeadsAstray(k)
         /\ ~Good(r) => ~AllGood
         /\ Member.whole <=> ~IsGzip \/ r.damage \notin {"torn", "crc"}
         /\ ~IsGzip => r.damage # "crc"
         /\ k \in Nat
<1> DEFINE r == file.records[k]
<1>1. /\ k \in DOMAIN file.records /\ p \in Places(file, k) /\ Past(k)
      /\ r.damage \notin {"empty", "junk"}
      /\ rd.member = IF IsGzip THEN k ELSE 1
      /\ file.format \in {"gzip", "other"} /\ file.format # "short"
  BY DEF IsAt
<1>2. /\ IsGzipFile(file) \/ IsStream(file)
      /\ IsRecord(r) /\ k \in Nat
  BY <1>1, FileIs
<1>3. ~Good(r) => ~AllGood
  BY <1>1, NotGood
<1>4. CASE IsGzip
  <2>1. IsGzipFile(file) /\ p = 0 /\ rd.member = k /\ file.format = "gzip"
    BY <1>1, <1>2, <1>4 DEF IsGzip, IsStream, Places
  <2>2. Text = file.members[k].text
    BY <2>1 DEF Text, Member
  <2>3. (\E S : Text \in Seq(S)) /\ Stands(Text, 0, r) /\ Text = TextOf(r)
    BY <1>1, <2>1, <2>2, InMember
  <2>4. Member.whole <=> r.damage \notin {"torn", "crc"}
    <3>1. Member = MemberOf(r)
      BY <1>1, <2>1 DEF Member, IsGzipFile
    <3>2. MemberOf(r).whole = (r.damage \notin {"torn", "crc"})
      BY DEF MemberOf
    <3> QED
      BY <3>1, <3>2
  <2> QED
    BY <1>1, <1>2, <1>3, <1>4, <2>1, <2>2, <2>3, <2>4
<1>5. CASE ~IsGzip
  <2>1. IsStream(file) /\ rd.member = 1 /\ file.format = "other"
    BY <1>1, <1>2, <1>5 DEF IsGzip, IsGzipFile
  <2>2. Text = StreamOf(file) /\ ~LeadsAstray(k)
    BY <1>1, <2>1 DEF Text, Member, StreamOf, KeepsTrack
  <2>3. p \in Nat /\ Stands(Text, p, r)
    BY <1>1, <2>1, <2>2, InStream DEF LeadsAstray
  <2>4. \E S : Text \in Seq(S)
    BY <2>1, <2>2 DEF IsStream
  <2>5. Member.whole /\ r.damage # "crc"
    BY <1>1, <2>1 DEF Member, IsStream
  <2> QED
    BY <1>1, <1>2, <1>3, <1>5, <2>1, <2>2, <2>3, <2>4, <2>5
<1> QED
  BY <1>4, <1>5

\* A record of a stream that says how long its content is, and is all there.
LEMMA StreamWhole ==
  ASSUME file \in Files, KeepsTrack, NEW k, NEW p, IsAt(k, p), ~IsGzip,
         file.records[k].damage \in {"none", "bare", "double"},
         Announced(file.records[k]) = Len(file.records[k].content)
  PROVE  LET r == file.records[k]  h == HeaderEnd(r, p)  n == Announced(r) IN
         /\ IsBoundary(Text, h + n) /\ Chunks(Text, h, n) = Body(r)
         /\ IsBoundary(TextOf(r), HeaderEnd(r, 0) + n)
<1> DEFINE r == file.records[k]
<1>1. IsRecord(r) /\ Stands(Text, p, r) /\ r.damage \notin {"empty", "junk"}
  BY AtRecord
<1>2. Stands(TextOf(r), 0, r)
  BY <1>1, OwnText
<1> HIDE DEF r
<1>3. /\ r.damage \in {"none", "bare", "double"} /\ Announced(r) = Len(r.content)
  BY DEF r
<1>4. /\ IsBoundary(Text, HeaderEnd(r, p) + Announced(r))
      /\ Chunks(Text, HeaderEnd(r, p), Announced(r)) = r.content
  BY <1>1, <1>3, WholeEnds
<1>5. /\ IsBoundary(TextOf(r), HeaderEnd(r, 0) + Announced(r))
      /\ Chunks(TextOf(r), HeaderEnd(r, 0), Announced(r)) = r.content
  <2>1. PICK t, q : t = TextOf(r) /\ q = 0
    OBVIOUS
  <2>2. IsRecord(r) /\ Stands(t, q, r)
    BY <1>1, <1>2, <2>1
  <2>3. /\ IsBoundary(t, HeaderEnd(r, q) + Announced(r))
        /\ Chunks(t, HeaderEnd(r, q), Announced(r)) = r.content
    BY <1>3, <2>2, WholeEnds
  <2> QED
    BY <2>1, <2>3
<1> QED
  BY <1>4, <1>5 DEF Body, r

\* What is in the text of a record is in the stream, where the record begins.
LEMMA OwnInStream ==
  ASSUME file \in Files, KeepsTrack, NEW k, NEW p, IsAt(k, p), ~IsGzip,
         Framed(file.records[k])
  PROVE  LET r == file.records[k]  b == Begin(file)[k]  n == Announced(r) IN
         /\ b \in Places(file, k)
         /\ IsBoundary(StreamOf(file), HeaderEnd(r, b) + n)
         /\ Chunks(StreamOf(file), HeaderEnd(r, b), n) = Body(r)
<1> DEFINE r == file.records[k]
           b == Begin(file)[k]
           n == Announced(r)
           t == StreamOf(file)
           u == TextOf(r)
           h == HeaderEnd(r, 0)
<1>1. /\ IsRecord(r) /\ IsStream(file) /\ r.damage \notin {"empty", "junk"}
      /\ k \in DOMAIN file.records
  BY AtRecord DEF IsAt
<1>2. b \in Places(file, k)
  BY <1>1 DEF Places, IsStream
<1>3. b \in Nat /\ Begin(file)[k + 1] = b + Len(u) /\ Begin(file)[k + 1] <= Len(t)
  BY <1>1, BeginGrows
<1>4. \A i \in 1..Len(u) : t[b + i] = u[i]
  BY <1>1 DEF IsStream
<1>5. Seen(r, "length") # Missing /\ IsBoundary(u, h + n)
  BY DEF Framed
<1>6. n \in Nat
  BY <1>1, <1>5, AnnouncedIs
<1>7. h \in Nat /\ HeaderEnd(r, b) = b + h
  BY <1>1, <1>3, HeaderEndMoves
<1>8. Len(u) \in Nat /\ Len(t) \in Nat
  <2>1. t \in Seq({t[i] : i \in DOMAIN t})
    BY <1>1 DEF IsStream
  <2> QED
    BY <1>1, <2>1, OwnText
<1>9. h + n + 4 <= Len(u)
  BY <1>5 DEF IsBoundary
<1> DEFINE H == HeaderEnd(r, b)
           C == Body(r)
<1>10. C = Chunks(u, h, n)
  BY DEF Body
<1>11. H = b + h
  BY <1>7
<1>a. b + Len(u) <= Len(t)
  BY <1>3
<1> HIDE DEF r, b, n, t, u, h, H, C
<1>12. IsBoundary(t, H + n)
  <2>1. /\ h + n + 1 \in 1..Len(u) /\ h + n + 2 \in 1..Len(u)
        /\ h + n + 3 \in 1..Len(u) /\ h + n + 4 \in 1..Len(u)
        /\ b + (h + n + 1) = H + n + 1 /\ b + (h + n + 2) = H + n + 2
        /\ b + (h + n + 3) = H + n + 3 /\ b + (h + n + 4) = H + n + 4
    BY <1>3, <1>6, <1>7, <1>8, <1>9, <1>11
  <2>2. H + n + 4 <= Len(t)
    BY <1>3, <1>6, <1>7, <1>8, <1>9, <1>11, <1>a
  <2>3. /\ u[h + n + 1] = CR /\ u[h + n + 2] = LF /\ u[h + n + 3] = CR /\ u[h + n + 4] = LF
    BY <1>5 DEF IsBoundary
  <2>4. /\ t[H + n + 1] = CR /\ t[H + n + 2] = LF /\ t[H + n + 3] = CR /\ t[H + n + 4] = LF
    BY <1>4, <2>1, <2>3
  <2> QED
    BY <2>2, <2>4 DEF IsBoundary
<1>13. Chunks(t, H, n) = C
  <2>1. \A i \in 1..n : t[H + i] = u[h + i]
    <3> TAKE i \in 1..n
    <3>1. h + i \in 1..Len(u) /\ b + (h + i) = H + i
      BY <1>3, <1>6, <1>7, <1>8, <1>9, <1>11
    <3> QED
      BY <1>4, <3>1
  <2> QED
    BY <1>10, <2>1 DEF Chunks
<1> QED
  BY <1>2, <1>12, <1>13 DEF r, b, n, t, H, C

\* Wherever a good record is, its boundary and its body are there; and in a
\* stream it is as long as it says.
LEMMA GoodThere ==
  ASSUME file \in Files, KeepsTrack, NEW k, NEW p, IsAt(k, p), Good(file.records[k])
  PROVE  LET r == file.records[k]  h == HeaderEnd(r, p)  n == Announced(r) IN
         /\ IsBoundary(Text, h + n) /\ Chunks(Text, h, n) = Body(r)
         /\ ~IsGzip => n = Len(r.content) /\ r.damage \in {"none", "bare", "double"}
<1> DEFINE r == file.records[k]
           n == Announced(r)
<1>1. /\ IsRecord(r) /\ r.damage \notin {"empty", "junk"}
      /\ IsGzip => Text = TextOf(r) /\ p = 0
      /\ ~IsGzip => Text = StreamOf(file) /\ IsStream(file) /\ ~LeadsAstray(k)
  BY AtRecord
<1>2. /\ Framed(r) /\ r.damage \in {"none", "bare", "short", "double"} /\ Seen(r, "length") # Missing
      /\ IsBoundary(TextOf(r), HeaderEnd(r, 0) + n)
      /\ IsLookedInto(r) => r.block = Digest("block", Body(r))
  BY DEF Good, Framed
<1>3. CASE IsGzip
  BY <1>1, <1>2, <1>3 DEF Body
<1>4. CASE ~IsGzip
  <2>1. n = Len(r.content)
    <3> DEFINE b == Begin(file)[k]
    <3>1. /\ b \in Places(file, k)
          /\ IsBoundary(StreamOf(file), HeaderEnd(r, b) + n)
          /\ Chunks(StreamOf(file), HeaderEnd(r, b), n) = Body(r)
      BY <1>2, <1>4, OwnInStream
    <3> HIDE DEF b
    <3> QED
      BY <1>1, <1>2, <1>4, <3>1 DEF LeadsAstray
  <2>2. r.damage \in {"none", "bare", "double"}
    <3>1. Stands(TextOf(r), 0, r)
      BY <1>1, OwnText
    <3>2. r.damage = "short" => ~IsBoundary(TextOf(r), HeaderEnd(r, 0) + Len(r.content))
      BY <3>1 DEF Stands
    <3> QED
      BY <1>2, <2>1, <3>2
  <2>3. IsBoundary(Text, HeaderEnd(r, p) + n) /\ Chunks(Text, HeaderEnd(r, p), n) = Body(r)
    BY <1>4, <2>1, <2>2, StreamWhole
  <2> QED
    BY <1>4, <2>1, <2>2, <2>3
<1> QED
  BY <1>3, <1>4

\* A record with a boundary where it says that it ends is well framed, if its
\* digest does not tell, and what is before that is its body.
LEMMA Accepted ==
  ASSUME file \in Files, KeepsTrack, NEW k, NEW p, IsAt(k, p), Member.whole,
         Seen(file.records[k], "length") # Missing,
         IsBoundary(Text, HeaderEnd(file.records[k], p) + Announced(file.records[k])),
         IsLookedInto(file.records[k]) =>
             file.records[k].block = Digest("block", Chunks(Text, HeaderEnd(file.records[k], p), Announced(file.records[k])))
  PROVE  LET r == file.records[k] IN
         Framed(r) /\ Chunks(Text, HeaderEnd(r, p), Announced(r)) = Body(r)
<1> DEFINE r == file.records[k]
           n == Announced(r)
           h == HeaderEnd(r, p)
<1>1. /\ IsRecord(r) /\ r.damage \notin {"empty", "junk"} /\ Stands(Text, p, r)
      /\ IsGzip => Text = TextOf(r) /\ p = 0
      /\ ~IsGzip => Text = StreamOf(file) /\ IsStream(file) /\ ~LeadsAstray(k)
      /\ Member.whole <=> ~IsGzip \/ r.damage \notin {"torn", "crc"}
      /\ ~IsGzip => r.damage # "crc"
  BY AtRecord
<1>2. r.damage \in {"none", "torn", "bare", "short", "crc", "double"}
  BY <1>1 DEF IsRecord, Damage
<1>3. CASE IsGzip
  <2>1. r.damage \in {"none", "bare", "short", "double"}
    BY <1>1, <1>2, <1>3
  <2> QED
    BY <1>1, <1>3, <2>1 DEF Framed, Body
<1>4. CASE ~IsGzip
  <2>1. n = Len(r.content)
    <3>1. p \in Places(file, k)
      BY DEF IsAt
    <3> QED
      BY <1>1, <1>4, <3>1 DEF LeadsAstray
  <2>2. r.damage \in {"none", "bare", "double"}
    <3>1. r.damage \in {"torn", "short"} => ~IsBoundary(Text, h + Len(r.content))
      BY <1>1 DEF Stands
    <3> QED
      BY <1>1, <1>2, <1>4, <2>1, <3>1
  <2>3. IsBoundary(TextOf(r), HeaderEnd(r, 0) + n) /\ Chunks(Text, h, n) = Body(r)
    BY <1>4, <2>1, <2>2, StreamWhole
  <2> QED
    BY <2>2, <2>3 DEF Framed
<1> QED
  BY <1>3, <1>4

\* Where a record would begin is one, or the end of what there is.
LEMMA BeginsAt ==
  ASSUME file \in Files, Begins
  PROVE  \/ Found = NotFound /\ TextEnds /\ Member.whole /\ AllGood
         \/ IsAt(IF IsGzip THEN rd.member ELSE CHOOSE k \in DOMAIN file.records : rd.at \in Places(file, k) /\ Past(k), rd.at)
<1>0. ASSUME NEW S, Text \in Seq(S), rd.at = Len(Text)
      PROVE  Found = NotFound
  <2>1. Len(Text) \in Nat
    BY <1>0
  <2>2. rd.at \in 0..Len(Text) /\ \A i \in 1..(Len(Text) - 1) : ~(i > rd.at)
    BY <1>0, <2>1
  <2>3. IsFirstEnd(Text, rd.at, Found)
    BY <1>0, <2>2, UntilDelimIsFirstEnd DEF Found
  <2>4. LineEnds(Text, rd.at) = {}
    BY <2>2 DEF LineEnds
  <2> QED
    BY <2>3, <2>4 DEF IsFirstEnd
<1>1. CASE IsGzip
  <2> DEFINE k == rd.member
             r == file.records[k]
  <2>1. /\ k \in DOMAIN file.records /\ Past(k) /\ rd.at = 0 /\ r.damage # "junk"
        /\ file.format = "gzip" /\ file.format # "short" /\ IsGzipFile(file)
    BY <1>1, FileIs DEF Begins, IsGzip, IsStream
  <2>2. Member = MemberOf(r)
    BY <2>1 DEF Member, IsGzipFile
  <2>3. CASE r.damage = "empty"
    <3>1. Member.text = <<>> /\ Member.whole
      BY <2>2, <2>3 DEF MemberOf
    <3>2. Text = <<>> /\ <<>> \in Seq({}) /\ Len(<<>>) = 0
      BY <3>1 DEF Text
    <3>3. AllGood
      BY <2>1, <2>3, AllPast
    <3> QED
      BY <1>0, <2>1, <3>1, <3>2, <3>3 DEF TextEnds
  <2>4. CASE r.damage # "empty"
    <3>1. rd.at \in Places(file, k)
      BY <2>1 DEF Places
    <3>2. IsAt(k, rd.at)
      BY <1>1, <2>1, <2>4, <3>1 DEF IsAt
    <3> QED
      BY <1>1, <3>2
  <2> QED
    BY <2>3, <2>4
<1>2. CASE ~IsGzip
  <2>1. /\ file.format = "other" /\ file.format # "short" /\ rd.member = 1 /\ IsStream(file)
        /\ \/ \E k \in DOMAIN file.records : rd.at \in Places(file, k) /\ Past(k)
           \/ rd.at = Len(StreamOf(file)) /\ Past(Len(file.records) + 1)
    BY <1>2, FileIs DEF Begins, Ready, IsGzipFile
  <2>2. Text = StreamOf(file) /\ Member.whole
    BY <2>1 DEF Text, Member, StreamOf, IsStream
  <2>3. CASE \E k \in DOMAIN file.records : rd.at \in Places(file, k) /\ Past(k)
    <3> DEFINE k == CHOOSE k \in DOMAIN file.records : rd.at \in Places(file, k) /\ Past(k)
    <3>1. k \in DOMAIN file.records /\ rd.at \in Places(file, k) /\ Past(k)
      BY <2>3
    <3>2. file.records[k].damage \notin {"empty", "junk"}
      BY <2>1, <3>1 DEF IsStream
    <3> HIDE DEF k
    <3>3. IsAt(k, rd.at)
      BY <1>2, <2>1, <3>1, <3>2 DEF IsAt
    <3> QED
      BY <1>2, <3>3 DEF k
  <2>4. CASE rd.at = Len(StreamOf(file)) /\ Past(Len(file.records) + 1)
    <3>1. AllGood
      BY <2>1, <2>4, AllPast
    <3>2. \E S : Text \in Seq(S)
      BY <2>1, <2>2 DEF IsStream
    <3> QED
      BY <1>0, <2>2, <2>4, <3>1, <3>2 DEF TextEnds
  <2> QED
    BY <2>1, <2>3, <2>4
<1> QED
  BY <1>1, <1>2

\* Past a record that is good the reader is ready for the next one.
LEMMA ReadyAgain ==
  ASSUME file \in Files, KeepsTrack, NEW k, NEW p, IsAt(k, p), Good(file.records[k]),
         BoundaryDone(k, p)
  PROVE  Ready
<1> DEFINE r == file.records[k]
<1>1. /\ IsRecord(r) /\ p \in Nat /\ k \in Nat
      /\ k \in DOMAIN file.records /\ p \in Places(file, k) /\ Past(k)
      /\ rd.member = IF IsGzip THEN k ELSE 1
      /\ file.format \in {"gzip", "other"} /\ file.format # "short"
  BY AtRecord DEF IsAt
<1>2. Past(k + 1)
  BY <1>1, PastGrows
<1>3. CASE IsGzip
  <2>1. Len(file.records) \in Nat /\ DOMAIN file.records = 1..Len(file.records)
    BY <1>1, FileIs
  <2>2. rd.member \in 0..Len(file.records)
    BY <1>1, <1>3, <2>1
  <2> QED
    BY <1>1, <1>2, <1>3, <2>2 DEF Ready
<1>4. CASE ~IsGzip
  <2>1. IsStream(file)
    BY <1>1, <1>4, FileIs DEF IsGzipFile, IsGzip
  <2>2. r.damage \in {"none", "bare", "double"} /\ Announced(r) = Len(r.content)
    BY <1>4, GoodThere
  <2>3. rd.at = p + Len(OneText(r))
    <3>1. rd.at = HeaderEnd(r, p) + Len(r.content) + 4
      BY <2>2 DEF BoundaryDone
    <3> QED
      BY <1>1, <2>2, <3>1, EndsSo
  <2>4. GoesOn(file, k, p)
    <3>1. ~LeadsAstray(k)
      BY <1>4, AtRecord
    <3> QED
      BY <1>1, <2>1, <3>1, InStream DEF LeadsAstray
  <2> QED
    BY <1>1, <1>2, <1>4, <2>3, <2>4 DEF GoesOn, Ready
<1> QED
  BY <1>3, <1>4

(***************************************************************************)
(* What is stored in the content.                                          *)
(***************************************************************************)

LEMMA StoredNew ==
  ASSUME SpoolTyped, NEW c \in Contents, New(c), \A b \in Buffers : pool[b] = 1, PoolIsEmpty
  PROVE  Stored(c)' = <<>> /\ spool'[c].stage = "writing" /\ PoolIsEmpty'
<1>1. /\ spool'[c].stage = "writing" /\ spool'[c].buf \in Buffers /\ ~spool'[c].onDisk
      /\ \A b \in Buffers : pool'[b] = IF spool'[c].buf = b THEN 0 ELSE 1
  BY NewFacts
<1>2. bytes' = bytes /\ \A b \in Buffers : bytes[b] = <<>>
  BY DEF New, PoolIsEmpty
<1> QED
  BY <1>1, <1>2 DEF Stored, PoolIsEmpty

LEMMA PutEmpties ==
  ASSUME NEW b \in Buffers, Put(b), PoolIsEmpty, pool \in [Buffers -> Nat],
         \E S : bytes \in [Buffers -> Seq(S)]
  PROVE  PoolIsEmpty'
  BY DEF Put, PoolIsEmpty

\* What is written is added to what is stored.
LEMMA StoredWrite ==
  ASSUME SpoolTyped, NEW c \in Contents, NEW chunk, Write(c, chunk), HasStore(c), PoolIsEmpty,
         \A b \in Buffers : pool[b] = IF spool[c].buf = b THEN 0 ELSE 1
  PROVE  Stored(c)' = Append(Stored(c), chunk) /\ PoolIsEmpty'
<1>1. PICK S : SpoolTypeOK(S)
  BY DEF SpoolTyped
<1>2. /\ spool \in [Contents -> Holding(S)] /\ bytes \in [Buffers -> Seq(S)] /\ pool \in [Buffers -> Nat]
  BY <1>1, TypedParts
<1>3. spool[c] \in Holding(S) /\ spool[c].onDisk \in BOOLEAN
  BY <1>2 DEF Holding
<1>4. CASE /\ spool[c].onDisk
           /\ spool' = [spool EXCEPT ![c].data = Append(@, chunk)]
           /\ UNCHANGED <<bytes, pool, temps>>
  <2>1. spool'[c] = [spool[c] EXCEPT !.data = Append(@, chunk)]
    BY <1>2, <1>4
  <2>2. spool'[c].onDisk /\ spool'[c].data = Append(spool[c].data, chunk)
    BY <1>3, <1>4, <2>1 DEF Holding
  <2> QED
    BY <1>4, <2>2 DEF Stored, PoolIsEmpty
<1>5. CASE /\ ~spool[c].onDisk
           /\ bytes' = [bytes EXCEPT ![spool[c].buf] = Append(@, chunk)]
           /\ UNCHANGED <<spool, pool, temps>>
  <2>1. spool[c].buf \in Buffers
    BY <1>2, <1>5 DEF HasStore, Holding
  <2>2. bytes'[spool[c].buf] = Append(bytes[spool[c].buf], chunk)
    BY <1>2, <1>5, <2>1
  <2>3. \A b \in Buffers : b # spool[c].buf => bytes'[b] = bytes[b]
    BY <1>2, <1>5
  <2> QED
    BY <1>5, <2>1, <2>2, <2>3 DEF Stored, PoolIsEmpty
<1>6. CASE /\ ~spool[c].onDisk
           /\ spool' = [spool EXCEPT ![c].onDisk = TRUE, ![c].buf = NoBuffer,
                                     ![c].data = Append(bytes[spool[c].buf], chunk)]
           /\ Put(spool[c].buf)
  <2>1. spool[c].buf \in Buffers
    BY <1>2, <1>6 DEF HasStore, Holding
  <2> DEFINE d == Append(bytes[spool[c].buf], chunk)
  <2>2. spool'[c].onDisk /\ spool'[c].data = d
    <3> HIDE DEF d
    <3>1. spool' = [spool EXCEPT ![c].onDisk = TRUE, ![c].buf = NoBuffer, ![c].data = d]
      BY <1>6 DEF d
    <3>2. spool'[c] = [[[spool[c] EXCEPT !.onDisk = TRUE] EXCEPT !.buf = NoBuffer] EXCEPT !.data = d]
      BY <1>2, <3>1
    <3> QED
      BY <1>3, <3>2 DEF Holding
  <2>3. PoolIsEmpty'
    BY <1>2, <1>6, <2>1, PutEmpties
  <2> QED
    BY <1>6, <2>2, <2>3 DEF Stored
<1> QED
  BY <1>4, <1>5, <1>6 DEF Write

\* Reading leaves what is stored as it is.
LEMMA StoredRead ==
  ASSUME SpoolTyped, NEW c \in Contents, ReadTo(c, 0), PoolIsEmpty
  PROVE  Stored(c)' = Stored(c) /\ Position(c)' = 0 /\ PoolIsEmpty'
<1>1. PICK S : SpoolTypeOK(S)
  BY DEF SpoolTyped
<1>2. spool \in [Contents -> Holding(S)]
  BY <1>1, TypedParts
<1>3. /\ spool' = [spool EXCEPT ![c].stage = "reading", ![c].at = 0]
      /\ UNCHANGED <<bytes, pool, temps>>
  BY DEF ReadTo
<1>4. spool'[c] = [[spool[c] EXCEPT !.stage = "reading"] EXCEPT !.at = 0]
  BY <1>2, <1>3
<1>5. /\ spool'[c].stage = "reading" /\ spool'[c].at = 0
      /\ spool'[c].onDisk = spool[c].onDisk /\ spool'[c].buf = spool[c].buf
      /\ spool'[c].data = spool[c].data
  BY <1>2, <1>4 DEF Holding
<1> QED
  BY <1>3, <1>5 DEF Stored, Position, PoolIsEmpty

\* However a content is given up, what goes back to the pool is empty.
LEMMA PoolStaysEmpty ==
  ASSUME SpoolTyped, NEW c \in Contents, PoolIsEmpty,
         (WriteFails(c) /\ HasStore(c)) \/ Close(c) \/ RemoveFails(c)
  PROVE  PoolIsEmpty'
<1>1. PICK S : SpoolTypeOK(S)
  BY DEF SpoolTyped
<1>2. spool \in [Contents -> Holding(S)] /\ bytes \in [Buffers -> Seq(S)] /\ pool \in [Buffers -> Nat]
  BY <1>1, TypedParts
<1>3. spool[c].buf \in Buffers \cup {NoBuffer}
  BY <1>2 DEF Holding
<1>4. CASE UNCHANGED <<bytes, pool>>
  BY <1>4 DEF PoolIsEmpty
<1>5. CASE spool[c].buf \in Buffers /\ Put(spool[c].buf)
  BY <1>2, <1>5, PutEmpties
<1>6. CASE WriteFails(c) /\ HasStore(c)
  <2>1. UNCHANGED <<bytes, pool>> \/ (~spool[c].onDisk /\ Put(spool[c].buf))
    BY <1>6 DEF WriteFails, spoolVars
  <2> QED
    BY <1>3, <1>4, <1>5, <1>6, <2>1 DEF HasStore
<1>7. CASE Close(c)
  BY <1>3, <1>4, <1>5, <1>7 DEF Close
<1>8. CASE RemoveFails(c)
  BY <1>4, <1>8 DEF RemoveFails
<1> QED
  BY <1>6, <1>7, <1>8

(***************************************************************************)
(* The steps of the reader, on a file that is good so far.                 *)
(***************************************************************************)

\* What depends on the file and on the place in it alone.
LEMMA FileStays ==
  ASSUME file' = file
  PROVE  /\ AllGood' = AllGood /\ IsGzip' = IsGzip /\ KeepsTrack' = KeepsTrack
         /\ \A k : Past(k)' = Past(k)
  BY DEF AllGood, Reached, IsGzip, Past, KeepsTrack, LeadsAstray

LEMMA PlaceStays ==
  ASSUME file' = file, rd'.member = rd.member
  PROVE  Member' = Member /\ Text' = Text /\ \A k, p : IsAt(k, p)' = IsAt(k, p)
<1>1. IsGzip' = IsGzip /\ \A k : Past(k)' = Past(k)
  BY FileStays
<1>2. Member' = Member /\ Text' = Text
  BY DEF Member, Text
<1> QED
  BY <1>1, <1>2 DEF IsAt

\* How the reader gives up, and with what right.
LEMMA TrackEnds ==
  ASSUME file' = file,
         \/ rd'.pc = "eof" /\ AllGood
         \/ rd'.pc \in {"close", "failed"} /\ (file.diskFails \/ ~AllGood)
  PROVE  OnTrack'
<1>1. AllGood' = AllGood
  BY FileStays
<1> QED
  BY <1>1 DEF OnTrack

\* A place in a record at which the reader may be.
LEMMA TrackAt ==
  ASSUME NEW k, NEW p, IsAt(k, p)', 
         \/ rd'.pc = "header" /\ rd'.lines = 0 /\ InHeader(k, p)'
         \/ /\ \/ rd'.pc = "content" /\ InBody(k, p)'
               \/ rd'.pc = "boundary" /\ InBoundary(k, p)'
               \/ rd'.pc = "drain" /\ BoundaryDone(k, p)'
               \/ rd'.pc = "got" /\ IsReturned(k, p)'
            /\ rd'.pc # "got" \/ pc' = "read" => spool'[rd'.record.content].stage = "writing"
  PROVE  OnTrack'
<1>1. k \in DOMAIN file'.records /\ p \in Places(file', k)
  BY DEF IsAt
<1> QED
  BY <1>1 DEF OnTrack

\* One lemma for each step of the reader.
LEMMA StartTracks ==
  ASSUME Fields, file \in Files, OnTrack, ReadStart
  PROVE  OnTrack'
<1>1. rd.pc = "idle" /\ file' = file /\ Ready
  BY DEF ReadStart, OnTrack
<1> DEFINE next == IF IsGzip THEN rd.member + 1 ELSE 1
<1>2. CASE file.format = "short"
  <2>1. Goto("eof")
    BY <1>2 DEF ReadStart
  <2>2. rd'.pc = "eof" /\ AllGood
    BY <1>2, <2>1 DEF Goto, Fields, AllGood, Reached
  <2> QED
    BY <1>1, <2>2, TrackEnds
<1>3. CASE file.format # "short"
  <2>1. /\ Len(file.records) \in Nat /\ DOMAIN file.records = 1..Len(file.records)
        /\ IsGzipFile(file) \/ IsStream(file)
    BY <1>3, FileIs
  <2>2. IsGzip => IsGzipFile(file) /\ Len(file.members) = Len(file.records)
    <3> SUFFICES ASSUME IsGzip PROVE IsGzipFile(file) /\ Len(file.members) = Len(file.records)
      OBVIOUS
    <3>1. IsGzipFile(file)
      BY <2>1 DEF IsGzip, IsStream
    <3>2. file.members = [k \in 1..Len(file.records) |-> MemberOf(file.records[k])]
      BY <2>1, <3>1 DEF IsGzipFile
    <3> QED
      BY <2>1, <3>1, <3>2
  <2>3. ~IsGzip => file.format = "other" /\ IsStream(file)
    BY <2>1 DEF IsGzip, IsStream, IsGzipFile
  <2>4. IsGzip => next \in Nat /\ next = rd.member + 1 /\ Past(next) /\ next \in 1..(Len(file.records) + 1)
    BY <1>1, <2>1 DEF Ready
  <2> HIDE DEF next
  <2>5. CASE next > Len(file.members)
    <3>1. Goto("eof")
      BY <1>3, <2>5 DEF ReadStart, next
    <3>2. IsGzip /\ next = Len(file.records) + 1
      <4>1. ~IsGzip => next = 1 /\ Len(file.members) = 1
        BY <2>3 DEF IsStream, next
      <4>2. IsGzip
        BY <2>5, <4>1
      <4> QED
        BY <2>1, <2>2, <2>4, <2>5, <4>2
    <3>3. AllGood
      BY <1>3, <2>4, <3>2, AllPast
    <3>4. rd'.pc = "eof"
      BY <3>1 DEF Goto, Fields
    <3> QED
      BY <1>1, <3>3, <3>4, TrackEnds
  <2>6. CASE ~(next > Len(file.members)) /\ file.members[next].junk
    <3>1. Goto("failed")
      BY <1>3, <2>6 DEF ReadStart, Fail, next
    <3>2. IsGzip
      BY <2>3, <2>6 DEF IsStream, next
    <3>3. next \in DOMAIN file.records /\ Past(next)
      BY <2>1, <2>2, <2>4, <2>6, <3>2
    <3>4. MemberOf(file.records[next]).junk
      BY <2>2, <2>6, <3>2, <3>3 DEF IsGzipFile
    <3>5. file.records[next].damage = "junk"
      BY <3>4 DEF MemberOf
    <3>6. ~AllGood
      BY <1>3, <3>3, <3>5, NotGood DEF Good, Framed
    <3>7. rd'.pc = "failed"
      BY <3>1 DEF Goto, Fields
    <3> QED
      BY <1>1, <3>6, <3>7, TrackEnds
  <2>7. CASE ~(next > Len(file.members)) /\ ~file.members[next].junk
    <3> DEFINE a == IF IsGzip THEN 0 ELSE rd.at
    <3>1. rd' = [rd EXCEPT !.pc = "version", !.member = next, !.lines = 0, !.at = a,
                           !.record = [NoRecord EXCEPT !.offset = rd.tell]]
      BY <1>3, <2>7 DEF ReadStart, next
    <3> HIDE DEF a
    <3>2. /\ rd'.pc = "version" /\ rd'.member = next /\ rd'.lines = 0 /\ rd'.at = a
          /\ rd'.record = [NoRecord EXCEPT !.offset = rd.tell]
      BY <3>1 DEF Fields
    <3>3. rd'.record.header = [f \in FieldNames |-> Missing]
      BY <3>2 DEF NoRecord
    <3>4. IsGzip' = IsGzip /\ \A k : Past(k)' = Past(k)
      BY <1>1, FileStays
    <3>5. CASE IsGzip
      <4>1. next \in DOMAIN file.records /\ Past(next)
        BY <2>1, <2>2, <2>4, <2>7, <3>5
      <4>2. file.records[next].damage # "junk"
        <5>1. ~MemberOf(file.records[next]).junk
          BY <2>2, <2>7, <3>5, <4>1 DEF IsGzipFile
        <5> QED
          BY <5>1 DEF MemberOf
      <4>3. Begins'
        BY <1>1, <3>2, <3>3, <3>4, <3>5, <4>1, <4>2 DEF Begins, a
      <4> QED
        BY <3>2, <4>3 DEF OnTrack
    <3>6. CASE ~IsGzip
      <4>1. rd'.at = rd.at /\ rd'.member = 1 /\ file.format = "other"
        BY <2>3, <3>2, <3>6 DEF a, next
      <4>2. Ready'
        BY <1>1, <3>4, <3>6, <4>1 DEF Ready
      <4>3. Begins'
        BY <1>1, <3>2, <3>3, <3>4, <3>6, <4>1, <4>2 DEF Begins
      <4> QED
        BY <3>2, <4>3 DEF OnTrack
    <3> QED
      BY <3>5, <3>6
  <2> QED
    BY <2>5, <2>6, <2>7
<1> QED
  BY <1>2, <1>3

LEMMA VersionTracks ==
  ASSUME Fields, file \in Files, KeepsTrack, OnTrack, ReadVersion
  PROVE  OnTrack'
<1>1. rd.pc = "version" /\ file' = file /\ Begins
  BY DEF ReadVersion, OnTrack
<1>2. (Found = NotFound /\ TextEnds /\ Member.whole /\ AllGood) \/ \E k, p : p = rd.at /\ IsAt(k, p)
  BY <1>1, BeginsAt
<1>3. CASE Found = NotFound /\ TextEnds /\ Member.whole /\ AllGood
  <2>1. Goto("eof")
    BY <1>3 DEF ReadVersion
  <2>2. rd'.pc = "eof"
    BY <2>1 DEF Goto, Fields
  <2> QED
    BY <1>1, <1>3, <2>2, TrackEnds
<1>4. CASE \E k, p : p = rd.at /\ IsAt(k, p)
  <2>0. PICK k, p : p = rd.at /\ IsAt(k, p)
    BY <1>4
  <2> DEFINE r == file.records[k]
  <2>1. IsRecord(r) /\ p \in Nat /\ Stands(Text, p, r) /\ \E S : Text \in Seq(S)
    BY <2>0, AtRecord
  <2> DEFINE line == Line
  <2>2. /\ Found # NotFound /\ Found.next = Origin(r, p) + 3 * (FirstField(r) - 1)
        /\ IF r.damage = "bare" THEN Len(line) = 3 ELSE line = <<Sym(r.version)>>
    <3> PICK S : Text \in Seq(S)
      BY <2>1
    <3> HIDE DEF r
    <3> QED
      BY <2>0, <2>1, VersionLine DEF Found, Line
  <2>3. VersionOK(line) <=> r.version \in Versions /\ r.damage # "bare"
    <3> HIDE DEF line
    <3>1. CASE r.damage = "bare"
      BY <2>2, <3>1 DEF VersionOK
    <3>2. CASE r.damage # "bare"
      <4>1. line = <<Sym(r.version)>> /\ Len(line) = 1 /\ line[1].sym = r.version
        BY <2>2, <3>2, Symbols
      <4> QED
        BY <3>2, <4>1 DEF VersionOK
    <3> QED
      BY <3>1, <3>2
  <2>4. rd' = [rd EXCEPT !.pc = "header", !.at = Found.next, !.record.version = line]
    BY <2>2 DEF ReadVersion
  <2> DEFINE a == Found.next
  <2>5. a = Origin(r, p) + 3 * (FirstField(r) - 1)
    BY <2>2
  <2> HIDE DEF line, a
  <2>6. /\ rd'.pc = "header" /\ rd'.at = a /\ rd'.lines = rd.lines /\ rd'.member = rd.member
        /\ rd'.record = [rd.record EXCEPT !.version = line]
    BY <2>4 DEF Fields, a
  <2>7. rd'.record.version = line /\ rd'.record.header = rd.record.header
    BY <2>6 DEF Fields
  <2>8. rd.lines = 0 /\ rd.record.header = HeaderAt(r, FirstField(r) - 1)
    BY <1>1, HeaderBegins DEF Begins
  <2>9. IsAt(k, p)'
    BY <1>1, <2>0, <2>6, PlaceStays
  <2>10. FirstField(r) - 1 \in (FirstField(r) - 1)..Len(LinesOf(r))
    BY <2>1, LinesFacts DEF FirstField
  <2>11. InHeader(k, p)'
    BY <1>1, <2>3, <2>5, <2>6, <2>7, <2>8, <2>10 DEF InHeader, HeaderIs
  <2> QED
    BY <2>6, <2>8, <2>9, <2>11, TrackAt
<1> QED
  BY <1>2, <1>3, <1>4

\* A record that is not as it should be, so that the reader may give up.
LEMMA TrackBad ==
  ASSUME file \in Files, KeepsTrack, file' = file, NEW k, NEW p, IsAt(k, p), ~Good(file.records[k]),
         rd'.pc \in {"close", "failed"}
  PROVE  OnTrack'
<1>1. ~AllGood
  BY AtRecord
<1> QED
  BY <1>1, TrackEnds

LEMMA ChunksGrow ==
  ASSUME NEW t, NEW at, NEW n \in Nat
  PROVE  /\ Chunks(t, at, 0) = <<>>
         /\ at \in Nat => Chunks(t, at, n + 1) = Append(Chunks(t, at, n), t[at + n + 1].sym)
<1>1. Chunks(t, at, 0) = <<>>
  BY DEF Chunks
<1>2. ASSUME at \in Nat
      PROVE  Chunks(t, at, n + 1) = Append(Chunks(t, at, n), t[at + n + 1].sym)
  <2> DEFINE V == {t[at + i].sym : i \in 1..(n + 1)}
             s == [i \in 1..n |-> t[at + i].sym]
             x == t[at + n + 1].sym
             u == [i \in 1..(n + 1) |-> t[at + i].sym]
  <2>1. s \in Seq(V) /\ Len(s) = n /\ \A i \in 1..n : s[i] = t[at + i].sym
    <3>1. s \in [1..n -> V]
      OBVIOUS
    <3> QED
      BY <3>1
  <2>2. x \in V
    <3>1. n + 1 \in 1..(n + 1) /\ at + (n + 1) = at + n + 1
      BY <1>2
    <3> QED
      BY <3>1
  <2>3. u \in Seq(V) /\ Len(u) = n + 1 /\ \A i \in 1..(n + 1) : u[i] = t[at + i].sym
    <3>1. u \in [1..(n + 1) -> V]
      OBVIOUS
    <3> QED
      BY <3>1
  <2>4. x = u[n + 1]
    <3>1. n + 1 \in 1..(n + 1) /\ at + (n + 1) = at + n + 1
      BY <1>2
    <3> HIDE DEF u
    <3> QED
      BY <2>3, <3>1
  <2> HIDE DEF V, s, x, u
  <2>5. /\ Append(s, x) \in Seq(V) /\ Len(Append(s, x)) = n + 1
        /\ \A i \in 1..n : Append(s, x)[i] = s[i]
        /\ Append(s, x)[n + 1] = x
    BY <2>1, <2>2
  <2>6. \A i \in 1..(n + 1) : u[i] = Append(s, x)[i]
    <3> TAKE i \in 1..(n + 1)
    <3>1. i \in 1..n \/ i = n + 1
      OBVIOUS
    <3> QED
      BY <2>1, <2>3, <2>4, <2>5, <3>1
  <2>7. u = Append(s, x)
    BY <2>3, <2>5, <2>6
  <2> QED
    BY <2>7 DEF Chunks, s, x, u
<1> QED
  BY <1>1, <1>2

\* The lines of the header; the empty one begins the content.
LEMMA HeaderTracks ==
  ASSUME SpoolTyped, Fields, BuffersAreHeld, PoolIsEmpty, file \in Files, KeepsTrack, OnTrack, ReadHeader
  PROVE  OnTrack'
<1>1. rd.pc = "header" /\ file' = file /\ rd.lines = 0
  BY DEF ReadHeader, OnTrack
<1>2. PICK k, p : IsAt(k, p) /\ InHeader(k, p)
  BY <1>1 DEF OnTrack
<1> DEFINE r == file.records[k]
           L == LinesOf(r)
           l == Len(L)
<1>3. /\ IsRecord(r) /\ p \in Nat /\ Stands(Text, p, r) /\ (\E S : Text \in Seq(S))
      /\ ~Good(r) => ~AllGood
  BY <1>2, AtRecord
<1>4. PICK i \in (FirstField(r) - 1)..l : rd.at = Origin(r, p) + 3 * i /\ HeaderIs(r, i)
  BY <1>2 DEF InHeader
<1>5. l \in Nat /\ l >= 2 /\ FirstField(r) \in {2, 3}
  BY <1>3, LinesFacts DEF FirstField
<1> HIDE DEF L
<1>6. i \in 1..l /\ i \in (FirstField(r) - 1)..l
  <2> HIDE DEF l, r
  <2> QED
    BY <1>4, <1>5
<1>7. CASE i < l
  <2>1. i \in 1..(l - 1) /\ i \in (FirstField(r) - 1)..(l - 1) /\ i + 1 \in (FirstField(r) - 1)..l
    <3> HIDE DEF l, r
    <3> QED
      BY <1>5, <1>6, <1>7
  <2>2. /\ Found # NotFound /\ Found.next = Origin(r, p) + 3 * (i + 1) /\ Line = <<L[i + 1]>>
    <3> PICK S : Text \in Seq(S)
      BY <1>3
    <3> HIDE DEF r
    <3> QED
      BY <1>3, <1>4, <2>1, FieldOnLine DEF Found, Line, L, l
  <2> DEFINE a == Found.next
             h == FieldSet(rd.record.header, Line)
  <2>3. Line # <<>>
    BY <2>2
  <2>4. rd' = [rd EXCEPT !.at = a, !.record.header = h]
    BY <2>2, <2>3 DEF ReadHeader
  <2>5. h = HeaderAt(r, i + 1)
    <3>1. h = FieldSet(HeaderAt(r, i), <<L[i + 1]>>)
      BY <1>4, <2>2 DEF HeaderIs
    <3> QED
      BY <1>3, <2>1, <3>1, HeaderGrows DEF L, l
  <2>6. a = Origin(r, p) + 3 * (i + 1)
    BY <2>2
  <2> HIDE DEF a, h
  <2>7. /\ rd'.pc = "header" /\ rd'.at = a /\ rd'.lines = 0 /\ rd'.member = rd.member
        /\ rd'.record = [rd.record EXCEPT !.header = h]
    BY <1>1, <2>4 DEF Fields
  <2>8. rd'.record.header = h /\ rd'.record.version = rd.record.version
    BY <2>7 DEF Fields
  <2>9. IsAt(k, p)'
    BY <1>1, <1>2, <2>7, PlaceStays
  <2>10. InHeader(k, p)'
    BY <1>1, <1>4, <2>1, <2>5, <2>6, <2>7, <2>8 DEF InHeader, HeaderIs, L
  <2> QED
    BY <2>7, <2>9, <2>10, TrackAt
<1>8. CASE i = l
  <2>1. \/ Found = NotFound /\ r.damage = "torn"
        \/ Found # NotFound /\ Found.next = HeaderEnd(r, p) /\ HeaderEnd(r, p) <= Len(Text) /\ Line = <<>>
    <3> PICK S : Text \in Seq(S)
      BY <1>3
    <3> HIDE DEF r
    <3> QED
      BY <1>3, <1>4, <1>8, EmptyLine DEF Found, Line, L, l
  <2>2. /\ rd.record.header = HeaderAt(r, l) /\ HeaderIs(r, l)
        /\ rd.record.header["length"] = Seen(r, "length")
    BY <1>3, <1>4, <1>8, HeaderFull DEF HeaderIs, L, FieldNames
  <2>3. CASE Found = NotFound /\ r.damage = "torn"
    <3>1. Goto("failed")
      BY <2>3 DEF ReadHeader, Fail
    <3>2. rd'.pc = "failed"
      BY <3>1 DEF Goto, Fields
    <3>3. ~Good(r)
      BY <2>3 DEF Good, Framed
    <3> QED
      BY <1>1, <1>2, <3>2, <3>3, TrackBad
  <2>4. CASE Found # NotFound /\ Line = <<>> /\ Seen(r, "length").sym # "length"
    <3>1. Goto("failed")
      BY <2>2, <2>4 DEF ReadHeader, Fail
    <3>2. rd'.pc = "failed"
      BY <3>1 DEF Goto, Fields
    <3>3. ~Good(r)
      BY <1>3, <2>4, AnnouncedIs DEF Good, Framed
    <3> QED
      BY <1>1, <1>2, <3>2, <3>3, TrackBad
  <2>5. CASE /\ Found # NotFound /\ Found.next = HeaderEnd(r, p) /\ HeaderEnd(r, p) <= Len(Text)
             /\ Line = <<>> /\ Seen(r, "length").sym = "length"
    <3> DEFINE unused == {d \in Contents : spool[d].stage = "unused"}
               free == IF unused # {} THEN unused ELSE {d \in Contents : spool[d].stage = "closed"}
               c0 == CHOOSE c \in free : \A d \in free : c <= d
               a == Found.next
               n == rd.record.header["length"].num
    <3>1. /\ New(c0)
          /\ rd' = [rd EXCEPT !.pc = "content", !.at = a, !.left = n, !.record.content = c0]
      BY <2>2, <2>5 DEF ReadHeader
    <3>2. c0 \in Contents
      BY <1>1, FreeContent
    <3>11. Seen(r, "length") # Missing /\ Seen(r, "length") = r.length /\ r.length.num \in Int
      <4>1. Seen(r, "length") # Missing
        BY <2>5, Symbols
      <4> HIDE DEF r
      <4> QED
        BY <1>3, <4>1, AnnouncedIs
    <3>3. a = HeaderEnd(r, p) /\ n = r.length.num
      BY <2>2, <2>5, <3>11
    <3> HIDE DEF c0, a, n
    <3>4. PICK c \in Contents : New(c) /\ rd' = [rd EXCEPT !.pc = "content", !.at = a, !.left = n, !.record.content = c]
      BY <3>1, <3>2
    <3>5. /\ rd'.pc = "content" /\ rd'.at = a /\ rd'.left = n /\ rd'.member = rd.member /\ rd'.lines = 0
          /\ rd'.record = [rd.record EXCEPT !.content = c]
      BY <1>1, <3>4 DEF Fields
    <3>6. /\ rd'.record.content = c /\ rd'.record.header = rd.record.header
          /\ rd'.record.version = rd.record.version
      BY <3>5 DEF Fields
    <3>7. Live = {}
      BY <1>1 DEF Live, InContent
    <3>8. Stored(c)' = <<>> /\ spool'[c].stage = "writing"
      BY <3>4, <3>7, HandEmpty, StoredNew
    <3>9. Stored(rd.record.content)' = <<>>
      BY <3>6, <3>8 DEF Stored
    <3>10. IsAt(k, p)' /\ Text' = Text
      BY <1>1, <1>2, <3>5, PlaceStays
    <3>12. HeaderDone(k)'
      BY <1>1, <2>2, <3>6, <3>11 DEF HeaderDone, HeaderIs, L, l
    <3>13. /\ HeaderEnd(r, p) \in Nat /\ HeaderEnd(r, p) + 0 = HeaderEnd(r, p) /\ r.length.num - 0 = r.length.num
           /\ 0 \in 0..Announced(r)
      <4>1. HeaderEnd(r, p) \in Nat
        <5> PICK S : Text \in Seq(S)
          BY <1>3
        <5> HIDE DEF r
        <5> QED
          BY <1>3, StandsNumbers
      <4> QED
        BY <3>11, <4>1 DEF Announced
    <3>14. InBody(k, p)'
      <4>1. Chunks(Text', HeaderEnd(r, p), 0) = <<>>
        BY ChunksGrow
      <4>2. \E j \in 0..Announced(r) :
               /\ rd'.at = HeaderEnd(r, p) + j /\ HeaderEnd(r, p) + j <= Len(Text') /\ rd'.left = r.length.num - j
               /\ Stored(rd.record.content)' = Chunks(Text', HeaderEnd(r, p), j)
        BY <2>5, <3>3, <3>5, <3>9, <3>10, <3>13, <4>1
      <4> QED
        BY <1>1, <3>5, <3>12, <4>2 DEF InBody
    <3> QED
      BY <3>5, <3>6, <3>8, <3>10, <3>14, TrackAt
  <2> QED
    BY <2>1, <2>3, <2>4, <2>5
<1> QED
  <2>1. i < l \/ i = l
    <3> HIDE DEF l
    <3> QED
      BY <1>5, <1>6
  <2> QED
    BY <1>7, <1>8, <2>1

\* The record stays as it has been read.
SameRecord == /\ rd'.record.version = rd.record.version /\ rd'.record.header = rd.record.header
              /\ rd'.record.content = rd.record.content

LEMMA RecordStays ==
  ASSUME file' = file, SameRecord
  PROVE  \A k : HeaderDone(k)' = HeaderDone(k)
  BY DEF SameRecord, HeaderDone, HeaderIs

LEMMA BodyStays ==
  ASSUME file' = file, rd'.member = rd.member, SameRecord, UNCHANGED spoolVars
  PROVE  \A k, p : BodyDone(k, p)' = BodyDone(k, p)
<1>1. \A k : HeaderDone(k)' = HeaderDone(k)
  BY RecordStays
<1>2. Text' = Text
  BY PlaceStays
<1>3. Stored(rd.record.content)' = Stored(rd.record.content)
  BY DEF Stored, SameRecord, spoolVars
<1> QED
  BY <1>1, <1>2, <1>3 DEF BodyDone

LEMMA GotoRecord ==
  ASSUME Fields, NEW x, Goto(x)
  PROVE  /\ rd'.pc = x /\ SameRecord /\ rd'.member = rd.member /\ rd'.at = rd.at /\ rd'.lines = rd.lines
  BY DEF Fields, Goto, SameRecord

\* Where there is no boundary the record is not as it should be.
LEMMA NoBoundary ==
  ASSUME file \in Files, KeepsTrack, NEW k, NEW p, IsAt(k, p),
         ~IsBoundary(Text, HeaderEnd(file.records[k], p) + Announced(file.records[k]))
  PROVE  ~Good(file.records[k])
  BY GoodThere

\* The numbers of a record that has been read up to its content.
LEMMA BodyNumbers ==
  ASSUME file \in Files, KeepsTrack, NEW k, NEW p, IsAt(k, p), HeaderDone(k)
  PROVE  LET r == file.records[k] IN
         /\ HeaderEnd(r, p) \in Nat /\ Announced(r) \in Nat /\ r.length.num \in Int /\ Len(Text) \in Nat
         /\ Announced(r) = IF r.length.num < 0 THEN 0 ELSE r.length.num
<1> DEFINE r == file.records[k]
<1>1. /\ IsRecord(r) /\ p \in Nat /\ Stands(Text, p, r) /\ (\E S : Text \in Seq(S))
  BY AtRecord
<1>2. PICK S : Text \in Seq(S)
  BY <1>1
<1>3. Seen(r, "length") # Missing
  BY DEF HeaderDone
<1> HIDE DEF r
<1>4. HeaderEnd(r, p) \in Nat
  BY <1>1, <1>2, StandsNumbers
<1>5. /\ r.length.num \in Int /\ Announced(r) \in Nat
      /\ Announced(r) = IF r.length.num < 0 THEN 0 ELSE r.length.num
  BY <1>1, <1>3, AnnouncedIs
<1> QED
  BY <1>2, <1>4, <1>5 DEF r

LEMMA ContentTracks ==
  ASSUME SpoolTyped, Fields, BuffersAreHeld, PoolIsEmpty, file \in Files, KeepsTrack, OnTrack, ReadContent
  PROVE  OnTrack'
<1>0. PICK c : c = rd.record.content
  OBVIOUS
<1>1. rd.pc = "content" /\ file' = file /\ spool[c].stage = "writing"
  BY <1>0 DEF ReadContent, OnTrack
<1>2. PICK k, p : IsAt(k, p) /\ InBody(k, p)
  BY <1>1 DEF OnTrack
<1> DEFINE r == file.records[k]
           h == HeaderEnd(r, p)
           n == Announced(r)
           m == r.length.num
<1>3. HeaderDone(k) /\ rd.lines = 0
  BY <1>2 DEF InBody
<1>4. PICK j \in 0..n : /\ rd.at = h + j /\ h + j <= Len(Text) /\ rd.left = m - j
                        /\ Stored(c) = Chunks(Text, h, j)
  BY <1>0, <1>2 DEF InBody
<1>5. h \in Nat /\ n \in Nat /\ m \in Int /\ Len(Text) \in Nat /\ n = IF m < 0 THEN 0 ELSE m
  BY <1>2, <1>3, BodyNumbers
<1> HIDE DEF h, n, m, r
<1>6. j \in Nat /\ j <= n
  BY <1>5
<1>7. CASE rd.left <= 0
  <2>1. j = n
    BY <1>4, <1>5, <1>6, <1>7
  <2>2. Goto("boundary") /\ UNCHANGED spoolVars
    BY <1>1, <1>7 DEF ReadContent
  <2>3. rd'.pc = "boundary" /\ SameRecord /\ rd'.member = rd.member /\ rd'.at = rd.at /\ rd'.lines = 0
    BY <1>3, <2>2, GotoRecord
  <2>4. BodyDone(k, p)
    BY <1>0, <1>3, <1>4, <2>1 DEF BodyDone, h, n, r
  <2>5. BodyDone(k, p)'
    BY <1>1, <2>2, <2>3, <2>4, BodyStays
  <2>6. IsAt(k, p)' /\ Text' = Text
    BY <1>1, <1>2, <2>3, PlaceStays
  <2>7. rd'.at = h + n /\ h + n <= Len(Text')
    BY <1>4, <2>1, <2>3, <2>6
  <2>8. InBoundary(k, p)'
    BY <1>1, <2>3, <2>5, <2>7 DEF InBoundary, h, n, r
  <2>9. spool'[rd'.record.content].stage = "writing"
    BY <1>0, <1>1, <2>2, <2>3 DEF SameRecord, spoolVars
  <2> QED
    BY <2>3, <2>6, <2>8, <2>9, TrackAt
<1>8. CASE ~(rd.left <= 0) /\ TextEnds
  <2>1. FailClosing
    BY <1>1, <1>8 DEF ReadContent
  <2>2. rd'.pc = "close"
    BY <2>1, GotoRecord DEF FailClosing
  <2>3. ~IsBoundary(Text, h + n)
    <3>1. ~(h + n + 4 <= Len(Text))
      BY <1>4, <1>5, <1>6, <1>8 DEF TextEnds
    <3> QED
      BY <3>1 DEF IsBoundary
  <2>4. ~Good(r)
    BY <1>2, <2>3, NoBoundary DEF h, n, r
  <2> QED
    BY <1>1, <1>2, <2>2, <2>4, TrackBad DEF r
<1>9. CASE ~(rd.left <= 0) /\ ~TextEnds /\ file.diskFails /\ FailClosing
  <2>1. rd'.pc = "close"
    BY <1>9, GotoRecord DEF FailClosing
  <2> QED
    BY <1>1, <1>9, <2>1, TrackEnds
<1>10. CASE /\ ~(rd.left <= 0) /\ ~TextEnds
            /\ Write(c, Text[rd.at + 1].sym)
            /\ rd' = [rd EXCEPT !.at = @ + 1, !.left = @ - 1]
  <2> DEFINE x == Text[rd.at + 1].sym
             a == rd.at + 1
             left == rd.left - 1
  <2>1. rd' = [rd EXCEPT !.at = a, !.left = left]
    BY <1>10
  <2>2. a = h + (j + 1) /\ left = m - (j + 1) /\ j + 1 \in 0..n /\ h + (j + 1) <= Len(Text)
    <3>1. rd.at < Len(Text) /\ rd.left \in Int
      BY <1>4, <1>5, <1>6, <1>10 DEF TextEnds
    <3> QED
      BY <1>4, <1>5, <1>6, <1>10, <3>1
  <2>3. x = Text[h + j + 1].sym
    BY <1>4
  <2>4. Live = {c} /\ rd.pc # "close"
    BY <1>0, <1>1 DEF Live, InContent
  <2>5. /\ c \in Contents /\ HasStore(c)
        /\ \A b \in Buffers : pool[b] = IF spool[c].buf = b THEN 0 ELSE 1
    BY <2>4, InHand
  <2> HIDE DEF a, left
  <2>6. Stored(c)' = Append(Stored(c), x)
    <3>1. Write(c, x)
      BY <1>10
    <3> HIDE DEF x
    <3> QED
      BY <2>5, <3>1, StoredWrite
  <2>7. Stored(c)' = Chunks(Text, h, j + 1)
    <3>1. Chunks(Text, h, j + 1) = Append(Chunks(Text, h, j), Text[h + j + 1].sym)
      BY <1>5, <1>6, ChunksGrow
    <3> HIDE DEF x
    <3> QED
      BY <1>4, <2>3, <2>6, <3>1
  <2>8. /\ rd'.pc = "content" /\ rd'.at = a /\ rd'.left = left /\ rd'.member = rd.member
        /\ rd'.lines = 0 /\ rd'.record = rd.record
    BY <1>1, <1>3, <2>1 DEF Fields
  <2>9. SameRecord
    BY <2>8 DEF SameRecord
  <2>10. Stored(rd.record.content)' = Chunks(Text, h, j + 1)
    <3>1. Stored(rd.record.content)' = Stored(c)'
      BY <1>0, <2>8 DEF Stored
    <3> QED
      BY <2>7, <3>1
  <2>11. IsAt(k, p)' /\ Text' = Text
    BY <1>1, <1>2, <2>8, PlaceStays
  <2>12. HeaderDone(k)'
    BY <1>1, <1>3, <2>9, RecordStays
  <2>13. InBody(k, p)'
    <3>1. \E i \in 0..n : /\ rd'.at = h + i /\ h + i <= Len(Text') /\ rd'.left = m - i
                          /\ Stored(rd.record.content)' = Chunks(Text', h, i)
      BY <2>2, <2>8, <2>10, <2>11
    <3> QED
      BY <1>1, <2>8, <2>12, <3>1 DEF InBody, h, n, m, r
  <2>14. spool'[rd'.record.content].stage = "writing"
    <3>1. \E chunk : Write(c, chunk)
      BY <1>10
    <3>2. spool'[c].stage = "writing"
      BY <2>5, <3>1, WriteFacts
    <3> QED
      BY <1>0, <2>8, <3>2
  <2> QED
    BY <2>8, <2>11, <2>13, <2>14, TrackAt
<1> QED
  BY <1>0, <1>7, <1>8, <1>9, <1>10 DEF ReadContent

LEMMA BoundaryTracks ==
  ASSUME Fields, file \in Files, KeepsTrack, OnTrack, ReadBoundary
  PROVE  OnTrack'
<1>1. /\ rd.pc = "boundary" /\ file' = file /\ UNCHANGED spoolVars
      /\ spool[rd.record.content].stage = "writing"
  BY DEF ReadBoundary, OnTrack
<1>2. PICK k, p : IsAt(k, p) /\ InBoundary(k, p)
  BY <1>1 DEF OnTrack
<1> DEFINE r == file.records[k]
           e == HeaderEnd(r, p) + Announced(r)
<1>3. BodyDone(k, p) /\ HeaderDone(k)
  BY <1>2 DEF InBoundary, BodyDone
<1>4. e \in Nat /\ Len(Text) \in Nat /\ \E S : Text \in Seq(S)
  <2>1. HeaderEnd(r, p) \in Nat /\ Announced(r) \in Nat /\ Len(Text) \in Nat
    BY <1>2, <1>3, BodyNumbers
  <2> QED
    BY <1>2, <2>1, AtRecord
<1>5. \/ rd.lines = 0 /\ rd.at = e /\ e <= Len(Text)
      \/ /\ rd.lines = 1 /\ rd.at = e + 2 /\ e + 2 <= Len(Text)
         /\ Text[e + 1] = CR /\ Text[e + 2] = LF
  BY <1>2 DEF InBoundary
<1> DEFINE q == rd.at
<1>6. IF q + 2 <= Len(Text) /\ Text[q + 1] = CR /\ Text[q + 2] = LF
      THEN Found # NotFound /\ Line = <<>> /\ Found.next = q + 2
      ELSE Found = NotFound \/ Line # <<>>
  <2>1. PICK S : Text \in Seq(S)
    BY <1>4
  <2>2. q \in 0..Len(Text)
    <3> HIDE DEF e
    <3> QED
      BY <1>4, <1>5
  <2> QED
    BY <2>1, <2>2, BoundaryLine DEF Found, Line
<1> HIDE DEF e, r
<1>7. CASE ~(q + 2 <= Len(Text) /\ Text[q + 1] = CR /\ Text[q + 2] = LF)
  <2>1. FailClosing
    BY <1>6, <1>7 DEF ReadBoundary
  <2>2. rd'.pc = "close"
    BY <2>1, GotoRecord DEF FailClosing
  <2>3. ~IsBoundary(Text, e)
    <3>1. CASE rd.lines = 0 /\ q = e
      BY <1>4, <1>7, <3>1 DEF IsBoundary
    <3>2. CASE q = e + 2
      <4>1. q + 1 = e + 3 /\ q + 2 = e + 4
        BY <1>4, <3>2
      <4> QED
        BY <1>7, <4>1 DEF IsBoundary
    <3> QED
      BY <1>5, <3>1, <3>2
  <2>4. ~Good(r)
    BY <1>2, <2>3, NoBoundary DEF e, r
  <2> QED
    BY <1>1, <1>2, <2>2, <2>4, TrackBad DEF r
<1>8. CASE q + 2 <= Len(Text) /\ Text[q + 1] = CR /\ Text[q + 2] = LF
  <2> DEFINE a == Found.next
             x == IF rd.lines = 1 THEN "drain" ELSE "boundary"
             n == rd.lines + 1
  <2>1. rd' = [rd EXCEPT !.at = a, !.lines = n, !.pc = x]
    BY <1>6, <1>8 DEF ReadBoundary
  <2>2. a = q + 2
    BY <1>6, <1>8
  <2> HIDE DEF a, x, n
  <2>3. /\ rd'.pc = x /\ rd'.at = a /\ rd'.lines = n /\ rd'.member = rd.member
        /\ rd'.record = rd.record
    BY <2>1 DEF Fields
  <2>4. SameRecord
    BY <2>3 DEF SameRecord
  <2>5. BodyDone(k, p)'
    BY <1>1, <1>3, <2>3, <2>4, BodyStays
  <2>6. IsAt(k, p)' /\ Text' = Text
    BY <1>1, <1>2, <2>3, PlaceStays
  <2>7. spool'[rd'.record.content].stage = "writing"
    BY <1>1, <2>3 DEF spoolVars
  <2>8. CASE rd.lines = 0 /\ q = e
    <3>1. rd'.pc = "boundary" /\ rd'.lines = 1 /\ rd'.at = e + 2
      BY <2>2, <2>3, <2>8 DEF x, n
    <3>2. InBoundary(k, p)'
      BY <1>1, <1>8, <2>5, <2>6, <2>8, <3>1 DEF InBoundary, e, r
    <3> QED
      BY <2>6, <2>7, <3>1, <3>2, TrackAt
  <2>9. CASE rd.lines = 1 /\ q = e + 2 /\ e + 2 <= Len(Text) /\ Text[e + 1] = CR /\ Text[e + 2] = LF
    <3>1. rd'.pc = "drain" /\ rd'.at = e + 4
      BY <1>4, <2>2, <2>3, <2>9 DEF x
    <3>2. IsBoundary(Text', e)
      <4>1. q + 1 = e + 3 /\ q + 2 = e + 4
        BY <1>4, <2>9
      <4> QED
        BY <1>8, <2>6, <2>9, <4>1 DEF IsBoundary
    <3>3. BoundaryDone(k, p)'
      BY <1>1, <2>5, <3>1, <3>2 DEF BoundaryDone, e, r
    <3> QED
      BY <2>6, <2>7, <3>1, <3>3, TrackAt
  <2> QED
    BY <1>5, <2>8, <2>9
<1> QED
  BY <1>7, <1>8

LEMMA RestTracks ==
  ASSUME Fields, file \in Files, KeepsTrack, OnTrack, ReadRest, pc' = "read"
  PROVE  OnTrack'
<1>1. /\ rd.pc = "drain" /\ file' = file /\ UNCHANGED spoolVars
      /\ spool[rd.record.content].stage = "writing"
  BY DEF ReadRest, OnTrack
<1>2. PICK k, p : IsAt(k, p) /\ BoundaryDone(k, p)
  BY <1>1 DEF OnTrack
<1> DEFINE r == file.records[k]
<1>3. Member.whole <=> ~IsGzip \/ r.damage \notin {"torn", "crc"}
  BY <1>2, AtRecord
<1>4. CASE IsGzip /\ ~Member.whole
  <2>1. FailClosing
    BY <1>4 DEF ReadRest
  <2>2. rd'.pc = "close"
    BY <2>1, GotoRecord DEF FailClosing
  <2>3. ~Good(r)
    BY <1>3, <1>4 DEF Good, Framed
  <2> QED
    BY <1>1, <1>2, <2>2, <2>3, TrackBad
<1>5. CASE ~IsGzip \/ Member.whole
  <2>1. Member.whole
    BY <1>3, <1>5
  <2>2. /\ rd'.pc = "got" /\ rd'.member = rd.member /\ rd'.at = rd.at
        /\ SameRecord
    <3>1. CASE ~IsGzip
      <4>1. rd' = [rd EXCEPT !.pc = "got", !.record.offset = -1, !.record.size = -1]
        BY <3>1 DEF ReadRest
      <4>2. /\ rd'.pc = "got" /\ rd'.member = rd.member /\ rd'.at = rd.at
            /\ rd'.record = [[rd.record EXCEPT !.offset = -1] EXCEPT !.size = -1]
        BY <4>1 DEF Fields
      <4> QED
        BY <4>2 DEF Fields, SameRecord
    <3>2. CASE IsGzip
      <4> DEFINE d == rd.tell + Drained
                 s == Drained
      <4>1. rd' = [rd EXCEPT !.pc = "got", !.tell = d, !.record.size = s]
        BY <2>1, <3>2 DEF ReadRest
      <4> HIDE DEF d, s
      <4>2. /\ rd'.pc = "got" /\ rd'.member = rd.member /\ rd'.at = rd.at
            /\ rd'.record = [rd.record EXCEPT !.size = s]
        BY <4>1 DEF Fields
      <4> QED
        BY <4>2 DEF Fields, SameRecord
    <3> QED
      BY <3>1, <3>2
  <2>3. IsAt(k, p)' /\ Text' = Text /\ Member' = Member
    BY <1>1, <1>2, <2>2, PlaceStays
  <2>4. BodyDone(k, p)'
    BY <1>1, <1>2, <2>2, BodyStays DEF BoundaryDone
  <2>5. BoundaryDone(k, p)'
    BY <1>1, <1>2, <2>2, <2>3, <2>4 DEF BoundaryDone
  <2>6. IsReturned(k, p)'
    BY <2>1, <2>3, <2>5 DEF IsReturned
  <2>7. spool'[rd'.record.content].stage = "writing"
    BY <1>1, <2>2 DEF spoolVars, SameRecord
  <2> QED
    BY <2>2, <2>3, <2>6, <2>7, TrackAt
<1> QED
  BY <1>4, <1>5

\* So whatever ReadRecord does, the reader knows where it is.
LEMMA ReaderTracks ==
  ASSUME SpoolTyped, Fields, BuffersAreHeld, PoolIsEmpty, file \in Files, KeepsTrack, OnTrack, ReadRecord, pc' = "read"
  PROVE  OnTrack'
<1>1. CASE ReadClose
  <2>1. rd.pc = "close" /\ file' = file /\ Goto("failed")
    BY <1>1 DEF ReadClose, Fail
  <2>2. rd'.pc = "failed" /\ (file.diskFails \/ ~AllGood)
    BY <2>1, GotoRecord DEF OnTrack
  <2> QED
    BY <2>1, <2>2, TrackEnds
<1> QED
  BY <1>1, StartTracks, VersionTracks, HeaderTracks, ContentTracks, BoundaryTracks, RestTracks DEF ReadRecord

\* And a buffer that it gives back is empty.
LEMMA ReaderPool ==
  ASSUME SpoolTyped, Fields, BuffersAreHeld, PoolIsEmpty, ReadRecord
  PROVE  PoolIsEmpty'
<1>1. Idle \/ Kept \/ Made \/ Wrote \/ Failed \/ Closed
  BY ReaderSteps
<1>2. CASE UNCHANGED spoolVars
  BY <1>2 DEF PoolIsEmpty, spoolVars
<1>3. CASE Made
  <2>1. rd.pc \notin InContent /\ \E c \in Contents : New(c)
    BY <1>3 DEF Made
  <2>2. Live = {}
    BY <2>1 DEF Live
  <2> QED
    BY <2>1, <2>2, HandEmpty, StoredNew
<1>4. CASE Wrote \/ Failed \/ Closed
  <2> DEFINE c == rd.record.content
  <2>1. Live = {c} /\ (Wrote \/ Failed => rd.pc # "close")
    BY <1>4 DEF Wrote, Failed, Closed, Live, InContent
  <2> HIDE DEF c
  <2>2. /\ c \in Contents /\ (rd.pc # "close" => HasStore(c))
        /\ \A b \in Buffers : pool[b] = IF spool[c].buf = b THEN 0 ELSE 1
    BY <2>1, InHand
  <2>3. CASE Wrote
    BY <2>1, <2>2, <2>3, StoredWrite DEF Wrote, c
  <2>4. CASE Failed \/ Closed
    BY <2>1, <2>2, <2>4, PoolStaysEmpty DEF Failed, Closed, c
  <2> QED
    BY <1>4, <2>3, <2>4
<1> QED
  BY <1>1, <1>2, <1>3, <1>4 DEF Idle, Kept

(***************************************************************************)
(* The steps of verify.                                                    *)
(***************************************************************************)

\* What is known of a record that verify has in its hand.
LEMMA ReturnedFacts ==
  ASSUME file \in Files, KeepsTrack, NEW k, NEW p, IsAt(k, p), IsReturned(k, p)
  PROVE  LET r == file.records[k]  s == Stored(rd.record.content) IN
         /\ \A f \in FieldNames : Field(f) = Seen(r, f)
         /\ VersionOK(rd.record.version) <=> r.version \in Versions /\ r.damage # "bare"
         /\ \E X : s \in Seq(X)
         /\ Good(r) => s = Body(r)
         /\ (IsLookedInto(r) => BlockIsGood(r)) => Framed(r) /\ s = Body(r)
<1> DEFINE r == file.records[k]
           s == Stored(rd.record.content)
           h == HeaderEnd(r, p)
           n == Announced(r)
<1>1. IsRecord(r)
  BY AtRecord
<1>2. BoundaryDone(k, p) /\ Member.whole
  BY DEF IsReturned
<1>3. HeaderDone(k) /\ s = Chunks(Text, h, n) /\ IsBoundary(Text, h + n)
  BY <1>2 DEF BoundaryDone, BodyDone
<1>4. /\ rd.record.header = HeaderAt(r, Len(LinesOf(r))) /\ Seen(r, "length") # Missing
      /\ VersionOK(rd.record.version) <=> r.version \in Versions /\ r.damage # "bare"
  BY <1>3 DEF HeaderDone, HeaderIs
<1>5. \A f \in FieldNames : Field(f) = Seen(r, f)
  BY <1>1, <1>4, HeaderFull DEF Field
<1>6. \E X : s \in Seq(X)
  <2>1. n \in Nat
    BY <1>3, BodyNumbers
  <2> HIDE DEF n, h
  <2> DEFINE V == {Text[h + i].sym : i \in 1..n}
  <2>2. [i \in 1..n |-> Text[h + i].sym] \in [1..n -> V]
    OBVIOUS
  <2>3. s \in Seq(V)
    BY <1>3, <2>1, <2>2 DEF Chunks
  <2> QED
    BY <2>3
<1>7. Good(r) => s = Body(r)
  BY <1>3, GoodThere
<1>8. ASSUME IsLookedInto(r) => BlockIsGood(r)
      PROVE  Framed(r) /\ s = Body(r)
  <2>1. IsLookedInto(r) => r.block = Digest("block", Chunks(Text, h, n))
    <3> SUFFICES ASSUME IsLookedInto(r) PROVE r.block = Digest("block", Chunks(Text, h, n))
      OBVIOUS
    <3>1. r.block # Missing /\ s = r.block.seq
      BY <1>8 DEF BlockIsGood
    <3>2. r.block = Digest("block", r.block.seq)
      BY <1>1, <3>1 DEF IsRecord
    <3> QED
      BY <1>3, <3>1, <3>2
  <2> QED
    BY <1>2, <1>3, <1>4, <2>1, Accepted
<1> QED
  BY <1>4, <1>5, <1>6, <1>7, <1>8

\* The record in hand is the same one after a step that leaves what is stored.
HandStays == file' = file /\ rd' = rd /\ Stored(rd.record.content)' = Stored(rd.record.content)

\* What depends on the record in hand alone.
LEMMA SameHand ==
  ASSUME HandStays
  PROVE  /\ Text' = Text /\ Member' = Member /\ \A k, p : IsAt(k, p)' = IsAt(k, p)
         /\ \A k, p : BoundaryDone(k, p)' = BoundaryDone(k, p)
         /\ \A r : BlockIsGood(r)' = BlockIsGood(r)
         /\ \A d : PayloadMatches(d)' = PayloadMatches(d)
<1>1. Text' = Text /\ Member' = Member /\ \A k, p : IsAt(k, p)' = IsAt(k, p)
  BY PlaceStays DEF HandStays
<1>2. \A k : HeaderDone(k)' = HeaderDone(k)
  BY RecordStays DEF HandStays, SameRecord
<1>3. \A k, p : BodyDone(k, p)' = BodyDone(k, p)
  BY <1>1, <1>2 DEF BodyDone, HandStays
<1>4. \A k, p : BoundaryDone(k, p)' = BoundaryDone(k, p)
  BY <1>1, <1>3 DEF BoundaryDone, HandStays
<1>5. \A r : BlockIsGood(r)' = BlockIsGood(r)
  BY DEF BlockIsGood, HandStays
<1>6. \A d : PayloadMatches(d)' = PayloadMatches(d)
  BY DEF PayloadMatches, Field, HandStays
<1> QED
  BY <1>1, <1>4, <1>5, <1>6

Verdict == Lost \/ (result.Valid /\ OnTrack)

ResultTyped == result \in [Valid : BOOLEAN, RecordCount : Nat, ErrorsCount : Nat, AllRecordsRead : BOOLEAN]

\* What a check does to the result.
LEMMA JudgedFacts ==
  ASSUME ResultTyped, NEW ok \in BOOLEAN, NEW next, Judge(ok, next)
  PROVE  /\ ResultTyped' /\ pc' = next /\ file' = file /\ rd' = rd
         /\ ok => result' = result
         /\ ~ok => ~result'.Valid
         /\ result'.Valid => result.Valid /\ result' = result
<1>1. /\ result' = IF ok THEN result ELSE [result EXCEPT !.Valid = FALSE, !.ErrorsCount = @ + 1]
      /\ pc' = next /\ file' = file /\ rd' = rd
  BY DEF Judge
<1>2. CASE ok
  BY <1>1, <1>2 DEF ResultTyped
<1>3. CASE ~ok
  <2> DEFINE n == result.ErrorsCount + 1
             bad == [result EXCEPT !.Valid = FALSE]
  <2>1. n \in Nat
    BY DEF ResultTyped
  <2> HIDE DEF n
  <2>2. result' = [bad EXCEPT !.ErrorsCount = n]
    BY <1>1, <1>3 DEF n, ResultTyped
  <2>3. bad \in [Valid : BOOLEAN, RecordCount : Nat, ErrorsCount : Nat, AllRecordsRead : BOOLEAN] /\ ~bad.Valid
    BY DEF ResultTyped
  <2> HIDE DEF bad
  <2>4. ResultTyped' /\ ~result'.Valid
    BY <2>1, <2>2, <2>3 DEF ResultTyped
  <2> QED
    BY <1>1, <1>3, <2>4
<1> QED
  BY <1>2, <1>3

LEMMA LostStays ==
  ASSUME Lost, file' = file, ~result'.Valid
  PROVE  Lost'
<1>1. AllGood' = AllGood
  BY FileStays
<1> QED
  BY <1>1 DEF Lost

LEMMA GetsLost ==
  ASSUME file' = file, ~result'.Valid, file.diskFails \/ ~AllGood
  PROVE  Lost'
<1>1. AllGood' = AllGood
  BY FileStays
<1> QED
  BY <1>1 DEF Lost

LEMMA InHandOfVerify ==
  ASSUME file \in Files, KeepsTrack, OnTrack, rd.pc = "got"
  PROVE  \E k, p : /\ IsAt(k, p) /\ IsReturned(k, p)
                   /\ ~Good(file.records[k]) => ~AllGood
                   /\ IsRecord(file.records[k])
<1>1. PICK k, p : IsAt(k, p) /\ IsReturned(k, p)
  BY DEF OnTrack
<1> QED
  BY <1>1, AtRecord

\* One lemma for each step of verify.
LEMMA GotTracks ==
  ASSUME Fields, ResultTyped, file \in Files, KeepsTrack, result.Valid, OnTrack, Got
  PROVE  Verdict'
<1>1. /\ pc = "read" /\ rd.pc = "got" /\ UNCHANGED readerVars
      /\ result' = [result EXCEPT !.RecordCount = @ + 1]
      /\ pc' = IF ShouldSkipRecord(rd.record) THEN "close" ELSE "block"
      /\ spool[rd.record.content].stage = "writing"
  BY DEF Got, OnTrack
<1>2. PICK k, p : /\ IsAt(k, p) /\ IsReturned(k, p)
                  /\ ~Good(file.records[k]) => ~AllGood
                  /\ IsRecord(file.records[k])
  BY <1>1, InHandOfVerify
<1> DEFINE r == file.records[k]
<1>3. /\ Field("type") = Seen(r, "type") /\ Field("ctype") = Seen(r, "ctype")
      /\ (IsLookedInto(r) => BlockIsGood(r)) => Framed(r)
  BY <1>2, ReturnedFacts DEF FieldNames
<1>4. result'.Valid
  BY <1>1 DEF ResultTyped
<1>5. HandStays /\ file' = file /\ rd' = rd
  BY <1>1 DEF HandStays, readerVars, Stored, spoolVars
<1>6. IsAt(k, p)' /\ BoundaryDone(k, p)' /\ Member'.whole
  BY <1>2, <1>5, SameHand DEF IsReturned
<1>7. ShouldSkipRecord(rd.record) <=> ~IsLookedInto(r)
  BY <1>3 DEF ShouldSkipRecord, IsLookedInto, Field
<1>8. CASE ShouldSkipRecord(rd.record)
  <2>1. Good(r)
    BY <1>3, <1>7, <1>8 DEF Good
  <2>2. pc' = "close"
    BY <1>1, <1>8
  <2>3. IsReturned(k, p)'
    BY <1>5, <1>6, <2>1, <2>2 DEF IsReturned
  <2>4. OnTrack'
    BY <1>1, <1>5, <1>6, <2>2, <2>3, TrackAt
  <2> QED
    BY <1>4, <2>4 DEF Verdict
<1>9. CASE ~ShouldSkipRecord(rd.record)
  <2>1. IsLookedInto(r) /\ pc' = "block"
    BY <1>1, <1>7, <1>9
  <2>2. Position(rd.record.content)' = 0
    BY <1>1 DEF Position, readerVars, spoolVars
  <2>3. IsReturned(k, p)'
    BY <1>5, <1>6, <2>1, <2>2 DEF IsReturned
  <2>4. OnTrack'
    BY <1>1, <1>5, <1>6, <2>1, <2>3, TrackAt
  <2> QED
    BY <1>4, <2>4 DEF Verdict
<1> QED
  BY <1>8, <1>9

LEMMA BlockTracks ==
  ASSUME SpoolTyped, Fields, BuffersAreHeld, PoolIsEmpty, ResultTyped, file \in Files, KeepsTrack, result.Valid, OnTrack,
         rd.pc = "got", BlockDigest
  PROVE  Verdict' 
<1>1. pc = "block"
  BY DEF BlockDigest
<1>2. PICK k, p : /\ IsAt(k, p) /\ IsReturned(k, p)
                  /\ ~Good(file.records[k]) => ~AllGood
                  /\ IsRecord(file.records[k])
  BY InHandOfVerify
<1> DEFINE r == file.records[k]
           s == Stored(rd.record.content)
<1>3. /\ Field("block") = Seen(r, "block")
      /\ \E X : s \in Seq(X)
      /\ Good(r) => s = Body(r)
  BY <1>2, ReturnedFacts DEF FieldNames
<1>4. IsLookedInto(r) /\ Position(Content) = 0
  BY <1>1, <1>2 DEF IsReturned, Content
<1>5. Rest(Content) = s
  <2>1. PICK X : s \in Seq(X)
    BY <1>3
  <2>2. Rest(Content) = SubSeq(s, 0 + 1, Len(s))
    BY <1>4 DEF Rest, Content
  <2> HIDE DEF s
  <2>3. SubSeq(s, 1, Len(s)) = s
    BY <2>1
  <2> QED
    BY <2>2, <2>3
<1>6. Good(r) => Field("block") = r.block /\ r.block # Missing /\ r.block.seq = s
  <2> SUFFICES ASSUME Good(r) PROVE Field("block") = r.block /\ r.block # Missing /\ r.block.seq = s
    OBVIOUS
  <2>1. r.damage # "bare" /\ r.block = Digest("block", s)
    BY <1>3, <1>4 DEF Good
  <2> HIDE DEF r, s
  <2> QED
    BY <1>3, <2>1 DEF Digest, Missing, Sym, Seen
<1>7. CASE Field("block") = Missing
  <2>1. Judge(FALSE, "payload")
    BY <1>7 DEF BlockDigest
  <2>2. file' = file /\ ~result'.Valid
    BY <2>1, JudgedFacts
  <2>3. ~AllGood
    BY <1>2, <1>6, <1>7
  <2> QED
    BY <2>2, <2>3, GetsLost DEF Verdict
<1>8. CASE Field("block") # Missing
  <2>1. /\ Judge(s = Field("block").seq, "payload") \/ (file.diskFails /\ Judge(FALSE, "payload"))
        /\ ReadTo(rd.record.content, 0)
    BY <1>5, <1>8 DEF BlockDigest, Content
  <2>2. CASE file.diskFails /\ Judge(FALSE, "payload")
    <3>1. file' = file /\ ~result'.Valid
      BY <2>2, JudgedFacts
    <3> QED
      BY <2>2, <3>1, GetsLost DEF Verdict
  <2>3. CASE Judge(s = Field("block").seq, "payload") /\ s # Field("block").seq
    <3>1. Judge(FALSE, "payload")
      BY <2>3
    <3>2. file' = file /\ ~result'.Valid
      BY <3>1, JudgedFacts
    <3>3. ~AllGood
      BY <1>2, <1>6, <2>3
    <3> QED
      BY <3>2, <3>3, GetsLost DEF Verdict
  <2>4. CASE Judge(s = Field("block").seq, "payload") /\ s = Field("block").seq
    <3>1. Judge(TRUE, "payload")
      BY <2>4
    <3>2. file' = file /\ rd' = rd /\ result' = result /\ pc' = "payload"
      BY <3>1, JudgedFacts
    <3>3. HandStays
      <4>1. PICK c : c = rd.record.content
        OBVIOUS
      <4>2. Live = {c}
        BY <4>1 DEF Live, InContent
      <4>3. c \in Contents
        BY <4>2, InHand
      <4>4. Stored(c)' = Stored(c)
        BY <2>1, <4>1, <4>3, StoredRead
      <4>5. Stored(rd.record.content)' = Stored(c)'
        BY <3>2, <4>1 DEF Stored
      <4> QED
        BY <3>2, <4>1, <4>4, <4>5 DEF HandStays
    <3>4. BlockIsGood(r)
      BY <1>3, <1>8, <2>4 DEF BlockIsGood, Seen
    <3>5. IsAt(k, p)' /\ BoundaryDone(k, p)' /\ Member'.whole /\ BlockIsGood(r)'
      <4> HIDE DEF r
      <4>1. IsAt(k, p)' /\ BoundaryDone(k, p)' /\ Member'.whole
        BY <1>2, <3>3, SameHand DEF IsReturned
      <4>2. \A q : BlockIsGood(q)' = BlockIsGood(q)
        BY <3>3, SameHand
      <4>3. PICK q : q = r
        OBVIOUS
      <4>4. BlockIsGood(q)'
        BY <3>4, <4>2, <4>3
      <4>5. r' = r
        BY <3>2 DEF r
      <4>6. BlockIsGood(r)'
        BY <4>3, <4>4, <4>5 DEF BlockIsGood
      <4> QED
        BY <4>1, <4>6
    <3>6. IsReturned(k, p)'
      BY <1>4, <3>2, <3>5 DEF IsReturned
    <3>7. OnTrack'
      BY <3>2, <3>5, <3>6, TrackAt
    <3> QED
      BY <3>2, <3>7 DEF Verdict
  <2> QED
    BY <2>1, <2>2, <2>3, <2>4
<1> QED
  BY <1>7, <1>8

LEMMA PayloadTracks ==
  ASSUME SpoolTyped, Fields, BuffersAreHeld, PoolIsEmpty, ResultTyped, file \in Files, KeepsTrack, result.Valid, OnTrack,
         rd.pc = "got", PayloadDigest
  PROVE  Verdict'
<1>1. pc = "payload"
  BY DEF PayloadDigest
<1>2. PICK k, p : /\ IsAt(k, p) /\ IsReturned(k, p)
                  /\ ~Good(file.records[k]) => ~AllGood
                  /\ IsRecord(file.records[k])
  BY InHandOfVerify
<1>0. PICK r : r = file.records[k]
  OBVIOUS
<1>00. PICK s : s = Stored(rd.record.content)
  OBVIOUS
<1>3. Field("payload") = Seen(r, "payload") /\ (Good(r) => s = Body(r))
  BY <1>0, <1>00, <1>2, ReturnedFacts DEF FieldNames
<1>4. IsLookedInto(r) /\ BlockIsGood(r)
  BY <1>0, <1>1, <1>2 DEF IsReturned
<1>5. Good(r) => Seen(r, "payload") = Missing \/ PayloadMatches(s)
  <2> SUFFICES ASSUME Good(r), Seen(r, "payload") # Missing PROVE PayloadMatches(s)
    OBVIOUS
  <2>0. r.payload # Missing /\ Seen(r, "payload") = r.payload
    BY DEF Seen
  <2>1. /\ Len(s) > 0 /\ s[1] \in {"head", "head1"}
        /\ s[1] = "head1" => Len(s) > 1
        /\ r.payload = Digest("payload", Payload(s))
    BY <1>3, <1>4, <2>0 DEF Good
  <2>2. PayloadOf(s) = Payload(s)
    BY DEF PayloadOf, Payload
  <2>3. Field("payload").sym = "payload" /\ Field("payload").seq = PayloadOf(s)
    BY <1>3, <2>0, <2>1, <2>2 DEF Digest
  <2>4. s # <<>>
    <3>1. Len(<<>>) = 0
      OBVIOUS
    <3> QED
      BY <2>1, <3>1
  <2> QED
    BY <2>1, <2>3, <2>4 DEF PayloadMatches, Heads
<1>6. /\ \/ Judge(PayloadMatches(s), "version") /\ Seen(r, "payload") # Missing
         \/ Judge(TRUE, "version") /\ Seen(r, "payload") = Missing
         \/ file.diskFails /\ Judge(FALSE, "version")
      /\ UNCHANGED spoolVars \/ ReadTo(rd.record.content, 0)
  BY <1>00, <1>3 DEF PayloadDigest, Content
<1>7. PayloadMatches(s) \in BOOLEAN
  BY DEF PayloadMatches
<1>8. CASE Judge(FALSE, "version") /\ (file.diskFails \/ ~(Seen(r, "payload") = Missing \/ PayloadMatches(s)))
  <2>1. file' = file /\ ~result'.Valid
    BY <1>8, JudgedFacts
  <2>2. file.diskFails \/ ~AllGood
    BY <1>0, <1>2, <1>5, <1>8
  <2> QED
    BY <2>1, <2>2, GetsLost DEF Verdict
<1>9. CASE Judge(TRUE, "version") /\ (Seen(r, "payload") = Missing \/ PayloadMatches(s))
  <2>1. file' = file /\ rd' = rd /\ result' = result /\ pc' = "version"
    BY <1>9, JudgedFacts
  <2>2. HandStays
    <3>1. CASE UNCHANGED spoolVars
      BY <2>1, <3>1 DEF HandStays, Stored, spoolVars
    <3>2. CASE ReadTo(rd.record.content, 0)
      <4>1. PICK c : c = rd.record.content
        OBVIOUS
      <4>2. Live = {c}
        BY <4>1 DEF Live, InContent
      <4>3. c \in Contents
        BY <4>2, InHand
      <4>4. Stored(c)' = Stored(c)
        BY <3>2, <4>1, <4>3, StoredRead
      <4>5. Stored(rd.record.content)' = Stored(c)'
        BY <2>1, <4>1 DEF Stored
      <4> QED
        BY <2>1, <4>1, <4>4, <4>5 DEF HandStays
    <3> QED
      BY <1>6, <3>1, <3>2
  <2>3. /\ IsAt(k, p)' /\ BoundaryDone(k, p)' /\ Member'.whole /\ BlockIsGood(r)'
        /\ PayloadMatches(s)' = PayloadMatches(s)
    BY <1>2, <1>4, <2>2, SameHand DEF IsReturned
  <2>4. file'.records[k] = r /\ Stored(rd.record.content)' = s
    BY <1>0, <1>00, <2>1, <2>2 DEF HandStays
  <2>5. Seen(r, "payload") = Missing \/ PayloadMatches(s)'
    BY <1>9, <2>3
  <2>6. IsReturned(k, p)'
    <3>1. PayloadMatches(Stored(rd.record.content))' = PayloadMatches(s)'
      BY <2>4 DEF PayloadMatches
    <3>2. BlockIsGood(file.records[k])'
      BY <2>3, <2>4 DEF BlockIsGood
    <3> QED
      BY <1>4, <2>1, <2>3, <2>4, <2>5, <3>1, <3>2 DEF IsReturned
  <2>7. OnTrack'
    BY <2>1, <2>3, <2>6, TrackAt
  <2> QED
    BY <2>1, <2>7 DEF Verdict
<1>10. PayloadMatches(s) = TRUE \/ PayloadMatches(s) = FALSE
  BY <1>7
<1> QED
  BY <1>6, <1>8, <1>9, <1>10

LEMMA WARCVersionTracks ==
  ASSUME Fields, ResultTyped, file \in Files, KeepsTrack, result.Valid, OnTrack, rd.pc = "got", verifyWARCVersion
  PROVE  Verdict'
<1>1. pc = "version" /\ Judge(VersionOK(rd.record.version), "close") /\ UNCHANGED spoolVars
  BY DEF verifyWARCVersion
<1>2. PICK k, p : /\ IsAt(k, p) /\ IsReturned(k, p)
                  /\ ~Good(file.records[k]) => ~AllGood
                  /\ IsRecord(file.records[k])
  BY InHandOfVerify
<1>0. PICK r : r = file.records[k]
  OBVIOUS
<1>00. PICK s : s = Stored(rd.record.content)
  OBVIOUS
<1>3. /\ Field("payload") = Seen(r, "payload")
      /\ VersionOK(rd.record.version) <=> r.version \in Versions /\ r.damage # "bare"
      /\ (IsLookedInto(r) => BlockIsGood(r)) => Framed(r) /\ s = Body(r)
  BY <1>0, <1>00, <1>2, ReturnedFacts DEF FieldNames
<1>4. IsLookedInto(r) /\ BlockIsGood(r) /\ (Seen(r, "payload") = Missing \/ PayloadMatches(s))
  BY <1>0, <1>00, <1>1, <1>2 DEF IsReturned
<1>5. VersionOK(rd.record.version) <=> Good(r)
  <2>1. Good(r) => VersionOK(rd.record.version)
    BY <1>3, <1>4 DEF Good
  <2>2. ASSUME VersionOK(rd.record.version)
        PROVE  Good(r)
    <3>1. /\ Framed(r) /\ s = Body(r) /\ r.version \in Versions /\ r.damage # "bare"
          /\ Seen(r, "payload") = r.payload
      BY <1>3, <1>4, <2>2 DEF Seen
    <3>2. r.block = Digest("block", s)
      <4>1. r.block = Digest("block", r.block.seq)
        BY <1>0, <1>2, <1>4 DEF IsRecord, BlockIsGood
      <4>2. r.block.seq = s
        BY <1>00, <1>4 DEF BlockIsGood
      <4> QED
        BY <4>1, <4>2
    <3>3. ASSUME r.payload # Missing
          PROVE  /\ Len(s) > 0 /\ s[1] \in {"head", "head1"}
                 /\ s[1] = "head1" => Len(s) > 1
                 /\ r.payload = Digest("payload", Payload(s))
      <4>1. PayloadMatches(s)
        BY <1>4, <3>1, <3>3
      <4>2. /\ s # <<>> /\ s[1] \in {"head", "head1"}
            /\ s[1] = "head1" => Len(s) > 1
            /\ PayloadOf(s) = r.payload.seq
        BY <1>3, <3>1, <4>1 DEF PayloadMatches, Heads
      <4>3. r.payload = Digest("payload", r.payload.seq)
        BY <1>0, <1>2, <3>3 DEF IsRecord
      <4>4. PayloadOf(s) = Payload(s)
        BY DEF PayloadOf, Payload
      <4>5. Len(s) > 0
        <5>1. PICK X : s \in Seq(X)
          BY <1>0, <1>00, <1>2, ReturnedFacts
        <5> QED
          BY <4>2, <5>1
      <4> QED
        BY <4>2, <4>3, <4>4, <4>5
    <3> QED
      BY <3>1, <3>2, <3>3 DEF Good
  <2> QED
    BY <2>1, <2>2
<1>6. CASE ~VersionOK(rd.record.version)
  <2>1. Judge(FALSE, "close")
    BY <1>1, <1>6 DEF Judge
  <2>2. file' = file /\ ~result'.Valid
    BY <2>1, JudgedFacts
  <2>3. ~AllGood
    BY <1>0, <1>2, <1>5, <1>6
  <2> QED
    BY <2>2, <2>3, GetsLost DEF Verdict
<1>7. CASE VersionOK(rd.record.version)
  <2>1. Judge(TRUE, "close")
    BY <1>1, <1>7 DEF VersionOK
  <2>2. file' = file /\ rd' = rd /\ result' = result /\ pc' = "close"
    BY <2>1, JudgedFacts
  <2>3. HandStays
    BY <1>1, <2>2 DEF HandStays, Stored, spoolVars
  <2>4. IsAt(k, p)' /\ BoundaryDone(k, p)' /\ Member'.whole
    BY <1>2, <2>3, SameHand DEF IsReturned
  <2>5. IsReturned(k, p)'
    BY <1>0, <1>5, <1>7, <2>2, <2>4 DEF IsReturned
  <2>6. OnTrack'
    BY <2>2, <2>4, <2>5, TrackAt
  <2> QED
    BY <2>2, <2>6 DEF Verdict
<1> QED
  BY <1>6, <1>7

LEMMA ReadyStays ==
  ASSUME file' = file, rd'.member = rd.member, rd'.at = rd.at
  PROVE  Ready' = Ready
<1>1. IsGzip' = IsGzip /\ \A k : Past(k)' = Past(k)
  BY FileStays
<1> QED
  BY <1>1 DEF Ready

LEMMA CloseTracks ==
  ASSUME Fields, ResultTyped, file \in Files, KeepsTrack, result.Valid, OnTrack, rd.pc = "got", CloseContent
  PROVE  Verdict'
<1>1. pc = "close" /\ rd' = [rd EXCEPT !.pc = "idle"] /\ file' = file /\ result' = result
  BY DEF CloseContent
<1>2. PICK k, p : IsAt(k, p) /\ IsReturned(k, p)
  BY InHandOfVerify
<1>3. Good(file.records[k]) /\ BoundaryDone(k, p)
  BY <1>1, <1>2 DEF IsReturned
<1>4. Ready
  BY <1>2, <1>3, ReadyAgain
<1>5. rd'.pc = "idle" /\ rd'.member = rd.member /\ rd'.at = rd.at
  BY <1>1 DEF Fields
<1>6. OnTrack'
  BY <1>1, <1>4, <1>5, ReadyStays DEF OnTrack
<1> QED
  BY <1>1, <1>6 DEF Verdict

LEMMA EndTracks ==
  ASSUME ResultTyped, file \in Files, result.Valid, OnTrack, End
  PROVE  Verdict' /\ (result'.Valid => result'.AllRecordsRead /\ rd'.pc = "eof")
<1>1. /\ pc = "read" /\ rd.pc \in {"eof", "failed"} /\ pc' = "done" /\ UNCHANGED readerVars
      /\ file' = file /\ rd' = rd
  BY DEF End, readerVars
<1>2. CASE rd.pc = "eof"
  <2>1. AllGood
    BY <1>2 DEF OnTrack
  <2>2. result'.Valid /\ result'.AllRecordsRead
    BY <1>2 DEF End, ResultTyped
  <2>3. OnTrack'
    BY <1>1, <1>2, <2>1, TrackEnds
  <2> QED
    BY <1>1, <1>2, <2>2, <2>3 DEF Verdict
<1>3. CASE rd.pc = "failed"
  <2>1. file.diskFails \/ ~AllGood
    BY <1>3 DEF OnTrack
  <2>2. ~result'.Valid
    BY <1>3 DEF End, ResultTyped
  <2> QED
    BY <1>1, <2>1, <2>2, GetsLost DEF Verdict
<1> QED
  BY <1>1, <1>2, <1>3

\* A step that changes nothing changes nothing that is known.
LEMMA TrackStays ==
  ASSUME OnTrack, file' = file, rd' = rd, UNCHANGED spoolVars, pc' = pc
  PROVE  OnTrack'
<1>1. HandStays
  BY DEF HandStays, Stored, spoolVars
<1>2. /\ Text' = Text /\ Member' = Member /\ \A k, p : IsAt(k, p)' = IsAt(k, p)
      /\ \A k, p : BoundaryDone(k, p)' = BoundaryDone(k, p)
      /\ \A r : BlockIsGood(r)' = BlockIsGood(r)
      /\ \A d : PayloadMatches(d)' = PayloadMatches(d)
  BY <1>1, SameHand
<1>3. rd.pc \in {"close", "failed", "eof"} => OnTrack'
  BY TrackEnds DEF OnTrack
<1>4. rd.pc \in {"content", "boundary", "drain"} \/ (rd.pc = "got" /\ pc = "read") =>
          spool'[rd'.record.content].stage = "writing"
  BY DEF OnTrack, spoolVars
<1>5. CASE rd.pc = "idle"
  <2>1. Ready'
    BY <1>5, ReadyStays DEF OnTrack
  <2> QED
    BY <1>5, <2>1 DEF OnTrack
<1>6. CASE rd.pc = "version"
  <2>1. Ready' = Ready /\ IsGzip' = IsGzip /\ \A k : Past(k)' = Past(k)
    BY ReadyStays, FileStays
  <2>2. Begins'
    BY <1>6, <2>1 DEF OnTrack, Begins
  <2> QED
    BY <1>6, <2>2 DEF OnTrack
<1>7. CASE rd.pc = "header"
  <2>1. PICK k, p : rd.lines = 0 /\ IsAt(k, p) /\ InHeader(k, p)
    BY <1>7 DEF OnTrack
  <2>2. InHeader(k, p)'
    BY <2>1 DEF InHeader, HeaderIs
  <2> QED
    BY <1>2, <1>7, <2>1, <2>2, TrackAt
<1>8. CASE rd.pc \in {"content", "boundary", "drain"}
  <2>1. PICK k, p : /\ IsAt(k, p) /\ (rd.pc = "content" => InBody(k, p))
                    /\ (rd.pc = "boundary" => InBoundary(k, p))
                    /\ (rd.pc = "drain" => BoundaryDone(k, p))
    BY <1>8 DEF OnTrack
  <2>2. SameRecord
    BY DEF SameRecord
  <2>3. HeaderDone(k)' = HeaderDone(k) /\ BodyDone(k, p)' = BodyDone(k, p)
    BY <2>2, RecordStays, BodyStays
  <2>4. InBody(k, p) => InBody(k, p)'
    <3>1. Stored(rd.record.content)' = Stored(rd.record.content)
      BY <1>1 DEF HandStays
    <3> QED
      BY <1>2, <2>3, <3>1 DEF InBody
  <2>5. InBoundary(k, p) => InBoundary(k, p)'
    BY <1>2, <2>3 DEF InBoundary
  <2> QED
    BY <1>2, <1>4, <1>8, <2>1, <2>4, <2>5, TrackAt
<1>9. CASE rd.pc = "got"
  <2>1. PICK k, p : IsAt(k, p) /\ IsReturned(k, p)
    BY <1>9 DEF OnTrack
  <2>2. PICK s : s = Stored(rd.record.content)
    OBVIOUS
  <2>3. Stored(rd.record.content)' = s /\ PayloadMatches(s)' = PayloadMatches(s)
    BY <1>1, <1>2, <2>2 DEF HandStays
  <2>4. PICK r : r = file.records[k]
    OBVIOUS
  <2>5. Position(rd.record.content)' = Position(rd.record.content)
    BY DEF Position, spoolVars
  <2>6. BlockIsGood(file.records[k]) => BlockIsGood(file.records[k])'
    <3>1. BlockIsGood(r)' = BlockIsGood(r)
      BY <1>2
    <3> QED
      BY <2>4, <3>1 DEF BlockIsGood
  <2>7. PayloadMatches(Stored(rd.record.content)) => PayloadMatches(Stored(rd.record.content))'
    BY <2>2, <2>3 DEF PayloadMatches
  <2>8. IsReturned(k, p)'
    BY <1>2, <2>1, <2>5, <2>6, <2>7 DEF IsReturned
  <2> QED
    BY <1>2, <1>4, <1>9, <2>1, <2>8, TrackAt
<1> QED
  BY <1>3, <1>5, <1>6, <1>7, <1>8, <1>9 DEF OnTrack

\* What is known at each place of verify.
JInv == IInv /\ file \in Files /\ VerdictInv

LEMMA InitVerdict ==
  ASSUME Init
  PROVE  JInv
<1>1. IInv /\ file \in Files /\ pc = "open" /\ rd = NewReader
  BY InitHeld DEF Init
<1>2. /\ ResultTyped /\ result.ErrorsCount = 0
  BY DEF Init, ResultTyped
<1>3. PoolIsEmpty
  BY DEF Init, SpoolInit, PoolIsEmpty
<1>4. rd.at = 0 /\ rd.member = 0
  BY <1>1 DEF NewReader
<1>5. Ready
  <2>1. CASE IsGzip
    <3>1. Len(file.records) \in Nat
      BY <1>1, <2>1, FileIs DEF IsGzip
    <3>2. 0 \in 0..Len(file.records) /\ \A j \in 1..((0 + 1) - 1) : FALSE
      BY <3>1
    <3> QED
      BY <1>4, <2>1, <3>2 DEF Ready, Past
  <2>2. CASE ~IsGzip /\ file.format # "other"
    BY <2>2 DEF Ready
  <2>3. CASE ~IsGzip /\ file.format = "other"
    <3>1. /\ Len(file.records) \in Nat /\ DOMAIN file.records = 1..Len(file.records)
          /\ IsStream(file)
      BY <1>1, <2>3, FileIs DEF IsGzipFile
    <3>2. Begin(file)[1] = 0
      BY BeginIs
    <3>3. \A j \in 1..(1 - 1) : FALSE
      OBVIOUS
    <3>4. Past(1)
      BY <3>3 DEF Past
    <3>5. CASE Len(file.records) = 0
      <4>1. 0 + 1 = 1 /\ Len(StreamOf(file)) = Begin(file)[0 + 1]
        BY <3>1, <3>5 DEF IsStream
      <4> QED
        BY <1>4, <2>3, <3>2, <3>4, <3>5, <4>1 DEF Ready
    <3>6. CASE Len(file.records) # 0
      <4>1. 1 \in DOMAIN file.records
        BY <3>1, <3>6
      <4>2. 0 \in Places(file, 1)
        BY <2>3, <3>2 DEF Places
      <4> QED
        BY <1>4, <2>3, <3>4, <4>1, <4>2 DEF Ready
    <3> QED
      BY <3>5, <3>6
  <2> QED
    BY <2>1, <2>2, <2>3
<1> QED
  BY <1>1, <1>2, <1>3, <1>5 DEF JInv, VerdictInv, ResultTyped

\* The whole of the invariant, from its parts.
LEMMA VerdictParts ==
  ASSUME JInv
  PROVE  /\ SpoolTyped /\ Fields /\ BuffersAreHeld /\ FilesAreHeld /\ Agree
         /\ file \in Files /\ ResultTyped /\ PoolIsEmpty
         /\ pc \notin {"open", "error"} /\ KeepsTrack => Verdict
  BY DEF JInv, IInv, HeldInv, VerdictInv, ResultTyped, Verdict

\* The whole of the invariant again, after a step.
LEMMA ToVerdict ==
  ASSUME IInv', file' \in Files, ResultTyped', PoolIsEmpty', pc' # "open",
         result'.Valid => result'.ErrorsCount = 0,
         pc' = "done" /\ result'.Valid => result'.AllRecordsRead /\ rd'.pc = "eof",
         pc' # "error" /\ KeepsTrack' => Verdict'
  PROVE  JInv'
  BY DEF JInv, VerdictInv, ResultTyped, Verdict

\* Once the file has been found to be bad nothing changes that.
LEMMA StaysLost ==
  ASSUME Next, ResultTyped, pc # "open", ~result.Valid, Lost
  PROVE  ~result'.Valid /\ file' = file /\ Lost'
<1>1. file' = file
  <2>1. CASE Read
    BY <2>1 DEF Read, ReadRecord, ReadStart, ReadVersion, ReadHeader, ReadContent, ReadBoundary, ReadRest, ReadClose
  <2>2. CASE Got \/ End \/ BlockDigest \/ PayloadDigest \/ verifyWARCVersion \/ CloseContent \/ Terminated
    BY <2>2 DEF Got, End, BlockDigest, PayloadDigest, verifyWARCVersion, CloseContent, Terminated, Judge,
                vars, readerVars
  <2> QED
    BY <2>1, <2>2 DEF Next, OpenWARCFile
<1>2. ~result'.Valid
  <2>1. CASE BlockDigest \/ PayloadDigest \/ verifyWARCVersion
    <3>1. \E ok \in BOOLEAN : \E next : Judge(ok, next)
      <4>1. \A s : PayloadMatches(s) \in BOOLEAN
        BY DEF PayloadMatches
      <4>2. (Rest(Content) = Field("block").seq) \in BOOLEAN /\ VersionOK(rd.record.version) \in BOOLEAN
        BY DEF VersionOK
      <4> QED
        BY <2>1, <4>1, <4>2 DEF BlockDigest, PayloadDigest, verifyWARCVersion
    <3> QED
      BY <3>1, JudgedFacts
  <2>2. CASE Got \/ End
    BY <2>2 DEF Got, End, ResultTyped
  <2>3. CASE result' = result
    BY <2>3
  <2> QED
    BY <2>1, <2>2, <2>3 DEF Next, OpenWARCFile, Read, CloseContent, Terminated, vars
<1> QED
  BY <1>1, <1>2, LostStays

\* What a step does to the result.
LEMMA ResultNext ==
  ASSUME Next, ResultTyped, pc = "open" \/ result.Valid => result.ErrorsCount = 0
  PROVE  /\ ResultTyped' /\ (result'.Valid => result'.ErrorsCount = 0)
         /\ file' = file /\ (pc' = "open" => FALSE)
         /\ pc' = "done" => End \/ Terminated
         /\ pc' = "error" => OpenWARCFile \/ Terminated
<1>1. CASE OpenWARCFile
  BY <1>1 DEF OpenWARCFile, ResultTyped, readerVars
<1>2. CASE Read
  BY <1>2 DEF Read, ReadRecord, ReadStart, ReadVersion, ReadHeader, ReadContent, ReadBoundary, ReadRest,
              ReadClose, ResultTyped
<1>3. CASE Got
  <2>1. result.RecordCount + 1 \in Nat
    BY DEF ResultTyped
  <2>2. /\ result' = [result EXCEPT !.RecordCount = result.RecordCount + 1]
        /\ file' = file /\ pc' \in {"close", "block"}
    BY <1>3 DEF Got, readerVars
  <2>3. ResultTyped'
    BY <2>1, <2>2 DEF ResultTyped
  <2>4. result'.Valid = result.Valid /\ result'.ErrorsCount = result.ErrorsCount
    BY <2>2 DEF ResultTyped
  <2> QED
    BY <2>2, <2>3, <2>4
<1>4. CASE End
  <2>1. result.ErrorsCount + 1 \in Nat
    BY DEF ResultTyped
  <2>2. /\ file' = file /\ pc' = "done"
        /\ \/ result' = [result EXCEPT !.AllRecordsRead = TRUE]
           \/ result' = [result EXCEPT !.Valid = FALSE, !.ErrorsCount = result.ErrorsCount + 1]
    BY <1>4 DEF End, readerVars
  <2>3. ResultTyped'
    BY <2>1, <2>2 DEF ResultTyped
  <2>4. result'.Valid => result.Valid /\ result'.ErrorsCount = result.ErrorsCount
    BY <2>2 DEF ResultTyped
  <2> QED
    BY <1>4, <2>2, <2>3, <2>4
<1>5. CASE BlockDigest \/ PayloadDigest \/ verifyWARCVersion
  <2>1. PICK ok \in BOOLEAN, next \in {"payload", "version", "close"} : Judge(ok, next)
    <3>1. \A s : PayloadMatches(s) \in BOOLEAN
      BY DEF PayloadMatches
    <3>2. (Rest(Content) = Field("block").seq) \in BOOLEAN /\ VersionOK(rd.record.version) \in BOOLEAN
      BY DEF VersionOK
    <3> QED
      BY <1>5, <3>1, <3>2 DEF BlockDigest, PayloadDigest, verifyWARCVersion
  <2>2. ResultTyped' /\ pc' = next /\ file' = file /\ (result'.Valid => result.Valid /\ result' = result)
    BY <2>1, JudgedFacts
  <2> QED
    BY <2>1, <2>2
<1>6. CASE CloseContent
  BY <1>6 DEF CloseContent, ResultTyped
<1>7. CASE Terminated
  BY <1>7 DEF Terminated, vars, readerVars, ResultTyped
<1> QED
  BY <1>1, <1>2, <1>3, <1>4, <1>5, <1>6, <1>7 DEF Next

\* A buffer in the pool is empty, after any step.
LEMMA PoolNext ==
  ASSUME JInv, Next
  PROVE  PoolIsEmpty'
<1>1. SpoolTyped /\ Fields /\ BuffersAreHeld /\ Agree /\ PoolIsEmpty
  BY VerdictParts
<1>2. CASE Read
  BY <1>1, <1>2, ReaderPool DEF Read
<1>3. CASE UNCHANGED spoolVars
  BY <1>1, <1>3 DEF PoolIsEmpty, spoolVars
<1>4. CASE BlockDigest \/ PayloadDigest \/ CloseContent
  <2>1. rd.pc = "got"
    BY <1>1, <1>4 DEF BlockDigest, PayloadDigest, CloseContent, Agree
  <2>2. PICK c : c = rd.record.content
    OBVIOUS
  <2>3. c \in Contents
    BY <1>1, <2>1, <2>2, InHand DEF Live, InContent
  <2>4. UNCHANGED spoolVars \/ ReadTo(c, 0) \/ Close(c) \/ RemoveFails(c)
    BY <1>4, <2>2 DEF BlockDigest, PayloadDigest, CloseContent, Content
  <2> QED
    BY <1>1, <1>3, <2>3, <2>4, StoredRead, PoolStaysEmpty
<1> QED
  BY <1>2, <1>3, <1>4 DEF Next, OpenWARCFile, Got, End, verifyWARCVersion, Terminated, vars, readerVars

\* What has been found when the file is opened is nothing.
LEMMA OpenVerdict ==
  ASSUME JInv, OpenWARCFile, pc' # "error"
  PROVE  Verdict'
<1>1. /\ pc = "open" /\ result'.Valid /\ UNCHANGED readerVars
  BY DEF JInv, VerdictInv, OpenWARCFile
<1>2. rd = NewReader /\ Ready
  BY <1>1 DEF JInv, VerdictInv
<1>3. Ready' /\ rd'.pc = "idle"
  BY <1>1, <1>2, ReadyStays DEF readerVars, NewReader
<1>4. OnTrack'
  BY <1>3 DEF OnTrack
<1> QED
  BY <1>1, <1>4 DEF Verdict

\* What has been found is what is said of the file, after any step.
LEMMA VerdictNext ==
  ASSUME JInv, Next, pc' # "error", KeepsTrack
  PROVE  Verdict'
<1>1. /\ SpoolTyped /\ Fields /\ BuffersAreHeld /\ Agree /\ PoolIsEmpty
      /\ file \in Files /\ ResultTyped
  BY VerdictParts
<1>3. CASE OpenWARCFile
  BY <1>3, OpenVerdict
<1>4. CASE ~OpenWARCFile /\ ~result.Valid
  <2>1. pc \notin {"open", "error"}
    BY <1>4 DEF Next, Read, Got, End, BlockDigest, PayloadDigest, verifyWARCVersion, CloseContent,
                Terminated, vars
  <2>2. Lost
    BY <1>4, <2>1, VerdictParts DEF Verdict
  <2> QED
    BY <1>1, <1>4, <2>1, <2>2, StaysLost DEF Verdict
<1>5. CASE ~OpenWARCFile /\ result.Valid
  <2>1. pc \notin {"open", "error"}
    BY <1>5 DEF Next, Read, Got, End, BlockDigest, PayloadDigest, verifyWARCVersion, CloseContent,
                Terminated, vars
  <2>2. OnTrack
    BY <1>5, <2>1, VerdictParts DEF Verdict, Lost
  <2>3. CASE Read
    <3>1. ReadRecord /\ pc = "read" /\ pc' = "read" /\ result' = result
      BY <2>3 DEF Read
    <3> QED
      BY <1>1, <1>5, <2>2, <3>1, ReaderTracks DEF Verdict
  <2>4. CASE Got
    BY <1>1, <1>5, <2>2, <2>4, GotTracks
  <2>5. CASE End
    BY <1>1, <1>5, <2>2, <2>5, EndTracks
  <2>6. CASE BlockDigest \/ PayloadDigest \/ verifyWARCVersion \/ CloseContent
    <3>1. rd.pc = "got"
      BY <1>1, <2>6 DEF BlockDigest, PayloadDigest, verifyWARCVersion, CloseContent, Agree
    <3> QED
      BY <1>1, <1>5, <2>2, <2>6, <3>1, BlockTracks, PayloadTracks, WARCVersionTracks, CloseTracks
  <2>7. CASE Terminated
    <3>1. UNCHANGED <<readerVars, pc, result>>
      BY <2>7 DEF Terminated, vars
    <3>2. OnTrack'
      BY <2>2, <3>1, TrackStays DEF readerVars
    <3> QED
      BY <1>5, <3>1, <3>2 DEF Verdict, readerVars
  <2> QED
    BY <1>5, <2>3, <2>4, <2>5, <2>6, <2>7 DEF Next
<1> QED
  BY <1>3, <1>4, <1>5

\* A file that is valid when it is done has been read to its end.
LEMMA DoneNext ==
  ASSUME JInv, Next, pc' = "done", result'.Valid
  PROVE  result'.AllRecordsRead /\ rd'.pc = "eof"
<1>1. ResultTyped /\ (End \/ Terminated)
  BY VerdictParts, ResultNext DEF JInv, VerdictInv
<1>2. CASE End
  <2>1. /\ rd.pc \in {"eof", "failed"} /\ rd' = rd
        /\ result' = IF rd.pc = "eof" THEN [result EXCEPT !.AllRecordsRead = TRUE]
                     ELSE [result EXCEPT !.Valid = FALSE, !.ErrorsCount = @ + 1]
    BY <1>2 DEF End, readerVars
  <2> QED
    BY <1>1, <2>1 DEF ResultTyped
<1>3. CASE Terminated
  BY <1>3 DEF Terminated, vars, readerVars, JInv, VerdictInv
<1> QED
  BY <1>1, <1>2, <1>3

LEMMA UnchangedVerdict ==
  ASSUME JInv, UNCHANGED vars
  PROVE  JInv'
<1>1. IInv'
  BY NextHeld DEF JInv
<1>2. /\ file' = file /\ rd' = rd /\ pc' = pc /\ result' = result /\ UNCHANGED spoolVars
  BY DEF vars, readerVars
<1>3. PoolIsEmpty'
  BY <1>2 DEF JInv, VerdictInv, PoolIsEmpty, spoolVars
<1>4. Ready' = Ready
  BY <1>2, ReadyStays
<1>5. CASE pc \in {"open", "error"}
  BY <1>1, <1>2, <1>3, <1>4, <1>5 DEF JInv, VerdictInv
<1>6. CASE pc \notin {"open", "error"}
  <2>1. KeepsTrack' = KeepsTrack
    BY <1>2, FileStays
  <2>2. KeepsTrack' => Verdict'
    BY <1>2, <1>6, <2>1, VerdictParts, TrackStays, LostStays DEF Verdict, Lost
  <2> QED
    BY <1>1, <1>2, <1>3, <1>6, <2>2, ToVerdict DEF JInv, VerdictInv, ResultTyped
<1> QED
  BY <1>5, <1>6

LEMMA NextVerdict ==
  ASSUME JInv, [Next]_vars
  PROVE  JInv'
<1>1. CASE Next
  <2>1. IInv'
    BY NextHeld DEF JInv
  <2>2. /\ ResultTyped' /\ (result'.Valid => result'.ErrorsCount = 0)
        /\ file' = file /\ pc' # "open"
    BY <1>1, ResultNext, VerdictParts DEF JInv, VerdictInv
  <2>3. PoolIsEmpty' /\ file' \in Files
    BY <1>1, <2>2, PoolNext DEF JInv
  <2>4. pc' = "done" /\ result'.Valid => result'.AllRecordsRead /\ rd'.pc = "eof"
    BY <1>1, DoneNext
  <2>5. KeepsTrack' = KeepsTrack
    BY <2>2, FileStays
  <2>6. pc' # "error" /\ KeepsTrack' => Verdict'
    BY <1>1, <2>5, VerdictNext
  <2> QED
    BY <2>1, <2>2, <2>3, <2>4, <2>6, ToVerdict
<1>2. CASE UNCHANGED vars
  BY <1>2, UnchangedVerdict
<1> QED
  BY <1>1, <1>2

\* A file that is done is what has been found of it.
LEMMA VerdictFollows ==
  ASSUME JInv
  PROVE  VerdictIsRight
<1> SUFFICES ASSUME pc = "done", KeepsTrack
             PROVE  /\ result.Valid => AllGood /\ result.AllRecordsRead /\ result.ErrorsCount = 0
                    /\ AllGood /\ ~file.diskFails => result.Valid
  BY DEF VerdictIsRight, AllGood
<1>1. Verdict /\ (result.Valid => result.AllRecordsRead /\ rd.pc = "eof" /\ result.ErrorsCount = 0)
  BY VerdictParts DEF JInv, VerdictInv
<1>2. result.Valid => AllGood
  BY <1>1 DEF Verdict, Lost, OnTrack
<1>3. AllGood /\ ~file.diskFails => result.Valid
  BY <1>1 DEF Verdict, Lost
<1> QED
  BY <1>1, <1>2, <1>3

(* verify.go:70: a file is called valid exactly if every record the reader can
   reach in it is well framed and, when it is of a response, has a known version
   and holds what its digests say: for every file of records that WriteRecord may
   have written, however many they are, whatever their lengths say and whatever
   has happened to them since, and for every size of the buffers of the reader and
   of the pool.  A file that is not compressed is excepted if the reader loses the
   place of its records without noticing. *)
THEOREM VerdictIsRightHolds == Spec => []VerdictIsRight
<1>1. Init => JInv
  BY InitVerdict
<1>2. JInv /\ [Next]_vars => JInv'
  BY NextVerdict
<1>3. JInv => VerdictIsRight
  BY VerdictFollows
<1> QED
  BY <1>1, <1>2, <1>3, PTL DEF Spec
=============================================================================
