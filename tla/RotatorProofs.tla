--------------------------- MODULE RotatorProofs ---------------------------
(***************************************************************************)
(* Proofs about Rotator, for any number of writers, batches and serials:   *)
(* its types, files and names; that the records of a batch stay together   *)
(* and are written once; and that it implements Archive.                   *)
(***************************************************************************)
EXTENDS RotatorInv, SequenceTheorems, TLAPS

\* The first name is a name: there is a serial and a stamp.
LEMMA NoneIsName == [stamp |-> 0, serial |-> 1] \in Names
  BY RotatorAssumption DEF Names

LEMMA NextSerialType ==
  ASSUME NEW s \in 0..MaxSerial
  PROVE  NextSerial(s) \in 1..MaxSerial
  BY RotatorAssumption DEF NextSerial

LEMMA InfoRecordType ==
  ASSUME NEW id \in InfoIDs
  PROVE  InfoRecord(id) \in Records
  BY DEF InfoRecord, Records

LEMMA LeftoverType ==
  ASSUME NEW n \in Names
  PROVE  Leftover(n) \in Seq(Records)
<1>1. <<NoWriter, n>> \in InfoIDs
  BY DEF InfoIDs
<1> QED
  BY <1>1, InfoRecordType DEF Leftover

LEMMA TypeInit == Init => TypeOK
<1> SUFFICES ASSUME Init PROVE TypeOK
  OBVIOUS
<1>1. pc \in [Writers -> PCs] /\ torn \in SUBSET Names
  BY DEF Init, PCs
<1>2. name \in [Writers -> Names] /\ info \in [Writers -> InfoIDs]
  BY NoneIsName DEF Init, InfoIDs
<1>3. cur \in [Writers -> Batches \union {NoBatch}] /\ idx \in [Writers -> Nat \ {0}]
  BY DEF Init
<1>4. openFiles \in [Names -> Seq(Records) \union {NoFile}]
  BY LeftoverType DEF Init
<1>5. doneFiles \in [Names -> Seq(Records) \union {NoFile}]
  BY LeftoverType DEF Init
<1>6. serial \in [Rotators -> 0..MaxSerial] /\ clock \in 1..MaxClock
  BY RotatorAssumption DEF Init
<1>7. /\ queue \in [Rotators -> Seq(Batches)] /\ closed \in [Rotators -> BOOLEAN]
      /\ submitted \in SUBSET Batches /\ alive \in BOOLEAN
      /\ feedback \in [Batches -> SUBSET {"sent", "received", "closed"}]
  BY DEF Init
<1> QED
  BY <1>1, <1>2, <1>3, <1>4, <1>5, <1>6, <1>7 DEF TypeOK

-----------------------------------------------------------------------------
(***************************************************************************)
(* Names.  Most steps give out no name and touch no file.                  *)
(***************************************************************************)

LEMMA UsedAreNames == TypeOK => UsedNames \subseteq Names
  BY DEF UsedNames, TypeOK

LEMMA NameNumbers ==
  ASSUME NEW n \in Names
  PROVE  n.stamp \in Nat /\ n.serial \in Nat
  BY DEF Names

LEMMA RecentFrame ==
  ASSUME TypeOK, TypeOK', NamesAreRecent, UsedNames' \subseteq UsedNames,
         serial' = serial, clock' >= clock
  PROVE  NamesAreRecent'
<1> SUFFICES ASSUME NEW r \in Rotators
             PROVE  \E s \in 1..clock' : \A n \in UsedNames' :
                       n.stamp < s \/ (n.stamp <= clock' /\ n.serial <= serial'[r])
  BY DEF NamesAreRecent
<1>1. PICK s \in 1..clock : \A n \in UsedNames :
               n.stamp < s \/ (n.stamp <= clock /\ n.serial <= serial[r])
  BY DEF NamesAreRecent
<1>2. s \in 1..clock'
  BY DEF TypeOK
<1>3. \A n \in UsedNames' : n.stamp < s \/ (n.stamp <= clock' /\ n.serial <= serial'[r])
  <2> SUFFICES ASSUME NEW n \in UsedNames'
               PROVE  n.stamp < s \/ (n.stamp <= clock' /\ n.serial <= serial'[r])
    OBVIOUS
  <2>1. n.stamp \in Nat /\ n.serial \in Nat
    BY UsedAreNames, NameNumbers
  <2>2. n.stamp < s \/ (n.stamp <= clock /\ n.serial <= serial'[r])
    BY <1>1
  <2>3. clock \in Nat /\ clock' \in Nat
    BY DEF TypeOK
  <2> QED
    BY <2>1, <2>2, <2>3
<1> QED
  BY <1>2, <1>3

\* A step of w that keeps to its files and takes no name.
LEMMA OwnedFrame ==
  ASSUME NamesAreOwned, UNCHANGED <<name, openFiles, doneFiles>>,
         \A w \in Writers : /\ Holding(w)' => Holding(w)
                            /\ Writing(w)' => Writing(w)
                            /\ pc'[w] = "create" => pc[w] = "create"
  PROVE  NamesAreOwned' /\ UsedNames' \subseteq UsedNames
<1>1. NamesAreOwned'
  BY DEF NamesAreOwned
<1>2. UsedNames' \subseteq UsedNames
  BY DEF UsedNames
<1> QED
  BY <1>1, <1>2

LEMMA NameInvInit == Init => NameInv
<1> SUFFICES ASSUME Init PROVE NameInv
  OBVIOUS
<1>1. TypeOK
  BY TypeInit
<1>2. BatchInHand
  BY DEF Init, BatchInHand
<1>3. NamesAreRecent
  <2>1. 1 \in 1..clock /\ \A n \in UsedNames : n.stamp < 1
    <3>1. \A n \in Names : doneFiles[n] # NoFile => n \in OldDone
      BY DEF Init
    <3>2. \A w \in Writers : ~Holding(w)
      BY DEF Init, Holding
    <3> QED
      BY <3>1, <3>2, DirectoryAssumption DEF UsedNames, Names, Init
  <2> QED
    BY <2>1 DEF NamesAreRecent
<1>4. NamesAreOwned
  BY DEF Init, NamesAreOwned, Holding, Writing
<1> QED
  BY <1>1, <1>2, <1>3, <1>4 DEF NameInv

\* The name that GenerateName gives out is new, and the invariant on names is
\* kept: inside a round of serials by the serial, between two by the stamp.
LEMMA GenerateNameRecent ==
  ASSUME NEW r0, Rotators = {r0}, NEW w \in Writers,
         NameInv, TypeOK', GenerateName(w)
  PROVE  name'[w] \notin UsedNames /\ NamesAreRecent'
<1> DEFINE ns == NextSerial(serial[r0])
           n0 == [stamp |-> clock, serial |-> ns]
<1>0. RotatorOf[w] = r0 /\ serial[r0] \in 0..MaxSerial /\ clock \in 1..MaxClock /\ MaxSerial \in Nat \ {0}
  BY RotatorAssumption DEF NameInv, TypeOK
<1>1. name' = [name EXCEPT ![w] = n0] /\ name'[w] = n0 /\ serial'[r0] = ns /\ clock' = clock
  BY <1>0 DEF TimeStamp, GenerateName, NameInv, TypeOK
<1>2. UsedNames' \subseteq UsedNames \union {n0}
  BY <1>1 DEF GenerateName, UsedNames, Holding, NameInv, TypeOK, disk
<1>3. \A n \in UsedNames : n.stamp \in Nat /\ n.serial \in Nat
  BY UsedAreNames, NameNumbers DEF NameInv
<1>4. PICK s \in 1..clock : \A n \in UsedNames :
               n.stamp < s \/ (n.stamp <= clock /\ n.serial <= serial[r0])
  BY DEF NamesAreRecent, NameInv
<1>5. CASE serial[r0] < MaxSerial
  <2>1. ns = serial[r0] + 1
    BY <1>0, <1>5 DEF NextSerial
  <2>2. n0 \notin UsedNames
    BY <1>0, <1>3, <1>4, <2>1
  <2>3. \A n \in UsedNames' : n.stamp < s \/ (n.stamp <= clock' /\ n.serial <= serial'[r0])
    BY <1>0, <1>1, <1>2, <1>3, <1>4, <2>1
  <2> QED
    BY <1>1, <2>2, <2>3 DEF NamesAreRecent
<1>6. CASE serial[r0] >= MaxSerial
  <2>1. \A n \in UsedNames : n.stamp < clock
    BY <1>0, <1>6 DEF GenerateName, RoundsAreSlow
  <2>2. n0 \notin UsedNames
    BY <1>0, <2>1
  <2>3. clock \in 1..clock' /\ ns \in Nat
    BY <1>0, <1>1, NextSerialType
  <2>4. \A n \in UsedNames' : n.stamp < clock \/ (n.stamp <= clock' /\ n.serial <= serial'[r0])
    BY <1>0, <1>1, <1>2, <2>1, <2>3
  <2> QED
    BY <1>1, <2>2, <2>3, <2>4 DEF NamesAreRecent
<1> QED
  BY <1>0, <1>5, <1>6

-----------------------------------------------------------------------------
(***************************************************************************)
(* NameInv is kept by every step, if there is one rotator.                 *)
(***************************************************************************)

LEMMA GenerateNameInv ==
  ASSUME NEW r0, Rotators = {r0}, NEW w \in Writers, NameInv, GenerateName(w)
  PROVE  NameInv'
<1> USE DEF NameInv
<1>1. TypeOK'
  <2>1. RotatorOf[w] \in Rotators /\ serial[RotatorOf[w]] \in 0..MaxSerial
    BY RotatorAssumption DEF TypeOK
  <2>2. NextSerial(serial[RotatorOf[w]]) \in 1..MaxSerial
    BY <2>1, NextSerialType
  <2>3. [stamp |-> clock, serial |-> NextSerial(serial[RotatorOf[w]])] \in Names
    BY <2>2 DEF Names, TypeOK
  <2>4. NextSerial(serial[RotatorOf[w]]) \in 0..MaxSerial
    BY <2>2
  <2> QED
    BY <2>3, <2>4 DEF TypeOK, TimeStamp, GenerateName, disk, chans, PCs
<1>2. name'[w] \notin UsedNames /\ NamesAreRecent'
  BY <1>1, GenerateNameRecent
<1>3. BatchInHand'
  BY DEF BatchInHand, GenerateName, TypeOK
<1>4. NamesAreOwned'
  <2>1. /\ pc' = [pc EXCEPT ![w] = "stat"] /\ openFiles' = openFiles /\ doneFiles' = doneFiles
        /\ \A v \in Writers : v # w => name'[v] = name[v]
        /\ name'[w] \in Names
    BY <1>1 DEF GenerateName, TypeOK, disk
  <2>2. \A v \in Writers : v # w /\ Holding(v)' => name[v] \in UsedNames /\ Holding(v)
    BY <2>1 DEF UsedNames, Holding, TypeOK
  <2>3. doneFiles'[name'[w]] = NoFile
    BY <2>1, <1>2 DEF UsedNames
  <2>4. \A v \in Writers : v # w => (Writing(v)' <=> Writing(v)) /\ pc'[v] = pc[v]
    BY <2>1 DEF Writing, TypeOK
  <2>5. ~Writing(w)' /\ pc'[w] = "stat"
    BY <2>1 DEF Writing, TypeOK
  <2> QED
    BY <2>1, <2>2, <2>3, <2>4, <2>5, <1>2 DEF NamesAreOwned
<1> QED
  BY <1>1, <1>2, <1>3, <1>4

LEMMA StatInv ==
  ASSUME NEW w \in Writers, NameInv, Stat(w)
  PROVE  NameInv'
<1> USE DEF NameInv
<1>1. TypeOK' /\ BatchInHand'
  BY DEF TypeOK, BatchInHand, Stat, disk, chans, PCs
<1>2. /\ \A v \in Writers : (Holding(v)' => Holding(v)) /\ (Writing(v)' <=> Writing(v))
      /\ UNCHANGED <<name, openFiles, doneFiles, serial, clock>>
  BY DEF Stat, Holding, Writing, TypeOK, disk
<1>3. NamesAreOwned'
  BY <1>2 DEF NamesAreOwned, Stat, NameTaken, TypeOK
<1>4. UsedNames' \subseteq UsedNames
  BY <1>2 DEF UsedNames
<1> QED
  BY <1>1, <1>2, <1>3, <1>4, RecentFrame DEF TypeOK

LEMMA CreateInv ==
  ASSUME NEW w \in Writers, NameInv, Create(w)
  PROVE  NameInv'
<1> USE DEF NameInv
<1>1. TypeOK' /\ BatchInHand'
  BY DEF TypeOK, BatchInHand, Create, chans, PCs
<1>2. /\ UNCHANGED <<name, doneFiles, serial, clock>> /\ Holding(w)
      /\ openFiles' = [openFiles EXCEPT ![name[w]] = <<>>]
      /\ \A v \in Writers : Holding(v)' <=> Holding(v)
      /\ \A v \in Writers : v # w => pc'[v] = pc[v] /\ (Writing(v)' <=> Writing(v))
      /\ \A v \in Writers : Writing(v) \/ pc[v] = "create" => Holding(v)
      /\ pc'[w] = "info"
  BY DEF Create, Holding, Writing, TypeOK
<1>3. <<>> # NoFile
  <2>1. <<>> \in Seq(Records)
    OBVIOUS
  <2> QED
    BY <2>1, DirectoryAssumption
<1>4. NamesAreOwned'
  BY <1>2, <1>3 DEF NamesAreOwned, TypeOK
<1>5. UsedNames' \subseteq UsedNames
  BY <1>2 DEF UsedNames
<1> QED
  BY <1>1, <1>2, <1>4, <1>5, RecentFrame DEF TypeOK

\* Appending a record to the file one holds.
LEMMA AppendInv ==
  ASSUME NEW w \in Writers, NEW rec \in Records, NameInv, TypeOK',
         Writing(w), Writing(w)',
         openFiles' = [openFiles EXCEPT ![name[w]] = Append(@, rec)],
         UNCHANGED <<name, doneFiles, serial, clock>>,
         \A v \in Writers : v # w => pc'[v] = pc[v]
  PROVE  NamesAreOwned' /\ NamesAreRecent'
<1> USE DEF NameInv
<1>1. \A v \in Writers : (Holding(v)' <=> Holding(v)) /\ (Writing(v)' <=> Writing(v))
  BY DEF Holding, Writing
<1>2. \A v \in Writers : pc'[v] = "create" => v # w /\ pc[v] = "create" /\ Holding(v) /\ Holding(w)
  BY DEF Holding, Writing
<1>3. openFiles[name[w]] \in Seq(Records)
  BY DEF NamesAreOwned, TypeOK
<1>4. Append(openFiles[name[w]], rec) \in Seq(Records)
  BY <1>3
<1>5. Append(openFiles[name[w]], rec) # NoFile
  BY <1>4, DirectoryAssumption
<1>6. NamesAreOwned'
  BY <1>1, <1>2, <1>5 DEF NamesAreOwned, TypeOK
<1>7. UsedNames' \subseteq UsedNames
  BY <1>1 DEF UsedNames
<1> QED
  BY <1>6, <1>7, RecentFrame DEF TypeOK

LEMMA WriteInfoInv ==
  ASSUME NEW w \in Writers, NameInv, WriteInfo(w)
  PROVE  NameInv'
<1> USE DEF NameInv
<1>1. <<w, name[w]>> \in InfoIDs /\ InfoRecord(<<w, name[w]>>) \in Records
  <2>1. <<w, name[w]>> \in InfoIDs
    BY DEF TypeOK, InfoIDs
  <2> QED
    BY <2>1, InfoRecordType
<1>2. Writing(w) /\ Writing(w)'
  BY DEF Writing, WriteInfo, AfterInfo, TypeOK
<1>3. openFiles[name[w]] \in Seq(Records)
  BY <1>2 DEF NamesAreOwned, TypeOK
<1>4. Append(openFiles[name[w]], InfoRecord(<<w, name[w]>>)) \in Seq(Records)
  BY <1>1, <1>3
<1>5. openFiles' \in [Names -> Seq(Records) \union {NoFile}]
  BY <1>4 DEF WriteInfo, TypeOK
<1>6. TypeOK'
  BY <1>1, <1>5 DEF TypeOK, WriteInfo, AfterInfo, chans, PCs
<1>7. BatchInHand'
  BY RotatorAssumption DEF BatchInHand, WriteInfo, AfterInfo, TypeOK
<1>8. NamesAreOwned' /\ NamesAreRecent'
  BY <1>1, <1>2, <1>6, AppendInv DEF WriteInfo, TypeOK
<1> QED
  BY <1>6, <1>7, <1>8

LEMMA FlushInv ==
  ASSUME NEW w \in Writers, NameInv, Flush(w)
  PROVE  NameInv'
<1> USE DEF NameInv
<1> DEFINE rec == [batch |-> cur[w], idx |-> idx[w], info |-> info[w]]
<1>1. rec \in Records /\ cur[w] \in Batches /\ idx[w] \in Nat \ {0} /\ idx[w] <= BatchLen[cur[w]]
  BY DEF TypeOK, Records, BatchInHand, Flush
<1>2. Writing(w) /\ Writing(w)'
  BY DEF Writing, Flush, AfterRecord, AfterLast, TypeOK
<1>3. openFiles[name[w]] \in Seq(Records)
  BY <1>2 DEF NamesAreOwned, TypeOK
<1>4. Append(openFiles[name[w]], rec) \in Seq(Records)
  BY <1>1, <1>3
<1>5. openFiles' \in [Names -> Seq(Records) \union {NoFile}]
  BY <1>4 DEF Flush, TypeOK
<1>6. TypeOK'
  BY <1>1, <1>5 DEF TypeOK, Flush, AfterRecord, AfterLast, chans, PCs
<1>7. BatchInHand'
  BY <1>1, RotatorAssumption DEF BatchInHand, Flush, AfterRecord, AfterLast, TypeOK
<1>8. NamesAreOwned' /\ NamesAreRecent'
  BY <1>1, <1>2, <1>6, AppendInv DEF Flush, TypeOK
<1> QED
  BY <1>6, <1>7, <1>8

LEMMA RenameInv ==
  ASSUME NEW w \in Writers, NameInv, Rotate(w) \/ Finish(w)
  PROVE  NameInv'
<1> USE DEF NameInv
<1>1. PICK next \in {"name", "signal"} :
         /\ RenameTo(w, next)
         /\ (pc[w] = "rotate" /\ next = "name") \/ (pc[w] = "finish" /\ next = "signal")
  BY DEF Rotate, Finish
<1>2. Holding(w) /\ Writing(w) /\ openFiles[name[w]] \in Seq(Records) \union {NoFile}
  BY <1>1 DEF Holding, Writing, TypeOK
<1>3. TypeOK'
  BY <1>1, <1>2 DEF TypeOK, RenameTo, chans, PCs
<1>4. BatchInHand'
  BY <1>1 DEF BatchInHand, RenameTo, TypeOK
<1>5. /\ UNCHANGED <<name, serial, clock>>
      /\ doneFiles' = [doneFiles EXCEPT ![name[w]] = openFiles[name[w]]]
      /\ openFiles' = [openFiles EXCEPT ![name[w]] = NoFile]
      /\ \A v \in Writers : v # w => /\ pc'[v] = pc[v] /\ (Holding(v)' <=> Holding(v))
                                     /\ (Writing(v)' <=> Writing(v))
      /\ ~Holding(w)' /\ ~Writing(w)' /\ pc'[w] # "create"
      /\ \A v \in Writers : Writing(v) \/ pc[v] = "create" => Holding(v)
  BY <1>1 DEF RenameTo, Holding, Writing, TypeOK
<1>6. NamesAreOwned'
  BY <1>2, <1>5 DEF NamesAreOwned, TypeOK
<1>7. UsedNames' \subseteq UsedNames
  BY <1>2, <1>5 DEF UsedNames, TypeOK
<1> QED
  BY <1>3, <1>4, <1>5, <1>6, <1>7, RecentFrame DEF TypeOK

\* The other steps of a writer keep to its name and leave the disk alone.
LEMMA OtherStepInv ==
  ASSUME NEW w \in Writers, NameInv,
         \/ Receive(w) \/ Copy(w) \/ SendFeedback(w) \/ CloseFeedback(w)
         \/ SeeClosed(w) \/ SignalDone(w)
  PROVE  NameInv'
<1> USE DEF NameInv
<1>1. TypeOK'
  <2>1. CASE Receive(w)
    <3>1. queue[RotatorOf[w]] \in Seq(Batches) /\ RotatorOf[w] \in Rotators
      BY RotatorAssumption DEF TypeOK
    <3>2. Head(queue[RotatorOf[w]]) \in Batches /\ Tail(queue[RotatorOf[w]]) \in Seq(Batches)
      BY <2>1, <3>1 DEF Receive
    <3> QED
      BY <2>1, <3>1, <3>2 DEF Receive, TypeOK, disk, PCs
  <2>2. CASE Copy(w)
    BY <2>2 DEF Copy, TypeOK, disk, chans, PCs
  <2>3. CASE SendFeedback(w)
    <3>1. cur[w] \in Batches
      BY <2>3 DEF SendFeedback, BatchInHand
    <3>2. feedback' \in [Batches -> SUBSET {"sent", "received", "closed"}]
      BY <2>3, <3>1 DEF SendFeedback, TypeOK
    <3> QED
      BY <2>3, <3>2 DEF SendFeedback, TypeOK, disk, chans, PCs
  <2>4. CASE CloseFeedback(w)
    <3>1. cur[w] \in Batches
      BY <2>4 DEF CloseFeedback, BatchInHand
    <3>2. feedback' \in [Batches -> SUBSET {"sent", "received", "closed"}]
      BY <2>4, <3>1 DEF CloseFeedback, TypeOK
    <3> QED
      BY <2>4, <3>2 DEF CloseFeedback, TypeOK, disk, chans, PCs
  <2>5. CASE SeeClosed(w) \/ SignalDone(w)
    BY <2>5 DEF SeeClosed, SignalDone, TypeOK, disk, chans, PCs
  <2> QED
    BY <2>1, <2>2, <2>3, <2>4, <2>5
<1>2. BatchInHand'
  <2>1. CASE Receive(w)
    <3>1. queue[RotatorOf[w]] \in Seq(Batches) /\ queue[RotatorOf[w]] # <<>>
      BY <2>1, RotatorAssumption DEF TypeOK, Receive
    <3>2. Head(queue[RotatorOf[w]]) \in Batches
      BY <3>1
    <3>3. BatchLen[Head(queue[RotatorOf[w]])] >= 1
      BY <3>2, RotatorAssumption
    <3> QED
      BY <2>1, <3>2, <3>3 DEF Receive, BatchInHand, TypeOK
  <2>2. CASE Copy(w) \/ SendFeedback(w) \/ CloseFeedback(w) \/ SeeClosed(w) \/ SignalDone(w)
    BY <2>2 DEF Copy, SendFeedback, CloseFeedback, SeeClosed, SignalDone, BatchInHand, TypeOK
  <2> QED
    BY <2>1, <2>2
<1>3. /\ \A v \in Writers : /\ Holding(v)' => Holding(v)
                            /\ Writing(v)' => Writing(v)
                            /\ pc'[v] = "create" => pc[v] = "create"
      /\ UNCHANGED <<name, openFiles, doneFiles, serial, clock>>
  BY DEF Receive, Copy, SendFeedback, CloseFeedback, SeeClosed, SignalDone,
         Holding, Writing, TypeOK, disk
<1> QED
  BY <1>1, <1>2, <1>3, OwnedFrame, RecentFrame DEF TypeOK

\* Producers, the clock and the end of the process.
LEMMA EnvironmentInv ==
  ASSUME NameInv,
         \/ \E b \in Batches, r \in Rotators : Submit(b, r)
         \/ \E r \in Rotators : CloseChannel(r)
         \/ \E b \in Batches : ReceiveFeedback(b)
         \/ Tick \/ Crash \/ UNCHANGED vars
  PROVE  NameInv'
<1> USE DEF NameInv
<1>1. /\ UNCHANGED <<locals, openFiles, doneFiles, serial>>
      /\ clock' = clock \/ Tick
  BY DEF Submit, CloseChannel, ReceiveFeedback, Tick, Crash, vars, disk
<1>2. clock' \in 1..MaxClock /\ clock' >= clock
  BY <1>1, RotatorAssumption DEF Tick, TypeOK
<1>3. torn' \in SUBSET Names /\ alive' \in BOOLEAN
  <2>1. CASE Crash
    <3>1. {name[w] : w \in {v \in Writers : pc[v] \in {"info", "flush"}}} \subseteq Names
      BY DEF TypeOK
    <3> QED
      BY <2>1, <3>1 DEF Crash, TypeOK
  <2>2. CASE UNCHANGED <<torn, alive>>
    BY <2>2 DEF TypeOK
  <2> QED
    BY <2>1, <2>2 DEF Submit, CloseChannel, ReceiveFeedback, Tick, vars, disk
<1>4. /\ queue' \in [Rotators -> Seq(Batches)] /\ closed' \in [Rotators -> BOOLEAN]
      /\ submitted' \in SUBSET Batches
  <2>1. ASSUME NEW b \in Batches, NEW r \in Rotators, Submit(b, r)
        PROVE  queue' \in [Rotators -> Seq(Batches)] /\ submitted' \in SUBSET Batches /\ closed' = closed
    <3>1. Append(queue[r], b) \in Seq(Batches)
      BY DEF TypeOK
    <3> QED
      BY <2>1, <3>1 DEF Submit, TypeOK
  <2>2. ASSUME NEW r \in Rotators, CloseChannel(r)
        PROVE  closed' \in [Rotators -> BOOLEAN] /\ UNCHANGED <<queue, submitted>>
    BY <2>2 DEF CloseChannel, TypeOK
  <2>3. CASE UNCHANGED chans
    BY <2>3 DEF chans, TypeOK
  <2> QED
    BY <2>1, <2>2, <2>3 DEF ReceiveFeedback, Tick, Crash, vars, TypeOK
<1>5. feedback' \in [Batches -> SUBSET {"sent", "received", "closed"}]
  BY DEF Submit, CloseChannel, ReceiveFeedback, Tick, Crash, vars, TypeOK
<1>6. TypeOK'
  BY <1>1, <1>2, <1>3, <1>4, <1>5 DEF TypeOK, locals
<1>7. BatchInHand'
  BY <1>1 DEF BatchInHand, locals
<1>8. \A v \in Writers : /\ Holding(v)' => Holding(v)
                         /\ Writing(v)' => Writing(v)
                         /\ pc'[v] = "create" => pc[v] = "create"
  BY <1>1 DEF Holding, Writing, locals
<1> QED
  BY <1>1, <1>2, <1>6, <1>7, <1>8, OwnedFrame, RecentFrame DEF locals

LEMMA NameInvNext ==
  ASSUME NEW r0, Rotators = {r0}, NameInv, [Next]_vars
  PROVE  NameInv'
<1>1. ASSUME NEW w \in Writers, WriterStep(w) PROVE NameInv'
  BY <1>1, GenerateNameInv, StatInv, CreateInv, WriteInfoInv, FlushInv, RenameInv,
     OtherStepInv DEF WriterStep
<1>2. CASE \/ \E b \in Batches, r \in Rotators : Submit(b, r)
           \/ \E r \in Rotators : CloseChannel(r)
           \/ \E b \in Batches : ReceiveFeedback(b)
           \/ Tick \/ Crash \/ UNCHANGED vars
  BY <1>2, EnvironmentInv
<1> QED
  BY <1>1, <1>2 DEF Next, Terminated

\* The types of the state, for any pool of writers of one rotator.
THEOREM TypeCorrect ==
  ASSUME NEW r0, Rotators = {r0}
  PROVE  Spec => []TypeOK
<1>1. Init => NameInv
  BY NameInvInit
<1>2. NameInv /\ [Next]_vars => NameInv'
  BY NameInvNext
<1>3. NameInv => TypeOK
  BY DEF NameInv
<1> QED
  BY <1>1, <1>2, <1>3, PTL DEF Spec

\* No two recordWriters of a pool ever have one file open: the names that
\* getNextWARCFilename gives out are told apart by the shared serial, and by
\* the stamp once the serials start again at 1.
THEOREM OneWriterPerFileHolds ==
  ASSUME NEW r0, Rotators = {r0}
  PROVE  Spec => []OneWriterPerFile
<1>1. Init => NameInv
  BY NameInvInit
<1>2. NameInv /\ [Next]_vars => NameInv'
  BY NameInvNext
<1>3. NameInv => OneWriterPerFile
  BY DEF NameInv, NamesAreOwned, OneWriterPerFile, Writing, Holding
<1> QED
  BY <1>1, <1>2, <1>3, PTL DEF Spec

-----------------------------------------------------------------------------
(***************************************************************************)
(* Contents.  Files only grow, and a batch that is whole stays whole.      *)
(***************************************************************************)

Extends(g, f) == Len(f) <= Len(g) /\ \A i \in 1..Len(f) : g[i] = f[i]

LEMMA WholeExtends ==
  ASSUME NEW f \in Seq(Records), NEW g \in Seq(Records), NEW b \in Batches,
         Extends(g, f), Whole(f, b)
  PROVE  Whole(g, b)
<1>1. PICK k \in 0..Len(f) : /\ k + BatchLen[b] <= Len(f)
                             /\ \A i \in 1..BatchLen[b] : /\ f[k + i].batch = b
                                                          /\ f[k + i].idx = i
  BY DEF Whole
<1>2. BatchLen[b] \in Nat /\ Len(f) \in Nat /\ Len(g) \in Nat
  BY RotatorAssumption
<1>3. \A i \in 1..BatchLen[b] : k + i \in 1..Len(f) /\ g[k + i] = f[k + i]
  BY <1>1, <1>2 DEF Extends
<1>4. k \in 0..Len(g) /\ k + BatchLen[b] <= Len(g)
  BY <1>1, <1>2 DEF Extends
<1>5. \A i \in 1..BatchLen[b] : g[k + i].batch = b /\ g[k + i].idx = i
  BY <1>1, <1>3
<1> QED
  BY <1>4, <1>5 DEF Whole

LEMMA AppendExtends ==
  ASSUME NEW f \in Seq(Records), NEW rec \in Records
  PROVE  /\ Append(f, rec) \in Seq(Records)
         /\ Len(Append(f, rec)) = Len(f) + 1
         /\ Append(f, rec)[Len(f) + 1] = rec
         /\ Extends(Append(f, rec), f)
  BY DEF Extends

LEMMA FilesAreSequences ==
  /\ TypeOK => Files \subseteq Seq(Records)
  /\ TypeOK' => Files' \subseteq Seq(Records)
  BY DEF TypeOK, Files, OnDisk

\* No file loses a record; it may change its name.
FilesGrow == \A f \in Files : \E g \in Files' : Extends(g, f)

LEMMA StoredPersists ==
  ASSUME TypeOK, TypeOK', FilesGrow, NEW b \in Batches, Stored(b)
  PROVE  Stored(b)'
<1>1. PICK f \in Files : Whole(f, b)
  BY DEF Stored
<1>2. PICK g \in Files' : Extends(g, f)
  BY <1>1 DEF FilesGrow
<1>3. f \in Seq(Records) /\ g \in Seq(Records)
  BY FilesAreSequences
<1>4. Whole(g, b)
  BY <1>1, <1>2, <1>3, WholeExtends
<1> QED
  BY <1>2, <1>4 DEF Stored, Whole

LEMMA SentFrame ==
  ASSUME TypeOK, TypeOK', SentIsStored, FilesGrow, feedback' = feedback
  PROVE  SentIsStored'
  BY StoredPersists DEF SentIsStored

LEMMA ExtendsItself ==
  ASSUME NEW f \in Seq(Records)
  PROVE  Extends(f, f)
  BY DEF Extends

\* A step that leaves the files alone leaves alone what is known of them.
LEMMA FilesFrame ==
  ASSUME TypeOK, TypeOK', WarcinfoOfOwnFile, SentIsStored,
         UNCHANGED <<openFiles, doneFiles>>
  PROVE  /\ WarcinfoOfOwnFile'
         /\ \A b \in Batches : Stored(b) => Stored(b)'
<1>1. Files' = Files
  BY DEF Files, OnDisk
<1> QED
  BY <1>1 DEF WarcinfoOfOwnFile, Stored, Whole

\* What a writer knows of its file is not changed by the others.
LEMMA OwnFileFrame ==
  ASSUME NEW v \in Writers, OwnFile(v),
         pc'[v] = pc[v], name'[v] = name[v], info'[v] = info[v],
         cur'[v] = cur[v], idx'[v] = idx[v],
         Writing(v) => openFiles'[name[v]] = openFiles[name[v]]
  PROVE  OwnFile(v)'
<1>1. CASE Writing(v)
  BY <1>1 DEF OwnFile, Writing
<1>2. CASE ~Writing(v)
  BY <1>2 DEF OwnFile, Writing
<1> QED
  BY <1>1, <1>2

\* The same for a step of w that may change the file w holds.
LEMMA OthersFrame ==
  ASSUME NEW w \in Writers, NameInv, OwnFiles, Holding(w) \/ openFiles' = openFiles,
         \A n \in Names : n # name[w] => openFiles'[n] = openFiles[n],
         \A v \in Writers : v # w => /\ pc'[v] = pc[v] /\ name'[v] = name[v]
                                     /\ info'[v] = info[v]
                                     /\ cur'[v] = cur[v] /\ idx'[v] = idx[v],
         OwnFile(w)'
  PROVE  OwnFiles'
<1> SUFFICES ASSUME NEW v \in Writers, v # w PROVE OwnFile(v)'
  BY DEF OwnFiles
<1>1. Writing(v) => openFiles'[name[v]] = openFiles[name[v]]
  BY DEF NameInv, NamesAreOwned, TypeOK, Holding, Writing
<1> QED
  BY <1>1, OwnFileFrame DEF OwnFiles

LEMMA ContentInit == Init => ContentInv
<1> SUFFICES ASSUME Init PROVE ContentInv
  OBVIOUS
<1>1. \A f \in Files : \E n \in Names : f = <<InfoRecord(<<NoWriter, n>>)>>
  BY DEF Init, Files, OnDisk, Leftover
<1>2. WarcinfoOfOwnFile
  BY <1>1 DEF WarcinfoOfOwnFile, InfoRecord
<1>3. OwnFiles
  BY DEF Init, OwnFiles, OwnFile, Writing
<1>4. SentIsStored
  BY DEF Init, SentIsStored
<1> QED
  BY <1>2, <1>3, <1>4 DEF ContentInv

\* A step of w that takes or gives up a name or a batch, or sends feedback.
LEMMA QuietOwnFile ==
  ASSUME NEW w \in Writers, NameInv, OwnFile(w),
         \/ GenerateName(w) \/ Stat(w) \/ Receive(w) \/ Copy(w) \/ SendFeedback(w)
         \/ CloseFeedback(w) \/ SeeClosed(w) \/ SignalDone(w)
  PROVE  OwnFile(w)'
<1> USE DEF NameInv, TypeOK, disk
<1>1. CASE GenerateName(w) \/ Stat(w) \/ SignalDone(w)
  <2>1. pc'[w] \in {"name", "stat", "create", "exited"}
    BY <1>1 DEF GenerateName, Stat, SignalDone
  <2> QED
    BY <2>1 DEF OwnFile, Writing
<1>2. CASE Receive(w)
  <2>1. /\ pc[w] = "ready" /\ pc'[w] \in {"rotate", "write"} /\ idx'[w] = 1
        /\ name' = name /\ openFiles' = openFiles /\ info' = info
    BY <1>2 DEF Receive
  <2>2. Len(openFiles[name[w]]) > 0
    BY <2>1 DEF OwnFile, Writing
  <2>4. openFiles[name[w]] \in Seq(Records)
    BY <2>1 DEF NamesAreOwned, Writing
  <2>3. 1 <= Len(openFiles'[name'[w]]) /\ 1..(1 - 1) = {}
    BY <2>1, <2>2, <2>4
  <2> QED
    BY <2>1, <2>3 DEF OwnFile, Writing
<1>3. CASE Copy(w)
  <2>1. /\ pc[w] = "write" /\ pc'[w] = "flush"
        /\ UNCHANGED <<name, openFiles, info, cur, idx>>
    BY <1>3 DEF Copy
  <2> QED
    BY <2>1 DEF OwnFile, Writing
<1>4. CASE SendFeedback(w)
  <2>1. /\ pc[w] = "send" /\ pc'[w] = "closefb"
        /\ UNCHANGED <<name, openFiles, info, cur, idx>>
    BY <1>4 DEF SendFeedback
  <2> QED
    BY <2>1 DEF OwnFile, Writing
<1>5. CASE CloseFeedback(w) \/ SeeClosed(w)
  <2>1. /\ pc[w] \in {"closefb", "ready"} /\ pc'[w] \in {"ready", "finish"}
        /\ UNCHANGED <<name, openFiles, info>>
    BY <1>5 DEF CloseFeedback, SeeClosed
  <2> QED
    BY <2>1 DEF OwnFile, Writing
<1> QED
  BY <1>1, <1>2, <1>3, <1>4, <1>5

\* Feedback is sent when the batch is in the file.
LEMMA QuietSent ==
  ASSUME NameInv, ContentInv, NameInv', UNCHANGED <<openFiles, doneFiles>>,
         \/ feedback' = feedback
         \/ \E w \in Writers : SendFeedback(w) \/ CloseFeedback(w)
         \/ \E b \in Batches : ReceiveFeedback(b)
  PROVE  SentIsStored'
<1> SUFFICES ASSUME NEW b \in Batches,
                    "sent" \in feedback'[b] \/ "received" \in feedback'[b]
             PROVE  Stored(b)'
  BY DEF SentIsStored
<1>1. Stored(b) => Stored(b)'
  BY FilesFrame DEF NameInv, ContentInv
<1>2. Stored(b)
  <2>1. CASE "sent" \in feedback[b] \/ "received" \in feedback[b]
    BY <2>1 DEF ContentInv, SentIsStored
  <2>2. ASSUME NEW w \in Writers, SendFeedback(w), b = cur[w]
        PROVE  Stored(b)
    <3>1. Whole(openFiles[name[w]], b)
      BY <2>2 DEF SendFeedback, ContentInv, OwnFiles, OwnFile
    <3>2. openFiles[name[w]] \in Files
      BY <2>2 DEF SendFeedback, NameInv, TypeOK, NamesAreOwned, Writing, Files, OnDisk
    <3> QED
      BY <3>1, <3>2 DEF Stored
  <2>3. feedback \in [Batches -> SUBSET {"sent", "received", "closed"}]
    BY DEF NameInv, TypeOK
  <2> QED
    BY <2>1, <2>2, <2>3 DEF SendFeedback, CloseFeedback, ReceiveFeedback
<1> QED
  BY <1>1, <1>2

LEMMA QuietContent ==
  ASSUME NEW w \in Writers, NameInv, ContentInv, NameInv',
         \/ GenerateName(w) \/ Stat(w) \/ Receive(w) \/ Copy(w) \/ SendFeedback(w)
         \/ CloseFeedback(w) \/ SeeClosed(w) \/ SignalDone(w)
  PROVE  ContentInv'
<1>1. UNCHANGED <<openFiles, doneFiles>>
  BY DEF GenerateName, Stat, Receive, Copy, SendFeedback, CloseFeedback, SeeClosed,
         SignalDone, disk
<1>2. \A v \in Writers : v # w => /\ pc'[v] = pc[v] /\ name'[v] = name[v]
                                  /\ info'[v] = info[v]
                                  /\ cur'[v] = cur[v] /\ idx'[v] = idx[v]
  BY DEF GenerateName, Stat, Receive, Copy, SendFeedback, CloseFeedback, SeeClosed,
         SignalDone, NameInv, TypeOK
<1>3. OwnFile(w)'
  BY QuietOwnFile DEF ContentInv, OwnFiles
<1>4. OwnFiles'
  BY <1>1, <1>2, <1>3, OthersFrame DEF ContentInv
<1>5. WarcinfoOfOwnFile'
  BY <1>1, FilesFrame DEF NameInv, ContentInv
<1>6. SentIsStored'
  BY <1>1, QuietSent DEF GenerateName, Stat, Receive, Copy, SeeClosed, SignalDone
<1> QED
  BY <1>4, <1>5, <1>6 DEF ContentInv

\* The steps of others than writers change no file.
LEMMA EnvironmentContent ==
  ASSUME NameInv, ContentInv, NameInv',
         \/ \E b \in Batches, r \in Rotators : Submit(b, r)
         \/ \E r \in Rotators : CloseChannel(r)
         \/ \E b \in Batches : ReceiveFeedback(b)
         \/ Tick \/ Crash \/ UNCHANGED vars
  PROVE  ContentInv'
<1>1. UNCHANGED <<pc, name, info, cur, idx, openFiles, doneFiles>>
  BY DEF Submit, CloseChannel, ReceiveFeedback, Tick, Crash, vars, locals, disk
<1>2. OwnFiles'
  BY <1>1, OwnFileFrame DEF ContentInv, OwnFiles
<1>3. WarcinfoOfOwnFile'
  BY <1>1, FilesFrame DEF NameInv, ContentInv
<1>4. SentIsStored'
  BY <1>1, QuietSent DEF Submit, CloseChannel, Tick, Crash, vars
<1> QED
  BY <1>2, <1>3, <1>4 DEF ContentInv

\* A renamed file is the file it was.
LEMMA RenameContent ==
  ASSUME NEW w \in Writers, NameInv, ContentInv, NameInv', Rotate(w) \/ Finish(w)
  PROVE  ContentInv'
<1> USE DEF NameInv
<1>1. /\ pc[w] \in {"rotate", "finish"} /\ pc'[w] \in {"name", "signal"}
      /\ UNCHANGED <<name, info, cur, idx, feedback>>
      /\ doneFiles' = [doneFiles EXCEPT ![name[w]] = openFiles[name[w]]]
      /\ openFiles' = [openFiles EXCEPT ![name[w]] = NoFile]
      /\ \A v \in Writers : v # w => pc'[v] = pc[v]
  BY DEF Rotate, Finish, RenameTo, TypeOK
<1>2. name[w] \in Names /\ doneFiles[name[w]] = NoFile /\ openFiles[name[w]] # NoFile
  BY <1>1 DEF NamesAreOwned, Holding, Writing, TypeOK
<1>3. Files' = Files
  <2>1. ASSUME NEW f \in Files PROVE f \in Files'
    BY <1>1, <1>2, <2>1 DEF Files, OnDisk, TypeOK
  <2>2. ASSUME NEW f \in Files' PROVE f \in Files
    BY <1>1, <1>2, <2>2 DEF Files, OnDisk, TypeOK
  <2> QED
    BY <2>1, <2>2
<1>4. OwnFile(w)'
  BY <1>1 DEF OwnFile, Writing
<1>5. OwnFiles'
  BY <1>1, <1>4, OthersFrame DEF ContentInv, Holding, TypeOK
<1>6. WarcinfoOfOwnFile' /\ SentIsStored'
  BY <1>1, <1>3 DEF ContentInv, WarcinfoOfOwnFile, SentIsStored, Stored, Whole
<1> QED
  BY <1>5, <1>6 DEF ContentInv

\* os.Create makes an empty file where there was none.
LEMMA CreateContent ==
  ASSUME NEW w \in Writers, NameInv, ContentInv, NameInv', Create(w)
  PROVE  ContentInv'
<1> USE DEF NameInv
<1>1. /\ pc[w] = "create" /\ pc'[w] = "info"
      /\ UNCHANGED <<name, info, cur, idx, doneFiles, feedback>>
      /\ openFiles' = [openFiles EXCEPT ![name[w]] = <<>>]
      /\ \A v \in Writers : v # w => pc'[v] = pc[v]
  BY DEF Create, TypeOK
<1>2. name[w] \in Names /\ openFiles[name[w]] = NoFile
  BY <1>1 DEF NamesAreOwned, TypeOK
<1>3. Files \subseteq Files' /\ Files' \subseteq Files \union {<<>>}
  BY <1>1, <1>2 DEF Files, OnDisk, TypeOK
<1>4. OwnFile(w)'
  BY <1>1, <1>2 DEF OwnFile, Writing, TypeOK
<1>5. OwnFiles'
  BY <1>1, <1>4, OthersFrame DEF ContentInv, Holding, TypeOK
<1>6. WarcinfoOfOwnFile'
  <2>1. \A i \in 1..Len(<<>>) : FALSE
    OBVIOUS
  <2> QED
    BY <1>3, <2>1 DEF ContentInv, WarcinfoOfOwnFile
<1>7. SentIsStored'
  <2>1. FilesGrow
    BY <1>3, FilesAreSequences, ExtendsItself DEF FilesGrow
  <2> QED
    BY <1>1, <2>1, SentFrame DEF ContentInv
<1> QED
  BY <1>5, <1>6, <1>7 DEF ContentInv

\* A record appended to the file that w holds.
LEMMA AppendGrows ==
  ASSUME NEW w \in Writers, NEW rec \in Records, NameInv, Writing(w),
         openFiles' = [openFiles EXCEPT ![name[w]] = Append(@, rec)],
         doneFiles' = doneFiles
  PROVE  /\ openFiles[name[w]] \in Files /\ openFiles[name[w]] \in Seq(Records)
         /\ openFiles'[name[w]] = Append(openFiles[name[w]], rec)
         /\ Files' \subseteq Files \union {Append(openFiles[name[w]], rec)}
         /\ FilesGrow
<1> USE DEF NameInv
<1> DEFINE f == openFiles[name[w]]
<1>1. name[w] \in Names /\ f \in Seq(Records) /\ f # NoFile
  BY DEF NamesAreOwned, TypeOK
<1>2. f \in Files
  BY <1>1 DEF Files, OnDisk
<1>3. Append(f, rec) \in Seq(Records) /\ Extends(Append(f, rec), f)
  BY <1>1, AppendExtends
<1>4. openFiles'[name[w]] = Append(f, rec)
  BY <1>1 DEF TypeOK
<1>5. Append(f, rec) # NoFile
  BY <1>3, DirectoryAssumption
<1>6. Files' \subseteq Files \union {Append(f, rec)}
  BY <1>1 DEF Files, OnDisk, TypeOK
<1>7. Append(f, rec) \in Files'
  BY <1>1, <1>4, <1>5 DEF Files, OnDisk
<1>8. ASSUME NEW g \in Files, g # f PROVE g \in Files'
  BY <1>1, <1>8 DEF Files, OnDisk, TypeOK
<1>9. FilesGrow
  BY <1>3, <1>7, <1>8, FilesAreSequences, ExtendsItself DEF FilesGrow
<1> QED
  BY <1>1, <1>2, <1>4, <1>6, <1>9

LEMMA WriteInfoContent ==
  ASSUME NEW w \in Writers, NameInv, ContentInv, NameInv', WriteInfo(w)
  PROVE  ContentInv'
<1> USE DEF NameInv
<1> DEFINE id  == <<w, name[w]>>
           rec == InfoRecord(id)
<1>1. /\ pc[w] = "info" /\ pc'[w] \in {"ready", "write"} /\ info'[w] = id
      /\ UNCHANGED <<name, cur, idx, doneFiles, feedback>>
      /\ openFiles' = [openFiles EXCEPT ![name[w]] = Append(@, rec)]
      /\ \A v \in Writers : v # w => pc'[v] = pc[v] /\ info'[v] = info[v]
  BY DEF WriteInfo, AfterInfo, TypeOK
<1>2. rec \in Records
  BY InfoRecordType DEF InfoIDs, TypeOK
<1>3. Writing(w)
  BY <1>1 DEF Writing
<1>4. /\ Files' \subseteq Files \union {Append(openFiles[name[w]], rec)} /\ FilesGrow
      /\ openFiles'[name[w]] = Append(openFiles[name[w]], rec)
  BY <1>1, <1>2, <1>3, AppendGrows
<1>5. openFiles[name[w]] = <<>>
  BY <1>1 DEF ContentInv, OwnFiles, OwnFile
<1>6. /\ openFiles'[name[w]] = <<rec>> /\ Len(<<rec>>) = 1 /\ <<rec>>[1] = rec
      /\ Files' \subseteq Files \union {<<rec>>}
  BY <1>4, <1>5
<1>7. idx[w] = 1
  BY <1>1 DEF BatchInHand
<1>8. OwnFile(w)'
  <2>1. \A i \in 1..(idx'[w] - 1) : FALSE
    BY <1>1, <1>7
  <2>2. /\ openFiles'[name'[w]] = <<rec>> /\ Len(<<rec>>) > 0 /\ <<rec>>[1] = InfoRecord(info'[w])
        /\ idx'[w] <= Len(<<rec>>) /\ info'[w] = <<w, name'[w]>>
    BY <1>1, <1>6, <1>7
  <2> HIDE DEF rec, id
  <2> QED
    BY <1>1, <2>1, <2>2 DEF OwnFile, Writing
<1>9. OwnFiles'
  BY <1>1, <1>8, OthersFrame DEF ContentInv, Holding, TypeOK
<1>10. WarcinfoOfOwnFile'
  <2>1. \A i \in 1..1 : <<rec>>[i].info = <<rec>>[1].info /\ <<rec>>[1].batch = NoBatch
    BY DEF InfoRecord
  <2> QED
    BY <1>6, <2>1 DEF ContentInv, WarcinfoOfOwnFile
<1>11. SentIsStored'
  BY <1>1, <1>4, SentFrame DEF ContentInv
<1> QED
  BY <1>9, <1>10, <1>11 DEF ContentInv

\* The record that Flush puts into the file continues the batch of w there,
\* and the last one completes it.
LEMMA FlushOwnFile ==
  ASSUME NEW w \in Writers, NameInv, OwnFile(w), NameInv', Flush(w)
  PROVE  OwnFile(w)'
<1> USE DEF NameInv
<1> DEFINE f   == openFiles[name[w]]
           rec == [batch |-> cur[w], idx |-> idx[w], info |-> info[w]]
           g   == Append(f, rec)
           k   == idx[w]
<1>1. /\ pc[w] = "flush" /\ name' = name /\ info' = info
      /\ openFiles' = [openFiles EXCEPT ![name[w]] = Append(@, rec)]
      /\ doneFiles' = doneFiles /\ idx'[w] = k + 1
      /\ pc'[w] \in {"write", "ready", "send"}
      /\ pc'[w] = "write" => k # BatchLen[cur[w]]
      /\ pc'[w] = "send" => k = BatchLen[cur[w]]
      /\ pc'[w] \in {"write", "send"} => cur'[w] = cur[w]
  BY DEF Flush, AfterRecord, AfterLast, TypeOK
<1>2. rec \in Records /\ cur[w] \in Batches /\ k \in Nat \ {0} /\ BatchLen[cur[w]] \in Nat
  BY <1>1, RotatorAssumption DEF TypeOK, Records, BatchInHand
<1>3. Writing(w)
  BY <1>1 DEF Writing
<1>4. f \in Seq(Records) /\ openFiles'[name'[w]] = g
  BY <1>1, <1>2, <1>3, AppendGrows
<1>5. /\ Len(f) > 0 /\ info[w] = <<w, name[w]>> /\ f[1] = InfoRecord(info[w])
      /\ k <= Len(f)
      /\ \A i \in 1..(k - 1) : /\ f[Len(f) - (k - 1) + i].batch = cur[w]
                               /\ f[Len(f) - (k - 1) + i].idx = i
  BY <1>1, <1>3 DEF OwnFile
<1>6. /\ Len(g) = Len(f) + 1 /\ g[Len(f) + 1] = rec /\ Len(f) \in Nat
      /\ \A i \in 1..Len(f) : g[i] = f[i]
  BY <1>2, <1>4, AppendExtends DEF Extends
<1>7. g[1] = InfoRecord(info[w]) /\ Len(g) > 0 /\ k + 1 <= Len(g)
  BY <1>2, <1>5, <1>6
<1> HIDE DEF f, rec, g, k
\* The last k records of g are the first k of the batch.
<1>8. \A i \in 1..k : /\ g[Len(g) - k + i].batch = cur[w]
                      /\ g[Len(g) - k + i].idx = i
  <2> SUFFICES ASSUME NEW i \in 1..k
               PROVE  g[Len(g) - k + i].batch = cur[w] /\ g[Len(g) - k + i].idx = i
    OBVIOUS
  <2>1. CASE i = k
    <3>1. Len(g) - k + i = Len(f) + 1
      BY <1>2, <1>6, <2>1
    <3>2. g[Len(g) - k + i] = rec
      BY <1>6, <3>1
    <3> QED
      BY <2>1, <3>2 DEF rec, k
  <2>2. CASE i # k
    <3>1. i \in 1..(k - 1) /\ Len(g) - k + i = Len(f) - (k - 1) + i
      BY <1>2, <1>6, <2>2
    <3>2. Len(f) - (k - 1) + i \in 1..Len(f)
      BY <1>2, <1>5, <1>6, <3>1
    <3>3. g[Len(g) - k + i] = f[Len(f) - (k - 1) + i]
      BY <1>6, <3>1, <3>2
    <3> QED
      BY <1>5, <3>1, <3>3
  <2> QED
    BY <2>1, <2>2
<1>9. CASE pc'[w] = "write"
  <2>1. idx'[w] = k + 1 /\ idx'[w] - 1 = k
    BY <1>1, <1>2
  <2>2. \A i \in 1..(idx'[w] - 1) : /\ g[Len(g) - (idx'[w] - 1) + i].batch = cur'[w]
                                    /\ g[Len(g) - (idx'[w] - 1) + i].idx = i
    BY <1>1, <1>8, <1>9, <2>1
  <2> QED
    BY <1>1, <1>4, <1>5, <1>7, <1>9, <2>1, <2>2 DEF OwnFile, Writing
<1>10. CASE pc'[w] = "send"
  <2>1. Whole(g, cur[w])
    <3>1. Len(g) - k \in 0..Len(g) /\ (Len(g) - k) + BatchLen[cur[w]] <= Len(g)
      BY <1>1, <1>2, <1>6, <1>7, <1>10
    <3>2. k = BatchLen[cur[w]]
      BY <1>1, <1>10
    <3> QED
      BY <1>8, <3>1, <3>2 DEF Whole
  <2> QED
    BY <1>1, <1>4, <1>5, <1>7, <1>10, <2>1 DEF OwnFile, Writing
<1>11. CASE pc'[w] = "ready"
  BY <1>1, <1>4, <1>5, <1>7, <1>11 DEF OwnFile, Writing
<1> QED
  BY <1>1, <1>9, <1>10, <1>11

LEMMA FlushContent ==
  ASSUME NEW w \in Writers, NameInv, ContentInv, NameInv', Flush(w)
  PROVE  ContentInv'
<1> USE DEF NameInv
<1> DEFINE f   == openFiles[name[w]]
           rec == [batch |-> cur[w], idx |-> idx[w], info |-> info[w]]
           g   == Append(f, rec)
<1>1. /\ pc[w] = "flush" /\ UNCHANGED <<name, info, doneFiles, feedback>>
      /\ openFiles' = [openFiles EXCEPT ![name[w]] = Append(@, rec)]
      /\ \A v \in Writers : v # w => /\ pc'[v] = pc[v]
                                     /\ cur'[v] = cur[v] /\ idx'[v] = idx[v]
  BY DEF Flush, TypeOK
<1>2. rec \in Records
  BY <1>1 DEF TypeOK, Records, BatchInHand
<1>3. Writing(w) /\ Holding(w)
  BY <1>1 DEF Writing, Holding
<1>4. f \in Files /\ f \in Seq(Records) /\ Files' \subseteq Files \union {g} /\ FilesGrow
  BY <1>1, <1>2, <1>3, AppendGrows
<1>5. OwnFile(w)'
  BY FlushOwnFile DEF ContentInv, OwnFiles
<1>6. OwnFiles'
  BY <1>1, <1>3, <1>5, OthersFrame DEF ContentInv, TypeOK
<1>7. WarcinfoOfOwnFile'
  <2>1. /\ Len(g) = Len(f) + 1 /\ g[Len(f) + 1] = rec /\ Len(f) \in Nat
        /\ \A i \in 1..Len(f) : g[i] = f[i]
    BY <1>2, <1>4, AppendExtends DEF Extends
  <2>2. Len(f) > 0 /\ f[1] = InfoRecord(info[w])
    BY <1>1, <1>3 DEF ContentInv, OwnFiles, OwnFile
  <2>3. g[1] = f[1] /\ f[1].info = info[w] /\ f[1].batch = NoBatch
    BY <2>1, <2>2 DEF InfoRecord
  <2>4. \A i \in 1..Len(f) : f[i].info = info[w]
    BY <1>4, <2>3 DEF ContentInv, WarcinfoOfOwnFile
  <2>5. \A i \in 1..Len(g) : g[i].info = g[1].info /\ g[1].batch = NoBatch
    BY <2>1, <2>3, <2>4
  <2> QED
    BY <1>4, <2>5 DEF ContentInv, WarcinfoOfOwnFile
<1>8. SentIsStored'
  BY <1>1, <1>4, SentFrame DEF ContentInv
<1> QED
  BY <1>6, <1>7, <1>8 DEF ContentInv

LEMMA IInvNext ==
  ASSUME NEW r0, Rotators = {r0}, IInv, [Next]_vars
  PROVE  IInv'
<1>1. NameInv /\ ContentInv
  BY DEF IInv
<1>2. NameInv'
  BY <1>1, NameInvNext
<1>3. ASSUME NEW w \in Writers, WriterStep(w) PROVE ContentInv'
  BY <1>1, <1>2, <1>3, QuietContent, CreateContent, WriteInfoContent, FlushContent,
     RenameContent DEF WriterStep
<1>4. ASSUME \/ \E b \in Batches, r \in Rotators : Submit(b, r)
             \/ \E r \in Rotators : CloseChannel(r)
             \/ \E b \in Batches : ReceiveFeedback(b)
             \/ Tick \/ Crash \/ UNCHANGED vars
      PROVE  ContentInv'
  BY <1>1, <1>2, <1>4, EnvironmentContent
<1>5. ContentInv'
  BY <1>3, <1>4 DEF Next, Terminated
<1> QED
  BY <1>2, <1>5 DEF IInv

LEMMA IInvAlways ==
  ASSUME NEW r0, Rotators = {r0}
  PROVE  Spec => []IInv
<1>1. Init => IInv
  BY NameInvInit, ContentInit DEF IInv
<1>2. IInv /\ [Next]_vars => IInv'
  BY IInvNext
<1> QED
  BY <1>1, <1>2, PTL DEF Spec

\* After any number of changes of file, every record names the warcinfo
\* record at the head of the file it is in.
THEOREM WarcinfoOfOwnFileHolds ==
  ASSUME NEW r0, Rotators = {r0}
  PROVE  Spec => []WarcinfoOfOwnFile
<1>1. IInv => WarcinfoOfOwnFile
  BY DEF IInv, ContentInv
<1> QED
  BY <1>1, IInvAlways, PTL

\* A producer that has got its feedback finds all the records of its batch,
\* one after the other in one file, and finds them there for ever.
THEOREM AckedIsStoredHolds ==
  ASSUME NEW r0, Rotators = {r0}
  PROVE  Spec => []AckedIsStored
<1>1. IInv => AckedIsStored
  BY DEF IInv, ContentInv, SentIsStored, AckedIsStored, Acked
<1> QED
  BY <1>1, IInvAlways, PTL

\* No finished file is changed or replaced, and no unfinished file of an
\* earlier process is touched.
LEMMA NoOverwriteStep ==
  ASSUME IInv, [Next]_vars, NEW n \in Names
  PROVE  /\ doneFiles[n] # NoFile => doneFiles'[n] = doneFiles[n]
         /\ openFiles[n] = Leftover(n) => openFiles'[n] = openFiles[n]
<1> USE DEF IInv, NameInv
<1>1. ASSUME NEW w \in Writers, openFiles[n] = Leftover(n), Writing(w), pc[w] # "info"
      PROVE  n # name[w]
  <2>1. openFiles[name[w]][1] = InfoRecord(<<w, name[w]>>)
    BY <1>1 DEF ContentInv, OwnFiles, OwnFile
  <2>2. Leftover(n)[1] = InfoRecord(<<NoWriter, n>>)
    BY DEF Leftover
  <2>3. w # NoWriter
    BY RotatorAssumption
  <2> QED
    BY <1>1, <2>1, <2>2, <2>3 DEF InfoRecord
<1>2. ASSUME NEW w \in Writers, openFiles[n] = Leftover(n), pc[w] = "info"
      PROVE  n # name[w]
  <2>1. openFiles[name[w]] = <<>>
    BY <1>2 DEF ContentInv, OwnFiles, OwnFile
  <2>2. Leftover(n) # <<>>
    BY DEF Leftover
  <2> QED
    BY <1>2, <2>1, <2>2
<1>3. ASSUME NEW w \in Writers, openFiles[n] = Leftover(n), pc[w] = "create"
      PROVE  n # name[w]
  <2>1. openFiles[name[w]] = NoFile
    BY <1>3 DEF NamesAreOwned
  <2>2. Leftover(n) # NoFile
    BY LeftoverType, DirectoryAssumption
  <2> QED
    BY <1>3, <2>1, <2>2
<1>4. ASSUME NEW w \in Writers, WriterStep(w)
      PROVE  /\ doneFiles[n] # NoFile => doneFiles'[n] = doneFiles[n]
             /\ openFiles[n] = Leftover(n) => openFiles'[n] = openFiles[n]
  <2>1. CASE Create(w)
    BY <1>3, <2>1 DEF Create, TypeOK
  <2>2. CASE WriteInfo(w)
    BY <1>2, <2>2 DEF WriteInfo, TypeOK
  <2>3. CASE Flush(w)
    BY <1>1, <2>3 DEF Flush, TypeOK, Writing
  <2>4. CASE Rotate(w) \/ Finish(w)
    <3>1. /\ pc[w] \in {"rotate", "finish"}
          /\ doneFiles' = [doneFiles EXCEPT ![name[w]] = openFiles[name[w]]]
          /\ openFiles' = [openFiles EXCEPT ![name[w]] = NoFile]
      BY <2>4 DEF Rotate, Finish, RenameTo
    <3>2. doneFiles[name[w]] = NoFile /\ name[w] \in Names
      BY <3>1 DEF NamesAreOwned, Holding, TypeOK
    <3>3. openFiles[n] = Leftover(n) => n # name[w]
      BY <1>1, <3>1 DEF Writing
    <3> QED
      BY <3>1, <3>2, <3>3 DEF TypeOK
  <2>5. CASE UNCHANGED <<openFiles, doneFiles>>
    BY <2>5
  <2> QED
    BY <1>4, <2>1, <2>2, <2>3, <2>4, <2>5
    DEF WriterStep, GenerateName, Stat, Receive, Copy, SendFeedback, CloseFeedback,
        SeeClosed, SignalDone, disk
<1>5. CASE UNCHANGED <<openFiles, doneFiles>>
  BY <1>5
<1> QED
  BY <1>4, <1>5 DEF Next, Terminated, Submit, CloseChannel, ReceiveFeedback, Tick, Crash,
     vars, disk

\* os.Create and os.Rename never meet a name that is in use: no finished file
\* is replaced, and no file of an earlier process.
THEOREM NothingIsOverwrittenHolds ==
  ASSUME NEW r0, Rotators = {r0}
  PROVE  Spec => NothingIsOverwritten
<1> DEFINE A == \A n \in Names :
                  /\ doneFiles[n] # NoFile => doneFiles'[n] = doneFiles[n]
                  /\ openFiles[n] = Leftover(n) => openFiles'[n] = openFiles[n]
<1>1. IInv /\ [Next]_vars => [A]_vars
  BY NoOverwriteStep
<1>2. NothingIsOverwritten <=> [][A]_vars
  BY DEF NothingIsOverwritten
<1> QED
  BY <1>1, <1>2, IInvAlways, PTL DEF Spec

(***************************************************************************)
(* The records of a batch stay together, and each is written once.         *)
(***************************************************************************)

LEMMA OrderInit == Init => OrderInv
<1> SUFFICES ASSUME Init PROVE OrderInv
  OBVIOUS
<1>1. \A f \in Files : \E n \in Names : f = <<InfoRecord(<<NoWriter, n>>)>>
  BY DEF Init, Files, OnDisk, Leftover
<1>2. \A f \in Files : Len(f) = 1
  <2>1. \A n \in Names : Len(<<InfoRecord(<<NoWriter, n>>)>>) = 1
    OBVIOUS
  <2> QED
    BY <1>1, <2>1
<1>3. \A f \in Files : InOrder(f) /\ EndsWhole(f)
  BY <1>2 DEF InOrder, EndsWhole
<1>4. \A n \in Names : doneFiles[n] # NoFile => doneFiles[n] \in Files
  BY DEF Files, OnDisk
<1>5. \A w \in Writers : ~Writing(w)
  BY DEF Init, Writing
<1> QED
  BY <1>3, <1>4, <1>5 DEF OrderInv, Init

\* A step of w that leaves the disk alone.
LEMMA QuietOrder ==
  ASSUME NEW w \in Writers, NameInv, OrderInv,
         \/ GenerateName(w) \/ Stat(w) \/ Receive(w) \/ Copy(w) \/ SendFeedback(w)
         \/ CloseFeedback(w) \/ SeeClosed(w) \/ SignalDone(w),
         alive
  PROVE  OrderInv'
<1>1. UNCHANGED <<openFiles, doneFiles, torn>>
  BY DEF GenerateName, Stat, Receive, Copy, SendFeedback, CloseFeedback, SeeClosed,
         SignalDone, disk
<1>2. Files' = Files
  BY <1>1 DEF Files, OnDisk
<1>3. \A v \in Writers : v # w => /\ pc'[v] = pc[v] /\ name'[v] = name[v]
                                  /\ idx'[v] = idx[v]
  BY DEF GenerateName, Stat, Receive, Copy, SendFeedback, CloseFeedback, SeeClosed,
         SignalDone, NameInv, TypeOK
<1>4. Writing(w)' /\ ~InBatch(w)' => Writing(w) /\ ~InBatch(w) /\ name'[w] = name[w]
  BY DEF GenerateName, Stat, Receive, Copy, SendFeedback, CloseFeedback, SeeClosed,
         SignalDone, NameInv, TypeOK, Writing, InBatch
<1>5. \A v \in Writers : Writing(v)' /\ ~InBatch(v)' =>
                         Writing(v) /\ ~InBatch(v) /\ name'[v] = name[v]
  BY <1>3, <1>4 DEF Writing, InBatch
<1> QED
  BY <1>1, <1>2, <1>5 DEF OrderInv, InOrder, EndsWhole

\* The other parties touch no file; a crash can tear only files in progress.
LEMMA EnvironmentOrder ==
  ASSUME NameInv, OrderInv,
         \/ \E b \in Batches, r \in Rotators : Submit(b, r)
         \/ \E r \in Rotators : CloseChannel(r)
         \/ \E b \in Batches : ReceiveFeedback(b)
         \/ Tick \/ Crash \/ UNCHANGED vars
  PROVE  OrderInv'
<1>1. UNCHANGED <<pc, name, idx, openFiles, doneFiles>>
  BY DEF Submit, CloseChannel, ReceiveFeedback, Tick, Crash, vars, locals, disk
<1>2. Files' = Files
  BY <1>1 DEF Files, OnDisk
<1>3. \A v \in Writers : (Writing(v)' <=> Writing(v)) /\ (InBatch(v)' <=> InBatch(v))
  BY <1>1 DEF Writing, InBatch
<1>4. (alive' => torn' = {}) /\ \A n \in torn' : doneFiles[n] = NoFile
  <2>1. CASE Crash
    <3>1. ASSUME NEW v \in Writers, pc[v] \in {"info", "flush"}
          PROVE  doneFiles[name[v]] = NoFile
      BY <3>1 DEF NameInv, NamesAreOwned, Holding
    <3> QED
      BY <2>1, <3>1 DEF Crash, OrderInv
  <2>2. CASE UNCHANGED <<torn, alive>>
    BY <2>2 DEF OrderInv
  <2> QED
    BY <2>1, <2>2 DEF Submit, CloseChannel, ReceiveFeedback, Tick, vars, disk
<1> QED
  BY <1>1, <1>2, <1>3, <1>4 DEF OrderInv, InOrder, EndsWhole

\* What the parts of OrderInv say of the files that a step of w leaves alone.
LEMMA OrderFrame ==
  ASSUME NEW w \in Writers, NameInv, OrderInv, alive, Holding(w),
         torn' = torn \/ torn' = torn \ {name[w]}, name' = name,
         \A n \in Names : n # name[w] => openFiles'[n] = openFiles[n],
         \A v \in Writers : v # w => pc'[v] = pc[v] /\ idx'[v] = idx[v]
  PROVE  /\ torn' = {}
         /\ \A v \in Writers : v # w /\ Writing(v)' /\ ~InBatch(v)' =>
                               EndsWhole(openFiles'[name'[v]])
<1>1. torn' = {}
  BY DEF OrderInv
<1>2. ASSUME NEW v \in Writers, v # w, Writing(v)', ~InBatch(v)'
      PROVE  EndsWhole(openFiles'[name'[v]])
  <2>1. Writing(v) /\ ~InBatch(v)
    BY <1>2 DEF Writing, InBatch
  <2>2. Holding(v) /\ name[v] \in Names /\ name[v] # name[w]
    BY <1>2, <2>1 DEF NameInv, NamesAreOwned, TypeOK, Holding, Writing
  <2>3. openFiles'[name'[v]] = openFiles[name[v]]
    BY <2>2
  <2> QED
    BY <2>1, <2>3 DEF OrderInv
<1> QED
  BY <1>1, <1>2

LEMMA CreateOrder ==
  ASSUME NEW w \in Writers, NameInv, OrderInv, alive, Create(w)
  PROVE  OrderInv'
<1>1. /\ pc[w] = "create" /\ name' = name /\ doneFiles' = doneFiles
      /\ torn' = torn \ {name[w]} /\ name[w] \in Names
      /\ openFiles' = [openFiles EXCEPT ![name[w]] = <<>>]
      /\ \A v \in Writers : v # w => pc'[v] = pc[v] /\ idx'[v] = idx[v]
  BY DEF Create, NameInv, TypeOK
<1>2. Holding(w)
  BY <1>1 DEF Holding
<1>3. openFiles'[name[w]] = <<>> /\ \A n \in Names : n # name[w] => openFiles'[n] = openFiles[n]
  BY <1>1 DEF NameInv, TypeOK
<1>4. /\ torn' = {}
      /\ \A v \in Writers : v # w /\ Writing(v)' /\ ~InBatch(v)' =>
                            EndsWhole(openFiles'[name'[v]])
  BY <1>1, <1>2, <1>3, OrderFrame
<1>5. EndsWhole(<<>>) /\ InOrder(<<>>)
  BY DEF EndsWhole, InOrder
<1>6. EndsWhole(openFiles'[name'[w]])
  BY <1>1, <1>3, <1>5
<1>7. Files' \subseteq Files \union {<<>>}
  BY <1>1 DEF Files, OnDisk, NameInv, TypeOK
<1>8. \A f \in Files' : InOrder(f)
  BY <1>5, <1>7 DEF OrderInv
<1> QED
  BY <1>1, <1>4, <1>6, <1>8 DEF OrderInv, InOrder, EndsWhole

LEMMA RenameOrder ==
  ASSUME NEW w \in Writers, NameInv, OrderInv, alive, Rotate(w) \/ Finish(w)
  PROVE  OrderInv'
<1>1. /\ pc[w] \in {"rotate", "finish"} /\ pc'[w] \in {"name", "signal"}
      /\ name' = name /\ torn' = torn /\ name[w] \in Names
      /\ doneFiles' = [doneFiles EXCEPT ![name[w]] = openFiles[name[w]]]
      /\ openFiles' = [openFiles EXCEPT ![name[w]] = NoFile]
      /\ \A v \in Writers : v # w => pc'[v] = pc[v] /\ idx'[v] = idx[v]
  BY DEF Rotate, Finish, RenameTo, NameInv, TypeOK
<1>2. Holding(w) /\ Writing(w) /\ ~InBatch(w) /\ ~Writing(w)'
  BY <1>1 DEF Holding, Writing, InBatch
<1>3. /\ \A n \in Names : n # name[w] => openFiles'[n] = openFiles[n] /\ doneFiles'[n] = doneFiles[n]
      /\ doneFiles'[name[w]] = openFiles[name[w]]
  BY <1>1 DEF NameInv, TypeOK
<1>4. /\ torn' = {}
      /\ \A v \in Writers : v # w /\ Writing(v)' /\ ~InBatch(v)' =>
                            EndsWhole(openFiles'[name'[v]])
  BY <1>1, <1>2, <1>3, OrderFrame
<1>5. \A n \in Names : doneFiles'[n] # NoFile => EndsWhole(doneFiles'[n])
  BY <1>2, <1>3 DEF OrderInv
<1>6. Files' \subseteq Files
  BY <1>1 DEF Files, OnDisk, NameInv, TypeOK
<1>7. \A f \in Files' : InOrder(f)
  BY <1>6 DEF OrderInv
<1> QED
  BY <1>2, <1>4, <1>5, <1>7 DEF OrderInv, InOrder, EndsWhole

\* A record that continues the batch at the end of f, or starts one where f
\* ends with a complete batch.
LEMMA AppendInOrder ==
  ASSUME NEW f \in Seq(Records), NEW rec \in Records, InOrder(f),
         Len(f) >= 1 => rec.batch \in Batches /\ rec.idx \in 1..BatchLen[rec.batch],
         Len(f) >= 1 /\ rec.idx # 1 => f[Len(f)] = [rec EXCEPT !.idx = @ - 1],
         rec.idx # 1 \/ EndsWhole(f)
  PROVE  InOrder(Append(f, rec))
<1> DEFINE g == Append(f, rec)
           n == Len(f)
<1>1. /\ n \in Nat /\ Len(g) = n + 1 /\ g[n + 1] = rec
      /\ \A i \in 1..n : g[i] = f[i]
  BY AppendExtends DEF Extends
<1> HIDE DEF g, n
<1> SUFFICES ASSUME NEW i \in 2..Len(g)
             PROVE  /\ g[i].batch \in Batches /\ g[i].idx \in 1..BatchLen[g[i].batch]
                    /\ g[i].idx # 1 => g[i - 1] = [g[i] EXCEPT !.idx = @ - 1]
                    /\ i < Len(g) /\ g[i].idx < BatchLen[g[i].batch] => g[i + 1].batch = g[i].batch
  BY DEF InOrder, g
<1>2. CASE i = n + 1
  <2>1. g[i] = rec /\ g[i - 1] = f[n] /\ n >= 1 /\ ~(i < Len(g))
    BY <1>1, <1>2
  <2> QED
    BY <2>1 DEF n
<1>3. CASE i <= n
  <2>1. /\ i \in 2..n /\ i - 1 \in 1..n /\ n >= 1
        /\ g[i] = f[i] /\ g[i - 1] = f[i - 1]
    BY <1>1, <1>3
  <2>2. /\ f[i].batch \in Batches /\ f[i].idx \in 1..BatchLen[f[i].batch]
        /\ f[i].idx # 1 => f[i - 1] = [f[i] EXCEPT !.idx = @ - 1]
        /\ i < n /\ f[i].idx < BatchLen[f[i].batch] => f[i + 1].batch = f[i].batch
    BY <2>1 DEF InOrder, n
  <2>3. ASSUME f[i].idx < BatchLen[f[i].batch] PROVE g[i + 1].batch = f[i].batch
    <3>1. CASE i < n
      <4>1. i + 1 \in 1..n
        BY <1>1, <2>1, <3>1
      <4> QED
        BY <1>1, <2>2, <2>3, <3>1, <4>1
    <3>2. CASE i = n
      <4>1. g[i + 1] = rec
        BY <1>1, <3>2
      <4>2. rec.idx # 1
        <5>1. EndsWhole(f) => f[n].idx >= BatchLen[f[n].batch]
          BY <2>1, <1>3 DEF EndsWhole, n
        <5>2. BatchLen[f[i].batch] \in Nat /\ f[i].idx \in Nat
          BY <2>2, RotatorAssumption
        <5> QED
          BY <2>3, <3>2, <5>1, <5>2
      <4>3. f[n] = [rec EXCEPT !.idx = @ - 1]
        BY <2>1, <4>2 DEF n
      <4>4. f[n].batch = rec.batch
        BY <4>3 DEF Records
      <4> QED
        BY <3>2, <4>1, <4>4
    <3> QED
      BY <1>3, <3>1, <3>2, <1>1
  <2> QED
    BY <2>1, <2>2, <2>3
<1> QED
  BY <1>1, <1>2, <1>3

LEMMA WriteInfoOrder ==
  ASSUME NEW w \in Writers, NameInv, ContentInv, OrderInv, alive, WriteInfo(w)
  PROVE  OrderInv'
<1> DEFINE rec == InfoRecord(<<w, name[w]>>)
           g   == Append(openFiles[name[w]], rec)
<1>1. /\ pc[w] = "info" /\ name' = name /\ doneFiles' = doneFiles /\ torn' = torn
      /\ openFiles' = [openFiles EXCEPT ![name[w]] = Append(@, rec)]
      /\ \A v \in Writers : v # w => pc'[v] = pc[v] /\ idx'[v] = idx[v]
  BY DEF WriteInfo, NameInv, TypeOK
<1>2. rec \in Records
  BY InfoRecordType DEF InfoIDs, NameInv, TypeOK
<1>3. Writing(w) /\ Holding(w)
  BY <1>1 DEF Writing, Holding
<1>4. Files' \subseteq Files \union {g} /\ openFiles'[name[w]] = g
  BY <1>1, <1>2, <1>3, AppendGrows DEF NameInv
<1>5. openFiles[name[w]] = <<>>
  BY <1>1 DEF ContentInv, OwnFiles, OwnFile
<1>6. Len(g) = 1
  BY <1>5
<1>7. InOrder(g) /\ EndsWhole(g)
  BY <1>6 DEF InOrder, EndsWhole
<1> HIDE DEF rec, g
<1>8. \A n \in Names : n # name[w] => openFiles'[n] = openFiles[n]
  BY <1>1 DEF NameInv, TypeOK
<1>9. /\ torn' = {}
      /\ \A v \in Writers : v # w /\ Writing(v)' /\ ~InBatch(v)' =>
                            EndsWhole(openFiles'[name'[v]])
  BY <1>1, <1>3, <1>8, OrderFrame
<1>10. EndsWhole(openFiles'[name'[w]])
  BY <1>1, <1>4, <1>7
<1>11. \A f \in Files' : InOrder(f)
  BY <1>4, <1>7 DEF OrderInv
<1> QED
  BY <1>1, <1>9, <1>10, <1>11 DEF OrderInv, InOrder, EndsWhole

\* The record that Flush appends comes after its predecessor in the batch, or
\* after the end of another batch.
LEMMA FlushOrder ==
  ASSUME NEW w \in Writers, NameInv, ContentInv, OrderInv, alive, Flush(w)
  PROVE  OrderInv'
<1> DEFINE f   == openFiles[name[w]]
           rec == [batch |-> cur[w], idx |-> idx[w], info |-> info[w]]
           g   == Append(f, rec)
           k   == idx[w]
<1>1. /\ pc[w] = "flush" /\ name' = name /\ doneFiles' = doneFiles /\ torn' = torn
      /\ openFiles' = [openFiles EXCEPT ![name[w]] = Append(@, rec)]
      /\ \A v \in Writers : v # w => pc'[v] = pc[v] /\ idx'[v] = idx[v]
      /\ idx'[w] = k + 1 /\ pc'[w] \in {"write", "ready", "send"}
      /\ pc'[w] # "write" => k = BatchLen[cur[w]]
  BY DEF Flush, AfterRecord, AfterLast, NameInv, TypeOK
<1>2. /\ rec \in Records /\ cur[w] \in Batches /\ k \in Nat \ {0}
      /\ BatchLen[cur[w]] \in Nat /\ k <= BatchLen[cur[w]]
  BY <1>1, RotatorAssumption DEF NameInv, TypeOK, Records, BatchInHand
<1>3. Writing(w) /\ Holding(w)
  BY <1>1 DEF Writing, Holding
<1>4. f \in Files /\ f \in Seq(Records) /\ Files' \subseteq Files \union {g} /\ openFiles'[name[w]] = g
  BY <1>1, <1>2, <1>3, AppendGrows DEF NameInv
<1>5. /\ Len(f) > 0 /\ Len(f) \in Nat /\ f[1] = InfoRecord(info[w])
      /\ k <= Len(f)
      /\ \A i \in 1..(k - 1) : /\ f[Len(f) - (k - 1) + i].batch = cur[w]
                               /\ f[Len(f) - (k - 1) + i].idx = i
  BY <1>1, <1>3, <1>4 DEF ContentInv, OwnFiles, OwnFile
<1>6. ASSUME k # 1
      PROVE  f[Len(f)] = [rec EXCEPT !.idx = @ - 1]
  <2>1. k - 1 \in 1..(k - 1) /\ Len(f) - (k - 1) + (k - 1) = Len(f)
    BY <1>2, <1>5, <1>6
  <2>2. f[Len(f)].batch = cur[w] /\ f[Len(f)].idx = k - 1
    BY <1>5, <2>1
  <2>3. f[Len(f)].info = info[w]
    BY <1>4, <1>5 DEF ContentInv, WarcinfoOfOwnFile, InfoRecord
  <2>4. f[Len(f)] \in Records
    BY <1>4, <1>5
  <2> HIDE DEF f, k
  <2>5. f[Len(f)] = [batch |-> cur[w], idx |-> k - 1, info |-> info[w]]
    BY <2>2, <2>3, <2>4 DEF Records
  <2>6. [rec EXCEPT !.idx = @ - 1] = [batch |-> cur[w], idx |-> k - 1, info |-> info[w]]
    BY DEF k
  <2> QED
    BY <2>5, <2>6
<1>7. k # 1 \/ EndsWhole(f)
  BY <1>1, <1>2, <1>3 DEF OrderInv, InBatch
<1>8. InOrder(g)
  <2>1. InOrder(f) /\ rec.batch = cur[w] /\ rec.idx = k /\ k \in 1..BatchLen[cur[w]]
    BY <1>2, <1>4 DEF OrderInv
  <2> HIDE DEF f, k, rec
  <2> QED
    BY <1>2, <1>4, <1>6, <1>7, <2>1, AppendInOrder
<1>9. pc'[w] # "write" => EndsWhole(g)
  <2>1. Len(g) = Len(f) + 1 /\ g[Len(f) + 1] = rec
    BY <1>2, <1>4, AppendExtends
  <2>2. rec.batch = cur[w] /\ rec.idx = k
    OBVIOUS
  <2> HIDE DEF f, g, k, rec
  <2> QED
    BY <1>1, <1>2, <2>1, <2>2 DEF EndsWhole
<1>10. \A n \in Names : n # name[w] => openFiles'[n] = openFiles[n]
  BY <1>1 DEF NameInv, TypeOK
<1>11. InBatch(w)' \/ EndsWhole(openFiles'[name'[w]])
  <2>1. k + 1 > 1
    BY <1>2
  <2> QED
    BY <1>1, <1>4, <1>9, <2>1 DEF InBatch
<1> HIDE DEF f, g, k, rec
<1>12. /\ torn' = {}
       /\ \A v \in Writers : v # w /\ Writing(v)' /\ ~InBatch(v)' =>
                             EndsWhole(openFiles'[name'[v]])
  BY <1>1, <1>3, <1>10, OrderFrame
<1>13. \A h \in Files' : InOrder(h)
  BY <1>4, <1>8 DEF OrderInv
<1> QED
  BY <1>1, <1>11, <1>12, <1>13 DEF OrderInv, InOrder, EndsWhole

LEMMA OrderNext ==
  ASSUME NameInv, ContentInv, OrderInv, [Next]_vars
  PROVE  OrderInv'
<1>1. ASSUME NEW w \in Writers, WriterStep(w), alive PROVE OrderInv'
  BY <1>1, QuietOrder, CreateOrder, WriteInfoOrder, FlushOrder, RenameOrder DEF WriterStep
<1>2. CASE \/ \E b \in Batches, r \in Rotators : Submit(b, r)
           \/ \E r \in Rotators : CloseChannel(r)
           \/ \E b \in Batches : ReceiveFeedback(b)
           \/ Tick \/ Crash \/ UNCHANGED vars
  BY <1>2, EnvironmentOrder
<1> QED
  BY <1>1, <1>2 DEF Next, Terminated

\* The records of a batch stand side by side and in order in one file, and a
\* file that has lost its ".open" ends with a complete batch.
THEOREM PairsStayTogetherHolds ==
  ASSUME NEW r0, Rotators = {r0}
  PROVE  Spec => []PairsStayTogether
<1>1. Init => OrderInv
  BY OrderInit
<1>2. IInv /\ OrderInv /\ [Next]_vars => OrderInv'
  BY OrderNext DEF IInv
<1>3. IInv /\ OrderInv => PairsStayTogether
  <2> SUFFICES ASSUME IInv, OrderInv PROVE PairsStayTogether
    OBVIOUS
  <2>1. \A f \in Files : \A i \in 2..Len(f) : f[i].idx # 1 => f[i - 1] = [f[i] EXCEPT !.idx = @ - 1]
    BY DEF OrderInv, InOrder
  <2>2. ASSUME NEW n \in Names, doneFiles[n] # NoFile
        PROVE  LET f == doneFiles[n] IN
               /\ n \notin torn
               /\ \A i \in 2..Len(f) :
                     f[i].idx < BatchLen[f[i].batch] => i < Len(f) /\ f[i + 1].batch = f[i].batch
    <3> DEFINE f == doneFiles[n]
    <3>1. n \notin torn /\ EndsWhole(f)
      BY <2>2 DEF OrderInv
    <3>2. f \in Files /\ InOrder(f)
      BY <2>2 DEF OrderInv, Files, OnDisk
    <3>3. Len(f) \in Nat
      BY <3>2, FilesAreSequences DEF IInv, NameInv
    <3> HIDE DEF f
    <3>4. ASSUME NEW i \in 2..Len(f), f[i].idx < BatchLen[f[i].batch]
          PROVE  i < Len(f) /\ f[i + 1].batch = f[i].batch
      <4>1. f[i].batch \in Batches /\ f[i].idx \in 1..BatchLen[f[i].batch]
        BY <3>2 DEF InOrder
      <4>2. BatchLen[f[i].batch] \in Nat
        BY <4>1, RotatorAssumption
      <4>3. i # Len(f)
        BY <3>1, <3>3, <3>4, <4>1, <4>2 DEF EndsWhole
      <4>4. i < Len(f)
        BY <3>3, <4>3
      <4> QED
        BY <3>2, <3>4, <4>4 DEF InOrder
    <3> QED
      BY <3>1, <3>4 DEF f
  <2> QED
    BY <2>1, <2>2 DEF PairsStayTogether
<1> QED
  BY <1>1, <1>2, <1>3, IInvAlways, PTL DEF Spec

-----------------------------------------------------------------------------
(***************************************************************************)
(* Written once.                                                           *)
(***************************************************************************)

LEMMA OnceInit == Init => OnceInv
<1> SUFFICES ASSUME Init PROVE OnceInv
  OBVIOUS
<1>1. \A n \in Names : Len(Leftover(n)) = 1
  BY DEF Leftover
<1>2. \A k \in {"open", "done"} : \A n \in Names :
         FileAt(k, n) # NoFile => Len(FileAt(k, n)) = 1
  BY <1>1 DEF Init, FileAt
<1>3. \A f \in Files : Len(f) = 1
  BY <1>1 DEF Init, Files, OnDisk
<1>4. (\A f \in Files : Behind(f)) /\ OnePlace
  BY <1>2, <1>3 DEF Behind, OnePlace
<1>5. BatchesAreHeld
  BY RotatorAssumption DEF Init, BatchesAreHeld, Waits, ChanCap
<1> QED
  BY <1>4, <1>5 DEF OnceInv

\* A step on which no batch changes hands, and none is written backwards.
LEMMA HeldFrame ==
  ASSUME NameInv, BatchesAreHeld, UNCHANGED <<queue, submitted>>,
         \A v \in Writers : cur'[v] = cur[v] \/ cur'[v] = NoBatch
  PROVE  BatchesAreHeld'
  BY RotatorAssumption DEF BatchesAreHeld, Waits

LEMMA BehindFrame ==
  ASSUME NEW f \in Seq(Records), NameInv, NameInv', InOrder(f), Behind(f),
         UNCHANGED <<queue, submitted>>,
         \A v \in Writers : (cur'[v] = cur[v] /\ idx'[v] >= idx[v]) \/ cur'[v] = NoBatch
  PROVE  Behind(f)'
<1> SUFFICES ASSUME NEW i \in 2..Len(f)
             PROVE  /\ f[i].batch \in submitted
                    /\ \A r \in Rotators : ~Waits(f[i].batch, r)
                    /\ \A w \in Writers : cur'[w] = f[i].batch => f[i].idx < idx'[w]
  BY DEF Behind, Waits
<1>1. /\ f[i].batch \in submitted
      /\ \A r \in Rotators : ~Waits(f[i].batch, r)
      /\ \A w \in Writers : cur[w] = f[i].batch => f[i].idx < idx[w]
  BY DEF Behind
<1>2. f[i].batch # NoBatch
  BY RotatorAssumption DEF InOrder
<1>3. i \in 1..Len(f)
  OBVIOUS
<1>4. f[i].idx \in Nat
  <2>1. f[i] \in Records
    BY <1>3
  <2> QED
    BY <2>1 DEF Records
<1>5. \A w \in Writers : idx[w] \in Nat /\ idx'[w] \in Nat
  BY DEF NameInv, TypeOK
<1> QED
  BY <1>1, <1>2, <1>4, <1>5

\* What stands in the files as long as they are left alone.
LEMMA PlaceFrame ==
  ASSUME OnePlace, UNCHANGED <<openFiles, doneFiles>>
  PROVE  OnePlace'
  BY DEF OnePlace, FileAt

\* A batch goes from the channel to one writer.
LEMMA ReceiveOnce ==
  ASSUME NEW w \in Writers, NameInv, NameInv', OrderInv, OnceInv, Receive(w)
  PROVE  OnceInv'
<1> DEFINE r == RotatorOf[w]
           b == Head(queue[r])
<1>1. /\ r \in Rotators /\ queue[r] # <<>> /\ queue[r] \in Seq(Batches)
      /\ queue' = [queue EXCEPT ![r] = Tail(@)] /\ submitted' = submitted
      /\ cur' = [cur EXCEPT ![w] = b] /\ idx' = [idx EXCEPT ![w] = 1]
      /\ UNCHANGED <<openFiles, doneFiles>>
  BY RotatorAssumption DEF Receive, NameInv, TypeOK, disk
<1>2. Len(queue[r]) <= 1
  BY <1>1 DEF OnceInv, BatchesAreHeld, ChanCap
<1>3. queue[r] = <<b>> /\ b \in Batches /\ Tail(queue[r]) = <<>>
  BY <1>1, <1>2
<1> HIDE DEF r, b
<1>4. /\ queue'[r] = <<>> /\ cur'[w] = b /\ idx'[w] = 1
      /\ \A s \in Rotators : s # r => queue'[s] = queue[s]
      /\ \A v \in Writers : v # w => cur'[v] = cur[v] /\ idx'[v] = idx[v]
  BY <1>1, <1>3 DEF NameInv, TypeOK
<1>5. b \in submitted /\ \A v \in Writers : cur[v] # b
  BY <1>1, <1>3 DEF OnceInv, BatchesAreHeld, Waits
<1>6. \A s \in Rotators : ~(s # r /\ Waits(b, s))
  BY <1>1, <1>3 DEF OnceInv, BatchesAreHeld, Waits
<1>7. \A c \in Batches, s \in Rotators : Waits(c, s)' => Waits(c, s) /\ s # r /\ c # b
  <2>1. ASSUME NEW c \in Batches, NEW s \in Rotators, queue'[s] = <<c>>
        PROVE  queue[s] = <<c>> /\ s # r
    <3>1. s # r
      <4>1. <<c>> # <<>>
        OBVIOUS
      <4> QED
        BY <1>4, <2>1, <4>1
    <3> QED
      BY <1>4, <2>1, <3>1
  <2> QED
    BY <2>1, <1>6 DEF Waits
<1>8. BatchesAreHeld'
  <2>1. \A s \in Rotators : Len(queue'[s]) <= ChanCap
    <3>1. Len(<<>>) <= ChanCap
      BY DEF ChanCap
    <3> QED
      BY <1>4, <3>1 DEF OnceInv, BatchesAreHeld
  <2>2. \A c \in Batches, s \in Rotators :
           Waits(c, s)' => c \in submitted' /\ \A v \in Writers : cur'[v] # c
    BY <1>1, <1>4, <1>7 DEF OnceInv, BatchesAreHeld
  <2>3. \A c \in Batches, s, t \in Rotators : Waits(c, s)' /\ Waits(c, t)' => s = t
    BY <1>7 DEF OnceInv, BatchesAreHeld
  <2>4. \A v \in Writers : cur'[v] \in Batches => cur'[v] \in submitted'
    BY <1>1, <1>4, <1>5 DEF OnceInv, BatchesAreHeld
  <2>5. \A v, u \in Writers : cur'[v] \in Batches /\ cur'[v] = cur'[u] => v = u
    BY <1>4, <1>5 DEF OnceInv, BatchesAreHeld
  <2> QED
    BY <2>1, <2>2, <2>3, <2>4, <2>5 DEF BatchesAreHeld
<1>9. Files' = Files
  BY <1>1 DEF Files, OnDisk
<1>10. ASSUME NEW f \in Files, NEW i \in 2..Len(f)
       PROVE  /\ f[i].batch \in submitted'
              /\ \A s \in Rotators : ~Waits(f[i].batch, s)'
              /\ \A v \in Writers : cur'[v] = f[i].batch => f[i].idx < idx'[v]
  <2>1. /\ f[i].batch \in submitted
        /\ \A s \in Rotators : ~Waits(f[i].batch, s)
        /\ \A v \in Writers : cur[v] = f[i].batch => f[i].idx < idx[v]
    BY DEF OnceInv, Behind
  <2>2. f[i].batch \in Batches
    BY DEF OrderInv, InOrder
  <2>3. f[i].batch # b
    BY <1>1, <1>3, <2>1 DEF Waits
  <2>4. \A s \in Rotators : ~Waits(f[i].batch, s)'
    BY <1>7, <2>1, <2>2
  <2> QED
    BY <1>1, <1>4, <2>1, <2>3, <2>4
<1>11. \A f \in Files' : Behind(f)'
  BY <1>9, <1>10 DEF Behind, Waits
<1>12. OnePlace'
  BY <1>1, PlaceFrame DEF OnceInv
<1> QED
  BY <1>8, <1>11, <1>12 DEF OnceInv

\* The steps of w that leave the disk alone and take no batch.
LEMMA QuietOnce ==
  ASSUME NEW w \in Writers, NameInv, NameInv', OrderInv, OnceInv,
         \/ GenerateName(w) \/ Stat(w) \/ Copy(w) \/ SendFeedback(w)
         \/ CloseFeedback(w) \/ SeeClosed(w) \/ SignalDone(w)
  PROVE  OnceInv'
<1>1. UNCHANGED <<openFiles, doneFiles, queue, submitted, idx>>
  BY DEF GenerateName, Stat, Copy, SendFeedback, CloseFeedback, SeeClosed, SignalDone,
         disk, chans
<1>2. \A v \in Writers : cur'[v] = cur[v] \/ cur'[v] = NoBatch
  BY DEF GenerateName, Stat, Copy, SendFeedback, CloseFeedback, SeeClosed, SignalDone,
         NameInv, TypeOK
<1>3. \A v \in Writers : idx'[v] >= idx[v]
  BY <1>1 DEF NameInv, TypeOK
<1>4. Files' = Files
  BY <1>1 DEF Files, OnDisk
<1>5. \A f \in Files' : Behind(f)'
  BY <1>1, <1>2, <1>3, <1>4, BehindFrame, FilesAreSequences DEF OnceInv, OrderInv, NameInv
<1> QED
  BY <1>1, <1>2, <1>5, HeldFrame, PlaceFrame DEF OnceInv

LEMMA EnvironmentOnce ==
  ASSUME NameInv, NameInv', OrderInv, OnceInv,
         \/ \E b \in Batches, r \in Rotators : Submit(b, r)
         \/ \E r \in Rotators : CloseChannel(r)
         \/ \E b \in Batches : ReceiveFeedback(b)
         \/ Tick \/ Crash \/ UNCHANGED vars
  PROVE  OnceInv'
<1>1. UNCHANGED <<openFiles, doneFiles, cur, idx>>
  BY DEF Submit, CloseChannel, ReceiveFeedback, Tick, Crash, vars, locals, disk
<1>2. OnePlace' /\ Files' = Files
  BY <1>1, PlaceFrame DEF OnceInv, Files, OnDisk
<1>3. CASE UNCHANGED <<queue, submitted>>
  <2>1. \A v \in Writers : cur'[v] = cur[v] /\ idx'[v] >= idx[v]
    BY <1>1 DEF NameInv, TypeOK
  <2>2. \A f \in Files' : Behind(f)'
    BY <1>2, <1>3, <2>1, BehindFrame, FilesAreSequences DEF OnceInv, OrderInv, NameInv
  <2> QED
    BY <1>2, <1>3, <2>1, <2>2, HeldFrame DEF OnceInv
<1>4. ASSUME NEW b \in Batches, NEW r \in Rotators, Submit(b, r)
      PROVE  OnceInv'
  <2>1. /\ b \notin submitted /\ submitted' = submitted \union {b}
        /\ queue[r] \in Seq(Batches) /\ Len(queue[r]) < 1
        /\ queue' = [queue EXCEPT ![r] = Append(@, b)]
    BY <1>4 DEF Submit, ChanCap, NameInv, TypeOK
  <2>2. queue[r] = <<>>
    BY <2>1
  <2>3. queue'[r] = <<b>> /\ \A s \in Rotators : s # r => queue'[s] = queue[s]
    BY <2>1, <2>2 DEF NameInv, TypeOK
  <2>4. \A c \in Batches, s \in Rotators : Waits(c, s)' => Waits(c, s) \/ (c = b /\ s = r)
    <3>1. \A c \in Batches : <<b>> = <<c>> => b = c
      OBVIOUS
    <3> QED
      BY <2>3, <3>1 DEF Waits
  <2>5. BatchesAreHeld'
    <3>1. \A s \in Rotators : Len(queue'[s]) <= ChanCap
      <4>1. Len(<<b>>) <= ChanCap
        BY DEF ChanCap
      <4> QED
        BY <2>3, <4>1 DEF OnceInv, BatchesAreHeld
    <3>2. \A c \in Batches, s \in Rotators :
             Waits(c, s)' => c \in submitted' /\ \A v \in Writers : cur'[v] # c
      BY <1>1, <2>1, <2>4 DEF OnceInv, BatchesAreHeld
    <3>3. \A c \in Batches, s, t \in Rotators : Waits(c, s)' /\ Waits(c, t)' => s = t
      BY <2>1, <2>4 DEF OnceInv, BatchesAreHeld
    <3>4. \A v \in Writers : cur'[v] \in Batches => cur'[v] \in submitted'
      BY <1>1, <2>1 DEF OnceInv, BatchesAreHeld
    <3>5. \A v, u \in Writers : cur'[v] \in Batches /\ cur'[v] = cur'[u] => v = u
      BY <1>1 DEF OnceInv, BatchesAreHeld
    <3> QED
      BY <3>1, <3>2, <3>3, <3>4, <3>5 DEF BatchesAreHeld
  <2>6. ASSUME NEW f \in Files, NEW i \in 2..Len(f)
        PROVE  /\ f[i].batch \in submitted'
               /\ \A s \in Rotators : ~Waits(f[i].batch, s)'
               /\ \A v \in Writers : cur'[v] = f[i].batch => f[i].idx < idx'[v]
    <3>1. /\ f[i].batch \in submitted
          /\ \A s \in Rotators : ~Waits(f[i].batch, s)
          /\ \A v \in Writers : cur[v] = f[i].batch => f[i].idx < idx[v]
      BY DEF OnceInv, Behind
    <3>2. f[i].batch \in Batches /\ f[i].batch # b
      BY <2>1, <3>1 DEF OrderInv, InOrder
    <3> QED
      BY <1>1, <2>1, <2>4, <3>1, <3>2
  <2>7. \A f \in Files' : Behind(f)'
    BY <1>2, <2>6 DEF Behind, Waits
  <2> QED
    BY <1>2, <2>5, <2>7 DEF OnceInv
<1> QED
  BY <1>3, <1>4 DEF CloseChannel, ReceiveFeedback, Tick, Crash, vars, chans

\* os.Create and the warcinfo record make no record of a batch.
LEMMA HeadOnce ==
  ASSUME NEW w \in Writers, NameInv, NameInv', ContentInv, OrderInv, OnceInv,
         Create(w) \/ WriteInfo(w)
  PROVE  OnceInv'
<1> DEFINE g == openFiles'[name[w]]
<1>1. /\ UNCHANGED <<doneFiles, queue, submitted, cur, idx>>
      /\ name[w] \in Names
      /\ \A n \in Names : n # name[w] => openFiles'[n] = openFiles[n]
  BY DEF Create, WriteInfo, NameInv, TypeOK, chans
<1>2. g \in Seq(Records) /\ Len(g) <= 1
  <2>1. CASE Create(w)
    <3>1. g = <<>>
      BY <2>1, <1>1 DEF Create, NameInv, TypeOK
    <3> QED
      BY <3>1
  <2>2. CASE WriteInfo(w)
    <3>1. openFiles[name[w]] = <<>>
      BY <2>2 DEF WriteInfo, ContentInv, OwnFiles, OwnFile
    <3>2. InfoRecord(<<w, name[w]>>) \in Records
      BY InfoRecordType DEF InfoIDs, NameInv, TypeOK
    <3>3. g = Append(<<>>, InfoRecord(<<w, name[w]>>))
      BY <1>1, <2>2, <3>1 DEF WriteInfo, NameInv, TypeOK
    <3> HIDE DEF g
    <3> QED
      BY <3>2, <3>3
  <2> QED
    BY <2>1, <2>2
<1>3. Files' \subseteq Files \union {g}
  BY <1>1 DEF Files, OnDisk
<1> HIDE DEF g
<1>4. ASSUME NEW f \in Seq(Records), Len(f) <= 1 PROVE Behind(f)'
  <2>1. \A i \in 2..Len(f) : FALSE
    BY <1>4
  <2> QED
    BY <2>1 DEF Behind
<1>5. \A v \in Writers : cur'[v] = cur[v] /\ idx'[v] >= idx[v]
  BY <1>1 DEF NameInv, TypeOK
<1>6. \A f \in Files' : Behind(f)'
  <2>1. \A f \in Files : Behind(f)'
    BY <1>1, <1>5, BehindFrame, FilesAreSequences DEF OnceInv, OrderInv, NameInv
  <2> QED
    BY <1>2, <1>3, <1>4, <2>1
<1>7. OnePlace'
  <2>1. \A k \in {"open", "done"}, n \in Names :
           FileAt(k, n)' = FileAt(k, n) \/ FileAt(k, n)' = g
    BY <1>1 DEF FileAt, g
  <2>2. \A i \in 2..Len(g) : FALSE
    BY <1>2
  <2> QED
    BY <2>1, <2>2 DEF OnceInv, OnePlace
<1> QED
  BY <1>1, <1>5, <1>6, <1>7, HeldFrame DEF OnceInv

LEMMA RenameOnce ==
  ASSUME NEW w \in Writers, NameInv, NameInv', OrderInv, OnceInv, Rotate(w) \/ Finish(w)
  PROVE  OnceInv'
<1> DEFINE From(k, n) == IF k = "done" /\ n = name[w] THEN "open" ELSE k
<1>1. /\ UNCHANGED <<queue, submitted, cur, idx>> /\ pc[w] \in {"rotate", "finish"}
      /\ doneFiles' = [doneFiles EXCEPT ![name[w]] = openFiles[name[w]]]
      /\ openFiles' = [openFiles EXCEPT ![name[w]] = NoFile]
      /\ name[w] \in Names
  BY DEF Rotate, Finish, RenameTo, NameInv, TypeOK, chans
<1>2. Files' \subseteq Files
  BY <1>1 DEF Files, OnDisk, NameInv, TypeOK
<1>3. \A v \in Writers : cur'[v] = cur[v] /\ idx'[v] >= idx[v]
  BY <1>1 DEF NameInv, TypeOK
<1>4. \A f \in Files' : Behind(f)'
  BY <1>1, <1>2, <1>3, BehindFrame, FilesAreSequences DEF OnceInv, OrderInv, NameInv
<1>5. ASSUME NEW k \in {"open", "done"}, NEW n \in Names, FileAt(k, n)' # NoFile
      PROVE  /\ FileAt(k, n)' = FileAt(From(k, n), n)
             /\ n = name[w] => k = "done"
  BY <1>1, <1>5 DEF FileAt, NameInv, TypeOK
<1>6. OnePlace'
  <2> SUFFICES ASSUME NEW k \in {"open", "done"}, NEW l \in {"open", "done"},
                      NEW n \in Names, NEW m \in Names,
                      FileAt(k, n)' # NoFile, FileAt(l, m)' # NoFile,
                      NEW i \in 2..Len(FileAt(k, n)'), NEW j \in 2..Len(FileAt(l, m)'),
                      FileAt(k, n)'[i].batch = FileAt(l, m)'[j].batch,
                      FileAt(k, n)'[i].idx = FileAt(l, m)'[j].idx
               PROVE  k = l /\ n = m /\ i = j
    BY DEF OnePlace
  <2>1. /\ FileAt(k, n)' = FileAt(From(k, n), n) /\ FileAt(l, m)' = FileAt(From(l, m), m)
        /\ n = name[w] => k = "done"
        /\ m = name[w] => l = "done"
    BY <1>5
  <2>2. From(k, n) \in {"open", "done"} /\ From(l, m) \in {"open", "done"}
    OBVIOUS
  <2> HIDE DEF From
  <2>3. From(k, n) = From(l, m) /\ n = m /\ i = j
    BY <2>1, <2>2 DEF OnceInv, OnePlace
  <2> USE DEF From
  <2> QED
    BY <2>1, <2>3
<1> QED
  BY <1>1, <1>3, <1>4, <1>6, HeldFrame DEF OnceInv

\* The record of its batch that w is at is in no file yet.
LEMMA FlushOnce ==
  ASSUME NEW w \in Writers, NameInv, NameInv', OrderInv, OnceInv, Flush(w)
  PROVE  OnceInv'
<1> DEFINE f   == openFiles[name[w]]
           rec == [batch |-> cur[w], idx |-> idx[w], info |-> info[w]]
           g   == Append(f, rec)
           b   == cur[w]
           x   == idx[w]
<1>1. /\ pc[w] = "flush" /\ UNCHANGED <<doneFiles, queue, submitted>>
      /\ openFiles' = [openFiles EXCEPT ![name[w]] = Append(@, rec)]
      /\ \A v \in Writers : v # w => cur'[v] = cur[v] /\ idx'[v] = idx[v]
      /\ idx'[w] = x + 1 /\ cur'[w] \in {b, NoBatch}
      /\ name[w] \in Names
  BY DEF Flush, NameInv, TypeOK, chans
<1>2. rec \in Records /\ b \in Batches /\ x \in Nat \ {0} /\ x <= BatchLen[b]
  BY <1>1 DEF NameInv, TypeOK, Records, BatchInHand
<1>3. Writing(w)
  BY <1>1 DEF Writing
<1>4. f \in Files /\ f \in Seq(Records) /\ Files' \subseteq Files \union {g} /\ openFiles'[name[w]] = g
  BY <1>1, <1>2, <1>3, AppendGrows DEF NameInv
<1>5. /\ Len(f) \in Nat /\ Len(g) = Len(f) + 1 /\ g[Len(f) + 1] = rec /\ g \in Seq(Records)
      /\ \A i \in 1..Len(f) : g[i] = f[i]
  BY <1>2, <1>4, AppendExtends DEF Extends
<1>6. rec.batch = b /\ rec.idx = x
  OBVIOUS
<1>7. \A n \in Names : n # name[w] => openFiles'[n] = openFiles[n]
  BY <1>1 DEF NameInv, TypeOK
<1>8. f # NoFile
  BY <1>3 DEF NameInv, NamesAreOwned
<1> HIDE DEF f, rec, g, b, x
<1>9. \A v \in Writers : (cur'[v] = cur[v] /\ idx'[v] >= idx[v]) \/ cur'[v] = NoBatch
  BY <1>1, <1>2 DEF NameInv, TypeOK, b, x
<1>10. \A h \in Files : Behind(h)'
  BY <1>1, <1>9, BehindFrame, FilesAreSequences DEF OnceInv, OrderInv, NameInv
<1>11. /\ b \in submitted /\ \A r \in Rotators : ~Waits(b, r)
       /\ \A v \in Writers : cur'[v] = b => v = w
  BY <1>1, <1>2 DEF OnceInv, BatchesAreHeld, b
<1>12. ASSUME NEW h, h = g PROVE Behind(h)'
  <2> SUFFICES ASSUME NEW i \in 2..Len(h)
               PROVE  /\ h[i].batch \in submitted
                      /\ \A r \in Rotators : ~Waits(h[i].batch, r)'
                      /\ \A v \in Writers : cur'[v] = h[i].batch => h[i].idx < idx'[v]
    BY <1>1 DEF Behind
  <2>1. CASE i = Len(f) + 1
    <3>1. h[i] = rec
      BY <1>5, <1>12, <2>1
    <3>2. x < x + 1
      BY <1>2
    <3> QED
      BY <1>1, <1>6, <1>11, <3>1, <3>2 DEF Waits
  <2>2. CASE i # Len(f) + 1
    <3>1. i \in 2..Len(f) /\ h[i] = f[i]
      BY <1>5, <1>12, <2>2
    <3>2. Behind(f)
      BY <1>4 DEF OnceInv
    <3>3. ASSUME NEW e, e = f PROVE Behind(e)'
      BY <1>4, <1>10, <3>3
    <3> QED
      BY <1>1, <3>1, <3>3 DEF Behind
  <2> QED
    BY <2>1, <2>2
<1>13. \A h \in Files' : Behind(h)'
  BY <1>4, <1>10, <1>12
\* A record in a file is the one just written, or an old one, which is not
\* the one that w is at.
<1>14. ASSUME NEW k \in {"open", "done"}, NEW n \in Names, FileAt(k, n)' # NoFile,
              NEW i \in 2..Len(FileAt(k, n)')
       PROVE  \/ /\ k = "open" /\ n = name[w] /\ i = Len(f) + 1
                 /\ FileAt(k, n)'[i] = rec
              \/ /\ FileAt(k, n) # NoFile /\ i \in 2..Len(FileAt(k, n))
                 /\ FileAt(k, n)'[i] = FileAt(k, n)[i]
                 /\ ~(FileAt(k, n)[i].batch = b /\ FileAt(k, n)[i].idx = x)
  <2>1. ASSUME FileAt(k, n) # NoFile, i \in 2..Len(FileAt(k, n))
        PROVE  ~(FileAt(k, n)[i].batch = b /\ FileAt(k, n)[i].idx = x)
    <3>1. FileAt(k, n) \in Files
      BY <2>1 DEF FileAt, Files, OnDisk
    <3>2. Behind(FileAt(k, n))
      BY <3>1 DEF OnceInv
    <3>3. FileAt(k, n)[i].batch = b => FileAt(k, n)[i].idx < x
      BY <2>1, <3>2 DEF Behind, b, x
    <3> QED
      BY <1>2, <3>3
  <2>2. CASE k = "open" /\ n = name[w]
    <3>1. FileAt(k, n)' = g /\ FileAt(k, n) = f
      BY <1>4, <2>2 DEF FileAt, f
    <3>2. CASE i = Len(f) + 1
      BY <1>5, <2>2, <3>1, <3>2
    <3>3. CASE i # Len(f) + 1
      <4>1. i \in 2..Len(f) /\ g[i] = f[i]
        BY <1>5, <3>1, <3>3
      <4> QED
        BY <1>8, <2>1, <3>1, <4>1
    <3> QED
      BY <3>2, <3>3
  <2>3. CASE ~(k = "open" /\ n = name[w])
    <3>1. FileAt(k, n)' = FileAt(k, n)
      BY <1>1, <1>7, <2>3 DEF FileAt
    <3> QED
      BY <1>14, <2>1, <3>1
  <2> QED
    BY <2>2, <2>3
<1>15. OnePlace'
  <2> SUFFICES ASSUME NEW k \in {"open", "done"}, NEW l \in {"open", "done"},
                      NEW n \in Names, NEW m \in Names,
                      FileAt(k, n)' # NoFile, FileAt(l, m)' # NoFile,
                      NEW i \in 2..Len(FileAt(k, n)'), NEW j \in 2..Len(FileAt(l, m)'),
                      FileAt(k, n)'[i].batch = FileAt(l, m)'[j].batch,
                      FileAt(k, n)'[i].idx = FileAt(l, m)'[j].idx
               PROVE  k = l /\ n = m /\ i = j
    BY DEF OnePlace
  <2>1. \/ k = "open" /\ n = name[w] /\ i = Len(f) + 1 /\ FileAt(k, n)'[i] = rec
        \/ /\ FileAt(k, n) # NoFile /\ i \in 2..Len(FileAt(k, n))
           /\ FileAt(k, n)'[i] = FileAt(k, n)[i]
           /\ ~(FileAt(k, n)[i].batch = b /\ FileAt(k, n)[i].idx = x)
    BY <1>14
  <2>2. \/ l = "open" /\ m = name[w] /\ j = Len(f) + 1 /\ FileAt(l, m)'[j] = rec
        \/ /\ FileAt(l, m) # NoFile /\ j \in 2..Len(FileAt(l, m))
           /\ FileAt(l, m)'[j] = FileAt(l, m)[j]
           /\ ~(FileAt(l, m)[j].batch = b /\ FileAt(l, m)[j].idx = x)
    BY <1>14
  <2> QED
    BY <1>6, <2>1, <2>2 DEF OnceInv, OnePlace
<1>16. \A v \in Writers : cur'[v] = cur[v] \/ cur'[v] = NoBatch
  BY <1>9
<1> QED
  BY <1>1, <1>13, <1>15, <1>16, HeldFrame DEF OnceInv

LEMMA OnceNext ==
  ASSUME NameInv, NameInv', ContentInv, OrderInv, OnceInv, [Next]_vars
  PROVE  OnceInv'
<1>1. ASSUME NEW w \in Writers, WriterStep(w) PROVE OnceInv'
  BY <1>1, QuietOnce, ReceiveOnce, HeadOnce, FlushOnce, RenameOnce DEF WriterStep
<1>2. CASE \/ \E b \in Batches, r \in Rotators : Submit(b, r)
           \/ \E r \in Rotators : CloseChannel(r)
           \/ \E b \in Batches : ReceiveFeedback(b)
           \/ Tick \/ Crash \/ UNCHANGED vars
  BY <1>2, EnvironmentOnce
<1> QED
  BY <1>1, <1>2 DEF Next, Terminated

LEMMA PairsInvAlways ==
  ASSUME NEW r0, Rotators = {r0}
  PROVE  Spec => []PairsInv
<1>1. Init => IInv /\ PairsInv
  BY NameInvInit, ContentInit, OrderInit, OnceInit DEF IInv, PairsInv
<1>2. IInv /\ PairsInv /\ [Next]_vars => IInv' /\ PairsInv'
  BY IInvNext, OrderNext, OnceNext DEF IInv, PairsInv
<1> QED
  BY <1>1, <1>2, PTL DEF Spec

\* A batch is taken from the channel by one writer, and none of its records
\* is found twice on the disk.
THEOREM WrittenOnceHolds ==
  ASSUME NEW r0, Rotators = {r0}
  PROVE  Spec => []WrittenOnce
<1>1. PairsInv => WrittenOnce
  <2> SUFFICES ASSUME PairsInv, NEW f \in Files, NEW g \in Files,
                      NEW i \in 2..Len(f), NEW j \in 2..Len(g),
                      f[i].batch = g[j].batch, f[i].idx = g[j].idx
               PROVE  f = g /\ i = j
    BY DEF WrittenOnce
  <2>1. \A h \in Files : \E k \in {"open", "done"}, n \in Names :
           h = FileAt(k, n) /\ FileAt(k, n) # NoFile
    BY DEF Files, OnDisk, FileAt
  <2>2. PICK k \in {"open", "done"}, n \in Names : f = FileAt(k, n) /\ FileAt(k, n) # NoFile
    BY <2>1
  <2>3. PICK l \in {"open", "done"}, m \in Names : g = FileAt(l, m) /\ FileAt(l, m) # NoFile
    BY <2>1
  <2>4. k = l /\ n = m /\ i = j
    BY <2>2, <2>3 DEF PairsInv, OnceInv, OnePlace
  <2> QED
    BY <2>2, <2>3, <2>4
<1> QED
  BY <1>1, PairsInvAlways, PTL

(***************************************************************************)
(* Rotator implements Archive: every step of the writers and of the        *)
(* producers is a step of Archive, or changes nothing that Archive speaks  *)
(* of.                                                                     *)
(***************************************************************************)

\* What is in a channel or in the hands of a writer was sent by a producer.
InHandWasSent ==
    /\ \A r \in Rotators : queue[r] \in Seq(submitted)
    /\ \A w \in Writers : cur[w] # NoBatch => cur[w] \in submitted

RInv == IInv /\ InHandWasSent

LEMMA SentInit == Init => InHandWasSent
  BY EmptySeq DEF Init, InHandWasSent

LEMMA SentStep ==
  ASSUME TypeOK, InHandWasSent, [Next]_vars
  PROVE  InHandWasSent'
<1> USE DEF InHandWasSent, TypeOK
<1>1. ASSUME NEW b \in Batches, NEW r \in Rotators, Submit(b, r) PROVE InHandWasSent'
  <2>1. submitted' = submitted \union {b} /\ cur' = cur
    BY <1>1 DEF Submit, locals
  <2>2. queue[r] \in Seq(submitted') /\ b \in submitted'
    BY <2>1
  <2>3. Append(queue[r], b) \in Seq(submitted')
    BY <2>2
  <2>4. \A s \in Rotators \ {r} : queue[s] \in Seq(submitted') /\ queue'[s] = queue[s]
    BY <1>1, <2>1 DEF Submit
  <2>5. queue'[r] = Append(queue[r], b)
    BY <1>1 DEF Submit
  <2> QED
    BY <2>1, <2>3, <2>4, <2>5
<1>2. ASSUME NEW w \in Writers, Receive(w) PROVE InHandWasSent'
  <2> DEFINE r == RotatorOf[w]
  <2>1. r \in Rotators
    BY RotatorAssumption
  <2>2. /\ queue[r] \in Seq(submitted) /\ queue[r] # <<>> /\ submitted' = submitted
        /\ queue' = [queue EXCEPT ![r] = Tail(@)]
        /\ cur' = [cur EXCEPT ![w] = Head(queue[r])]
    BY <1>2, <2>1 DEF Receive
  <2> HIDE DEF r
  <2>3. Tail(queue[r]) \in Seq(submitted) /\ Head(queue[r]) \in submitted
    BY <2>2
  <2> QED
    BY <2>1, <2>2, <2>3
<1>3. ASSUME NEW w \in Writers, Flush(w) \/ CloseFeedback(w) PROVE InHandWasSent'
  BY <1>3 DEF Flush, CloseFeedback, chans
<1>4. CASE UNCHANGED <<cur, queue, submitted>>
  BY <1>4
<1> QED
  BY <1>1, <1>2, <1>3, <1>4
     DEF Next, WriterStep, GenerateName, Stat, Create, WriteInfo, Rotate, RenameTo, Copy,
         SendFeedback, SeeClosed, Finish, SignalDone, CloseChannel, ReceiveFeedback, Tick, Crash,
         Terminated, vars, locals, chans

LEMMA RInvAlways ==
  ASSUME NEW r0, Rotators = {r0}
  PROVE  Spec => []RInv
<1>1. Init => RInv
  BY NameInvInit, ContentInit, SentInit DEF IInv, RInv
<1>2. RInv /\ [Next]_vars => RInv'
  BY IInvNext, SentStep DEF RInv, IInv, NameInv
<1> QED
  BY <1>1, <1>2, PTL DEF Spec

-----------------------------------------------------------------------------
(***************************************************************************)
(* What is stored.                                                         *)
(***************************************************************************)

\* Only a record of b can complete b.
LEMMA AppendCompletes ==
  ASSUME NEW f \in Seq(Records), NEW rec \in Records, NEW b \in Batches,
         Whole(Append(f, rec), b), ~Whole(f, b)
  PROVE  rec.batch = b
<1> DEFINE g == Append(f, rec)
<1>1. PICK k \in 0..Len(g) : /\ k + BatchLen[b] <= Len(g)
                             /\ \A i \in 1..BatchLen[b] : g[k + i].batch = b /\ g[k + i].idx = i
  BY DEF Whole
<1>2. /\ Len(g) = Len(f) + 1 /\ g[Len(f) + 1] = rec
      /\ \A i \in 1..Len(f) : g[i] = f[i]
  BY AppendExtends DEF Extends
<1>3. BatchLen[b] \in Nat \ {0} /\ Len(f) \in Nat
  BY RotatorAssumption
<1> HIDE DEF g
<1>4. CASE k + BatchLen[b] = Len(g)
  <2>1. BatchLen[b] \in 1..BatchLen[b] /\ k + BatchLen[b] = Len(f) + 1
    BY <1>2, <1>3, <1>4
  <2> QED
    BY <1>1, <1>2, <2>1
<1>5. CASE k + BatchLen[b] # Len(g)
  <2>1. k \in 0..Len(f) /\ k + BatchLen[b] <= Len(f)
    BY <1>1, <1>2, <1>3, <1>5
  <2>2. \A i \in 1..BatchLen[b] : k + i \in 1..Len(f)
    BY <1>3, <2>1
  <2>3. \A i \in 1..BatchLen[b] : f[k + i].batch = b /\ f[k + i].idx = i
    BY <1>1, <1>2, <2>2
  <2> QED
    BY <2>1, <2>3 DEF Whole
<1> QED
  BY <1>4, <1>5

\* Nothing is stored in the files that were there before.
LEMMA StoredInit ==
  ASSUME Init, NEW b \in Batches
  PROVE  ~Stored(b)
<1>1. \A f \in Files : \E n \in Names : f = <<InfoRecord(<<NoWriter, n>>)>>
  BY DEF Init, Files, OnDisk, Leftover
<1>2. ASSUME NEW n \in Names, Whole(<<InfoRecord(<<NoWriter, n>>)>>, b) PROVE FALSE
  <2> DEFINE rec == InfoRecord(<<NoWriter, n>>)
  <2>1. rec \in Records /\ rec.batch = NoBatch
    BY InfoRecordType DEF InfoIDs, InfoRecord
  <2> HIDE DEF rec
  <2>2. <<>> \in Seq(Records) /\ Append(<<>>, rec) = <<rec>>
    BY <2>1
  <2>3. ~Whole(<<>>, b)
    BY RotatorAssumption DEF Whole
  <2>4. rec.batch = b
    BY <1>2, <2>1, <2>2, <2>3, AppendCompletes DEF rec
  <2> QED
    BY <2>1, <2>4, RotatorAssumption
<1> QED
  BY <1>1, <1>2 DEF Stored

\* A step that does not touch the files stores nothing.
LEMMA SameFiles ==
  ASSUME UNCHANGED <<openFiles, doneFiles>>, NEW b
  PROVE  Stored(b)' <=> Stored(b)
  BY DEF Stored, Files, OnDisk, Whole

\* A record appended by w stores nothing but its own batch.
LEMMA AppendStores ==
  ASSUME RInv, TypeOK', NEW w \in Writers, NEW rec \in Records, Writing(w),
         openFiles' = [openFiles EXCEPT ![name[w]] = Append(@, rec)],
         doneFiles' = doneFiles, NEW b \in Batches
  PROVE  /\ Stored(b) => Stored(b)'
         /\ Stored(b)' /\ ~Stored(b) => rec.batch = b
<1> DEFINE f == openFiles[name[w]]
<1>1. f \in Files /\ f \in Seq(Records) /\ Files' \subseteq Files \union {Append(f, rec)}
      /\ FilesGrow
  BY AppendGrows DEF RInv, IInv
<1>2. Stored(b) => Stored(b)'
  BY <1>1, StoredPersists DEF RInv, IInv, NameInv
<1>3. ASSUME Stored(b)', ~Stored(b) PROVE rec.batch = b
  <2>1. PICK g \in Files' : Whole(g, b)
    BY <1>3 DEF Stored, Whole
  <2>2. g = Append(f, rec) /\ ~Whole(f, b)
    BY <1>1, <1>3, <2>1 DEF Stored
  <2> QED
    BY <1>1, <2>1, <2>2, AppendCompletes
<1> QED
  BY <1>2, <1>3

-----------------------------------------------------------------------------
(***************************************************************************)
(* The steps.                                                              *)
(***************************************************************************)

StoredSet == {b \in Batches : Stored(b)}
AckedSet  == {b \in Batches : Acked(b)}

\* A step that changes nothing Archive speaks of.
Quiet == submitted' = submitted /\ StoredSet' = StoredSet /\ AckedSet' = AckedSet

ArchiveStep ==
    \/ Quiet
    \/ \E b \in Batches :
          \/ /\ b \notin submitted /\ submitted' = submitted \union {b}
             /\ StoredSet' = StoredSet /\ AckedSet' = AckedSet
          \/ /\ b \in submitted \ StoredSet /\ StoredSet' = StoredSet \union {b}
             /\ submitted' = submitted /\ AckedSet' = AckedSet
          \/ /\ b \in StoredSet \ AckedSet /\ AckedSet' = AckedSet \union {b}
             /\ submitted' = submitted /\ StoredSet' = StoredSet

LEMMA SameStored == ASSUME UNCHANGED <<openFiles, doneFiles>> PROVE StoredSet' = StoredSet
  BY SameFiles DEF StoredSet

LEMMA SameAcked == ASSUME feedback' = feedback PROVE AckedSet' = AckedSet
  BY DEF AckedSet, Acked

LEMMA CreateIsQuiet ==
  ASSUME RInv, NEW w \in Writers, Create(w)
  PROVE  Quiet
<1>1. /\ pc[w] = "create" /\ UNCHANGED <<doneFiles, feedback, submitted>>
      /\ openFiles' = [openFiles EXCEPT ![name[w]] = <<>>]
  BY DEF Create, chans
<1>2. name[w] \in Names /\ openFiles[name[w]] = NoFile /\ openFiles \in [Names -> Seq(Records) \union {NoFile}]
  BY <1>1 DEF RInv, IInv, NameInv, NamesAreOwned, TypeOK
<1>3. Files \subseteq Files' /\ Files' \subseteq Files \union {<<>>}
  BY <1>1, <1>2 DEF Files, OnDisk
<1>4. \A b \in Batches : ~Whole(<<>>, b)
  BY RotatorAssumption DEF Whole
<1>5. \A b \in Batches : Stored(b)' <=> Stored(b)
  BY <1>3, <1>4 DEF Stored, Whole
<1> QED
  BY <1>1, <1>5, SameAcked DEF Quiet, StoredSet

LEMMA RenameIsQuiet ==
  ASSUME RInv, NEW w \in Writers, Rotate(w) \/ Finish(w)
  PROVE  Quiet
<1>1. /\ pc[w] \in {"rotate", "finish"} /\ UNCHANGED <<feedback, submitted>>
      /\ doneFiles' = [doneFiles EXCEPT ![name[w]] = openFiles[name[w]]]
      /\ openFiles' = [openFiles EXCEPT ![name[w]] = NoFile]
  BY DEF Rotate, Finish, RenameTo, chans
<1>2. /\ name[w] \in Names /\ doneFiles[name[w]] = NoFile
      /\ openFiles \in [Names -> Seq(Records) \union {NoFile}]
      /\ doneFiles \in [Names -> Seq(Records) \union {NoFile}]
  BY <1>1 DEF RInv, IInv, NameInv, NamesAreOwned, Holding, TypeOK
<1>3. Files' = Files
  <2>1. ASSUME NEW f \in Files PROVE f \in Files'
    BY <1>1, <1>2, <2>1 DEF Files, OnDisk
  <2>2. ASSUME NEW f \in Files' PROVE f \in Files
    BY <1>1, <1>2, <2>2 DEF Files, OnDisk
  <2> QED
    BY <2>1, <2>2
<1>4. \A b : Stored(b)' <=> Stored(b)
  BY <1>3 DEF Stored, Whole
<1> QED
  BY <1>1, <1>4, SameAcked DEF Quiet, StoredSet

LEMMA WriteInfoIsQuiet ==
  ASSUME RInv, TypeOK', NEW w \in Writers, WriteInfo(w)
  PROVE  Quiet
<1> DEFINE rec == InfoRecord(<<w, name[w]>>)
<1>1. /\ Writing(w) /\ UNCHANGED <<doneFiles, feedback, submitted>>
      /\ openFiles' = [openFiles EXCEPT ![name[w]] = Append(@, rec)]
  BY DEF WriteInfo, Writing, chans
<1>2. rec \in Records /\ rec.batch = NoBatch
  BY InfoRecordType DEF RInv, IInv, NameInv, TypeOK, InfoIDs, InfoRecord
<1> HIDE DEF rec
<1>3. \A b \in Batches : Stored(b)' <=> Stored(b)
  BY <1>1, <1>2, AppendStores, RotatorAssumption
<1> QED
  BY <1>1, <1>3, SameAcked DEF Quiet, StoredSet

\* The record that completes a batch is the one step that stores it.
LEMMA FlushStores ==
  ASSUME RInv, TypeOK', NEW w \in Writers, Flush(w)
  PROVE  ArchiveStep
<1> DEFINE rec == [batch |-> cur[w], idx |-> idx[w], info |-> info[w]]
<1>1. /\ pc[w] = "flush" /\ Writing(w) /\ UNCHANGED <<doneFiles, feedback, submitted>>
      /\ openFiles' = [openFiles EXCEPT ![name[w]] = Append(@, rec)]
  BY DEF Flush, Writing, chans
<1>2. cur[w] \in Batches /\ cur[w] \in submitted
  BY <1>1, RotatorAssumption DEF RInv, IInv, NameInv, BatchInHand, InHandWasSent
<1>3. rec \in Records /\ rec.batch = cur[w]
  BY <1>2 DEF RInv, IInv, NameInv, TypeOK, Records
<1> HIDE DEF rec
<1>4. PICK c \in Batches : c = cur[w]
  BY <1>2
<1>5. \A b \in Batches : /\ Stored(b) => Stored(b)'
                         /\ Stored(b)' /\ ~Stored(b) => b = c
  BY <1>1, <1>3, <1>4, AppendStores
<1>6. AckedSet' = AckedSet
  BY <1>1, SameAcked
<1>7. CASE Stored(c)' /\ ~Stored(c)
  <2>1. StoredSet' = StoredSet \union {c} /\ c \in submitted \ StoredSet
    BY <1>2, <1>4, <1>5, <1>7 DEF StoredSet
  <2> QED
    BY <1>1, <1>6, <2>1 DEF ArchiveStep
<1>8. CASE ~(Stored(c)' /\ ~Stored(c))
  <2>1. StoredSet' = StoredSet
    BY <1>5, <1>8 DEF StoredSet
  <2> QED
    BY <1>1, <1>6, <2>1 DEF ArchiveStep, Quiet
<1> QED
  BY <1>7, <1>8

\* The producer of b hears of it when b is in a file: it takes what a buffered
\* channel holds, or meets the writer at an unbuffered one.
LEMMA FeedbackAcks ==
  ASSUME RInv, \/ \E w \in Writers : SendFeedback(w) \/ CloseFeedback(w)
               \/ \E b \in Batches : ReceiveFeedback(b)
  PROVE  ArchiveStep
<1>1. UNCHANGED <<openFiles, doneFiles, submitted>>
  BY DEF SendFeedback, CloseFeedback, ReceiveFeedback, disk, chans
<1>2. StoredSet' = StoredSet
  BY <1>1, SameStored
<1>3. feedback \in [Batches -> SUBSET {"sent", "received", "closed"}]
  BY DEF RInv, IInv, NameInv, TypeOK
<1>4. PICK b \in Batches : /\ \A c \in Batches \ {b} : feedback'[c] = feedback[c]
                           /\ "received" \in feedback[b] => "received" \in feedback'[b]
                           /\ Stored(b) \/ ("received" \in feedback'[b] => Acked(b))
  <2>1. ASSUME NEW w \in Writers, SendFeedback(w)
        PROVE  \E b \in Batches : /\ \A c \in Batches \ {b} : feedback'[c] = feedback[c]
                                  /\ "received" \in feedback[b] => "received" \in feedback'[b]
                                  /\ Stored(b)
    <3>1. pc[w] = "send" /\ cur[w] \in Batches
      BY <2>1 DEF SendFeedback, RInv, IInv, NameInv, BatchInHand
    <3>2. PICK b \in Batches : b = cur[w]
      BY <3>1
    <3>3. Whole(openFiles[name[w]], b)
      BY <3>1, <3>2 DEF RInv, IInv, ContentInv, OwnFiles, OwnFile
    <3>4. openFiles[name[w]] \in Files
      BY <3>1 DEF RInv, IInv, NameInv, TypeOK, NamesAreOwned, Writing, Files, OnDisk
    <3>5. Stored(b)
      BY <3>3, <3>4 DEF Stored
    <3>6. /\ \A c \in Batches \ {b} : feedback'[c] = feedback[c]
          /\ "received" \in feedback[b] => "received" \in feedback'[b]
      BY <1>3, <2>1, <3>2 DEF SendFeedback
    <3> QED
      BY <3>5, <3>6
  <2>2. ASSUME NEW w \in Writers, CloseFeedback(w)
        PROVE  \E b \in Batches : /\ \A c \in Batches \ {b} : feedback'[c] = feedback[c]
                                  /\ "received" \in feedback[b] => "received" \in feedback'[b]
                                  /\ "received" \in feedback'[b] => Acked(b)
    <3>1. cur[w] \in Batches
      BY <2>2 DEF CloseFeedback, RInv, IInv, NameInv, BatchInHand
    <3> QED
      BY <1>3, <2>2, <3>1 DEF CloseFeedback, Acked
  <2>3. ASSUME NEW b \in Batches, ReceiveFeedback(b)
        PROVE  /\ \A c \in Batches \ {b} : feedback'[c] = feedback[c]
               /\ "received" \in feedback[b] => "received" \in feedback'[b]
               /\ Stored(b)
    <3>1. Stored(b)
      BY <2>3 DEF ReceiveFeedback, RInv, IInv, ContentInv, SentIsStored
    <3> QED
      BY <1>3, <2>3, <3>1 DEF ReceiveFeedback
  <2> QED
    BY <2>1, <2>2, <2>3
<1>5. CASE "received" \in feedback'[b] /\ ~Acked(b)
  <2>1. AckedSet' = AckedSet \union {b} /\ b \in StoredSet \ AckedSet
    BY <1>4, <1>5 DEF AckedSet, Acked, StoredSet
  <2> QED
    BY <1>1, <1>2, <2>1 DEF ArchiveStep
<1>6. CASE ~("received" \in feedback'[b] /\ ~Acked(b))
  <2>1. AckedSet' = AckedSet
    BY <1>4, <1>6 DEF AckedSet, Acked
  <2> QED
    BY <1>1, <1>2, <2>1 DEF ArchiveStep, Quiet
<1> QED
  BY <1>5, <1>6

LEMMA NextIsArchiveStep ==
  ASSUME RInv, TypeOK', [Next]_vars
  PROVE  ArchiveStep
<1>1. ASSUME NEW w \in Writers, WriterStep(w) PROVE ArchiveStep
  <2>1. CASE Create(w) \/ WriteInfo(w) \/ Rotate(w) \/ Finish(w)
    BY <2>1, CreateIsQuiet, WriteInfoIsQuiet, RenameIsQuiet DEF ArchiveStep
  <2>2. CASE Flush(w)
    BY <2>2, FlushStores
  <2>3. CASE SendFeedback(w) \/ CloseFeedback(w)
    BY <2>3, FeedbackAcks
  <2>4. CASE GenerateName(w) \/ Stat(w) \/ Receive(w) \/ Copy(w) \/ SeeClosed(w) \/ SignalDone(w)
    <3>1. UNCHANGED <<openFiles, doneFiles, feedback, submitted>>
      BY <2>4 DEF GenerateName, Stat, Receive, Copy, SeeClosed, SignalDone, disk, chans
    <3> QED
      BY <3>1, SameStored, SameAcked DEF ArchiveStep, Quiet
  <2> QED
    BY <1>1, <2>1, <2>2, <2>3, <2>4 DEF WriterStep
<1>2. ASSUME NEW b \in Batches, NEW r \in Rotators, Submit(b, r) PROVE ArchiveStep
  <2>1. /\ UNCHANGED <<openFiles, doneFiles, feedback>>
        /\ b \notin submitted /\ submitted' = submitted \union {b}
    BY <1>2 DEF Submit, disk
  <2> QED
    BY <2>1, SameStored, SameAcked DEF ArchiveStep
<1>3. ASSUME NEW b \in Batches, ReceiveFeedback(b) PROVE ArchiveStep
  BY <1>3, FeedbackAcks
<1>4. ASSUME (\E r \in Rotators : CloseChannel(r)) \/ Tick \/ Crash \/ UNCHANGED vars
      PROVE  ArchiveStep
  <2>1. UNCHANGED <<openFiles, doneFiles, feedback, submitted>>
    BY <1>4 DEF CloseChannel, Tick, Crash, vars, disk, chans
  <2> QED
    BY <2>1, SameStored, SameAcked DEF ArchiveStep, Quiet
<1> QED
  BY <1>1, <1>2, <1>3, <1>4 DEF Next, Terminated

\* The writer pool keeps the promise: a batch that was accepted is stored in
\* one step and for good, and acknowledged only afterwards.
THEOREM ImplementsArchiveHolds ==
  ASSUME NEW r0, Rotators = {r0}
  PROVE  Spec => ImplementsArchive
<1>1. Init => Arch!Init
  <2> SUFFICES ASSUME Init PROVE Arch!Init
    OBVIOUS
  <2>1. submitted = {} /\ \A b \in Batches : ~Acked(b) /\ ~Stored(b)
    BY StoredInit DEF Init, Acked
  <2> QED
    BY <2>1 DEF Arch!Init
<1>2. RInv /\ RInv' /\ [Next]_vars => [Arch!Next]_Arch!vars
  <2> SUFFICES ASSUME RInv, RInv', [Next]_vars PROVE [Arch!Next]_Arch!vars
    OBVIOUS
  <2>1. ArchiveStep
    BY NextIsArchiveStep DEF RInv, IInv, NameInv
  <2>2. CASE Quiet
    BY <2>2 DEF Quiet, StoredSet, AckedSet, Arch!vars
  <2>3. CASE ~Quiet
    BY <2>1, <2>3 DEF ArchiveStep, StoredSet, AckedSet, Arch!Next, Arch!Accept, Arch!Store, Arch!Ack
  <2> QED
    BY <2>2, <2>3
<1> QED
  BY <1>1, <1>2, RInvAlways, PTL DEF Spec, ImplementsArchive, Arch!Spec
=============================================================================
