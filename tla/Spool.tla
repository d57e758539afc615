------------------------------- MODULE Spool -------------------------------
(***************************************************************************)
(* The spooled content of a record (pkg/spooledtempfile): what is written  *)
(* is kept in a buffer borrowed from a pool, and moved to a temporary file *)
(* when it grows or memory runs out; the first read ends the writing;      *)
(* Close returns the buffer and removes the file.                          *)
(*                                                                         *)
(* Two contents meet in the pool only (bytebufferpool, external).  The     *)
(* operations are actions for the modules that extend this one.  One write *)
(* is one chunk of data.                                                   *)
(***************************************************************************)
EXTENDS Naturals, Sequences

CONSTANTS
    Contents,    \* the contents there may be
    Buffers,     \* the buffers of the pool, which can make as many as needed
    MaxInMemory, \* maxInMemorySize, in chunks
    NoBuffer

ASSUME SpoolAssumption == MaxInMemory \in Nat /\ Buffers # {} /\ NoBuffer \notin Buffers

VARIABLES
    spool,  \* each content
    bytes,  \* what is in each buffer
    pool,   \* how often the pool has each buffer
    temps   \* the temporary files of each content on disk

spoolVars == <<spool, bytes, pool, temps>>

Unused == [stage |-> "unused", buf |-> NoBuffer, onDisk |-> FALSE, data |-> <<>>, at |-> 0]

SpoolTypeOK(Chunks) ==
    /\ spool \in [Contents -> [stage : {"unused", "writing", "reading", "closed"},
                               buf : Buffers \cup {NoBuffer}, onDisk : BOOLEAN,
                               data : Seq(Chunks), at : Nat]]
    /\ bytes \in [Buffers -> Seq(Chunks)]
    /\ pool \in [Buffers -> Nat]
    /\ temps \in [Contents -> Nat]

SpoolInit ==
    /\ spool = [c \in Contents |-> Unused]
    /\ bytes = [b \in Buffers |-> <<>>]
    /\ pool = [b \in Buffers |-> 1]
    /\ temps = [c \in Contents |-> 0]

\* NewSpooledTempFile.  The buffers of the pool differ by name only.
New(c) ==
    LET b == CHOOSE b \in Buffers : pool[b] > 0 IN
    /\ spool[c].stage \in {"unused", "closed"}
    /\ pool' = [pool EXCEPT ![b] = @ - 1]
    /\ spool' = [spool EXCEPT ![c] = [Unused EXCEPT !.stage = "writing", !.buf = b]]
    /\ UNCHANGED <<bytes, temps>>

Put(b) == /\ pool' = [pool EXCEPT ![b] = @ + 1]
          /\ bytes' = [bytes EXCEPT ![b] = <<>>]

\* The chunk goes to the file that is there, into the buffer, or to a new file
\* with all that was in the buffer.  Memory may be scarce at any time: the
\* figure is read from a cache of the process.
Write(c, chunk) ==
    LET s == spool[c] IN
    /\ s.stage = "writing"
    /\ \/ /\ s.onDisk
          /\ spool' = [spool EXCEPT ![c].data = Append(@, chunk)]
          /\ UNCHANGED <<bytes, pool, temps>>
       \/ /\ ~s.onDisk /\ Len(bytes[s.buf]) < MaxInMemory
          /\ bytes' = [bytes EXCEPT ![s.buf] = Append(@, chunk)]
          /\ UNCHANGED <<spool, pool, temps>>
       \/ /\ ~s.onDisk
          /\ temps' = [temps EXCEPT ![c] = @ + 1]
          /\ spool' = [spool EXCEPT ![c].onDisk = TRUE, ![c].buf = NoBuffer,
                                    ![c].data = Append(bytes[s.buf], chunk)]
          /\ Put(s.buf)

\* An error of Write: of the file that is there, or of the switch.  There the
\* file may not be created; or not be filled, and is forgotten, the buffer
\* staying; or not take the chunk, and both are forgotten.
WriteFails(c) ==
    LET s == spool[c] IN
    /\ s.stage = "writing"
    /\ \/ UNCHANGED spoolVars
       \/ /\ ~s.onDisk
          /\ temps' = [temps EXCEPT ![c] = @ + 1]
          /\ \/ UNCHANGED <<spool, bytes, pool>>
             \/ spool' = [spool EXCEPT ![c].buf = NoBuffer] /\ Put(s.buf)

\* After the last of these there is nothing left to write to, and the code
\* dereferences a nil pointer in its next Write, Read or Len.
HasStore(c) == spool[c].onDisk \/ spool[c].buf # NoBuffer

Stored(c) == IF spool[c].onDisk THEN spool[c].data ELSE bytes[spool[c].buf]

\* The first read or seek begins at the start.
Position(c) == IF spool[c].stage = "writing" THEN 0 ELSE spool[c].at

Rest(c) == SubSeq(Stored(c), Position(c) + 1, Len(Stored(c)))

\* Reading up to a position; Seek(0, 0) is ReadTo(c, 0).
ReadTo(c, n) ==
    /\ spool[c].stage \in {"writing", "reading"} /\ HasStore(c)
    /\ spool' = [spool EXCEPT ![c].stage = "reading", ![c].at = n]
    /\ UNCHANGED <<bytes, pool, temps>>

\* Close.  A file that cannot be removed stays the content's, for another Close.
Close(c) ==
    /\ spool' = [spool EXCEPT ![c] = [Unused EXCEPT !.stage = "closed"]]
    /\ IF spool[c].buf # NoBuffer THEN Put(spool[c].buf) ELSE UNCHANGED <<bytes, pool>>
    /\ temps' = [temps EXCEPT ![c] = IF spool[c].onDisk THEN @ - 1 ELSE @]

RemoveFails(c) ==
    /\ spool[c].onDisk
    /\ spool' = [spool EXCEPT ![c].stage = "closed"]
    /\ UNCHANGED <<bytes, pool, temps>>
=============================================================================
