--------------------------- MODULE ServicesProofs ---------------------------
(***************************************************************************)
(* Proofs about FileTransfer, GitCommands and CodeRun, which share no      *)
(* state: what an undisturbed upload leaves in the guest and an            *)
(* undisturbed download brings back; whose hash a commit returns and who   *)
(* is given a password; whose code an interrupt ends. For any number of    *)
(* transfers and calls, any chunk size and files of any length. And the    *)
(* types of all that MCServices runs.                                      *)
(***************************************************************************)
EXTENDS MCServices, RequestProofs, Utf8StreamProofs, FiniteSetTheorems, TLAPS

-----------------------------------------------------------------------------
(***************************************************************************)
(* FileTransfer.                                                           *)
(***************************************************************************)


Cells    == ((Transfers \cup {Before}) \X Nat) \cup {Hole}
Contents == UNION {[0 .. n - 1 -> Cells] : n \in Nat}
Writes   == [by : Transfers, from : Nat, to : Nat, truncate : BOOLEAN]
Replies  == [bytes : Contents, eof : BOOLEAN]

ContentTypes ==
    /\ FileTypeOK /\ file \in Contents
    /\ got \in [Transfers -> Contents] /\ chunk \in [Transfers -> Replies]

\* A writer nobody met: what it has written is all there is.
WriteInv(t) ==
    /\ stage[t] = "idle" \/ task[t] = "write" => at[t] = 0
    /\ t \notin disturbed /\ task[t] \in Writing =>
          /\ stage[t] = "calling" /\ at[t] > 0 =>
                file = Data(t, at[t]) /\ at[t] < size[t]
          /\ stage[t] = "answered" => file = Data(t, UpTo(t))
          /\ stage[t] = "done" => file = Data(t, size[t])

\* A reader nobody met: what it has read is how the file begins, and what it was
\* answered comes next.
ReadInv(t) ==
    /\ stage[t] = "idle" => at[t] = 0 /\ got[t] = Data(t, 0)
    /\ stage[t] = "single" => task[t] \notin Writing
    /\ t \notin disturbed /\ task[t] \in Reading =>
          /\ stage[t] \in {"calling", "answered"} =>
                at[t] <= Length(file) /\ got[t] = Cut(file, 0, at[t])
          /\ stage[t] = "answered" =>
                LET n == Length(chunk[t].bytes) IN
                /\ at[t] + n <= Length(file)
                /\ chunk[t].bytes = Cut(file, at[t], n)
                /\ chunk[t].eof => at[t] + n = Length(file)
          /\ stage[t] = "done" => got[t] = file

FileInv == ContentTypes /\ \A t \in Transfers : WriteInv(t) /\ ReadInv(t)

-----------------------------------------------------------------------------
(***************************************************************************)
(* Contents.                                                               *)
(***************************************************************************)
LEMMA LengthOf ==
    ASSUME NEW n \in Nat, NEW c \in [0 .. n - 1 -> Cells]
    PROVE  Length(c) = n /\ c \in Contents
  <1>1. Cardinality(0 .. n - 1) = n
    BY FS_Interval
  <1> QED
    BY <1>1 DEF Length, Contents

LEMMA ContentIs ==
    ASSUME NEW c \in Contents
    PROVE  Length(c) \in Nat /\ c \in [0 .. Length(c) - 1 -> Cells]
  <1>1. PICK n \in Nat : c \in [0 .. n - 1 -> Cells]
    BY DEF Contents
  <1> QED
    BY <1>1, LengthOf

LEMMA DataIs ==
    ASSUME NEW t \in Transfers \cup {Before}, NEW n \in Nat
    PROVE  Data(t, n) \in Contents /\ Length(Data(t, n)) = n
  <1>1. Data(t, n) \in [0 .. n - 1 -> Cells]
    BY DEF Data, Cells
  <1> QED
    BY <1>1, LengthOf

LEMMA WrittenIs ==
    ASSUME file \in Contents, NEW w \in Writes
    PROVE  Written(w) \in Contents
  <1> DEFINE old == IF w.truncate THEN 0 ELSE Length(file)
             n   == Largest(old, w.to)
  <1>1. old \in Nat /\ n \in Nat
    BY ContentIs DEF Writes, Largest
  <1>2. \A i \in 0 .. n - 1 : i < old => file[i] \in Cells
    BY ContentIs, <1>1
  <1>3. \A i \in 0 .. n - 1 : <<w.by, i>> \in Cells /\ Hole \in Cells
    BY <1>1 DEF Cells, Writes
  <1>4. Written(w) \in [0 .. n - 1 -> Cells]
    BY <1>1, <1>2, <1>3 DEF Written
  <1> QED
    BY <1>1, <1>4, LengthOf

LEMMA CutIs ==
    ASSUME NEW c \in Contents, NEW from \in Nat, NEW n \in Nat,
           n = 0 \/ from + n <= Length(c)
    PROVE  Cut(c, from, n) \in Contents /\ Length(Cut(c, from, n)) = n
  <1>1. Cut(c, from, n) \in [0 .. n - 1 -> Cells]
    BY ContentIs DEF Cut
  <1> QED
    BY <1>1, LengthOf

LEMMA AppendIs ==
    ASSUME NEW c \in Contents, NEW d \in Contents
    PROVE  Append2(c, d) \in Contents
  <1> DEFINE n == Length(c) + Length(d)
  <1>1. Append2(c, d) \in [0 .. n - 1 -> Cells]
    BY ContentIs, SMTT(30) DEF Append2
  <1>2. n \in Nat
    BY ContentIs
  <1> QED
    BY <1>1, <1>2, LengthOf

\* Two pieces of one file, one after the other.
LEMMA CutAppend ==
    ASSUME NEW c \in Contents, NEW m \in Nat, NEW n \in Nat, m + n <= Length(c)
    PROVE  Append2(Cut(c, 0, m), Cut(c, m, n)) = Cut(c, 0, m + n)
  <1>1. Length(Cut(c, 0, m)) = m /\ Length(Cut(c, m, n)) = n
    BY CutIs, ContentIs
  <1>2. ASSUME NEW i \in 0 .. m + n - 1
        PROVE  (IF i < m THEN Cut(c, 0, m)[i] ELSE Cut(c, m, n)[i - m]) = c[0 + i]
    <2>1. CASE i < m
      <3>1. i \in 0 .. m - 1
        BY <2>1
      <3> QED
        BY <2>1, <3>1 DEF Cut
    <2>2. CASE ~(i < m)
      <3>1. i - m \in 0 .. n - 1 /\ m + (i - m) = 0 + i
        BY <2>2
      <3>2. Cut(c, m, n)[i - m] = c[m + (i - m)]
        BY <3>1 DEF Cut
      <3> QED
        BY <2>2, <3>1, <3>2
    <2> QED
      BY <2>1, <2>2
  <1>3. Append2(Cut(c, 0, m), Cut(c, m, n)) =
           [i \in 0 .. m + n - 1 |->
              IF i < m THEN Cut(c, 0, m)[i] ELSE Cut(c, m, n)[i - m]]
    BY <1>1 DEF Append2
  <1>4. Cut(c, 0, m + n) = [i \in 0 .. m + n - 1 |-> c[0 + i]]
    BY DEF Cut
  <1> QED
    BY <1>2, <1>3, <1>4

LEMMA CutWhole ==
    ASSUME NEW c \in Contents
    PROVE  Cut(c, 0, Length(c)) = c
  BY ContentIs DEF Cut

-----------------------------------------------------------------------------
(***************************************************************************)
(* Types.                                                                  *)
(***************************************************************************)
LEMMA UpToIs ==
    ASSUME FileTypeOK, NEW t \in Transfers
    PROVE  UpTo(t) \in Nat
  BY FileAssumption DEF FileTypeOK, UpTo, Least

LEMMA FilesFrame ==
    ASSUME FileTypeOK, NEW t \in Transfers
    PROVE  Frame(t) \in Writes
  <1>1. at[t] \in Nat
    BY DEF FileTypeOK
  <1> QED
    BY <1>1, UpToIs DEF Frame, Writes, Truncates

LEMMA EmptyIs == Empty \in Replies
  BY DataIs DEF Empty, Replies

\* What the steps of a transfer may do to its stage.
Stages == {"idle", "refused", "done", "failed"} \cup Underway

LEMMA WritingTypes ==
    ASSUME ContentTypes, NEW t \in Transfers,
           BeginTransfer(t) \/ GuestWrites(t) \/ Wrote(t)
    PROVE  ContentTypes'
  <1>1. stage' \in [Transfers -> Stages]
    BY DEF BeginTransfer, GuestWrites, Wrote, Becomes, ContentTypes, FileTypeOK,
           Stages, Underway
  <1>2. at' \in [Transfers -> Nat]
    BY UpToIs DEF BeginTransfer, GuestWrites, Wrote, ContentTypes, FileTypeOK
  <1>3. file' \in Contents
    BY WrittenIs, FilesFrame DEF BeginTransfer, GuestWrites, Wrote, ContentTypes
  <1>4. disturbed' \subseteq Transfers
    BY DEF BeginTransfer, GuestWrites, Wrote, Started, ContentTypes, FileTypeOK
  <1>5. UNCHANGED <<modern, task, size, got, chunk, strays>>
    BY DEF BeginTransfer, GuestWrites, Wrote
  <1> QED
    BY <1>1, <1>2, <1>3, <1>4, <1>5 DEF ContentTypes, FileTypeOK, Stages, Writes

LEMMA ReadChunkTypes ==
    ASSUME ContentTypes, NEW t \in Transfers, GuestReads(t)
    PROVE  chunk' \in [Transfers -> Replies]
  <1>1. at[t] \in Nat /\ Length(file) \in Nat
    BY ContentIs DEF ContentTypes, FileTypeOK
  <1>2. PICK n \in 0 .. Least(FileChunk, Largest(Length(file) - at[t], 0)),
             eof \in BOOLEAN :
             chunk' = [chunk EXCEPT ![t] = [bytes |-> Cut(file, at[t], n),
                                            eof |-> eof]]
    BY DEF GuestReads
  <1>3. n \in Nat /\ (n = 0 \/ at[t] + n <= Length(file))
    BY <1>1, <1>2, FileAssumption DEF Least, Largest
  <1>4. Cut(file, at[t], n) \in Contents
    BY <1>1, <1>3, CutIs DEF ContentTypes
  <1> QED
    BY <1>2, <1>4 DEF ContentTypes, Replies

LEMMA ReadingTypes ==
    ASSUME ContentTypes, NEW t \in Transfers,
           GuestReads(t) \/ HaveRead(t) \/ UnknownMethod(t) \/ ReadSingleFrame(t)
    PROVE  ContentTypes'
  <1>1. stage' \in [Transfers -> Stages]
    BY DEF GuestReads, HaveRead, UnknownMethod, ReadSingleFrame, Becomes,
           ContentTypes, FileTypeOK, Stages, Underway
  <1>2. chunk[t].bytes \in Contents /\ got[t] \in Contents
    BY DEF ContentTypes, Replies
  <1>3. at' \in [Transfers -> Nat]
    <2>1. NextOffset(t) \in Nat
      BY <1>2, ContentIs DEF NextOffset, ContentTypes, FileTypeOK
    <2> QED
      BY <2>1
      DEF GuestReads, HaveRead, UnknownMethod, ReadSingleFrame, ContentTypes,
          FileTypeOK
  <1>4. got' \in [Transfers -> Contents]
    BY <1>2, AppendIs
    DEF GuestReads, HaveRead, UnknownMethod, ReadSingleFrame, ContentTypes
  <1>5. chunk' \in [Transfers -> Replies]
    BY EmptyIs, ReadChunkTypes
    DEF HaveRead, UnknownMethod, ReadSingleFrame, ContentTypes
  <1>6. UNCHANGED <<file, modern, task, size, strays, disturbed>>
    BY DEF GuestReads, HaveRead, UnknownMethod, ReadSingleFrame
  <1> QED
    BY <1>1, <1>3, <1>4, <1>5, <1>6 DEF ContentTypes, FileTypeOK, Stages, Writes

LEMMA FailTypes ==
    ASSUME ContentTypes, NEW t \in Transfers, CallFails(t)
    PROVE  ContentTypes'
  <1>1. stage' \in [Transfers -> Stages]
    BY DEF CallFails, Becomes, ContentTypes, FileTypeOK, Stages, Underway
  <1>2. chunk' \in [Transfers -> Replies]
    BY EmptyIs DEF CallFails, ContentTypes
  <1>3. strays' \subseteq Writes
    BY FilesFrame DEF CallFails, ContentTypes, FileTypeOK, Writes
  <1> QED
    BY <1>1, <1>2, <1>3 DEF CallFails, ContentTypes, FileTypeOK, Stages, Writes

LEMMA StrayTypes ==
    ASSUME ContentTypes, StrayLands
    PROVE  ContentTypes'
  <1>1. PICK w \in strays :
           /\ file' = Written(w) /\ strays' = strays \ {w}
           /\ disturbed' = disturbed \cup Started
           /\ UNCHANGED <<modern, task, size, at, got, chunk, stage>>
    BY DEF StrayLands
  <1>2. file' \in Contents
    BY <1>1, WrittenIs DEF ContentTypes, FileTypeOK, Writes
  <1>3. disturbed' \subseteq Transfers
    BY <1>1 DEF Started, ContentTypes, FileTypeOK
  <1> QED
    BY <1>1, <1>2, <1>3 DEF ContentTypes, FileTypeOK

LEMMA FileTypeStep ==
    ASSUME ContentTypes, [FileNext]_fileVars
    PROVE  ContentTypes'
  <1>1. CASE UNCHANGED fileVars
    BY <1>1 DEF fileVars, ContentTypes, FileTypeOK
  <1> QED
    BY <1>1, WritingTypes, ReadingTypes, FailTypes, StrayTypes
    DEF FileNext, Returns

-----------------------------------------------------------------------------
(***************************************************************************)
(* What a step of one transfer means to the others.                        *)
(***************************************************************************)
OneInv(t) == WriteInv(t) /\ ReadInv(t)

Untouched(t) ==
    /\ stage'[t] = stage[t] /\ at'[t] = at[t] /\ got'[t] = got[t]
    /\ chunk'[t] = chunk[t] /\ task' = task /\ size' = size

\* The file is left alone, or t is disturbed from now on.
LEMMA OthersKeep ==
    ASSUME NEW t \in Transfers, OneInv(t), Untouched(t),
           \/ file' = file /\ disturbed \subseteq disturbed'
           \/ stage[t] # "idle" => t \in disturbed'
    PROVE  OneInv(t)'
  <1>1. UpTo(t)' = UpTo(t)
    BY DEF UpTo, Untouched
  <1>2. CASE file' = file /\ disturbed \subseteq disturbed'
    BY <1>1, <1>2 DEF OneInv, WriteInv, ReadInv, Untouched
  <1>3. CASE stage[t] = "idle"
    BY <1>1, <1>3 DEF OneInv, WriteInv, ReadInv, Untouched
  <1>4. CASE t \in disturbed'
    BY <1>1, <1>4 DEF OneInv, WriteInv, ReadInv, Untouched
  <1> QED
    BY <1>2, <1>3, <1>4

LEMMA StepLeavesOthers ==
    ASSUME ContentTypes, NEW t \in Transfers, NEW u \in Transfers, u # t,
           OneInv(u), BeginTransfer(t) \/ Returns(t)
    PROVE  OneInv(u)'
  <1>1. Untouched(u)
    BY DEF BeginTransfer, Returns, GuestWrites, Wrote, GuestReads, HaveRead,
           UnknownMethod, ReadSingleFrame, CallFails, Becomes, Untouched,
           ContentTypes, FileTypeOK
  <1>2. CASE GuestWrites(t)
    <2>1. stage[u] # "idle" => u \in disturbed'
      BY <1>2 DEF GuestWrites, Started
    <2> QED
      BY <1>1, <2>1, OthersKeep
  <1>3. CASE ~GuestWrites(t)
    <2>1. file' = file /\ disturbed' = disturbed
      BY <1>3 DEF BeginTransfer, Returns, Wrote, GuestReads, HaveRead,
         UnknownMethod, ReadSingleFrame, CallFails
    <2> QED
      BY <1>1, <2>1, OthersKeep
  <1> QED
    BY <1>2, <1>3

LEMMA StrayLeaves ==
    ASSUME ContentTypes, StrayLands, NEW t \in Transfers, OneInv(t)
    PROVE  OneInv(t)'
  <1>1. Untouched(t) /\ disturbed' = disturbed \cup Started
    BY DEF StrayLands, Untouched
  <1>2. stage[t] # "idle" => t \in disturbed'
    BY <1>1 DEF Started
  <1> QED
    BY <1>1, <1>2, OthersKeep

-----------------------------------------------------------------------------
(***************************************************************************)
(* What it means to itself.                                                *)
(***************************************************************************)

\* The next chunk goes behind what is there, the first over nothing.
LEMMA WrittenOver ==
    ASSUME ContentTypes, NEW t \in Transfers,
           at[t] > 0 => file = Data(t, at[t]) /\ at[t] < size[t],
           at[t] = 0 \/ task[t] = "upload"
    PROVE  Written(Frame(t)) = Data(t, UpTo(t))
  <1>1. at[t] \in Nat /\ size[t] \in Nat /\ UpTo(t) \in Nat
    BY UpToIs DEF ContentTypes, FileTypeOK
  <1>2. CASE at[t] = 0
    <2>1. Largest(0, UpTo(t)) = UpTo(t)
      BY <1>1 DEF Largest
    <2>2. Written(Frame(t)) =
             [i \in 0 .. UpTo(t) - 1 |->
                IF 0 <= i /\ i < UpTo(t) THEN <<t, i>>
                ELSE IF i < 0 THEN file[i] ELSE Hole]
      BY <1>1, <1>2, <2>1 DEF Written, Frame, Truncates
    <2>3. \A i \in 0 .. UpTo(t) - 1 :
             (IF 0 <= i /\ i < UpTo(t) THEN <<t, i>>
              ELSE IF i < 0 THEN file[i] ELSE Hole) = <<t, i>>
      BY <1>1
    <2> QED
      BY <2>2, <2>3 DEF Data
  <1>3. CASE at[t] > 0
    <2>1. Length(file) = at[t] /\ file = Data(t, at[t])
      BY <1>1, <1>3, DataIs
    <2>2. at[t] <= UpTo(t)
      BY <1>1, <1>3, FileAssumption DEF UpTo, Least
    <2>3. \A i \in 0 .. UpTo(t) - 1 : i < at[t] => file[i] = <<t, i>>
      BY <1>1, <2>1, <2>2 DEF Data
    <2>4. Largest(at[t], UpTo(t)) = UpTo(t)
      BY <1>1, <2>2 DEF Largest
    <2>5. Written(Frame(t)) =
             [i \in 0 .. UpTo(t) - 1 |->
                IF at[t] <= i /\ i < UpTo(t) THEN <<t, i>>
                ELSE IF i < at[t] THEN file[i] ELSE Hole]
      BY <1>1, <1>3, <2>1, <2>4 DEF Written, Frame, Truncates
    <2>6. \A i \in 0 .. UpTo(t) - 1 :
             (IF at[t] <= i /\ i < UpTo(t) THEN <<t, i>>
              ELSE IF i < at[t] THEN file[i] ELSE Hole) = <<t, i>>
      BY <1>1, <2>3
    <2> QED
      BY <2>5, <2>6 DEF Data
  <1> QED
    BY <1>1, <1>2, <1>3

LEMMA BeginOwn ==
    ASSUME ContentTypes, NEW t \in Transfers, OneInv(t), BeginTransfer(t)
    PROVE  OneInv(t)'
  <1>1. /\ stage[t] = "idle" /\ stage'[t] \in {"refused", "calling"}
        /\ UNCHANGED <<file, task, size, at, got, chunk, disturbed>>
    BY DEF BeginTransfer, Becomes, ContentTypes, FileTypeOK
  <1>2. at[t] = 0 /\ got[t] = Data(t, 0)
    BY <1>1 DEF OneInv, ReadInv
  <1>3. Data(t, 0) = Cut(file, 0, 0) /\ 0 <= Length(file)
    BY ContentIs DEF ContentTypes, Data, Cut
  <1> QED
    BY <1>1, <1>2, <1>3 DEF OneInv, WriteInv, ReadInv

LEMMA WriteOwn ==
    ASSUME ContentTypes, NEW t \in Transfers, OneInv(t),
           GuestWrites(t) \/ Wrote(t)
    PROVE  OneInv(t)'
  <1>0. /\ task' = task /\ size' = size /\ got' = got /\ chunk' = chunk
        /\ task[t] \in Writing /\ task[t] \notin Reading
        /\ stage[t] # "idle" /\ stage'[t] # "idle"
    BY DEF GuestWrites, Wrote, Becomes, Writing, Reading, ContentTypes,
           FileTypeOK
  <1>1. CASE GuestWrites(t)
    <2>1. /\ stage[t] = "calling" /\ stage'[t] = "answered" /\ at' = at
          /\ file' = Written(Frame(t))
          /\ t \notin disturbed' => t \notin disturbed
      BY <1>1 DEF GuestWrites, Becomes, ContentTypes, FileTypeOK
    <2>2. task[t] = "write" => at[t] = 0
      BY DEF OneInv, WriteInv
    <2>3. t \notin disturbed => file' = Data(t, UpTo(t))
      BY <1>0, <2>1, <2>2, WrittenOver DEF OneInv, WriteInv, Writing,
         ContentTypes, FileTypeOK
    <2>4. UpTo(t)' = UpTo(t)
      BY <1>0, <2>1 DEF UpTo
    <2> QED
      BY <1>0, <2>1, <2>2, <2>3, <2>4 DEF OneInv, WriteInv, ReadInv
  <1>2. CASE Wrote(t)
    <2>1. /\ stage[t] = "answered" /\ file' = file /\ disturbed' = disturbed
          /\ at[t] \in Nat /\ size[t] \in Nat /\ UpTo(t) \in Nat
          /\ UpTo(t) <= size[t]
      BY <1>2, UpToIs DEF Wrote, ContentTypes, FileTypeOK, UpTo, Least
    <2>2. t \notin disturbed => file = Data(t, UpTo(t))
      BY <1>0, <2>1 DEF OneInv, WriteInv
    <2>3. CASE LastChunk(t)
      <3>1. stage'[t] = "done" /\ at' = at /\ UpTo(t) = size[t]
        BY <1>2, <2>1, <2>3
        DEF Wrote, LastChunk, Becomes, ContentTypes, FileTypeOK
      <3> QED
        BY <1>0, <2>1, <2>2, <3>1 DEF OneInv, WriteInv, ReadInv
    <2>4. CASE ~LastChunk(t)
      <3>1. stage'[t] = "calling" /\ at'[t] = UpTo(t) /\ UpTo(t) < size[t]
        BY <1>2, <2>1, <2>4
        DEF Wrote, LastChunk, Becomes, ContentTypes, FileTypeOK
      <3>2. task[t] # "write"
        BY <2>1, <3>1 DEF UpTo
      <3> QED
        BY <1>0, <2>1, <2>2, <3>1, <3>2 DEF OneInv, WriteInv, ReadInv
    <2> QED
      BY <2>3, <2>4
  <1> QED
    BY <1>1, <1>2

LEMMA ReadOwn ==
    ASSUME ContentTypes, NEW t \in Transfers, OneInv(t), GuestReads(t)
    PROVE  OneInv(t)'
  <1>0. /\ UNCHANGED <<file, task, size, at, got, disturbed>>
        /\ stage[t] = "calling" /\ stage'[t] = "answered"
        /\ task[t] \in Reading /\ task[t] \notin Writing
        /\ at[t] \in Nat /\ Length(file) \in Nat
    BY ContentIs
    DEF GuestReads, Becomes, Reading, Writing, ContentTypes, FileTypeOK
  <1>1. PICK n \in 0 .. Least(FileChunk, Largest(Length(file) - at[t], 0)),
             eof \in BOOLEAN :
             /\ eof => n = Largest(Length(file) - at[t], 0)
             /\ chunk' = [chunk EXCEPT ![t] = [bytes |-> Cut(file, at[t], n),
                                               eof |-> eof]]
    BY DEF GuestReads
  <1>2. chunk'[t].bytes = Cut(file, at[t], n) /\ chunk'[t].eof = eof
    BY <1>1 DEF ContentTypes
  <1>3. n \in Nat /\ (n = 0 \/ at[t] + n <= Length(file))
    BY <1>0, <1>1, FileAssumption DEF Least, Largest
  <1>4. Length(chunk'[t].bytes) = n
    BY <1>0, <1>2, <1>3, CutIs DEF ContentTypes
  <1>5. at[t] <= Length(file) =>
           at[t] + n <= Length(file) /\ (eof => at[t] + n = Length(file))
    BY <1>0, <1>1, <1>3 DEF Largest
  <1>6. Length(file)' = Length(file) /\ Length(chunk[t].bytes)' = n
    BY <1>0, <1>4 DEF Length
  <1> QED
    BY <1>0, <1>2, <1>5, <1>6 DEF OneInv, WriteInv, ReadInv

LEMMA HaveOwn ==
    ASSUME ContentTypes, NEW t \in Transfers, OneInv(t), HaveRead(t)
    PROVE  OneInv(t)'
  <1> DEFINE n == Length(chunk[t].bytes)
  <1>0. /\ UNCHANGED <<file, task, size, disturbed>>
        /\ stage[t] = "answered" /\ task[t] \in Reading /\ task[t] \notin Writing
        /\ at[t] \in Nat /\ Length(file) \in Nat /\ n \in Nat
        /\ got'[t] = Append2(got[t], chunk[t].bytes)
        /\ chunk[t].eof => stage'[t] = "done"
        /\ ~chunk[t].eof => \/ stage'[t] = "calling" /\ at'[t] = at[t] + n
                            \/ stage'[t] = "failed"
    BY ContentIs
    DEF HaveRead, NextOffset, Becomes, Reading, Writing, ContentTypes,
        FileTypeOK, Replies
  <1>1. ASSUME t \notin disturbed
        PROVE  /\ got'[t] = Cut(file, 0, at[t] + n)
               /\ at[t] + n <= Length(file)
               /\ chunk[t].eof => at[t] + n = Length(file)
    <2>1. /\ got[t] = Cut(file, 0, at[t])
          /\ at[t] + n <= Length(file)
          /\ chunk[t].bytes = Cut(file, at[t], n)
          /\ chunk[t].eof => at[t] + n = Length(file)
      BY <1>0, <1>1 DEF OneInv, ReadInv
    <2>2. Append2(Cut(file, 0, at[t]), Cut(file, at[t], n)) =
             Cut(file, 0, at[t] + n)
      BY <1>0, <2>1, CutAppend DEF ContentTypes
    <2> QED
      BY <1>0, <2>1, <2>2
  <1>2. Cut(file, 0, Length(file)) = file
    BY CutWhole DEF ContentTypes
  <1>3. Length(file)' = Length(file) /\ task[t] # "write"
    BY <1>0 DEF Length, Reading
  <1>4. stage'[t] \in {"done", "calling", "failed"}
    BY <1>0 DEF ContentTypes, Replies
  <1>5. WriteInv(t)'
    BY <1>0, <1>3, <1>4 DEF WriteInv
  <1>6. ReadInv(t)'
    BY <1>0, <1>1, <1>2, <1>3, <1>4 DEF ReadInv, ContentTypes, Replies
  <1> QED
    BY <1>5, <1>6 DEF OneInv

LEMMA RestOwn ==
    ASSUME ContentTypes, NEW t \in Transfers, OneInv(t),
           UnknownMethod(t) \/ ReadSingleFrame(t) \/ CallFails(t)
    PROVE  OneInv(t)'
  <1>1. /\ UNCHANGED <<file, task, size, at, disturbed>>
        /\ stage[t] # "idle"
        /\ \/ stage'[t] = "single" /\ task[t] \notin Writing
           \/ stage'[t] = "failed"
           \/ stage'[t] = "done" /\ got'[t] = file /\ stage[t] = "single"
    BY DEF UnknownMethod, ReadSingleFrame, CallFails, Becomes, Underway,
           ContentTypes, FileTypeOK, Writing
  <1>2. stage[t] = "single" => task[t] \notin Writing
    BY DEF OneInv, ReadInv
  <1> QED
    BY <1>1, <1>2 DEF OneInv, WriteInv, ReadInv

-----------------------------------------------------------------------------
(***************************************************************************)
(* The theorems.                                                           *)
(***************************************************************************)
LEMMA FileInitInv == FileInit => FileInv
  <1> SUFFICES ASSUME FileInit PROVE FileInv
    OBVIOUS
  <1>1. PICK n \in 0 .. MaxLength : file = Data(Before, n)
    BY DEF FileInit
  <1>2. file \in Contents
    BY <1>1, DataIs, FileAssumption
  <1>3. \A t \in Transfers : Data(t, 0) \in Contents
    BY DataIs
  <1>4. ContentTypes
    BY <1>2, <1>3, EmptyIs, FileAssumption
    DEF FileInit, ContentTypes, FileTypeOK, Unanswered
  <1>5. \A t \in Transfers : WriteInv(t) /\ ReadInv(t)
    BY DEF FileInit, WriteInv, ReadInv
  <1> QED
    BY <1>4, <1>5 DEF FileInv

LEMMA FileInvStep ==
    ASSUME FileInv, [FileNext]_fileVars
    PROVE  FileInv'
  <1>1. ContentTypes'
    BY FileTypeStep DEF FileInv
  <1> SUFFICES ASSUME NEW t \in Transfers PROVE OneInv(t)'
    BY <1>1 DEF FileInv, OneInv
  <1>2. ContentTypes /\ OneInv(t)
    BY DEF FileInv, OneInv
  <1>3. CASE UNCHANGED fileVars
    BY <1>2, <1>3, OthersKeep DEF fileVars, Untouched
  <1>4. CASE StrayLands
    BY <1>2, <1>4, StrayLeaves
  <1>5. CASE BeginTransfer(t) \/ Returns(t)
    BY <1>2, <1>5, BeginOwn, WriteOwn, ReadOwn, HaveOwn, RestOwn DEF Returns
  <1>6. CASE \E u \in Transfers \ {t} : BeginTransfer(u) \/ Returns(u)
    BY <1>2, <1>6, StepLeavesOthers
  <1> QED
    BY <1>3, <1>4, <1>5, <1>6 DEF FileNext

\* An upload or a write that returns Ok, and that no other write met, has made
\* the file its data and nothing else.
THEOREM UploadsArrive == FileSpec => []UploadedIsData
  <1>1. FileInv => UploadedIsData
    BY DEF FileInv, WriteInv, UploadedIsData
  <1> QED
    BY <1>1, FileInitInv, FileInvStep, PTL DEF FileSpec

\* A download or a read that returns Ok, and that no write met, has all of the
\* file, however short the chunks were.
THEOREM DownloadsArrive == FileSpec => []DownloadedIsFile
  <1>1. FileInv => DownloadedIsFile
    BY DEF FileInv, ReadInv, DownloadedIsFile
  <1> QED
    BY <1>1, FileInitInv, FileInvStep, PTL DEF FileSpec


-----------------------------------------------------------------------------
(***************************************************************************)
(* GitCommands.                                                            *)
(***************************************************************************)

\* A commit nobody came between: HEAD is at it, and what is read is it.
CommitInv(c) ==
    c \notin moved /\ gitOp[c] = "commit" =>
       /\ gitAt[c] = "firstRan" /\ exit[c] = 0 => head = c
       /\ gitAt[c] = "second" => head = c
       /\ gitAt[c] = "secondRan" /\ exit[c] = 0 => out[c] = c
       /\ gitAt[c] = "done" => out[c] = c

\* The password: the helper is bound to what the call is for.
SecretInv(c) ==
    /\ gitOp[c] = "commit" => credentials[c] = "none"
    /\ credentials[c] = "none" => bound[c] = Unbound
    /\ gitAt[c] \in {"idle", "first", "firstRan"} => bound[c] = Unbound
    /\ bound[c] # Unbound => bound[c] \in had[c] \cap Origins
    /\ gitOp[c] = "push" /\ credentials[c] # "none" /\ gitAt[c] \in Between =>
          remoteUrl \in had[c]
    /\ gitAt[c] = "firstRan" /\ exit[c] = 0 /\ credentials[c] # "none" =>
          out[c] \in had[c]
    /\ gitAt[c] \in {"first", "firstRan"} => TwoCommands(c)
    /\ \A who \in Origins \cup {GuestStore} :
          <<c, who>> \in saw => bound[c] # Unbound /\ who \in had[c]

GitInv == GitTypeOK /\ \A c \in Callers : CommitInv(c) /\ SecretInv(c)

LEMMA GitAuthIs ==
    ASSUME NEW c \in Callers, NEW u
    PROVE  /\ GitAuth(c, u) \in Origins \cup {Unbound}
           /\ GitAuth(c, u) # Unbound =>
                 GitAuth(c, u) = u /\ credentials[c] # "none"
  BY DEF GitAuth

\* A step of a call moves what is its own.
LEMMA GitMoves ==
    ASSUME NEW d, GitStep(d)
    PROVE  /\ gitAt' = gitAt \/ \E s : gitAt' = [gitAt EXCEPT ![d] = s]
           /\ bound' = bound \/ \E b : bound' = [bound EXCEPT ![d] = b]
           /\ UNCHANGED <<exit, out>> \/ \E code, said : Exits(d, code, said)
  <1>1. CASE BeginGit(d)
    BY <1>1 DEF BeginGit, Launch, Goes
  <1>2. CASE NoCommand(d) \/ ReturnsGit(d) \/ RunnerFails(d)
    BY <1>2 DEF NoCommand, ReturnsGit, RunnerFails, Goes
  <1>3. CASE Second(d)
    BY <1>3 DEF Second, Launch, Goes
  <1>4. CASE FirstRuns(d)
    BY <1>4 DEF FirstRuns, Goes
  <1>5. CASE SecondRuns(d)
    BY <1>5 DEF SecondRuns, Goes
  <1>6. CASE Authenticates(d)
    BY <1>6 DEF Authenticates
  <1> QED
    BY <1>1, <1>2, <1>3, <1>4, <1>5, <1>6 DEF GitStep

\* And nothing that is another's.
LEMMA GitLeavesOthers ==
    ASSUME GitTypeOK, NEW c \in Callers, NEW d \in Callers \ {c}, GitStep(d)
    PROVE  /\ gitAt'[c] = gitAt[c] /\ bound'[c] = bound[c]
           /\ exit'[c] = exit[c] /\ out'[c] = out[c]
  <1>1. gitAt'[c] = gitAt[c]
    <2>1. CASE \E s : gitAt' = [gitAt EXCEPT ![d] = s]
      BY <2>1 DEF GitTypeOK
    <2> QED
      BY <2>1, GitMoves
  <1>2. bound'[c] = bound[c]
    <2>1. CASE \E b : bound' = [bound EXCEPT ![d] = b]
      BY <2>1 DEF GitTypeOK
    <2> QED
      BY <2>1, GitMoves
  <1>3. exit'[c] = exit[c] /\ out'[c] = out[c]
    <2>1. CASE \E code, said : Exits(d, code, said)
      BY <2>1 DEF Exits, GitTypeOK
    <2> QED
      BY <2>1, GitMoves
  <1> QED
    BY <1>1, <1>2, <1>3

LEMMA BeginTypes ==
    ASSUME GitTypeOK, NEW c \in Callers, BeginGit(c) \/ Second(c)
    PROVE  GitTypeOK'
  <1>1. gitAt' \in [Callers -> {"idle", "done", "failed"} \cup Between]
    <2>1. \E s \in {"first", "second", "failed"} : Goes(c, s)
      <3>1. CASE BeginGit(c)
        BY <3>1 DEF BeginGit, Launch
      <3>2. CASE Second(c)
        BY <3>2 DEF Second, Launch
      <3> QED
        BY <3>1, <3>2
    <2>2. PICK s \in {"first", "second", "failed"} : Goes(c, s)
      BY <2>1
    <2> QED
      BY <2>2 DEF Goes, GitTypeOK, Between
  <1>2. bound' \in [Callers -> Origins \cup {Unbound}]
    <2>1. bound' = bound \/ \E u : bound' = [bound EXCEPT ![c] = GitAuth(c, u)]
      <3>1. CASE BeginGit(c)
        BY <3>1 DEF BeginGit, Launch
      <3>2. CASE Second(c)
        BY <3>2 DEF Second, Launch
      <3> QED
        BY <3>1, <3>2
    <2>2. CASE bound' = bound
      BY <2>2 DEF GitTypeOK
    <2>3. ASSUME NEW u, bound' = [bound EXCEPT ![c] = GitAuth(c, u)]
          PROVE  bound' \in [Callers -> Origins \cup {Unbound}]
      <3>1. GitAuth(c, u) \in Origins \cup {Unbound}
        BY GitAuthIs
      <3> QED
        BY <2>3, <3>1 DEF GitTypeOK
    <2> QED
      BY <2>1, <2>2, <2>3
  <1>3. had' \in [Callers -> SUBSET Urls]
    <2>1. CASE BeginGit(c)
      <3>1. PICK u \in Urls :
               had' = [had EXCEPT ![c] =
                         IF credentials[c] = "none" THEN {} ELSE {u}]
        BY <2>1 DEF BeginGit
      <3> QED
        BY <3>1 DEF GitTypeOK
    <2>2. CASE Second(c)
      BY <2>2 DEF Second, GitTypeOK
    <2> QED
      BY <2>1, <2>2
  <1> QED
    BY <1>1, <1>2, <1>3 DEF BeginGit, Second, GitTypeOK

LEMMA RunTypes ==
    ASSUME GitTypeOK, NEW c \in Callers, FirstRuns(c) \/ SecondRuns(c)
    PROVE  GitTypeOK'
  <1>1. gitAt' \in [Callers -> {"idle", "done", "failed"} \cup Between]
    BY DEF FirstRuns, SecondRuns, Goes, GitTypeOK, Between
  <1>2. /\ head' \in Commits \cup {Unborn} /\ moved' \subseteq Callers
        /\ \E code \in {0, 1}, printed \in Commits \cup Urls \cup {Nothing} :
              Exits(c, code, printed)
    BY DEF FirstRuns, SecondRuns, Moves, Commits, GitTypeOK
  <1>3. exit' \in [Callers -> {0, 1}]
        /\ out' \in [Callers -> Commits \cup Urls \cup {Nothing}]
    <2>1. PICK code \in {0, 1}, printed \in Commits \cup Urls \cup {Nothing} :
             Exits(c, code, printed)
      BY <1>2
    <2> QED
      BY <2>1 DEF Exits, GitTypeOK
  <1> QED
    BY <1>1, <1>2, <1>3 DEF FirstRuns, SecondRuns, GitTypeOK

LEMMA GitRestTypes ==
    ASSUME GitTypeOK,
           \/ OthersMoveHead \/ OthersSetUrl
           \/ \E c \in Callers : \/ NoCommand(c) \/ ReturnsGit(c)
                                 \/ RunnerFails(c) \/ Authenticates(c)
    PROVE  GitTypeOK'
  <1>1. CASE OthersMoveHead
    BY <1>1 DEF OthersMoveHead, Moves, GitTypeOK
  <1>2. CASE OthersSetUrl
    BY <1>2 DEF OthersSetUrl, GitTypeOK
  <1>3. ASSUME NEW c \in Callers, NoCommand(c) \/ ReturnsGit(c) \/ RunnerFails(c)
        PROVE  GitTypeOK'
    <2>1. gitAt' \in [Callers -> {"idle", "done", "failed"} \cup Between]
      BY <1>3 DEF NoCommand, ReturnsGit, RunnerFails, Goes, GitTypeOK
    <2> QED
      BY <1>3, <2>1 DEF NoCommand, ReturnsGit, RunnerFails, GitTypeOK
  <1>4. ASSUME NEW c \in Callers, Authenticates(c)
        PROVE  GitTypeOK'
    <2>1. PICK who \in Origins \cup {GuestStore} : saw' = saw \cup {<<c, who>>}
      BY <1>4 DEF Authenticates
    <2>2. saw' \subseteq Callers \X (Origins \cup {GuestStore})
      <3>1. <<c, who>> \in Callers \X (Origins \cup {GuestStore})
        OBVIOUS
      <3> QED
        BY <2>1, <3>1, Zenon DEF GitTypeOK
    <2> QED
      BY <1>4, <2>2 DEF Authenticates, GitTypeOK
  <1> QED
    BY <1>1, <1>2, <1>3, <1>4

LEMMA GitTypeStep ==
    ASSUME GitTypeOK, [GitNext]_gitVars
    PROVE  GitTypeOK'
  <1>1. CASE UNCHANGED gitVars
    BY <1>1 DEF gitVars, GitTypeOK
  <1> QED
    BY <1>1, BeginTypes, RunTypes, GitRestTypes DEF GitNext, GitStep

\* What another call does leaves a commit alone, or moves HEAD in its middle.
LEMMA CommitStep ==
    ASSUME GitInv, [GitNext]_gitVars, NEW c \in Callers
    PROVE  CommitInv(c)'
  <1>1. ASSUME gitOp[c] = "commit", GitStep(c)
        PROVE  CommitInv(c)'
    <2>1. CASE BeginGit(c)
      <3>1. TwoCommands(c) /\ gitAt'[c] = "first"
        BY <1>1, <2>1 DEF BeginGit, TwoCommands, Goes, GitInv, GitTypeOK
      <3> QED
        BY <3>1 DEF CommitInv
    <2>2. CASE FirstRuns(c)
      <3>1. gitAt'[c] = "firstRan" /\ gitOp' = gitOp
        BY <2>2 DEF FirstRuns, Goes, GitInv, GitTypeOK
      <3>2. exit'[c] = 1 \/ head' = c
        BY <1>1, <2>2 DEF FirstRuns, Exits, Moves, GitInv, GitTypeOK
      <3> QED
        BY <3>1, <3>2 DEF CommitInv
    <2>3. CASE Second(c)
      BY <1>1, <2>3
      DEF Second, MustGit, Launch, Goes, CommitInv, GitInv, GitTypeOK
    <2>4. CASE SecondRuns(c)
      <3>1. /\ gitAt[c] = "second" /\ gitAt'[c] = "secondRan"
            /\ gitOp' = gitOp /\ moved' = moved
        BY <1>1, <2>4 DEF SecondRuns, Goes, GitInv, GitTypeOK
      <3>2. exit'[c] = 1 \/ out'[c] = head
        BY <1>1, <2>4 DEF SecondRuns, Exits, GitInv, GitTypeOK
      <3> QED
        BY <1>1, <3>1, <3>2 DEF CommitInv, GitInv
    <2>5. CASE ReturnsGit(c) \/ RunnerFails(c) \/ NoCommand(c)
      BY <1>1, <2>5
      DEF ReturnsGit, RunnerFails, NoCommand, MustGit, Goes, CommitInv, GitInv,
          GitTypeOK
    <2>6. CASE Authenticates(c)
      BY <2>6 DEF Authenticates, CommitInv, GitInv
    <2> QED
      BY <1>1, <2>1, <2>2, <2>3, <2>4, <2>5, <2>6 DEF GitStep
  <1>2. ASSUME head' = head /\ moved' = moved,
               gitOp' = gitOp, gitAt'[c] = gitAt[c], exit'[c] = exit[c],
               out'[c] = out[c]
        PROVE  CommitInv(c)'
    BY <1>2 DEF CommitInv, GitInv
  <1>3. ASSUME NEW d, d # c, NEW h, Moves(d, h),
               gitOp' = gitOp, gitAt'[c] = gitAt[c], exit'[c] = exit[c],
               out'[c] = out[c]
        PROVE  CommitInv(c)'
    BY <1>3 DEF Moves, CommitInv, GitInv, Between
  <1>4. CASE OthersMoveHead
    BY <1>3, <1>4, GitAssumption DEF OthersMoveHead
  <1>5. CASE OthersSetUrl \/ UNCHANGED gitVars
    BY <1>2, <1>5 DEF OthersSetUrl, gitVars
  <1>6. ASSUME NEW d \in Callers \ {c}, GitStep(d)
        PROVE  CommitInv(c)'
    <2>1. (head' = head /\ moved' = moved) \/ \E h : Moves(d, h)
      BY <1>6
      DEF GitStep, BeginGit, NoCommand, FirstRuns, Second, SecondRuns, ReturnsGit,
          RunnerFails, Authenticates
    <2>2. /\ gitOp' = gitOp /\ gitAt'[c] = gitAt[c] /\ exit'[c] = exit[c]
          /\ out'[c] = out[c]
      <3>1. gitOp' = gitOp
        BY <1>6
        DEF GitStep, BeginGit, NoCommand, FirstRuns, Second, SecondRuns,
            ReturnsGit, RunnerFails, Authenticates
      <3> QED
        BY <1>6, <3>1, GitLeavesOthers DEF GitInv
    <2> QED
      BY <1>2, <1>3, <1>6, <2>1, <2>2
  <1>7. CASE GitStep(c) /\ gitOp[c] # "commit"
    <2>1. gitOp' = gitOp
      BY <1>7
      DEF GitStep, BeginGit, NoCommand, FirstRuns, Second, SecondRuns, ReturnsGit,
          RunnerFails, Authenticates
    <2> QED
      BY <1>7, <2>1 DEF CommitInv
  <1> QED
    BY <1>1, <1>4, <1>5, <1>6, <1>7 DEF GitNext

\* A call that is left alone keeps its password.
LEMMA SecretFrame ==
    ASSUME NEW c \in Callers, SecretInv(c),
           UNCHANGED <<remoteUrl, gitOp, credentials>>,
           bound'[c] = bound[c], had'[c] = had[c], gitAt'[c] = gitAt[c],
           exit'[c] = exit[c], out'[c] = out[c],
           \A who : <<c, who>> \in saw' => <<c, who>> \in saw
    PROVE  SecretInv(c)'
  BY DEF SecretInv, TwoCommands

\* The first command finds the remote, and binds the helper to what it found.
LEMMA SecretFirst ==
    ASSUME GitTypeOK, NEW c \in Callers, SecretInv(c), BeginGit(c) \/ FirstRuns(c)
    PROVE  SecretInv(c)'
  <1>1. CASE BeginGit(c)
    <2>1. PICK u \in Urls :
             /\ gitOp[c] # "clone" => u = remoteUrl
             /\ had' = [had EXCEPT ![c] =
                          IF credentials[c] = "none" THEN {} ELSE {u}]
             /\ \/ TwoCommands(c) /\ Goes(c, "first") /\ bound' = bound
                \/ Goes(c, "failed") /\ bound' = bound
                \/ ~TwoCommands(c) /\ Launch(c, GitAuth(c, u))
      BY <1>1 DEF BeginGit
    <2>2. /\ gitAt[c] = "idle" /\ bound[c] = Unbound
          /\ \A who \in Origins \cup {GuestStore} : <<c, who>> \notin saw
          /\ UNCHANGED <<remoteUrl, gitOp, credentials, saw>>
      BY <1>1 DEF BeginGit, SecretInv
    <2>3. had'[c] = IF credentials[c] = "none" THEN {} ELSE {u}
      BY <2>1 DEF GitTypeOK
    <2>4. TwoCommands(c)' = TwoCommands(c)
      BY <2>2 DEF TwoCommands
    <2>5. \/ gitAt'[c] = "first" /\ TwoCommands(c) /\ bound'[c] = Unbound
          \/ gitAt'[c] = "failed" /\ bound'[c] = Unbound
          \/ /\ gitAt'[c] = "second" /\ ~TwoCommands(c)
             /\ bound'[c] = GitAuth(c, u)
      BY <2>1, <2>2 DEF Launch, Goes, GitTypeOK
    <2>6. bound'[c] # Unbound =>
             bound'[c] = u /\ u \in Origins /\ credentials[c] # "none"
      BY <2>5, GitAuthIs
    <2>7. gitOp[c] = "push" /\ credentials[c] # "none" => remoteUrl \in had'[c]
      BY <2>1, <2>3
    <2> QED
      BY <2>2, <2>3, <2>4, <2>5, <2>6, <2>7 DEF SecretInv
  <1>2. CASE FirstRuns(c)
    <2>1. /\ gitAt[c] = "first" /\ gitAt'[c] = "firstRan"
          /\ UNCHANGED <<remoteUrl, gitOp, credentials, bound, had, saw>>
      BY <1>2 DEF FirstRuns, Goes, GitTypeOK
    <2>2. exit'[c] = 0 =>
             gitOp[c] = "commit" \/ (gitOp[c] = "push" /\ out'[c] = remoteUrl)
      <3>1. \/ Exits(c, 1, Nothing) \/ gitOp[c] = "commit"
            \/ gitOp[c] = "push" /\ Exits(c, 0, remoteUrl)
        BY <1>2 DEF FirstRuns
      <3>2. Exits(c, 1, Nothing) => exit'[c] = 1
        BY DEF Exits, GitTypeOK
      <3>3. Exits(c, 0, remoteUrl) => out'[c] = remoteUrl
        BY DEF Exits, GitTypeOK
      <3> QED
        BY <3>1, <3>2, <3>3
    <2>3. TwoCommands(c)' = TwoCommands(c)
      BY <2>1 DEF TwoCommands
    <2> QED
      BY <2>1, <2>2, <2>3 DEF SecretInv, Between
  <1> QED
    BY <1>1, <1>2

LEMMA SecretSecond ==
    ASSUME GitTypeOK, NEW c \in Callers, SecretInv(c),
           \/ Second(c) \/ SecondRuns(c) \/ ReturnsGit(c) \/ RunnerFails(c)
           \/ NoCommand(c)
    PROVE  SecretInv(c)'
  <1>1. CASE Second(c)
    <2>1. /\ \/ Goes(c, "failed") /\ bound' = bound
             \/ exit[c] = 0 /\ Launch(c, GitAuth(c, out[c]))
          /\ gitAt[c] = "firstRan" /\ bound[c] = Unbound
          /\ UNCHANGED <<remoteUrl, gitOp, credentials, had, saw, exit, out>>
      BY <1>1 DEF Second, MustGit, SecretInv
    <2>2. \/ gitAt'[c] = "failed" /\ bound'[c] = Unbound
          \/ /\ gitAt'[c] = "second" /\ exit[c] = 0
             /\ bound'[c] = GitAuth(c, out[c])
      BY <2>1 DEF Launch, Goes, GitTypeOK
    <2>3. bound'[c] # Unbound =>
             bound'[c] \in had[c] \cap Origins /\ credentials[c] # "none"
      <3>1. bound'[c] # Unbound =>
               /\ bound'[c] = out[c] /\ bound'[c] \in Origins
               /\ credentials[c] # "none" /\ exit[c] = 0
        BY <2>2, GitAuthIs
      <3> QED
        BY <2>1, <3>1 DEF SecretInv
    <2> QED
      BY <2>1, <2>2, <2>3 DEF SecretInv, Between
  <1>2. CASE SecondRuns(c) \/ ReturnsGit(c) \/ RunnerFails(c) \/ NoCommand(c)
    <2>1. /\ gitAt'[c] \in {"secondRan", "done", "failed"}
          /\ gitAt'[c] = "secondRan" => gitAt[c] = "second"
          /\ UNCHANGED <<remoteUrl, gitOp, credentials, bound, had, saw>>
      BY <1>2
      DEF SecondRuns, ReturnsGit, RunnerFails, NoCommand, Goes, GitTypeOK
    <2> QED
      BY <2>1 DEF SecretInv, Between
  <1> QED
    BY <1>1, <1>2

\* Git tells the origin the helper is bound to, and nobody else.
LEMMA SecretTold ==
    ASSUME GitTypeOK, NEW c \in Callers, SecretInv(c), Authenticates(c)
    PROVE  SecretInv(c)'
  <1>1. PICK who \in Origins \cup {GuestStore} :
           Tells(c, who) /\ saw' = saw \cup {<<c, who>>}
    BY DEF Authenticates
  <1>2. bound[c] \in Origins /\ bound[c] \in had[c] /\ bound[c] # Anywhere
    BY GitAssumption DEF Authenticates, SecretInv
  <1>3. who = bound[c]
    BY <1>1, <1>2 DEF Tells, HelperOptions
  <1>4. UNCHANGED <<remoteUrl, gitOp, credentials, bound, had, gitAt, exit, out>>
    BY DEF Authenticates
  <1>5. \A other \in Origins \cup {GuestStore} :
           <<c, other>> \in saw' => bound[c] # Unbound /\ other \in had[c]
    BY <1>1, <1>2, <1>3 DEF Authenticates, SecretInv
  <1> QED
    BY <1>4, <1>5 DEF SecretInv, TwoCommands

LEMMA SecretOthers ==
    ASSUME GitTypeOK, NEW c \in Callers, SecretInv(c), OthersSetUrl
    PROVE  SecretInv(c)'
  <1>1. /\ UNCHANGED <<gitOp, credentials, gitAt, exit, out, bound, saw>>
        /\ had[c] \subseteq had'[c]
        /\ gitOp[c] = "push" /\ had[c] # {} /\ gitAt[c] \in Between =>
              remoteUrl' \in had'[c]
    BY DEF OthersSetUrl, GitTypeOK
  <1>2. TwoCommands(c)' = TwoCommands(c)
    BY <1>1 DEF TwoCommands
  <1> QED
    BY <1>1, <1>2 DEF SecretInv

\* What another call does.
LEMMA SecretBeside ==
    ASSUME GitTypeOK, NEW c \in Callers, SecretInv(c),
           NEW d \in Callers \ {c}, GitStep(d)
    PROVE  SecretInv(c)'
  <1>1. UNCHANGED <<remoteUrl, gitOp, credentials>>
    BY DEF GitStep, BeginGit, NoCommand, FirstRuns, Second, SecondRuns,
           ReturnsGit, RunnerFails, Authenticates
  <1>2. gitAt'[c] = gitAt[c] /\ bound'[c] = bound[c]
    BY GitLeavesOthers
  <1>3. exit'[c] = exit[c] /\ out'[c] = out[c]
    BY GitLeavesOthers
  <1>4. had'[c] = had[c]
    BY DEF GitStep, BeginGit, NoCommand, FirstRuns, Second, SecondRuns,
           ReturnsGit, RunnerFails, Authenticates, GitTypeOK
  <1>5. \A who : <<c, who>> \in saw' => <<c, who>> \in saw
    <2>1. saw' = saw \/ \E who : saw' = saw \cup {<<d, who>>}
      BY DEF GitStep, BeginGit, NoCommand, FirstRuns, Second, SecondRuns,
             ReturnsGit, RunnerFails, Authenticates
    <2> QED
      BY <2>1
  <1> QED
    BY <1>1, <1>2, <1>3, <1>4, <1>5, SecretFrame

LEMMA SecretStep ==
    ASSUME GitInv, [GitNext]_gitVars, NEW c \in Callers
    PROVE  SecretInv(c)'
  <1>0. GitTypeOK /\ SecretInv(c)
    BY DEF GitInv
  <1>1. CASE OthersMoveHead \/ UNCHANGED gitVars
    BY <1>0, <1>1, SecretFrame DEF OthersMoveHead, gitVars
  <1>2. CASE OthersSetUrl
    BY <1>0, <1>2, SecretOthers
  <1>3. CASE GitStep(c)
    BY <1>0, <1>3, SecretFirst, SecretSecond, SecretTold DEF GitStep
  <1>4. ASSUME NEW d \in Callers \ {c}, GitStep(d)
        PROVE  SecretInv(c)'
    BY <1>0, <1>4, SecretBeside
  <1> QED
    BY <1>1, <1>2, <1>3, <1>4 DEF GitNext

LEMMA GitInvStep ==
    ASSUME GitInv, [GitNext]_gitVars
    PROVE  GitInv'
  <1>1. GitTypeOK'
    BY GitTypeStep DEF GitInv
  <1>2. \A c \in Callers : CommitInv(c)' /\ SecretInv(c)'
    BY CommitStep, SecretStep
  <1> QED
    BY <1>1, <1>2 DEF GitInv

LEMMA GitInitInv ==
    ASSUME GitInit
    PROVE  GitInv
  <1>1. GitTypeOK
    BY DEF GitInit, GitTypeOK, Commits
  <1>2. ASSUME NEW c \in Callers
        PROVE  CommitInv(c) /\ SecretInv(c)
    BY DEF GitInit, CommitInv, SecretInv, Between
  <1> QED
    BY <1>1, <1>2 DEF GitInv

\* What git is run for keeps its invariant (git.rs).
LEMMA GitInvariant == GitSpec => []GitInv
  <1>1. GitInit => GitInv
    BY GitInitInv
  <1>2. GitInv /\ [GitNext]_gitVars => GitInv'
    BY GitInvStep
  <1> QED
    BY <1>1, <1>2, PTL DEF GitSpec

\* Git::commit: the hash it returns is of its own commit, unless HEAD was moved
\* by somebody else between the commit and rev-parse.
THEOREM CommitsAreOwn == GitSpec => []CommitIsOwn
  <1>1. GitInv => CommitIsOwn
    BY DEF GitInv, CommitInv, CommitIsOwn
  <1> QED
    BY <1>1, GitInvariant, PTL

\* git_auth: a password goes to the origin of the remote the operation is for,
\* wherever a redirect leads and whatever helpers the guest has.
THEOREM CredentialsStay == GitSpec => []CredentialsStayHome
  <1>1. GitInv => CredentialsStayHome
    BY DEF GitInv, SecretInv, CredentialsStayHome
  <1> QED
    BY <1>1, GitInvariant, PTL

-----------------------------------------------------------------------------
(***************************************************************************)
(* CodeRun.                                                                *)
(***************************************************************************)

\* A frame says the context of its call, and an interrupt is of one dropped.
SoundIn(f, contexts, place) ==
    /\ f.kernel = contexts[f.call]
    /\ f.what = "interrupt" => place[f.call] = "dropped"
Sound(f)     == SoundIn(f, inContext, runAt)
SoundNext(f) == SoundIn(f, inContext', runAt')

CodeInv ==
    /\ CodeTypeOK /\ InterruptsStayHome
    /\ \A f \in spawned : Sound(f)
    /\ \A i \in 1 .. Len(wire) : Sound(wire[i])
    /\ \A k \in Kernels : \A i \in 1 .. Len(queue[k]) :
          inContext[queue[k][i]] = k

LEMMA FrameIs ==
    ASSUME NEW what \in {"run", "interrupt"}, NEW r \in Runs, NEW k \in Kernels
    PROVE  /\ CodeFrame(what, r, k) \in CodeFrames
           /\ CodeFrame(what, r, k).what = what
           /\ CodeFrame(what, r, k).call = r
           /\ CodeFrame(what, r, k).kernel = k
  BY DEF CodeFrame, CodeFrames

\* What is sound at the end of a sequence, and at its beginning.
LEMMA AppendedIs ==
    ASSUME NEW S, NEW s \in Seq(S), NEW e \in S
    PROVE  /\ Append(s, e) \in Seq(S)
           /\ \A i \in 1 .. Len(Append(s, e)) :
                 Append(s, e)[i] = e \/ \E j \in 1 .. Len(s) : Append(s, e)[i] = s[j]
  OBVIOUS

LEMMA TailIs ==
    ASSUME NEW S, NEW s \in Seq(S), s # <<>>
    PROVE  /\ Tail(s) \in Seq(S) /\ Head(s) \in S
           /\ Len(s) >= 1 /\ Head(s) = s[1]
           /\ \A i \in 1 .. Len(Tail(s)) : \E j \in 1 .. Len(s) : Tail(s)[i] = s[j]
  <1>1. Tail(s) \in Seq(S) /\ Head(s) \in S /\ Len(s) >= 1 /\ Head(s) = s[1]
    OBVIOUS
  <1>2. ASSUME NEW i \in 1 .. Len(Tail(s))
        PROVE  \E j \in 1 .. Len(s) : Tail(s)[i] = s[j]
    <2>1. i + 1 \in 1 .. Len(s) /\ Tail(s)[i] = s[i + 1]
      BY <1>1, <1>2
    <2> QED
      BY <2>1
  <1> QED
    BY <1>1, <1>2

\* A call keeps its context, and stays dropped.
LEMMA DroppedForGood ==
    ASSUME CodeTypeOK, [CodeNext]_codeVars
    PROVE  /\ inContext' = inContext
           /\ \A r \in Runs : runAt[r] = "dropped" => runAt'[r] = "dropped"
  <1>1. CASE UNCHANGED codeVars
    BY <1>1 DEF codeVars, clientSide
  <1>2. ASSUME NEW r \in Runs, CallStep(r)
        PROVE  /\ inContext' = inContext /\ runAt[r] # "dropped"
               /\ \E s : runAt' = [runAt EXCEPT ![r] = s]
    BY <1>2
    DEF CallStep, NeverBegins, BeginCode, SendCode, CallReturns, DropRun, Now
  <1>3. CASE \E r \in Runs : CallStep(r)
    BY <1>2, <1>3 DEF CodeTypeOK
  <1>4. CASE SendInterrupt \/ Disconnects \/ Deliver \/ \E k \in Kernels : KernelEnds(k)
    BY <1>4
    DEF SendInterrupt, Disconnects, Deliver, KernelEnds, clientSide
  <1> QED
    BY <1>1, <1>3, <1>4 DEF CodeNext

LEMMA SoundStays ==
    ASSUME CodeTypeOK, [CodeNext]_codeVars, NEW f \in CodeFrames, Sound(f)
    PROVE  SoundNext(f)
  <1>1. f.call \in Runs
    BY DEF CodeFrames
  <1> QED
    BY <1>1, DroppedForGood DEF Sound, SoundNext, SoundIn

LEMMA GuestStays ==
    ASSUME CodeInv, [CodeNext]_codeVars, UNCHANGED guest
    PROVE  /\ InterruptsStayHome'
           /\ \A k \in Kernels : \A i \in 1 .. Len(queue'[k]) :
                 inContext'[queue'[k][i]] = k
           /\ queue' \in [Kernels -> Seq(Runs)] /\ halted' \subseteq Runs \X Runs
  <1>1. \A pair \in halted : pair[2] \in Runs
    BY DEF CodeInv, CodeTypeOK
  <1>2. queue' = queue /\ halted' = halted /\ inContext' = inContext
    BY DroppedForGood DEF guest, CodeInv
  <1>3. InterruptsStayHome'
    BY <1>1, <1>2, DroppedForGood DEF InterruptsStayHome, CodeInv
  <1> QED
    BY <1>2, <1>3 DEF CodeInv, CodeTypeOK

LEMMA CallInv ==
    ASSUME CodeInv, NEW r \in Runs, CallStep(r)
    PROVE  CodeInv'
  <1>0. /\ CodeTypeOK /\ [CodeNext]_codeVars /\ UNCHANGED guest
        /\ inContext[r] \in Kernels /\ inContext' = inContext
    BY DroppedForGood
    DEF CodeInv, CodeTypeOK, CodeNext, CallStep, NeverBegins, BeginCode, SendCode,
        CallReturns, DropRun, channel
  <1>1. /\ runAt' \in [Runs -> {"idle", "armed", "sent", "returned", "dropped"}]
        /\ guard' \subseteq Runs /\ lost' \subseteq Runs
        /\ up' \in BOOLEAN /\ drops' \in 0 .. MaxDrops
    BY <1>0
    DEF CodeTypeOK, CallStep, NeverBegins, BeginCode, SendCode, CallReturns,
        DropRun, Now, DropGuard, channel
  <1>2. /\ wire' \in Seq(CodeFrames)
        /\ \A i \in 1 .. Len(wire') : SoundNext(wire'[i])
    <2>1. CASE wire' = wire
      <3>1. \A i \in 1 .. Len(wire) : wire[i] \in CodeFrames
        BY <1>0 DEF CodeTypeOK
      <3> QED
        BY <1>0, <2>1, <3>1, SoundStays DEF CodeInv, CodeTypeOK
    <2>2. CASE SendCode(r)
      <3> DEFINE e == CodeFrame("run", r, inContext[r])
      <3>1. e \in CodeFrames /\ wire \in Seq(CodeFrames) /\ wire' = Append(wire, e)
        BY <1>0, <2>2, FrameIs DEF SendCode, CodeTypeOK
      <3>2. Sound(e)
        BY <1>0, FrameIs DEF Sound, SoundNext, SoundIn
      <3> HIDE DEF e
      <3>3. \A i \in 1 .. Len(wire) : wire[i] \in CodeFrames
        BY <3>1
      <3>4. ASSUME NEW i \in 1 .. Len(wire')
            PROVE  SoundNext(wire'[i])
        <4>1. wire'[i] \in CodeFrames /\ Sound(wire'[i])
          BY <3>1, <3>2, <3>3, <3>4, AppendedIs DEF CodeInv
        <4> QED
          BY <1>0, <4>1, SoundStays
      <3> QED
        BY <3>1, <3>4, AppendedIs
    <2> QED
      BY <2>1, <2>2
      DEF CallStep, NeverBegins, BeginCode, CallReturns, DropRun, channel
  <1>3. /\ spawned' \subseteq CodeFrames
        /\ \A f \in spawned' : SoundNext(f)
    <2>1. CASE spawned' = spawned
      BY <1>0, <2>1, SoundStays DEF CodeInv, CodeTypeOK
    <2>2. CASE CallReturns(r)
      <3>1. spawned' = spawned
        BY <2>2 DEF CallReturns, DropGuard, Disarmed
      <3> QED
        BY <2>1, <3>1
    <2>3. CASE DropRun(r)
      <3> DEFINE e == CodeFrame("interrupt", r, inContext[r])
      <3>1. spawned' \subseteq spawned \cup {e} /\ runAt'[r] = "dropped"
        BY <1>0, <2>3 DEF DropRun, DropGuard, ContextId, Now, CodeTypeOK
      <3>2. e \in CodeFrames /\ SoundNext(e)
        BY <1>0, <3>1, FrameIs DEF Sound, SoundNext, SoundIn
      <3> QED
        BY <1>0, <3>1, <3>2, SoundStays DEF CodeInv, CodeTypeOK
    <2> QED
      BY <2>1, <2>2, <2>3 DEF CallStep, NeverBegins, BeginCode, SendCode
  <1> QED
    <2>1. CodeTypeOK'
      BY <1>0, <1>1, <1>2, <1>3, GuestStays DEF CodeTypeOK
    <2> QED
      BY <1>0, <1>2, <1>3, <2>1, GuestStays DEF CodeInv, Sound, SoundNext

LEMMA SendInv ==
    ASSUME CodeInv, SendInterrupt \/ Disconnects \/ UNCHANGED codeVars
    PROVE  CodeInv'
  <1>0. /\ CodeTypeOK /\ [CodeNext]_codeVars /\ UNCHANGED guest
        /\ inContext' = inContext /\ runAt' = runAt
        /\ \A i \in 1 .. Len(wire) : wire[i] \in CodeFrames
    <2>1. CodeTypeOK
      BY DEF CodeInv
    <2>2. [CodeNext]_codeVars
      BY DEF CodeNext
    <2>3. UNCHANGED guest /\ inContext' = inContext /\ runAt' = runAt
      BY DEF SendInterrupt, Disconnects, codeVars, clientSide, guest
    <2>4. \A i \in 1 .. Len(wire) : wire[i] \in CodeFrames
      BY <2>1 DEF CodeTypeOK
    <2> QED
      BY <2>1, <2>2, <2>3, <2>4
  <1>1. CASE SendInterrupt
    <2>1. PICK f \in spawned :
             /\ spawned' = spawned \ {f}
             /\ \/ wire' = Append(wire, f) /\ UNCHANGED lost
                \/ lost' = lost \cup {f.call} /\ UNCHANGED wire
      BY <1>1 DEF SendInterrupt
    <2>2. f \in CodeFrames /\ f.call \in Runs /\ Sound(f)
      BY <1>0 DEF CodeInv, CodeTypeOK, CodeFrames
    <2>3. /\ wire' \in Seq(CodeFrames) /\ lost' \subseteq Runs
          /\ \A i \in 1 .. Len(wire') :
                wire'[i] \in CodeFrames /\ Sound(wire'[i])
      <3>1. wire \in Seq(CodeFrames) /\ lost \subseteq Runs
            /\ \A i \in 1 .. Len(wire) : Sound(wire[i])
        BY DEF CodeInv, CodeTypeOK
      <3>2. CASE wire' = wire
        BY <1>0, <2>1, <2>2, <3>1, <3>2
      <3>3. CASE wire' = Append(wire, f) /\ lost' = lost
        <4>1. wire' \in Seq(CodeFrames)
          BY <2>2, <3>1, <3>3, AppendedIs
        <4>2. ASSUME NEW i \in 1 .. Len(wire')
              PROVE  wire'[i] \in CodeFrames /\ Sound(wire'[i])
          <5>1. wire'[i] = f \/ \E j \in 1 .. Len(wire) : wire'[i] = wire[j]
            BY <2>2, <3>1, <3>3, <4>2, AppendedIs
          <5> QED
            BY <1>0, <2>2, <3>1, <5>1
        <4> QED
          BY <3>1, <3>3, <4>1, <4>2
      <3> QED
        BY <2>1, <3>2, <3>3
    <2>4. /\ \A i \in 1 .. Len(wire') : SoundNext(wire'[i])
          /\ \A g \in spawned' : SoundNext(g) /\ g \in CodeFrames
      BY <1>0, <2>1, <2>3, SoundStays DEF CodeInv, CodeTypeOK
    <2>5. CodeTypeOK'
      BY <1>0, <1>1, <2>3, <2>4, GuestStays DEF CodeTypeOK, SendInterrupt
    <2> QED
      BY <1>0, <2>4, <2>5, GuestStays DEF CodeInv, Sound, SoundNext
  <1>2. CASE Disconnects
    <2>1. /\ wire' = <<>> /\ spawned' = spawned /\ guard' = guard
          /\ up' = FALSE /\ drops' \in 0 .. MaxDrops
      BY <1>0, <1>2, CodeAssumption DEF Disconnects, CodeTypeOK, clientSide
    <2>2. lost' \subseteq Runs
      <3>1. \A f \in ToSet(wire) : f.call \in Runs
        <4>1. DOMAIN wire = 1 .. Len(wire)
          BY <1>0 DEF CodeTypeOK
        <4> QED
          BY <1>0, <4>1 DEF ToSet, CodeFrames
      <3> QED
        BY <1>0, <1>2, <3>1 DEF Disconnects, CodeTypeOK
    <2>3. \A f \in spawned' : SoundNext(f)
      BY <1>0, <2>1, SoundStays DEF CodeInv, CodeTypeOK
    <2>4. CodeTypeOK'
      <3>1. wire' \in Seq(CodeFrames)
        <4>1. <<>> \in Seq(CodeFrames)
          OBVIOUS
        <4> QED
          BY <2>1, <4>1
      <3> QED
        BY <1>0, <2>1, <2>2, <3>1, GuestStays DEF CodeTypeOK
    <2> QED
      BY <1>0, <2>1, <2>3, <2>4, GuestStays DEF CodeInv, Sound, SoundNext
  <1>3. CASE UNCHANGED codeVars
    BY <1>3
    DEF codeVars, clientSide, channel, guest, CodeInv, CodeTypeOK,
        InterruptsStayHome, Sound, SoundIn
  <1> QED
    BY <1>1, <1>2, <1>3

\* The guest: a kernel runs what was sent to it, and an interrupt of its own
\* context ends that.
LEMMA GuestInv ==
    ASSUME CodeInv, Deliver \/ \E k \in Kernels : KernelEnds(k)
    PROVE  CodeInv'
  <1>0. /\ CodeTypeOK /\ UNCHANGED <<clientSide, up, drops, lost>>
        /\ [CodeNext]_codeVars
    BY DEF CodeInv, CodeNext, Deliver, KernelEnds, channel
  <1>1. ASSUME NEW k \in Kernels, queue[k] # <<>>, Ends(k)
        PROVE  /\ queue' \in [Kernels -> Seq(Runs)]
               /\ \A l \in Kernels : \A i \in 1 .. Len(queue'[l]) :
                     inContext[queue'[l][i]] = l
    <2>1. queue[k] \in Seq(Runs) /\ queue' = [queue EXCEPT ![k] = Tail(queue[k])]
      BY <1>0, <1>1 DEF Ends, CodeTypeOK
    <2>2. queue' \in [Kernels -> Seq(Runs)]
      BY <1>0, <1>1, <2>1, TailIs DEF CodeTypeOK
    <2>3. ASSUME NEW i \in 1 .. Len(Tail(queue[k]))
          PROVE  inContext[Tail(queue[k])[i]] = k
      BY <1>1, <2>1, TailIs DEF CodeInv
    <2>4. \A l \in Kernels : l # k => queue'[l] = queue[l]
      BY <1>0, <2>1 DEF CodeTypeOK
    <2>5. queue'[k] = Tail(queue[k])
      BY <1>0, <2>1 DEF CodeTypeOK
    <2> QED
      BY <2>2, <2>3, <2>4, <2>5 DEF CodeInv
  <1>2. CASE \E k \in Kernels : KernelEnds(k)
    <2>1. PICK k \in Kernels : KernelEnds(k)
      BY <1>2
    <2>2. wire' = wire /\ halted' = halted
      BY <2>1, SMTT(30) DEF KernelEnds, channel
    <2> QED
      BY <1>0, <1>1, <2>1, <2>2
      DEF CodeInv, CodeTypeOK, KernelEnds, InterruptsStayHome, Sound, SoundNext, SoundIn, clientSide
  <1>3. CASE Deliver
    <2> DEFINE f == Head(wire)
    <2>1. /\ wire # <<>> /\ wire' = Tail(wire) /\ wire \in Seq(CodeFrames)
      BY <1>0, <1>3 DEF Deliver, CodeTypeOK
    <2>2. f \in CodeFrames /\ Sound(f)
      BY <2>1, TailIs DEF CodeInv
    <2>3. f.call \in Runs /\ f.kernel \in Kernels /\ f.kernel = inContext[f.call]
      BY <2>2 DEF CodeFrames, Sound, SoundIn
    <2>4. /\ wire' \in Seq(CodeFrames)
          /\ \A i \in 1 .. Len(wire') : SoundNext(wire'[i])
      <3>1. ASSUME NEW i \in 1 .. Len(wire')
            PROVE  Sound(wire'[i])
        BY <2>1, <3>1, TailIs DEF CodeInv
      <3>2. wire' \in Seq(CodeFrames)
        BY <2>1, TailIs
      <3>3. \A i \in 1 .. Len(wire') : wire'[i] \in CodeFrames
        BY <3>2, SMTT(30)
      <3> QED
        BY <1>0, <3>1, <3>2, <3>3, SoundStays
    <2>5. CASE f.what = "run" /\ UNCHANGED halted
               /\ queue' = [queue EXCEPT ![f.kernel] = Append(@, f.call)]
      <3>1. queue[f.kernel] \in Seq(Runs)
        BY <1>0, <2>3 DEF CodeTypeOK
      <3>2. /\ queue' \in [Kernels -> Seq(Runs)]
            /\ queue'[f.kernel] = Append(queue[f.kernel], f.call)
            /\ \A l \in Kernels : l # f.kernel => queue'[l] = queue[l]
        BY <1>0, <2>3, <2>5, <3>1, AppendedIs DEF CodeTypeOK
      <3>3. \A i \in 1 .. Len(queue'[f.kernel]) :
               inContext[queue'[f.kernel][i]] = f.kernel
        BY <2>3, <3>1, <3>2, AppendedIs DEF CodeInv
      <3>4. \A l \in Kernels : \A i \in 1 .. Len(queue'[l]) :
               inContext[queue'[l][i]] = l
        BY <3>2, <3>3 DEF CodeInv
      <3> QED
        <4>1. UNCHANGED <<clientSide, up, drops, lost, halted>>
          BY <1>3, <2>5 DEF Deliver
        <4>2. /\ inContext' = inContext /\ runAt' = runAt /\ spawned' = spawned
              /\ guard' = guard /\ lost' = lost /\ up' = up /\ drops' = drops
              /\ halted' = halted
          BY <4>1 DEF clientSide
        <4>3. CodeTypeOK' /\ InterruptsStayHome'
          BY <1>0, <2>4, <3>2, <4>2 DEF CodeInv, CodeTypeOK, InterruptsStayHome
        <4>4. \A e \in spawned' : SoundNext(e)
          BY <1>0, <4>2 DEF CodeInv, Sound, SoundNext
        <4> QED
          BY <2>4, <3>4, <4>2, <4>3, <4>4 DEF CodeInv, Sound, SoundNext
    <2>6. CASE /\ f.what = "interrupt" /\ queue[f.kernel] # <<>>
               /\ Ends(f.kernel)
               /\ halted' = halted \cup {<<Head(queue[f.kernel]), f.call>>}
      <3>1. /\ queue' \in [Kernels -> Seq(Runs)]
            /\ \A l \in Kernels : \A i \in 1 .. Len(queue'[l]) :
                  inContext[queue'[l][i]] = l
        BY <1>1, <2>3, <2>6
      <3>2. queue[f.kernel] \in Seq(Runs)
        BY <1>0, <2>3 DEF CodeTypeOK
      <3>3. /\ Head(queue[f.kernel]) \in Runs
            /\ inContext[Head(queue[f.kernel])] = f.kernel
        BY <2>3, <2>6, <3>2, TailIs DEF CodeInv
      <3>4. runAt[f.call] = "dropped"
        BY <2>2, <2>6 DEF Sound, SoundNext, SoundIn
      <3>5. InterruptsStayHome'
        BY <1>0, <2>3, <2>6, <3>3, <3>4
        DEF CodeInv, InterruptsStayHome, clientSide
      <3>6. halted' \subseteq Runs \X Runs
        <4>1. <<Head(queue[f.kernel]), f.call>> \in Runs \X Runs
          BY <2>3, <3>3
        <4> QED
          BY <1>0, <2>6, <4>1, Zenon DEF CodeTypeOK
      <3> QED
        BY <1>0, <2>4, <3>1, <3>5, <3>6
        DEF CodeInv, CodeTypeOK, Sound, SoundNext, SoundIn, clientSide
    <2>7. CASE UNCHANGED guest
      BY <1>0, <2>4, <2>7
      DEF CodeInv, CodeTypeOK, InterruptsStayHome, Sound, SoundNext, SoundIn,
          clientSide, guest
    <2> QED
      BY <1>3, <2>5, <2>6, <2>7 DEF Deliver
  <1> QED
    BY <1>2, <1>3

LEMMA CodeInitInv ==
    ASSUME CodeInit
    PROVE  CodeInv
  <1>1. CodeTypeOK
    <2>1. queue \in [Kernels -> Seq(Runs)] /\ wire \in Seq(CodeFrames)
      BY DEF CodeInit
    <2>2. drops \in 0 .. MaxDrops
      BY CodeAssumption DEF CodeInit
    <2> QED
      BY <2>1, <2>2 DEF CodeInit, CodeTypeOK
  <1> QED
    BY <1>1 DEF CodeInit, CodeInv, InterruptsStayHome

LEMMA CodeInvariant == CodeSpec => []CodeInv
  <1>1. CodeInit => CodeInv
    BY CodeInitInv
  <1>2. CodeInv /\ [CodeNext]_codeVars => CodeInv'
    BY CallInv, SendInv, GuestInv DEF CodeNext
  <1> QED
    BY <1>1, <1>2, PTL DEF CodeSpec

\* InterruptGuard: an interrupt ends code in the context of a call that was
\* dropped, and nobody else's, for any number of calls and contexts.
THEOREM InterruptsHome == CodeSpec => []InterruptsStayHome
  <1>1. CodeInv => InterruptsStayHome
    BY DEF CodeInv
  <1> QED
    BY <1>1, CodeInvariant, PTL

-----------------------------------------------------------------------------
(***************************************************************************)
(* MCServices.                                                             *)
(***************************************************************************)

\* A behaviour of the modules side by side is a behaviour of each of them: what
\* is proved of one of them alone holds in their run.
THEOREM EachAsAlone ==
    ServicesSpec => /\ Spec /\ SessionSpec /\ FileSpec /\ GitSpec
                    /\ CodeSpec /\ Utf8Spec
  <1>1. ServicesInit => /\ Init /\ SessionInit /\ FileInit /\ GitInit
                        /\ CodeInit /\ Utf8Init
    BY DEF ServicesInit
  <1>2. [ServicesNext]_servicesVars =>
           /\ [Next]_vars /\ [SessionNext]_sessionVars /\ [FileNext]_fileVars
           /\ [GitNext]_gitVars /\ [CodeNext]_codeVars /\ [Utf8Next]_utf8Vars
    BY DEF ServicesNext, servicesVars
  <1> QED
    BY <1>1, <1>2, PTL
    DEF ServicesSpec, Spec, SessionSpec, FileSpec, GitSpec, CodeSpec, Utf8Spec

\* The types of a session, of files, git and code, and of the decoder.
THEOREM ServicesTypes == ServicesSpec => []AllTypes
  <1>1. FileSpec => []FileInv
    BY FileInitInv, FileInvStep, PTL DEF FileSpec
  <1>2. /\ FileInv => FileTypeOK
        /\ GitInv => GitTypeOK
        /\ CodeInv => CodeTypeOK
    BY DEF FileInv, ContentTypes, GitInv, CodeInv
  <1>3. /\ SessionTypeOK /\ FileTypeOK /\ GitTypeOK /\ CodeTypeOK /\ Utf8TypeOK
           => AllTypes
    BY DEF AllTypes
  <1> QED
    BY <1>1, <1>2, <1>3, EachAsAlone, SessionTypes, GitInvariant, CodeInvariant,
       Utf8Types, PTL

=============================================================================
