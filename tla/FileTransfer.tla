----------------------------- MODULE FileTransfer -----------------------------
(***************************************************************************)
(* The files namespace (files.rs): chunked uploads and downloads of one     *)
(* path, write in a single frame, and read, which falls back to a single   *)
(* frame where the guest image does not know fs.download.                  *)
(*                                                                         *)
(* A transfer is a future of its own; they meet in the guest's file.  A     *)
(* call over the channel may fail at any time: the guest then never sees   *)
(* it, has carried it out already, or still will.  The guest is external:   *)
(* it writes where it is told and reads what is there, in chunks no longer *)
(* than asked for, and may not say of the last one that it is the last.     *)
(***************************************************************************)
EXTENDS Integers, FiniteSets

CONSTANTS
    Transfers,     \* the calls of upload, write, download and read
    FileChunk,     \* FILE_CHUNK_SIZE, in cells
    MaxFrame,      \* MAX_SINGLE_FRAME_BYTES, in cells
    MaxLength,     \* bound: the longest data, and the longest file at first
    Before         \* whoever wrote the file at first

ASSUME FileAssumption ==
    /\ FileChunk \in Nat \ {0} /\ MaxFrame \in Nat /\ MaxLength \in Nat
    /\ Before \notin Transfers

VARIABLES
    file,            \* the guest's file
    modern,          \* whether the guest knows fs.upload and fs.download
    task, size,      \* what each transfer does, and the length of its data
    at, got,         \* its offset, and what it has read
    chunk,           \* what its call was answered with
    stage,           \* where it is
    strays,          \* writes given up by their caller that are still to come
    disturbed        \* history: transfers that another's write met

fileVars == <<file, modern, task, size, at, got, chunk, stage, strays,
              disturbed>>

Writing  == {"upload", "write"}
Reading  == {"download", "read"}
Underway == {"calling", "single", "answered"}

\* Contents are functions from 0 .. n - 1.  A cell tells whose data it is and
\* where it stood there; what lies between the end and a write beyond it is a
\* hole.
Length(c)     == Cardinality(DOMAIN c)
Data(t, n)    == [i \in 0 .. n - 1 |-> <<t, i>>]
Hole          == <<>>
Least(m, n)   == IF m < n THEN m ELSE n
Largest(m, n) == IF m < n THEN n ELSE m
Cut(c, from, n) == [i \in 0 .. n - 1 |-> c[from + i]]
Append2(c, d) ==
    [i \in 0 .. Length(c) + Length(d) - 1 |->
        IF i < Length(c) THEN c[i] ELSE d[i - Length(c)]]

Empty      == [bytes |-> Data(Before, 0), eof |-> FALSE]
Unanswered == [t \in Transfers |-> Empty]

FileInit ==
    /\ \E n \in 0 .. MaxLength : file = Data(Before, n)
    /\ modern \in BOOLEAN
    /\ task \in [Transfers -> Writing \cup Reading]
    /\ size \in [Transfers -> 0 .. MaxLength]
    /\ \A t \in Transfers : task[t] \in Reading => size[t] = 0
    /\ at = [t \in Transfers |-> 0]
    /\ got = [t \in Transfers |-> Data(t, 0)] /\ chunk = Unanswered
    /\ stage = [t \in Transfers |-> "idle"]
    /\ strays = {} /\ disturbed = {}

-----------------------------------------------------------------------------
(***************************************************************************)
(* The guest's file (external).                                            *)
(***************************************************************************)

Started      == {t \in Transfers : stage[t] # "idle"}
Becomes(t, s) == stage' = [stage EXCEPT ![t] = s]

\* A write of the cells from .. to - 1 of its author's data.
Written(w) ==
    LET old == IF w.truncate THEN 0 ELSE Length(file) IN
    [i \in 0 .. Largest(old, w.to) - 1 |->
        IF w.from <= i /\ i < w.to THEN <<w.by, i>>
        ELSE IF i < old THEN file[i] ELSE Hole]

\* One that was given up lands on whoever has started since, its own caller's
\* next try among them.
StrayLands ==
    \E w \in strays :
       /\ file' = Written(w) /\ strays' = strays \ {w}
       /\ disturbed' = disturbed \cup Started
       /\ UNCHANGED <<modern, task, size, at, got, chunk, stage>>

-----------------------------------------------------------------------------
(***************************************************************************)
(* Writing.                                                                *)
(***************************************************************************)

\* A write that is too large is refused before anything is sent.
BeginTransfer(t) ==
    /\ stage[t] = "idle"
    /\ Becomes(t, IF task[t] = "write" /\ size[t] > MaxFrame
                  THEN "refused" ELSE "calling")
    /\ UNCHANGED <<file, modern, task, size, at, got, chunk, strays, disturbed>>

\* Seeded fault: no chunk truncates.
NeverTruncates(t) == FALSE
Truncates(t)      == at[t] = 0

\* The one frame of a write, or a chunk of an upload.
UpTo(t)  ==
    IF task[t] = "write" THEN size[t] ELSE Least(at[t] + FileChunk, size[t])
Frame(t) == [by |-> t, from |-> at[t], to |-> UpTo(t),
             truncate |-> Truncates(t)]

GuestWrites(t) ==
    /\ stage[t] = "calling"
    /\ task[t] = "write" \/ (task[t] = "upload" /\ modern)
    /\ file' = Written(Frame(t)) /\ Becomes(t, "answered")
    /\ disturbed' = disturbed \cup (Started \ {t})
    /\ UNCHANGED <<modern, task, size, at, got, chunk, strays>>

\* Seeded fault: what is left when it is less than a chunk is left out.
EndsEarly(t) == UpTo(t) + FileChunk > size[t]
LastChunk(t) == UpTo(t) >= size[t]

Wrote(t) ==
    /\ stage[t] = "answered" /\ task[t] \in Writing
    /\ IF LastChunk(t) THEN Becomes(t, "done") /\ UNCHANGED at
       ELSE Becomes(t, "calling") /\ at' = [at EXCEPT ![t] = UpTo(t)]
    /\ UNCHANGED <<file, modern, task, size, got, chunk, strays, disturbed>>

-----------------------------------------------------------------------------
(***************************************************************************)
(* Reading.                                                                *)
(***************************************************************************)

GuestReads(t) ==
    LET left == Largest(Length(file) - at[t], 0) IN
    /\ stage[t] = "calling" /\ task[t] \in Reading /\ modern
    /\ \E n \in 0 .. Least(FileChunk, left), eof \in BOOLEAN :
       /\ n = 0 => left = 0
       /\ eof => n = left
       /\ chunk' = [chunk EXCEPT ![t] = [bytes |-> Cut(file, at[t], n),
                                         eof |-> eof]]
    /\ Becomes(t, "answered")
    /\ UNCHANGED <<file, modern, task, size, at, got, strays, disturbed>>

\* Seeded faults: the offset is moved by what was asked for; the loop goes on
\* from an offset that has not moved.
ByRequest(t)         == at[t] + FileChunk
NextOffset(t)        == at[t] + Length(chunk[t].bytes)
AnyProgress(t, next) == next >= at[t]
Progress(t, next)    == next > at[t]

\* nextOffset is where the bytes end, or absent.
HaveRead(t) ==
    /\ stage[t] = "answered" /\ task[t] \in Reading
    /\ got' = [got EXCEPT ![t] = Append2(got[t], chunk[t].bytes)]
    /\ chunk' = [chunk EXCEPT ![t] = Empty]
    /\ IF chunk[t].eof THEN Becomes(t, "done") /\ UNCHANGED at
       ELSE IF Progress(t, NextOffset(t))
       THEN Becomes(t, "calling") /\ at' = [at EXCEPT ![t] = NextOffset(t)]
       ELSE Becomes(t, "failed") /\ UNCHANGED at
    /\ UNCHANGED <<file, modern, task, size, strays, disturbed>>

\* "unknown method": read asks again for a single frame.
UnknownMethod(t) ==
    /\ stage[t] = "calling" /\ ~modern /\ task[t] # "write"
    /\ Becomes(t, IF task[t] = "read" THEN "single" ELSE "failed")
    /\ UNCHANGED <<file, modern, task, size, at, got, chunk, strays, disturbed>>

\* fs.read, the whole file in one frame.
ReadSingleFrame(t) ==
    /\ stage[t] = "single"
    /\ got' = [got EXCEPT ![t] = file] /\ Becomes(t, "done")
    /\ UNCHANGED <<file, modern, task, size, at, chunk, strays, disturbed>>

-----------------------------------------------------------------------------
\* connect() or the call fails, the caller is given an error; or the future is
\* dropped.
CallFails(t) ==
    /\ stage[t] \in Underway /\ Becomes(t, "failed")
    /\ chunk' = [chunk EXCEPT ![t] = Empty]
    /\ \/ UNCHANGED strays
       \/ /\ stage[t] = "calling"
          /\ task[t] = "write" \/ (task[t] = "upload" /\ modern)
          /\ strays' = strays \cup {Frame(t)}
    /\ UNCHANGED <<file, modern, task, size, at, got, disturbed>>

Returns(t) ==
    \/ GuestWrites(t) \/ Wrote(t) \/ GuestReads(t) \/ HaveRead(t)
    \/ UnknownMethod(t) \/ ReadSingleFrame(t) \/ CallFails(t)

FileNext == StrayLands \/ \E t \in Transfers : BeginTransfer(t) \/ Returns(t)

FileSpec == FileInit /\ [][FileNext]_fileVars

\* Every call is answered or times out.
FileFairness == \A t \in Transfers : WF_fileVars(Returns(t))

-----------------------------------------------------------------------------
(***************************************************************************)
(* Properties.                                                             *)
(***************************************************************************)

\* Types.
FileTypeOK ==
    /\ modern \in BOOLEAN /\ disturbed \subseteq Transfers
    /\ task \in [Transfers -> Writing \cup Reading]
    /\ size \in [Transfers -> Nat] /\ at \in [Transfers -> Nat]
    /\ stage \in [Transfers ->
                    {"idle", "refused", "done", "failed"} \cup Underway]
    /\ strays \subseteq [by : Transfers, from : Nat, to : Nat,
                         truncate : BOOLEAN]

\* Files::upload and Files::write, "the first call truncates, later calls append
\* at their offset": when one returns Ok the file is its data, all of it and
\* nothing else, whatever was there before and whatever tries failed earlier,
\* provided nobody else's write has landed since it began.
UploadedIsData ==
    \A t \in Transfers \ disturbed :
       stage[t] = "done" /\ task[t] \in Writing => file = Data(t, size[t])

\* Files::download and Files::read, "a whole file in 4 MiB chunks": what an
\* undisturbed one returns is the file, however short the chunks come.
DownloadedIsFile ==
    \A t \in Transfers \ disturbed :
       stage[t] = "done" /\ task[t] \in Reading => got[t] = file

\* Every transfer ends, though the guest never reports the end of the file.
TransfersReturn ==
    \A t \in Transfers : stage[t] \in Underway ~> stage[t] \notin Underway

=============================================================================
