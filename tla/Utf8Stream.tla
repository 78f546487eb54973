------------------------------ MODULE Utf8Stream ------------------------------
(***************************************************************************)
(* The streaming decoder of command output (Utf8Stream, commands.rs): bytes *)
(* come in chunks cut anywhere, and a character cut by a chunk's end is    *)
(* held back for the next.                                                 *)
(*                                                                         *)
(* A byte is its class in the definition of UTF-8 (Unicode, table 3-7).     *)
(* str::from_utf8 is external: it says how far the bytes are text, and how *)
(* many of those that follow are no character, or that they may become one.*)
(***************************************************************************)
EXTENDS Integers, Sequences

CONSTANTS
    Bytes,         \* the classes that are fed
    MaxBytes       \* bound: bytes of a stream

VARIABLES
    fed,           \* history: the bytes of the stream so far
    pending,       \* Utf8Stream::pending
    text,          \* what push and finish have returned
    ended          \* finish was called

utf8Vars == <<fed, pending, text, ended>>

\* 00-7F; continuations; leads; and what is in no character.
ByteClasses ==
    {"00-7F", "80-8F", "90-9F", "A0-BF", "C2-DF", "E0", "E1-EF", "ED",
     "F0", "F1-F3", "F4", "C0-C1,F5-FF"}
Continuation == {"80-8F", "90-9F", "A0-BF"}

ASSUME BytesAssumption == Bytes \subseteq ByteClasses /\ MaxBytes \in Nat

\* A character is the bytes it is made of.
Replacement == <<"U+FFFD">>

Utf8Init == fed = <<>> /\ pending = <<>> /\ text = <<>> /\ ended = FALSE

-----------------------------------------------------------------------------
(***************************************************************************)
(* str::from_utf8 (external), a character at a time.                       *)
(***************************************************************************)

\* What may follow a lead, place by place.
Follow(lead) ==
    CASE lead = "C2-DF" -> <<Continuation>>
      [] lead = "E0"    -> <<{"A0-BF"}, Continuation>>
      [] lead = "ED"    -> <<{"80-8F", "90-9F"}, Continuation>>
      [] lead = "E1-EF" -> <<Continuation, Continuation>>
      [] lead = "F0"    -> <<{"90-9F", "A0-BF"}, Continuation, Continuation>>
      [] lead = "F1-F3" -> <<Continuation, Continuation, Continuation>>
      [] lead = "F4"    -> <<{"80-8F"}, Continuation, Continuation>>
      [] OTHER          -> <<>>

NeverLeads == Continuation \cup {"C0-C1,F5-FF"}

\* How many bytes after the lead s[i] are as they should be.
Matching(s, i) ==
    LET f == Follow(s[i])
        Fits(n) == \A j \in 1 .. n : s[i + j] \in f[j] IN
    CHOOSE n \in 0 .. Len(f) :
        /\ i + n <= Len(s) /\ Fits(n)
        /\ n = Len(f) \/ i + n = Len(s) \/ s[i + n + 1] \notin f[n + 1]

\* s[i] and what follows it is a character, an error of so many bytes
\* (error_len is Some), or may still become a character (None).
FromUtf8(s, i) ==
    LET n == Matching(s, i) IN
    IF s[i] \in NeverLeads THEN [is |-> "error", len |-> 1]
    ELSE IF n = Len(Follow(s[i])) THEN [is |-> "valid", len |-> n + 1]
    ELSE IF i + n = Len(s) THEN [is |-> "incomplete", len |-> n + 1]
    ELSE [is |-> "error", len |-> n + 1]

-----------------------------------------------------------------------------
(***************************************************************************)
(* Utf8Stream.                                                             *)
(***************************************************************************)

\* error_len is Some.  Seeded faults: it is not looked at, and what is cut off
\* is an error like another, or an error is held back like what is cut off.
AllAreErrors(found) == found.is # "valid"
NoneIsError(found)  == FALSE
IsError(found)      == found.is = "error"

\* The loop of push, from the i-th of the pending bytes on: what it returns, and
\* where what it leaves pending begins.
Pushed(s) ==
    LET Loop[i \in 1 .. Len(s) + 1] ==
          IF i > Len(s) THEN [out |-> <<>>, rest |-> i]
          ELSE LET found == FromUtf8(s, i)
                   later == Loop[i + found.len]
                   next  == SubSeq(s, i, i + found.len - 1) IN
               IF found.is = "valid"
               THEN [out |-> <<next>> \o later.out, rest |-> later.rest]
               ELSE IF IsError(found)
               THEN [out |-> <<Replacement>> \o later.out, rest |-> later.rest]
               ELSE [out |-> <<>>, rest |-> i]
    IN  Loop[1]

Push(chunk) ==
    /\ ~ended
    /\ LET s == pending \o chunk IN
       /\ text' = text \o Pushed(s).out
       /\ pending' = SubSeq(s, Pushed(s).rest, Len(s))
    /\ fed' = fed \o chunk /\ UNCHANGED ended

\* Seeded fault: every byte held back is reported.
EachByte == [i \in 1 .. Len(pending) |-> Replacement]
AtEnd    == IF pending = <<>> THEN <<>> ELSE <<Replacement>>

Finish ==
    /\ ~ended /\ ended' = TRUE
    /\ text' = text \o AtEnd /\ pending' = <<>> /\ UNCHANGED fed

Utf8Next ==
    \/ \E n \in 1 .. MaxBytes - Len(fed) : \E c \in [1 .. n -> Bytes] : Push(c)
    \/ Finish

Utf8Spec == Utf8Init /\ [][Utf8Next]_utf8Vars

-----------------------------------------------------------------------------
(***************************************************************************)
(* Properties.                                                             *)
(***************************************************************************)

\* The characters of UTF-8, and what String::from_utf8_lossy makes of a whole
\* stream: as many bytes as are a character, or else as begin one and no more,
\* or else a single byte.
Characters ==
    {<<"00-7F">>} \cup ({"C2-DF"} \X Continuation)
    \cup ({"E0"} \X {"A0-BF"} \X Continuation)
    \cup ({"ED"} \X {"80-8F", "90-9F"} \X Continuation)
    \cup ({"E1-EF"} \X Continuation \X Continuation)
    \cup ({"F0"} \X {"90-9F", "A0-BF"} \X Continuation \X Continuation)
    \cup ({"F1-F3"} \X Continuation \X Continuation \X Continuation)
    \cup ({"F4"} \X {"80-8F"} \X Continuation \X Continuation)
Beginnings == UNION {{SubSeq(c, 1, n) : n \in 1 .. Len(c)} : c \in Characters}

Lossy(s) ==
    LET From[i \in 1 .. Len(s) + 1] ==
          IF i > Len(s) THEN <<>>
          ELSE LET n == CHOOSE n \in 1 .. 4 :
                         /\ i + n - 1 <= Len(s)
                         /\ n = 1 \/ SubSeq(s, i, i + n - 1) \in Beginnings
                         /\ \/ i + n > Len(s)
                            \/ SubSeq(s, i, i + n) \notin Beginnings
                   c == SubSeq(s, i, i + n - 1) IN
               <<IF c \in Characters THEN c ELSE Replacement>> \o From[i + n]
    IN  From[1]

\* Types.
Utf8TypeOK ==
    /\ fed \in Seq(Bytes) /\ pending \in Seq(Bytes) /\ Len(pending) < 4
    /\ text \in Seq(Seq(ByteClasses \cup {"U+FFFD"})) /\ ended \in BOOLEAN

\* "Holds back an incomplete character at the end of a chunk until the next
\* chunk completes it.  Invalid bytes become U+FFFD, as String::from_utf8_lossy
\* does": wherever the chunks of a stream are cut, its text is what
\* from_utf8_lossy makes of all of it.
TextIsReference == ended => text = Lossy(fed)

=============================================================================
