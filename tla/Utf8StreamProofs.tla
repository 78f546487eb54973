-------------------------- MODULE Utf8StreamProofs --------------------------
(***************************************************************************)
(* Proofs about Utf8Stream: wherever the chunks of a stream are cut, its   *)
(* text is what String::from_utf8_lossy makes of all of it, for streams    *)
(* and chunks of any length.                                               *)
(*                                                                         *)
(* push looks for errors with from_utf8, byte after byte as the table of   *)
(* well-formed characters allows; from_utf8_lossy, as the model states it, *)
(* takes as many bytes as begin a character. First that both find the same *)
(* at any place of any bytes. Then that both loops are functions as they   *)
(* define, by induction from the end of the bytes. Then that what is found *)
(* in a part of the stream is found there in the stream, unless it is cut  *)
(* by the end of the part. The invariant is that however the stream goes   *)
(* on, its text is what is out already and what is made of it from the     *)
(* pending bytes on.                                                       *)
(***************************************************************************)
EXTENDS Utf8Stream, InductionLemmas

-----------------------------------------------------------------------------
(***************************************************************************)
(* The table of well-formed characters.                                    *)
(***************************************************************************)

\* What is a lead, and how many bytes come after it.
Leads(b) == b \notin NeverLeads
After(b) == Len(Follow(b))

\* What leads, and what does not.
LEMMA LeadsAre ==
    /\ \A b \in {"00-7F", "C2-DF", "E0", "E1-EF", "ED", "F0", "F1-F3", "F4"} :
          Leads(b)
    /\ \A b \in ByteClasses : Leads(b) =>
          b \in {"00-7F", "C2-DF", "E0", "E1-EF", "ED", "F0", "F1-F3", "F4"}
  BY DEF Leads, NeverLeads, Continuation, ByteClasses

\* The places after a lead, in numbers.
LEMMA Numerals ==
    /\ \A k \in 1 .. 1 : k = 1 /\ k + 1 = 2
    /\ \A k \in 1 .. 2 : (k = 1 /\ k + 1 = 2) \/ (k = 2 /\ k + 1 = 3)
    /\ \A k \in 1 .. 3 : \/ k = 1 /\ k + 1 = 2
                         \/ k = 2 /\ k + 1 = 3
                         \/ k = 3 /\ k + 1 = 4
    /\ 1 \in 1 .. 1 /\ 1 \in 1 .. 2 /\ 2 \in 1 .. 2
    /\ 1 \in 1 .. 3 /\ 2 \in 1 .. 3 /\ 3 \in 1 .. 3
  <1>1. \A k \in 1 .. 1 : k = 1 /\ k + 1 = 2
    OBVIOUS
  <1>2. \A k \in 1 .. 2 : (k = 1 /\ k + 1 = 2) \/ (k = 2 /\ k + 1 = 3)
    OBVIOUS
  <1>3. \A k \in 1 .. 3 : \/ k = 1 /\ k + 1 = 2
                          \/ k = 2 /\ k + 1 = 3
                          \/ k = 3 /\ k + 1 = 4
    OBVIOUS
  <1>4. /\ 1 \in 1 .. 1 /\ 1 \in 1 .. 2 /\ 2 \in 1 .. 2
        /\ 1 \in 1 .. 3 /\ 2 \in 1 .. 3 /\ 3 \in 1 .. 3
    OBVIOUS
  <1> QED
    BY <1>1, <1>2, <1>3, <1>4

\* What is no lead, or a character of its own, has nothing follow it.
LEMMA FollowNone ==
    ASSUME NEW b, b \notin {"C2-DF", "E0", "ED", "E1-EF", "F0", "F1-F3", "F4"}
    PROVE  After(b) = 0
  BY DEF Follow, After

\* A lead of two bytes.
LEMMA FollowTwo == After("C2-DF") = 1 /\ Follow("C2-DF")[1] = Continuation
  BY DEF Follow, After

\* Leads of three.
LEMMA FollowThree ==
    /\ \A b \in {"E0", "E1-EF", "ED"} : After(b) = 2
    /\ Follow("E0")[1] = {"A0-BF"} /\ Follow("E0")[2] = Continuation
    /\ Follow("ED")[1] = {"80-8F", "90-9F"} /\ Follow("ED")[2] = Continuation
    /\ Follow("E1-EF")[1] = Continuation /\ Follow("E1-EF")[2] = Continuation
  BY DEF Follow, After

\* Leads of four.
LEMMA FollowFour ==
    /\ \A b \in {"F0", "F1-F3", "F4"} : After(b) = 3
    /\ \A b \in {"F0", "F1-F3", "F4"} : Follow(b)[2] = Continuation
    /\ \A b \in {"F0", "F1-F3", "F4"} : Follow(b)[3] = Continuation
    /\ Follow("F0")[1] = {"90-9F", "A0-BF"}
    /\ Follow("F1-F3")[1] = Continuation
    /\ Follow("F4")[1] = {"80-8F"}
  BY DEF Follow, After

\* The width of each lead, and what follows it.
LEMMA AfterIs ==
    ASSUME NEW b
    PROVE  /\ b = "00-7F" => After(b) = 0
           /\ b = "C2-DF" => After(b) = 1 /\ Follow(b)[1] = Continuation
           /\ b \in {"E0", "E1-EF", "ED"} =>
                 After(b) = 2 /\ Follow(b)[2] = Continuation
           /\ b \in {"F0", "F1-F3", "F4"} =>
                 /\ After(b) = 3 /\ Follow(b)[2] = Continuation
                 /\ Follow(b)[3] = Continuation
  <1>1. b = "00-7F" => After(b) = 0
    BY FollowNone
  <1>2. b = "C2-DF" => After(b) = 1 /\ Follow(b)[1] = Continuation
    BY FollowTwo
  <1>3. ASSUME b \in {"E0", "E1-EF", "ED"}
        PROVE  After(b) = 2 /\ Follow(b)[2] = Continuation
    <2>1. After(b) = 2
      BY <1>3, FollowThree
    <2>2. Follow(b)[2] = Continuation
      BY <1>3, FollowThree
    <2> QED
      BY <2>1, <2>2
  <1>4. ASSUME b \in {"F0", "F1-F3", "F4"}
        PROVE  /\ After(b) = 3 /\ Follow(b)[2] = Continuation
               /\ Follow(b)[3] = Continuation
    <2>1. After(b) = 3
      BY <1>4, FollowFour
    <2>2. Follow(b)[2] = Continuation /\ Follow(b)[3] = Continuation
      BY <1>4, FollowFour
    <2> QED
      BY <2>1, <2>2
  <1> QED
    BY <1>1, <1>2, <1>3, <1>4

\* No more than three bytes follow a lead, and there are such as may.
LEMMA FollowIs ==
    ASSUME NEW b \in ByteClasses
    PROVE  /\ After(b) \in 0 .. 3
           /\ \A k \in 1 .. After(b) :
                 Follow(b)[k] \subseteq ByteClasses /\ Follow(b)[k] # {}
           /\ ~Leads(b) => After(b) = 0
  <1> DEFINE Good(k) == Follow(b)[k] \subseteq ByteClasses /\ Follow(b)[k] # {}
  <1>1. \A S \in {{"A0-BF"}, {"80-8F", "90-9F"}, {"80-8F"}, {"90-9F", "A0-BF"},
                  Continuation} : S \subseteq ByteClasses /\ S # {}
    BY DEF Continuation, ByteClasses
  <1>2. CASE b = "C2-DF"
    <2>1. Leads(b) /\ \A k \in 1 .. 1 : k = 1
      BY <1>2, LeadsAre, Numerals
    <2>2. Good(1) /\ After(b) = 1
      BY <1>1, <1>2, FollowTwo
    <2> HIDE DEF Good
    <2>3. \A k \in 1 .. After(b) : Good(k)
      BY <2>1, <2>2
    <2> QED
      BY <2>1, <2>2, <2>3 DEF Good
  <1>3. CASE b \in {"E0", "E1-EF", "ED"}
    <2>1. Leads(b) /\ \A k \in 1 .. 2 : k = 1 \/ k = 2
      BY <1>3, LeadsAre, Numerals
    <2>2. Good(1)
      BY <1>1, <1>3, FollowThree
    <2>3. Good(2) /\ After(b) = 2
      BY <1>1, <1>3, FollowThree
    <2> HIDE DEF Good
    <2>4. \A k \in 1 .. After(b) : Good(k)
      BY <2>1, <2>2, <2>3
    <2> QED
      BY <2>1, <2>3, <2>4 DEF Good
  <1>4. CASE b \in {"F0", "F1-F3", "F4"}
    <2>1. Leads(b) /\ \A k \in 1 .. 3 : k = 1 \/ k = 2 \/ k = 3
      BY <1>4, LeadsAre, Numerals
    <2>2. Good(1)
      BY <1>1, <1>4, FollowFour
    <2>3. Good(2) /\ Good(3) /\ After(b) = 3
      BY <1>1, <1>4, FollowFour
    <2> HIDE DEF Good
    <2>4. \A k \in 1 .. After(b) : Good(k)
      BY <2>1, <2>2, <2>3
    <2> QED
      BY <2>1, <2>3, <2>4 DEF Good
  <1>5. CASE b \notin {"C2-DF", "E0", "ED", "E1-EF", "F0", "F1-F3", "F4"}
    <2>1. After(b) = 0 /\ 1 .. 0 = {}
      BY <1>5, FollowNone
    <2> QED
      BY <2>1
  <1> QED
    BY <1>2, <1>3, <1>4, <1>5

\* The pairs of bytes are the sequences of two, and so on.
LEMMA Members2 ==
    ASSUME NEW A, NEW B, NEW c
    PROVE  c \in A \X B <=> c = <<c[1], c[2]>> /\ c[1] \in A /\ c[2] \in B
  OBVIOUS

LEMMA Sequence2 ==
    ASSUME NEW S, NEW p \in S, NEW q \in S
    PROVE  <<p, q>> \in Seq(S) /\ Len(<<p, q>>) = 2
  OBVIOUS

LEMMA Tuples2 ==
    ASSUME NEW S, NEW A, NEW B, NEW c,
           A \subseteq S, B \subseteq S
    PROVE  c \in A \X B <=>
              c \in Seq(S) /\ Len(c) = 2 /\ c[1] \in A /\ c[2] \in B
  <1>1. ASSUME c = <<c[1], c[2]>>, c[1] \in A /\ c[2] \in B
        PROVE  c \in Seq(S) /\ Len(c) = 2
    BY <1>1, Sequence2
  <1>2. ASSUME c \in Seq(S), Len(c) = 2
        PROVE  c = <<c[1], c[2]>>
    BY <1>2
  <1> QED
    BY <1>1, <1>2, Members2

LEMMA Members3 ==
    ASSUME NEW A, NEW B, NEW C, NEW c
    PROVE  c \in A \X B \X C <=>
              /\ c = <<c[1], c[2], c[3]>>
              /\ c[1] \in A /\ c[2] \in B /\ c[3] \in C
  OBVIOUS

LEMMA Sequence3 ==
    ASSUME NEW S, NEW p \in S, NEW q \in S, NEW r \in S
    PROVE  <<p, q, r>> \in Seq(S) /\ Len(<<p, q, r>>) = 3
  OBVIOUS

LEMMA Tuples3 ==
    ASSUME NEW S, NEW A, NEW B, NEW C, NEW c,
           A \subseteq S, B \subseteq S, C \subseteq S
    PROVE  c \in A \X B \X C <=>
              /\ c \in Seq(S) /\ Len(c) = 3
              /\ c[1] \in A /\ c[2] \in B /\ c[3] \in C
  <1>1. ASSUME c = <<c[1], c[2], c[3]>>, c[1] \in A /\ c[2] \in B /\ c[3] \in C
        PROVE  c \in Seq(S) /\ Len(c) = 3
    BY <1>1, Sequence3
  <1>2. ASSUME c \in Seq(S), Len(c) = 3
        PROVE  c = <<c[1], c[2], c[3]>>
    BY <1>2
  <1> QED
    BY <1>1, <1>2, Members3

LEMMA Members4 ==
    ASSUME NEW A, NEW B, NEW C, NEW D, NEW c
    PROVE  c \in A \X B \X C \X D <=>
              /\ c = <<c[1], c[2], c[3], c[4]>>
              /\ c[1] \in A /\ c[2] \in B /\ c[3] \in C /\ c[4] \in D
  OBVIOUS

LEMMA Sequence4 ==
    ASSUME NEW S, NEW p \in S, NEW q \in S, NEW r \in S, NEW t \in S
    PROVE  <<p, q, r, t>> \in Seq(S) /\ Len(<<p, q, r, t>>) = 4
  OBVIOUS

LEMMA Tuples4 ==
    ASSUME NEW S, NEW A, NEW B, NEW C, NEW D, NEW c,
           A \subseteq S, B \subseteq S, C \subseteq S, D \subseteq S
    PROVE  c \in A \X B \X C \X D <=>
              /\ c \in Seq(S) /\ Len(c) = 4
              /\ c[1] \in A /\ c[2] \in B /\ c[3] \in C /\ c[4] \in D
  <1>1. ASSUME c = <<c[1], c[2], c[3], c[4]>>,
               c[1] \in A /\ c[2] \in B /\ c[3] \in C /\ c[4] \in D
        PROVE  c \in Seq(S) /\ Len(c) = 4
    <2>1. c[1] \in S /\ c[2] \in S /\ c[3] \in S /\ c[4] \in S
      BY <1>1
    <2>2. /\ <<c[1], c[2], c[3], c[4]>> \in Seq(S)
          /\ Len(<<c[1], c[2], c[3], c[4]>>) = 4
      BY <2>1, Sequence4
    <2> QED
      BY <1>1, <2>2
  <1>2. ASSUME c \in Seq(S), Len(c) = 4
        PROVE  c = <<c[1], c[2], c[3], c[4]>>
    BY <1>2
  <1> QED
    BY <1>1, <1>2, Members4

\* The only sequence of one byte a.
LEMMA Tuples1 ==
    ASSUME NEW S, NEW a \in S, NEW c
    PROVE  c \in {<<a>>} <=> c \in Seq(S) /\ Len(c) = 1 /\ c[1] = a
  <1>1. ASSUME c = <<a>>
        PROVE  c \in Seq(S) /\ Len(c) = 1 /\ c[1] = a
    BY <1>1
  <1>2. ASSUME c \in Seq(S), Len(c) = 1, c[1] = a
        PROVE  c = <<a>>
    BY <1>2
  <1> QED
    BY <1>1, <1>2

\* A lead, and no more than may follow it.
Shaped(c) ==
    /\ c \in Seq(ByteClasses) /\ Len(c) >= 1 /\ Leads(c[1])
    /\ Len(c) <= After(c[1]) + 1
    /\ \A k \in 1 .. Len(c) - 1 : c[k + 1] \in Follow(c[1])[k]

\* What is a lead and all that follows it, case by case.
LEMMA ShapesAre ==
    ASSUME NEW c \in Seq(ByteClasses), Len(c) >= 1
    PROVE  Shaped(c) /\ Len(c) = After(c[1]) + 1 <=>
              \/ c[1] = "00-7F" /\ Len(c) = 1
              \/ c[1] = "C2-DF" /\ Len(c) = 2 /\ c[2] \in Continuation
              \/ /\ c[1] \in {"E0", "E1-EF", "ED"} /\ Len(c) = 3
                 /\ c[2] \in Follow(c[1])[1] /\ c[3] \in Continuation
              \/ /\ c[1] \in {"F0", "F1-F3", "F4"} /\ Len(c) = 4
                 /\ c[2] \in Follow(c[1])[1] /\ c[3] \in Continuation
                 /\ c[4] \in Continuation
  <1> DEFINE b == c[1]
             Fits(n) == \A k \in 1 .. n : c[k + 1] \in Follow(b)[k]
             All == Shaped(c) /\ Len(c) = After(b) + 1
  <1>1. b \in ByteClasses
    OBVIOUS
  <1>2. /\ Fits(0) /\ (Fits(1) <=> c[2] \in Follow(b)[1])
        /\ Fits(2) <=> c[2] \in Follow(b)[1] /\ c[3] \in Follow(b)[2]
        /\ Fits(3) <=> /\ c[2] \in Follow(b)[1] /\ c[3] \in Follow(b)[2]
                       /\ c[4] \in Follow(b)[3]
    <2>1. \A n : Fits(n) <=> \A k \in 1 .. n : c[k + 1] \in Follow(b)[k]
      OBVIOUS
    <2>2. Fits(0)
      OBVIOUS
    <2>3. Fits(1) <=> c[2] \in Follow(b)[1]
      BY Numerals
    <2>4. Fits(2) <=> c[2] \in Follow(b)[1] /\ c[3] \in Follow(b)[2]
      BY Numerals
    <2>5. Fits(3) <=> /\ c[2] \in Follow(b)[1] /\ c[3] \in Follow(b)[2]
                      /\ c[4] \in Follow(b)[3]
      BY Numerals
    <2> QED
      BY <2>2, <2>3, <2>4, <2>5
  <1>3. ASSUME NEW n \in Nat, After(b) = n, Leads(b)
        PROVE  All <=> Len(c) = n + 1 /\ Fits(n)
    <2>1. (n + 1) - 1 = n
      OBVIOUS
    <2> QED
      BY <1>3, <2>1 DEF Shaped
  <1> HIDE DEF Fits, All
  <1>4. CASE b = "00-7F"
    <2>1. Leads(b) /\ After(b) = 0
      BY <1>4, AfterIs, LeadsAre
    <2>2. All <=> Len(c) = 0 + 1 /\ Fits(0)
      BY <1>3, <2>1
    <2>3. All <=> Len(c) = 1
      BY <1>2, <2>1, <2>2
    <2> QED
      BY <1>4, <2>3 DEF All
  <1>5. CASE b = "C2-DF"
    <2>1. Leads(b) /\ After(b) = 1 /\ Follow(b)[1] = Continuation
      BY <1>5, AfterIs, LeadsAre
    <2>2. All <=> Len(c) = 1 + 1 /\ Fits(1)
      BY <1>3, <2>1
    <2>3. All <=> Len(c) = 2 /\ c[2] \in Continuation
      BY <1>2, <2>1, <2>2
    <2> QED
      BY <1>5, <2>3 DEF All
  <1>6. CASE b \in {"E0", "E1-EF", "ED"}
    <2>1. Leads(b) /\ After(b) = 2 /\ Follow(b)[2] = Continuation
      BY <1>6, AfterIs, LeadsAre
    <2>2. All <=> Len(c) = 2 + 1 /\ Fits(2)
      BY <1>3, <2>1
    <2>3. All <=> Len(c) = 3 /\ c[2] \in Follow(b)[1] /\ c[3] \in Continuation
      BY <1>2, <2>1, <2>2
    <2> QED
      BY <1>6, <2>3 DEF All
  <1>7. CASE b \in {"F0", "F1-F3", "F4"}
    <2>1. /\ Leads(b) /\ After(b) = 3
          /\ Follow(b)[2] = Continuation /\ Follow(b)[3] = Continuation
      BY <1>7, AfterIs, LeadsAre
    <2>2. All <=> Len(c) = 3 + 1 /\ Fits(3)
      BY <1>3, <2>1
    <2>3. All <=> /\ Len(c) = 4 /\ c[2] \in Follow(b)[1]
                  /\ c[3] \in Continuation /\ c[4] \in Continuation
      BY <1>2, <2>1, <2>2
    <2> QED
      BY <1>7, <2>3 DEF All
  <1>8. CASE ~Leads(b)
    BY <1>8, LeadsAre DEF Shaped
  <1> QED
    BY <1>1, <1>4, <1>5, <1>6, <1>7, <1>8, LeadsAre

\* A character is a lead, and all that may follow it.
LEMMA CharactersAre ==
    ASSUME NEW c
    PROVE  c \in Characters <=>
              c \in Seq(ByteClasses) /\ Shaped(c) /\ Len(c) = After(c[1]) + 1
  <1> DEFINE B == ByteClasses
  <1>1. /\ Continuation \in SUBSET B /\ {"A0-BF"} \in SUBSET B
        /\ {"80-8F", "90-9F"} \in SUBSET B /\ {"80-8F"} \in SUBSET B
        /\ {"90-9F", "A0-BF"} \in SUBSET B /\ {"C2-DF"} \in SUBSET B
        /\ {"E0"} \in SUBSET B /\ {"ED"} \in SUBSET B /\ {"E1-EF"} \in SUBSET B
        /\ {"F0"} \in SUBSET B /\ {"F1-F3"} \in SUBSET B /\ {"F4"} \in SUBSET B
        /\ "00-7F" \in B
    BY DEF Continuation, ByteClasses
  <1> DEFINE In2(X, Y) == /\ c \in Seq(B) /\ Len(c) = 2
                          /\ c[1] \in X /\ c[2] \in Y
             In3(X, Y) == /\ c \in Seq(B) /\ Len(c) = 3
                          /\ c[1] \in X /\ c[2] \in Y
                          /\ c[3] \in Continuation
             In4(X, Y) == /\ c \in Seq(B) /\ Len(c) = 4
                          /\ c[1] \in X /\ c[2] \in Y
                          /\ c[3] \in Continuation /\ c[4] \in Continuation
  <1>2. c \in {<<"00-7F">>} <=> c \in Seq(B) /\ Len(c) = 1 /\ c[1] = "00-7F"
    BY <1>1, Tuples1
  <1>3. c \in {"C2-DF"} \X Continuation <=> In2({"C2-DF"}, Continuation)
    BY <1>1, Tuples2
  <1>4. c \in {"E0"} \X {"A0-BF"} \X Continuation <=> In3({"E0"}, {"A0-BF"})
    BY <1>1, Tuples3
  <1>5. c \in {"ED"} \X {"80-8F", "90-9F"} \X Continuation
           <=> In3({"ED"}, {"80-8F", "90-9F"})
    BY <1>1, Tuples3
  <1>6. c \in {"E1-EF"} \X Continuation \X Continuation
           <=> In3({"E1-EF"}, Continuation)
    BY <1>1, Tuples3
  <1>7. c \in {"F0"} \X {"90-9F", "A0-BF"} \X Continuation \X Continuation
           <=> In4({"F0"}, {"90-9F", "A0-BF"})
    BY <1>1, Tuples4
  <1>8. c \in {"F1-F3"} \X Continuation \X Continuation \X Continuation
           <=> In4({"F1-F3"}, Continuation)
    BY <1>1, Tuples4
  <1>9. c \in {"F4"} \X {"80-8F"} \X Continuation \X Continuation
           <=> In4({"F4"}, {"80-8F"})
    BY <1>1, Tuples4
  <1>10. c \in Characters <=>
            \/ c \in Seq(B) /\ Len(c) = 1 /\ c[1] = "00-7F"
            \/ In2({"C2-DF"}, Continuation)
            \/ In3({"E0"}, {"A0-BF"}) \/ In3({"ED"}, {"80-8F", "90-9F"})
            \/ In3({"E1-EF"}, Continuation)
            \/ In4({"F0"}, {"90-9F", "A0-BF"}) \/ In4({"F1-F3"}, Continuation)
            \/ In4({"F4"}, {"80-8F"})
    <2> HIDE DEF In2, In3, In4
    <2> QED
      BY <1>2, <1>3, <1>4, <1>5, <1>6, <1>7, <1>8, <1>9 DEF Characters
  <1>11. CASE c \in Seq(B) /\ Len(c) >= 1
    BY <1>10, <1>11, ShapesAre, FollowThree, FollowFour DEF B
  <1>12. CASE ~(c \in Seq(B) /\ Len(c) >= 1)
    BY <1>10, <1>12 DEF B, Shaped
  <1> QED
    BY <1>11, <1>12

-----------------------------------------------------------------------------
(***************************************************************************)
(* What is found at a place of the bytes.                                  *)
(***************************************************************************)

\* n bytes after s[i] are as they should be, and the next is not.
Stops(s, i, n) ==
    LET f == Follow(s[i]) IN
    /\ n \in 0 .. After(s[i]) /\ i + n <= Len(s)
    /\ \A j \in 1 .. n : s[i + j] \in f[j]
    /\ n = After(s[i]) \/ i + n = Len(s) \/ s[i + n + 1] \notin f[n + 1]

\* There is one such number of bytes.
LEMMA StopsOnce ==
    ASSUME NEW s \in Seq(ByteClasses), NEW i \in 1 .. Len(s), NEW n, NEW m,
           Stops(s, i, n), Stops(s, i, m)
    PROVE  n = m
  <1>1. Len(s) \in Nat /\ s[i] \in ByteClasses
    OBVIOUS
  <1>2. After(s[i]) \in Nat
    BY <1>1, FollowIs
  <1>3. n \in Nat /\ m \in Nat
    BY <1>2 DEF Stops
  <1>4. ~(n < m)
    BY <1>1, <1>2, <1>3 DEF Stops
  <1>5. ~(m < n)
    BY <1>1, <1>2, <1>3 DEF Stops
  <1> QED
    BY <1>3, <1>4, <1>5

\* It is Matching: the CHOOSE of its definition has something to choose.
LEMMA MatchingStops ==
    ASSUME NEW s \in Seq(ByteClasses), NEW i \in 1 .. Len(s)
    PROVE  Stops(s, i, Matching(s, i))
  <1> DEFINE f == Follow(s[i])
             E == {n \in Nat : n = After(s[i]) \/ i + n = Len(s)
                                \/ s[i + n + 1] \notin f[n + 1]}
  <1>1. Len(s) \in Nat /\ s[i] \in ByteClasses
    OBVIOUS
  <1>2. After(s[i]) \in Nat
    BY <1>1, FollowIs
  <1>3. After(s[i]) \in E /\ Len(s) - i \in E
    BY <1>1, <1>2
  <1>4. PICK n \in E : \A m \in E : n <= m
    BY <1>3, LeastNatural
  <1>5. Stops(s, i, n)
    <2>1. n <= After(s[i]) /\ n <= Len(s) - i
      BY <1>3, <1>4
    <2>2. ASSUME NEW j \in 1 .. n
          PROVE  s[i + j] \in f[j]
      <3>1. j - 1 \in Nat /\ j - 1 \notin E
        <4>1. j - 1 \in Nat /\ ~(n <= j - 1)
          BY <1>4
        <4> QED
          BY <1>4, <4>1
      <3>2. i + (j - 1) + 1 = i + j /\ (j - 1) + 1 = j
        OBVIOUS
      <3> QED
        BY <3>1, <3>2
    <2> QED
      BY <1>1, <1>2, <1>4, <2>1, <2>2 DEF Stops
  <1>6. \E k \in 0 .. After(s[i]) :
           /\ i + k <= Len(s) /\ \A j \in 1 .. k : s[i + j] \in f[j]
           /\ k = After(s[i]) \/ i + k = Len(s) \/ s[i + k + 1] \notin f[k + 1]
    BY <1>5 DEF Stops
  <1> QED
    BY <1>6 DEF Stops, Matching, After

\* What a subsequence is.
LEMMA SubSeqIs ==
    ASSUME NEW S, NEW s \in Seq(S), NEW i \in 1 .. Len(s), NEW n \in Nat,
           n >= 1, i + n - 1 <= Len(s)
    PROVE  /\ SubSeq(s, i, i + n - 1) \in Seq(S)
           /\ Len(SubSeq(s, i, i + n - 1)) = n
           /\ \A k \in 1 .. n : SubSeq(s, i, i + n - 1)[k] = s[i + k - 1]
  OBVIOUS

\* The beginnings of characters, in the same way.
LEMMA BeginningsAre ==
    ASSUME NEW b \in Seq(ByteClasses), Len(b) >= 1
    PROVE  b \in Beginnings <=> Shaped(b)
  <1>1. ASSUME b \in Beginnings
        PROVE  Shaped(b)
    <2>0. PICK c \in Characters : \E n \in 1 .. Len(c) : b = SubSeq(c, 1, n)
      BY <1>1 DEF Beginnings
    <2>1. PICK n \in 1 .. Len(c) : b = SubSeq(c, 1, n)
      BY <2>0
    <2>2. /\ c \in Seq(ByteClasses) /\ Len(c) \in Nat /\ Leads(c[1])
          /\ Len(c) <= After(c[1]) + 1
          /\ \A k \in 1 .. Len(c) - 1 : c[k + 1] \in Follow(c[1])[k]
      BY CharactersAre DEF Shaped
    <2>3. Len(b) = n /\ \A k \in 1 .. n : b[k] = c[k]
      BY <2>1, <2>2, SubSeqIs
    <2>4. After(c[1]) \in Nat
      <3>1. c[1] \in ByteClasses
        BY <2>2
      <3> QED
        BY <3>1, FollowIs
    <2>5. b[1] = c[1] /\ n <= After(b[1]) + 1
      BY <2>2, <2>3, <2>4
    <2>6. ASSUME NEW k \in 1 .. Len(b) - 1
          PROVE  b[k + 1] \in Follow(b[1])[k]
      <3>1. k \in 1 .. Len(c) - 1 /\ k + 1 \in 1 .. n
        BY <2>2, <2>3
      <3> QED
        BY <2>2, <2>3, <2>5, <3>1
    <2> QED
      BY <2>2, <2>3, <2>5, <2>6 DEF Shaped
  <1>2. ASSUME Shaped(b)
        PROVE  b \in Beginnings
    <2> DEFINE m == After(b[1])
               f == Follow(b[1])
               c == [k \in 1 .. m + 1 |->
                        IF k <= Len(b) THEN b[k]
                        ELSE CHOOSE x \in f[k - 1] : TRUE]
    <2>1. /\ b[1] \in ByteClasses /\ Len(b) \in 1 .. m + 1
          /\ m \in Nat /\ Leads(b[1])
          /\ \A k \in 1 .. m : f[k] \subseteq ByteClasses /\ f[k] # {}
          /\ \A k \in 1 .. Len(b) - 1 : b[k + 1] \in f[k]
      <3>1. b[1] \in ByteClasses /\ Len(b) \in Nat
        OBVIOUS
      <3>2. /\ m \in 0 .. 3
            /\ \A k \in 1 .. m : f[k] \subseteq ByteClasses /\ f[k] # {}
        BY <3>1, FollowIs
      <3> QED
        BY <1>2, <3>1, <3>2 DEF Shaped
    <2> HIDE DEF m, f
    <2>2. ASSUME NEW k \in 1 .. m
          PROVE  c[k + 1] \in f[k] /\ f[k] \subseteq ByteClasses
      <3> HIDE DEF c
      <3>0. m \in Nat
        BY <2>1
      <3>1. k + 1 \in 1 .. m + 1 /\ (k + 1) - 1 = k
        BY <3>0
      <3>4. f[k] # {}
        BY <2>1
      <3> USE DEF c
      <3>2. CASE k + 1 <= Len(b)
        BY <2>1, <3>1, <3>2, <3>4
      <3>3. CASE ~(k + 1 <= Len(b))
        BY <2>1, <3>1, <3>3, <3>4
      <3> QED
        BY <2>1, <3>2, <3>3
    <2>3. c[1] = b[1] /\ \A k \in 1 .. Len(b) : c[k] = b[k]
      BY <2>1
    <2>4. \A k \in 1 .. m + 1 : c[k] \in ByteClasses
      <3>1. ASSUME NEW k \in 1 .. m + 1
            PROVE  c[k] \in ByteClasses
        <4>1. CASE k = 1
          BY <2>1, <2>3, <4>1
        <4>2. CASE k # 1
          <5>1. k - 1 \in 1 .. m /\ (k - 1) + 1 = k
            BY <2>1, <4>2
          <5> HIDE DEF c
          <5> QED
            BY <2>2, <5>1
        <4> QED
          BY <4>1, <4>2
      <3> QED
        BY <3>1
    <2>5. c \in Seq(ByteClasses) /\ Len(c) = m + 1
      BY <2>1, <2>4
    <2> HIDE DEF c
    <2>6. c \in Characters
      <3>1. \A k \in 1 .. Len(c) - 1 : c[k + 1] \in Follow(c[1])[k]
        BY <2>1, <2>2, <2>3, <2>5 DEF f
      <3>2. Shaped(c) /\ Len(c) = After(c[1]) + 1
        BY <2>1, <2>3, <2>5, <3>1 DEF Shaped, m
      <3> QED
        BY <2>5, <3>2, CharactersAre
    <2>7. SubSeq(c, 1, Len(b)) = b
      <3>1. /\ SubSeq(c, 1, Len(b)) \in Seq(ByteClasses)
            /\ Len(SubSeq(c, 1, Len(b))) = Len(b)
            /\ \A k \in 1 .. Len(b) : SubSeq(c, 1, Len(b))[k] = c[k]
        BY <2>1, <2>5, SubSeqIs
      <3> QED
        BY <2>3, <3>1
    <2>8. Len(b) \in 1 .. Len(c)
      <3> HIDE DEF m
      <3> QED
        BY <2>1, <2>5, SMTT(30)
    <2>9. b \in {SubSeq(c, 1, n) : n \in 1 .. Len(c)}
      BY <2>7, <2>8
    <2> QED
      BY <2>6, <2>9 DEF Beginnings
  <1> QED
    BY <1>1, <1>2

\* Of the bytes from the i-th on, so many as begin a character.
LEMMA BeginningAt ==
    ASSUME NEW s \in Seq(ByteClasses), NEW i \in 1 .. Len(s), NEW n \in Nat,
           n >= 1, i + n - 1 <= Len(s)
    PROVE  /\ SubSeq(s, i, i + n - 1) \in Beginnings <=>
                 /\ Leads(s[i]) /\ n <= After(s[i]) + 1
                 /\ \A k \in 1 .. n - 1 : s[i + k] \in Follow(s[i])[k]
           /\ SubSeq(s, i, i + n - 1) \in Characters <=>
                 SubSeq(s, i, i + n - 1) \in Beginnings /\ n = After(s[i]) + 1
  <1> DEFINE c == SubSeq(s, i, i + n - 1)
  <1>1. /\ c \in Seq(ByteClasses) /\ Len(c) = n
        /\ \A k \in 1 .. n : c[k] = s[i + k - 1]
    BY SubSeqIs
  <1> HIDE DEF c
  <1>2. c[1] = s[i]
    BY <1>1
  <1>3. \A k \in 1 .. n - 1 : c[k + 1] = s[i + k]
    BY <1>1
  <1>4. c \in Beginnings <=> Shaped(c)
    BY <1>1, BeginningsAre
  <1>5. Shaped(c) <=> /\ Leads(s[i]) /\ n <= After(s[i]) + 1
                      /\ \A k \in 1 .. n - 1 : s[i + k] \in Follow(s[i])[k]
    BY <1>1, <1>2, <1>3 DEF Shaped
  <1>6. c \in Characters <=> Shaped(c) /\ n = After(s[i]) + 1
    BY <1>1, <1>2, CharactersAre
  <1> QED
    BY <1>4, <1>5, <1>6 DEF c

\* The same with one byte more.
LEMMA LongerAt ==
    ASSUME NEW s \in Seq(ByteClasses), NEW i \in 1 .. Len(s), NEW n \in Nat,
           n >= 1, i + n <= Len(s)
    PROVE  SubSeq(s, i, i + n) \in Beginnings <=>
              /\ Leads(s[i]) /\ n <= After(s[i])
              /\ \A k \in 1 .. n : s[i + k] \in Follow(s[i])[k]
  <1>1. i + (n + 1) - 1 = i + n /\ (n + 1) - 1 = n /\ n + 1 \in Nat /\ n + 1 >= 1
    OBVIOUS
  <1>2. s[i] \in ByteClasses
    OBVIOUS
  <1>3. After(s[i]) \in Nat
    BY <1>2, FollowIs
  <1>4. SubSeq(s, i, i + (n + 1) - 1) \in Beginnings <=>
             /\ Leads(s[i]) /\ n + 1 <= After(s[i]) + 1
             /\ \A k \in 1 .. (n + 1) - 1 : s[i + k] \in Follow(s[i])[k]
    <2> DEFINE m == n + 1
    <2>1. m \in Nat /\ m >= 1 /\ i + m - 1 <= Len(s)
      OBVIOUS
    <2> HIDE DEF m
    <2>2. SubSeq(s, i, i + m - 1) \in Beginnings <=>
             /\ Leads(s[i]) /\ m <= After(s[i]) + 1
             /\ \A k \in 1 .. m - 1 : s[i + k] \in Follow(s[i])[k]
      BY <2>1, BeginningAt
    <2> QED
      BY <2>2 DEF m
  <1> QED
    BY <1>1, <1>3, <1>4

\* What from_utf8_lossy takes at i is what from_utf8 looks at there.
Takes(s, i, n) ==
    /\ i + n - 1 <= Len(s)
    /\ n = 1 \/ SubSeq(s, i, i + n - 1) \in Beginnings
    /\ i + n > Len(s) \/ SubSeq(s, i, i + n) \notin Beginnings

\* It takes the lead and what Matching counts.
LEMMA TakesMatching ==
    ASSUME NEW s \in Seq(ByteClasses), NEW i \in 1 .. Len(s), NEW n \in 1 .. 4
    PROVE  Takes(s, i, n) <=> n = Matching(s, i) + 1
  <1> DEFINE f == Follow(s[i])
             m == Matching(s, i)
  <1>1. s[i] \in ByteClasses /\ Len(s) \in Nat /\ After(s[i]) \in 0 .. 3
    <2>1. s[i] \in ByteClasses /\ Len(s) \in Nat
      OBVIOUS
    <2> QED
      BY <2>1, FollowIs
  <1>2. Stops(s, i, m) /\ m \in Nat
    BY <1>1, MatchingStops DEF Stops, After
  <1>3. CASE ~Leads(s[i])
    <2>1. m = 0
      BY <1>1, <1>2, <1>3, FollowIs DEF Stops, After
    <2>2. n \in Nat /\ n >= 1 /\ 1 \in Nat
      OBVIOUS
    <2>3. i + n - 1 <= Len(s) => SubSeq(s, i, i + n - 1) \notin Beginnings
      BY <1>3, <2>2, BeginningAt
    <2>4. i + 1 <= Len(s) => SubSeq(s, i, i + 1) \notin Beginnings
      BY <1>3, <2>2, LongerAt
    <2> QED
      BY <1>1, <2>1, <2>2, <2>3, <2>4 DEF Takes
  <1>4. CASE Leads(s[i])
    <2>1. i + n - 1 <= Len(s) =>
             (n = 1 \/ SubSeq(s, i, i + n - 1) \in Beginnings <=>
                /\ n <= After(s[i]) + 1
                /\ \A k \in 1 .. n - 1 : s[i + k] \in f[k])
      <3>1. CASE n = 1
        BY <1>1, <3>1
      <3>2. CASE n # 1
        <4>1. n \in Nat /\ n >= 1
          OBVIOUS
        <4>2. i + n - 1 <= Len(s) =>
                 (SubSeq(s, i, i + n - 1) \in Beginnings <=>
                     /\ Leads(s[i]) /\ n <= After(s[i]) + 1
                     /\ \A k \in 1 .. n - 1 : s[i + k] \in Follow(s[i])[k])
          BY <4>1, BeginningAt
        <4> QED
          BY <1>4, <3>2, <4>2
      <3> QED
        BY <3>1, <3>2
    <2>2. i + n <= Len(s) =>
             (SubSeq(s, i, i + n) \in Beginnings <=>
                /\ n <= After(s[i])
                /\ \A k \in 1 .. n : s[i + k] \in f[k])
      <3>1. n \in Nat /\ n >= 1
        OBVIOUS
      <3>2. i + n <= Len(s) =>
               (SubSeq(s, i, i + n) \in Beginnings <=>
                   /\ Leads(s[i]) /\ n <= After(s[i])
                   /\ \A k \in 1 .. n : s[i + k] \in Follow(s[i])[k])
        BY <3>1, LongerAt
      <3> QED
        BY <1>4, <3>2
    <2> HIDE DEF f
    <2>3. Takes(s, i, n) <=>
             /\ i + n - 1 <= Len(s) /\ n <= After(s[i]) + 1
             /\ \A k \in 1 .. n - 1 : s[i + k] \in f[k]
             /\ i + n > Len(s) \/ n > After(s[i]) \/ s[i + n] \notin f[n]
      <3>1. ASSUME i + n - 1 <= Len(s),
                   \A k \in 1 .. n - 1 : s[i + k] \in f[k]
            PROVE  (\A k \in 1 .. n : s[i + k] \in f[k]) <=> s[i + n] \in f[n]
        BY <3>1
      <3> QED
        BY <1>1, <2>1, <2>2, <3>1 DEF Takes
    <2>4. Takes(s, i, n) <=> Stops(s, i, n - 1)
      <3> DEFINE p == n - 1
      <3>1. /\ i + p = i + n - 1 /\ i + p + 1 = i + n /\ p + 1 = n
            /\ p \in Nat /\ n <= After(s[i]) + 1 <=> p \in 0 .. After(s[i])
        BY <1>1
      <3>2. Stops(s, i, p) <=>
               /\ p \in 0 .. After(s[i]) /\ i + p <= Len(s)
               /\ \A k \in 1 .. p : s[i + k] \in f[k]
               /\ \/ p = After(s[i]) \/ i + p = Len(s)
                  \/ s[i + p + 1] \notin f[p + 1]
        BY DEF Stops, f
      <3> QED
        BY <1>1, <2>3, <3>1, <3>2
    <2> QED
      BY <1>2, <2>4, StopsOnce
  <1> QED
    BY <1>3, <1>4

-----------------------------------------------------------------------------
(***************************************************************************)
(* The two loops: that there are functions as they define, and what these  *)
(* are.                                                                    *)
(***************************************************************************)

Texts       == Seq(Seq(ByteClasses \cup {"U+FFFD"}))
NextAt(s, i)  == i + Matching(s, i) + 1
WholeAt(s, i) == Leads(s[i]) /\ Matching(s, i) = After(s[i])
OpenAt(s, i)  == /\ Leads(s[i]) /\ Matching(s, i) < After(s[i])
               /\ i + Matching(s, i) = Len(s)
PieceAt(s, i) == IF WholeAt(s, i) THEN SubSeq(s, i, i + Matching(s, i))
               ELSE Replacement

\* What a place of the bytes can be.
LEMMA MatchingIs ==
    ASSUME NEW s \in Seq(ByteClasses), NEW i \in 1 .. Len(s)
    PROVE  /\ s[i] \in ByteClasses /\ After(s[i]) \in 0 .. 3
           /\ Matching(s, i) \in 0 .. After(s[i]) /\ i + Matching(s, i) <= Len(s)
           /\ ~Leads(s[i]) => After(s[i]) = 0
           /\ NextAt(s, i) \in i + 1 .. Len(s) + 1
           /\ NextAt(s, i) \in 1 .. Len(s) + 1
  <1>1. s[i] \in ByteClasses /\ Len(s) \in Nat
    OBVIOUS
  <1>2. After(s[i]) \in 0 .. 3 /\ (~Leads(s[i]) => After(s[i]) = 0)
    BY <1>1, FollowIs
  <1>3. Stops(s, i, Matching(s, i))
    BY MatchingStops
  <1>4. Matching(s, i) \in 0 .. After(s[i]) /\ i + Matching(s, i) <= Len(s)
    BY <1>3 DEF Stops
  <1> HIDE DEF Matching, After
  <1> QED
    BY <1>1, <1>2, <1>4 DEF NextAt

\* What is made of it is text.
LEMMA PieceIs ==
    ASSUME NEW s \in Seq(ByteClasses), NEW i \in 1 .. Len(s)
    PROVE  PieceAt(s, i) \in Seq(ByteClasses \cup {"U+FFFD"})
  <1>1. Replacement \in Seq(ByteClasses \cup {"U+FFFD"})
    BY DEF Replacement
  <1>2. SubSeq(s, i, i + Matching(s, i)) \in Seq(ByteClasses)
    <2> DEFINE m == Matching(s, i)
    <2>1. m \in Nat /\ i + m <= Len(s)
      BY MatchingIs
    <2> HIDE DEF m
    <2>2. SubSeq(s, i, i + m) \in Seq(ByteClasses)
      BY <2>1
    <2> QED
      BY <2>2 DEF m
  <1>3. SubSeq(s, i, i + Matching(s, i)) \in Seq(ByteClasses \cup {"U+FFFD"})
    BY <1>2
  <1> QED
    BY <1>1, <1>3 DEF PieceAt

\* What from_utf8_lossy takes.
LEMMA TakenIs ==
    ASSUME NEW s \in Seq(ByteClasses), NEW i \in 1 .. Len(s)
    PROVE  /\ (CHOOSE n \in 1 .. 4 : Takes(s, i, n)) = Matching(s, i) + 1
           /\ SubSeq(s, i, i + Matching(s, i)) \in Characters <=> WholeAt(s, i)
  <1> DEFINE m == Matching(s, i)
  <1>1. /\ m \in 0 .. After(s[i]) /\ After(s[i]) \in 0 .. 3 /\ i + m <= Len(s)
        /\ i + (m + 1) - 1 = i + m /\ m + 1 \in 1 .. 4
    <2>1. m \in 0 .. After(s[i]) /\ After(s[i]) \in 0 .. 3 /\ i + m <= Len(s)
      BY MatchingIs
    <2> HIDE DEF m
    <2>2. m \in Nat /\ m <= 3
      BY <2>1
    <2> QED
      BY <2>1, <2>2
  <1>2. \A n \in 1 .. 4 : Takes(s, i, n) <=> n = m + 1
    BY TakesMatching
  <1>3. Stops(s, i, m)
    BY MatchingStops
  <1> HIDE DEF m
  <1>4. (CHOOSE n \in 1 .. 4 : Takes(s, i, n)) = m + 1
    BY <1>1, <1>2
  <1>5. \A k \in 1 .. m : s[i + k] \in Follow(s[i])[k]
    BY <1>3 DEF Stops
  <1>6. SubSeq(s, i, i + m) \in Characters <=> Leads(s[i]) /\ m = After(s[i])
    <2> DEFINE n == m + 1
    <2>1. n \in Nat /\ n >= 1 /\ i + n - 1 <= Len(s) /\ n - 1 = m
      BY <1>1
    <2>0. n <= After(s[i]) + 1 /\ (n = After(s[i]) + 1 <=> m = After(s[i]))
      BY <1>1
    <2> HIDE DEF n
    <2>2. /\ SubSeq(s, i, i + n - 1) \in Beginnings <=>
                 /\ Leads(s[i]) /\ n <= After(s[i]) + 1
                 /\ \A k \in 1 .. n - 1 : s[i + k] \in Follow(s[i])[k]
          /\ SubSeq(s, i, i + n - 1) \in Characters <=>
                 SubSeq(s, i, i + n - 1) \in Beginnings /\ n = After(s[i]) + 1
      BY <2>1, BeginningAt
    <2>3. i + n - 1 = i + m
      BY <1>1, <2>1
    <2> QED
      BY <1>5, <2>0, <2>1, <2>2, <2>3
  <1> QED
    BY <1>4, <1>6 DEF WholeAt, m

\* The body of the function that Lossy defines, and the function.
LossyFun(s, g) ==
    [i \in 1 .. Len(s) + 1 |->
        IF i > Len(s) THEN <<>>
        ELSE LET n == CHOOSE n \in 1 .. 4 : Takes(s, i, n)
                 c == SubSeq(s, i, i + n - 1) IN
             <<IF c \in Characters THEN c ELSE Replacement>> \o g[i + n]]
LossyRec(s) == CHOOSE g : g = LossyFun(s, g)

\* Lossy is what the function is at 1.
LEMMA LossyIsRec ==
    ASSUME NEW s
    PROVE  Lossy(s) = LossyRec(s)[1]
  BY DEF Lossy, LossyRec, LossyFun, Takes

\* It is a function.
LEMMA LossyFunIsOne ==
    ASSUME NEW s, NEW g
    PROVE  LossyFun(s, g) =
              [i \in DOMAIN LossyFun(s, g) |-> LossyFun(s, g)[i]]
  BY DEF LossyFun

\* The body of its definition, by what is found at i.
LEMMA LossyFunIs ==
    ASSUME NEW s \in Seq(ByteClasses), NEW g
    PROVE  /\ DOMAIN LossyFun(s, g) = 1 .. Len(s) + 1
           /\ LossyFun(s, g)[Len(s) + 1] = <<>>
           /\ \A i \in 1 .. Len(s) :
                 LossyFun(s, g)[i] = <<PieceAt(s, i)>> \o g[NextAt(s, i)]
  <1>1. Len(s) \in Nat
    OBVIOUS
  <1>2. DOMAIN LossyFun(s, g) = 1 .. Len(s) + 1
    BY DEF LossyFun
  <1>3. LossyFun(s, g)[Len(s) + 1] = <<>>
    BY <1>1 DEF LossyFun
  <1>4. ASSUME NEW i \in 1 .. Len(s)
        PROVE  LossyFun(s, g)[i] = <<PieceAt(s, i)>> \o g[NextAt(s, i)]
    <2> DEFINE n == CHOOSE n \in 1 .. 4 : Takes(s, i, n)
               c == SubSeq(s, i, i + n - 1)
    <2>1. LossyFun(s, g)[i] =
             <<IF c \in Characters THEN c ELSE Replacement>> \o g[i + n]
      <3>1. i \in 1 .. Len(s) + 1 /\ ~(i > Len(s))
        BY <1>1
      <3> QED
        BY <3>1 DEF LossyFun
    <2>2. n = Matching(s, i) + 1
      BY TakenIs
    <2>3. i + n - 1 = i + Matching(s, i) /\ i + n = NextAt(s, i)
      <3>1. Matching(s, i) \in Nat
        BY MatchingIs
      <3> HIDE DEF n
      <3> QED
        BY <2>2, <3>1 DEF NextAt
    <2>4. c = SubSeq(s, i, i + Matching(s, i))
      BY <2>3
    <2>5. (IF c \in Characters THEN c ELSE Replacement) = PieceAt(s, i)
      BY <2>4, TakenIs DEF PieceAt
    <2> HIDE DEF n, c
    <2> QED
      BY <2>1, <2>3, <2>5
  <1> QED
    BY <1>2, <1>3, <1>4

\* There is such a function: it obeys its definition.
LEMMA LossyRecIs ==
    ASSUME NEW s \in Seq(ByteClasses)
    PROVE  /\ \A i \in 1 .. Len(s) + 1 : LossyRec(s)[i] \in Texts
           /\ LossyRec(s)[Len(s) + 1] = <<>>
           /\ \A i \in 1 .. Len(s) :
                 LossyRec(s)[i] = <<PieceAt(s, i)>> \o LossyRec(s)[NextAt(s, i)]
  <1> DEFINE N == Len(s)
             next == [i \in 1 .. N |-> NextAt(s, i)]
             h == [i \in 1 .. N |-> [v \in Texts |-> <<PieceAt(s, i)>> \o v]]
  <1>1. N \in Nat /\ <<>> \in Texts
    BY DEF Texts
  <1>2. next \in [1 .. N -> 1 .. N + 1] /\ \A i \in 1 .. N : next[i] > i
    <2>1. \A i \in 1 .. N : NextAt(s, i) \in 1 .. N + 1 /\ NextAt(s, i) > i
      BY MatchingIs
    <2> QED
      BY <2>1
  <1>3. ASSUME NEW i \in 1 .. N, NEW v \in Texts
        PROVE  <<PieceAt(s, i)>> \o v \in Texts
    <2>1. <<PieceAt(s, i)>> \in Texts
      BY PieceIs DEF Texts
    <2> QED
      BY <2>1 DEF Texts
  <1>4. h \in [1 .. N -> [Texts -> Texts]]
    BY <1>3
  <1>5. PICK g \in [1 .. N + 1 -> Texts] : Recurs(N, <<>>, next, h, g)
    <2> DEFINE z == <<>>
    <2>1. z \in Texts
      BY <1>1
    <2> HIDE DEF N, next, h, z
    <2>2. Onward(N, next)
      BY <1>2 DEF Onward
    <2>3. \E g \in [1 .. N + 1 -> Texts] : Recurs(N, z, next, h, g)
      BY <1>1, <1>4, <2>1, <2>2, RecurBackwards
    <2> QED
      BY <2>3 DEF z
  <1>6. \A i \in 1 .. N : g[i] = <<PieceAt(s, i)>> \o g[NextAt(s, i)]
    <2> SUFFICES ASSUME NEW i \in 1 .. N
                 PROVE  g[i] = <<PieceAt(s, i)>> \o g[NextAt(s, i)]
      OBVIOUS
    <2>1. next[i] = NextAt(s, i) /\ NextAt(s, i) \in 1 .. N + 1
      BY <1>2
    <2>2. g[NextAt(s, i)] \in Texts
      BY <2>1
    <2>3. h[i][g[NextAt(s, i)]] = <<PieceAt(s, i)>> \o g[NextAt(s, i)]
      BY <2>2
    <2>4. g[i] = h[i][g[next[i]]]
      BY <1>5 DEF Recurs
    <2> QED
      BY <2>1, <2>3, <2>4
  <1>7. g = LossyFun(s, g)
    <2>1. /\ DOMAIN LossyFun(s, g) = 1 .. N + 1 /\ LossyFun(s, g)[N + 1] = <<>>
          /\ \A i \in 1 .. N :
                LossyFun(s, g)[i] = <<PieceAt(s, i)>> \o g[NextAt(s, i)]
      BY LossyFunIs
    <2>2. \A i \in 1 .. N + 1 : i = N + 1 \/ i \in 1 .. N
      BY <1>1
    <2>3. \A i \in 1 .. N + 1 : g[i] = LossyFun(s, g)[i]
      BY <1>5, <1>6, <2>1, <2>2 DEF Recurs
    <2>4. LossyFun(s, g) = [i \in 1 .. N + 1 |-> LossyFun(s, g)[i]]
      <3> HIDE DEF N
      <3> QED
        BY <2>1, LossyFunIsOne
    <2> QED
      BY <2>3, <2>4
  <1> DEFINE G == LossyRec(s)
  <1>8. G = LossyFun(s, G)
    BY <1>7 DEF LossyRec
  <1>9. /\ G[N + 1] = <<>>
        /\ \A i \in 1 .. N : G[i] = <<PieceAt(s, i)>> \o G[NextAt(s, i)]
    <2> HIDE DEF G
    <2>1. /\ LossyFun(s, G)[N + 1] = <<>>
          /\ \A i \in 1 .. N :
                LossyFun(s, G)[i] = <<PieceAt(s, i)>> \o G[NextAt(s, i)]
      BY LossyFunIs
    <2> QED
      BY <1>8, <2>1
  <1>10. 1 .. N + 1 \subseteq {i \in 1 .. N + 1 : G[i] \in Texts}
    <2> DEFINE S == {i \in 1 .. N + 1 : G[i] \in Texts}
    <2>1. N + 1 \in S
      BY <1>1, <1>9
    <2>2. ASSUME NEW i \in 1 .. N, \A j \in i + 1 .. N + 1 : j \in S
          PROVE  i \in S
      <3>1. NextAt(s, i) \in i + 1 .. N + 1
        BY MatchingIs
      <3>2. G[NextAt(s, i)] \in Texts
        BY <2>2, <3>1
      <3>3. G[i] \in Texts
        BY <1>3, <1>9, <3>2
      <3>4. i \in 1 .. N + 1
        BY <1>1
      <3> QED
        BY <3>3, <3>4
    <2> HIDE DEF S, N
    <2>3. 1 .. N + 1 \subseteq S
      BY <1>1, <2>1, <2>2, InductBackwards
    <2> QED
      BY <2>3 DEF S
  <1> QED
    BY <1>9, <1>10

\* What from_utf8 says at i.
LEMMA FoundIs ==
    ASSUME NEW s \in Seq(ByteClasses), NEW i \in 1 .. Len(s)
    PROVE  /\ FromUtf8(s, i).len = Matching(s, i) + 1
           /\ FromUtf8(s, i).is = "valid" <=> WholeAt(s, i)
           /\ IsError(FromUtf8(s, i)) <=> ~WholeAt(s, i) /\ ~OpenAt(s, i)
  <1> DEFINE m == Matching(s, i)
             w == After(s[i])
  <1>1. /\ s[i] \in ByteClasses /\ m \in 0 .. w /\ w \in 0 .. 3
        /\ ~Leads(s[i]) => w = 0
    BY MatchingIs
  <1>2. FromUtf8(s, i) = IF ~Leads(s[i]) THEN [is |-> "error", len |-> 1]
                         ELSE IF m = w THEN [is |-> "valid", len |-> m + 1]
                         ELSE IF i + m = Len(s)
                         THEN [is |-> "incomplete", len |-> m + 1]
                         ELSE [is |-> "error", len |-> m + 1]
    BY DEF FromUtf8, Leads, After
  <1>3. /\ WholeAt(s, i) <=> Leads(s[i]) /\ m = w
        /\ OpenAt(s, i) <=> Leads(s[i]) /\ m < w /\ i + m = Len(s)
    BY DEF WholeAt, OpenAt
  <1> HIDE DEF m, w
  <1>4. m \in Int /\ w \in Int /\ (m # w => m < w) /\ (~Leads(s[i]) => m + 1 = 1)
    BY <1>1
  <1>5. CASE ~Leads(s[i])
    BY <1>2, <1>3, <1>4, <1>5 DEF IsError, m
  <1>6. CASE Leads(s[i]) /\ m = w
    BY <1>2, <1>3, <1>4, <1>6 DEF IsError, m
  <1>7. CASE Leads(s[i]) /\ m # w /\ i + m = Len(s)
    BY <1>2, <1>3, <1>4, <1>7 DEF IsError, m
  <1>8. CASE Leads(s[i]) /\ m # w /\ i + m # Len(s)
    BY <1>2, <1>3, <1>4, <1>8 DEF IsError, m
  <1> QED
    BY <1>5, <1>6, <1>7, <1>8

\* The body of the function that Pushed defines, and the function.
PushFun(s, g) ==
    [i \in 1 .. Len(s) + 1 |->
        IF i > Len(s) THEN [out |-> <<>>, rest |-> i]
        ELSE LET found == FromUtf8(s, i)
                 later == g[i + found.len]
                 next  == SubSeq(s, i, i + found.len - 1) IN
             IF found.is = "valid"
             THEN [out |-> <<next>> \o later.out, rest |-> later.rest]
             ELSE IF IsError(found)
             THEN [out |-> <<Replacement>> \o later.out, rest |-> later.rest]
             ELSE [out |-> <<>>, rest |-> i]]
PushRec(s) == CHOOSE g : g = PushFun(s, g)

\* Pushed is what the function is at 1.
LEMMA PushedIsRec ==
    ASSUME NEW s
    PROVE  Pushed(s) = PushRec(s)[1]
  BY DEF Pushed, PushRec, PushFun

\* A turn of the loop, with what those after it make of the rest.
Turn(s, i, v) ==
    IF OpenAt(s, i) THEN [out |-> <<>>, rest |-> i]
    ELSE [out |-> <<PieceAt(s, i)>> \o v.out, rest |-> v.rest]

\* It is a function.
LEMMA PushFunIsOne ==
    ASSUME NEW s, NEW g
    PROVE  PushFun(s, g) =
              [i \in DOMAIN PushFun(s, g) |-> PushFun(s, g)[i]]
  BY DEF PushFun

\* The body of its definition, by what is found at i.
LEMMA PushFunIs ==
    ASSUME NEW s \in Seq(ByteClasses), NEW g
    PROVE  /\ DOMAIN PushFun(s, g) = 1 .. Len(s) + 1
           /\ PushFun(s, g)[Len(s) + 1] = [out |-> <<>>, rest |-> Len(s) + 1]
           /\ \A i \in 1 .. Len(s) :
                 PushFun(s, g)[i] = Turn(s, i, g[NextAt(s, i)])
  <1>1. Len(s) \in Nat
    OBVIOUS
  <1>2. DOMAIN PushFun(s, g) = 1 .. Len(s) + 1
    BY DEF PushFun
  <1>3. PushFun(s, g)[Len(s) + 1] = [out |-> <<>>, rest |-> Len(s) + 1]
    <2>1. Len(s) + 1 \in 1 .. Len(s) + 1 /\ Len(s) + 1 > Len(s)
      BY <1>1
    <2> QED
      BY <2>1, Zenon DEF PushFun
  <1>4. ASSUME NEW i \in 1 .. Len(s)
        PROVE  PushFun(s, g)[i] = Turn(s, i, g[NextAt(s, i)])
    <2> DEFINE found == FromUtf8(s, i)
               later == g[i + found.len]
               next  == SubSeq(s, i, i + found.len - 1)
    <2>1. PushFun(s, g)[i] =
             IF found.is = "valid"
             THEN [out |-> <<next>> \o later.out, rest |-> later.rest]
             ELSE IF IsError(found)
             THEN [out |-> <<Replacement>> \o later.out, rest |-> later.rest]
             ELSE [out |-> <<>>, rest |-> i]
      <3>1. i \in 1 .. Len(s) + 1 /\ ~(i > Len(s))
        BY <1>1
      <3> QED
        BY <3>1 DEF PushFun
    <2>2. /\ found.len = Matching(s, i) + 1
          /\ found.is = "valid" <=> WholeAt(s, i)
          /\ IsError(found) <=> ~WholeAt(s, i) /\ ~OpenAt(s, i)
      BY FoundIs
    <2>3. /\ i + found.len - 1 = i + Matching(s, i)
          /\ i + found.len = NextAt(s, i)
      <3>1. Matching(s, i) \in Nat
        BY MatchingIs
      <3> HIDE DEF found
      <3> QED
        BY <2>2, <3>1 DEF NextAt
    <2>4. later = g[NextAt(s, i)] /\ next = SubSeq(s, i, i + Matching(s, i))
      BY <2>3
    <2>5. WholeAt(s, i) => ~OpenAt(s, i)
      <3>1. Matching(s, i) \in Nat
        BY MatchingIs
      <3> QED
        BY <3>1 DEF WholeAt, OpenAt
    <2> HIDE DEF found, later, next
    <2> QED
      BY <2>1, <2>2, <2>4, <2>5 DEF Turn, PieceAt
  <1> QED
    BY <1>2, <1>3, <1>4

\* There is such a function: it obeys its definition.
LEMMA PushRecIs ==
    ASSUME NEW s \in Seq(ByteClasses)
    PROVE  /\ \A i \in 1 .. Len(s) + 1 :
                 PushRec(s)[i] \in [out : Texts, rest : 1 .. Len(s) + 1]
           /\ PushRec(s)[Len(s) + 1] = [out |-> <<>>, rest |-> Len(s) + 1]
           /\ \A i \in 1 .. Len(s) :
                 PushRec(s)[i] = Turn(s, i, PushRec(s)[NextAt(s, i)])
  <1> DEFINE N == Len(s)
             V == [out : Texts, rest : 1 .. N + 1]
             z == [out |-> <<>>, rest |-> N + 1]
             next == [i \in 1 .. N |-> NextAt(s, i)]
             h == [i \in 1 .. N |-> [v \in V |-> Turn(s, i, v)]]
  <1>1. N \in Nat /\ z \in V /\ <<>> \in Texts
    BY DEF Texts
  <1>2. Onward(N, next)
    <2>1. \A i \in 1 .. N : NextAt(s, i) \in 1 .. N + 1 /\ NextAt(s, i) > i
      BY MatchingIs
    <2> QED
      BY <2>1 DEF Onward
  <1>3. ASSUME NEW i \in 1 .. N, NEW v \in V
        PROVE  Turn(s, i, v) \in V
    <2>1. <<PieceAt(s, i)>> \in Texts /\ i \in 1 .. N + 1
      BY <1>1, PieceIs DEF Texts
    <2>2. v.out \in Texts /\ v.rest \in 1 .. N + 1
      OBVIOUS
    <2>3. <<PieceAt(s, i)>> \o v.out \in Texts
      BY <2>1, <2>2 DEF Texts
    <2> HIDE DEF N
    <2> QED
      BY <1>1, <2>1, <2>2, <2>3 DEF Turn
  <1>4. h \in [1 .. N -> [V -> V]]
    <2> HIDE DEF V, N
    <2> QED
      BY <1>3
  <1>5. PICK g \in [1 .. N + 1 -> V] : Recurs(N, z, next, h, g)
    <2> HIDE DEF N, next, h, z, V
    <2> QED
      BY <1>1, <1>2, <1>4, RecurBackwards
  <1>6. \A i \in 1 .. N : g[i] = Turn(s, i, g[NextAt(s, i)])
    <2> SUFFICES ASSUME NEW i \in 1 .. N
                 PROVE  g[i] = Turn(s, i, g[NextAt(s, i)])
      OBVIOUS
    <2>1. next[i] = NextAt(s, i) /\ NextAt(s, i) \in 1 .. N + 1
      BY MatchingIs
    <2> HIDE DEF V
    <2>2. g[NextAt(s, i)] \in V
      BY <2>1
    <2>3. h[i][g[NextAt(s, i)]] = Turn(s, i, g[NextAt(s, i)])
      BY <2>2
    <2>4. g[i] = h[i][g[next[i]]]
      BY <1>5 DEF Recurs
    <2> QED
      BY <2>1, <2>3, <2>4
  <1>7. g = PushFun(s, g)
    <2>1. /\ DOMAIN PushFun(s, g) = 1 .. N + 1 /\ PushFun(s, g)[N + 1] = z
          /\ \A i \in 1 .. N : PushFun(s, g)[i] = Turn(s, i, g[NextAt(s, i)])
      BY PushFunIs
    <2>2. \A i \in 1 .. N + 1 : i = N + 1 \/ i \in 1 .. N
      BY <1>1
    <2>4. PushFun(s, g) = [i \in 1 .. N + 1 |-> PushFun(s, g)[i]]
      <3> HIDE DEF N
      <3> QED
        BY <2>1, PushFunIsOne
    <2> HIDE DEF z, V
    <2>3. \A i \in 1 .. N + 1 : g[i] = PushFun(s, g)[i]
      BY <1>5, <1>6, <2>1, <2>2 DEF Recurs
    <2> QED
      BY <2>3, <2>4
  <1> DEFINE G == PushRec(s)
  <1>8. G = PushFun(s, G)
    BY <1>7 DEF PushRec
  <1>9. /\ G[N + 1] = z
        /\ \A i \in 1 .. N : G[i] = Turn(s, i, G[NextAt(s, i)])
    <2> HIDE DEF G
    <2>1. /\ PushFun(s, G)[N + 1] = z
          /\ \A i \in 1 .. N : PushFun(s, G)[i] = Turn(s, i, G[NextAt(s, i)])
      BY PushFunIs
    <2> QED
      BY <1>8, <2>1
  <1>10. 1 .. N + 1 \subseteq {i \in 1 .. N + 1 : G[i] \in V}
    <2> DEFINE S == {i \in 1 .. N + 1 : G[i] \in V}
    <2> HIDE DEF V, z, G
    <2>1. N + 1 \in S
      BY <1>1, <1>9
    <2>2. ASSUME NEW i \in 1 .. N, \A j \in i + 1 .. N + 1 : j \in S
          PROVE  i \in S
      <3>1. NextAt(s, i) \in i + 1 .. N + 1
        BY MatchingIs
      <3>2. G[NextAt(s, i)] \in V
        BY <2>2, <3>1
      <3>3. G[i] \in V
        BY <1>3, <1>9, <3>2
      <3>4. i \in 1 .. N + 1
        BY <1>1
      <3> QED
        BY <3>3, <3>4
    <2> HIDE DEF S, N
    <2>3. 1 .. N + 1 \subseteq S
      BY <1>1, <2>1, <2>2, InductBackwards
    <2> QED
      BY <2>3 DEF S
  <1> QED
    BY <1>9, <1>10

\* Where the loop stops, it is at the end or at what may become a character.
LEMMA RestIsOpen ==
    ASSUME NEW s \in Seq(ByteClasses)
    PROVE  /\ Pushed(s).out \in Texts /\ Pushed(s).rest \in 1 .. Len(s) + 1
           /\ Pushed(s).rest = Len(s) + 1 \/ OpenAt(s, Pushed(s).rest)
  <1> DEFINE N == Len(s)
             G == PushRec(s)
             S == {i \in 1 .. N + 1 : G[i].rest = N + 1 \/ OpenAt(s, G[i].rest)}
  <1>1. N \in Nat /\ 1 \in 1 .. N + 1
    OBVIOUS
  <1>2. /\ \A i \in 1 .. N + 1 : G[i] \in [out : Texts, rest : 1 .. N + 1]
        /\ G[N + 1] = [out |-> <<>>, rest |-> N + 1]
        /\ \A i \in 1 .. N : G[i] = Turn(s, i, G[NextAt(s, i)])
    BY PushRecIs
  <1> HIDE DEF G
  <1>3. N + 1 \in S
    BY <1>1, <1>2
  <1>4. ASSUME NEW i \in 1 .. N, \A j \in i + 1 .. N + 1 : j \in S
        PROVE  i \in S
    <2>1. NextAt(s, i) \in i + 1 .. N + 1
      BY MatchingIs
    <2>2. NextAt(s, i) \in S
      BY <1>4, <2>1
    <2>3. (G[i].rest = i /\ OpenAt(s, i)) \/ G[i].rest = G[NextAt(s, i)].rest
      <3>1. G[i] = Turn(s, i, G[NextAt(s, i)])
        BY <1>2
      <3>2. CASE OpenAt(s, i)
        BY <3>1, <3>2 DEF Turn
      <3>3. CASE ~OpenAt(s, i)
        BY <3>1, <3>3 DEF Turn
      <3> QED
        BY <3>2, <3>3
    <2>4. i \in 1 .. N + 1
      BY <1>1
    <2> QED
      BY <2>2, <2>3, <2>4
  <1>5. 1 .. N + 1 \subseteq S
    <2> HIDE DEF S, N
    <2> QED
      BY <1>1, <1>3, <1>4, InductBackwards
  <1>6. 1 \in S
    BY <1>1, <1>5
  <1>7. Pushed(s) = G[1] /\ G[1] \in [out : Texts, rest : 1 .. N + 1]
    BY <1>1, <1>2, PushedIsRec DEF G
  <1> QED
    BY <1>6, <1>7

-----------------------------------------------------------------------------
(***************************************************************************)
(* What is found in a part of the stream is found in the stream.           *)
(***************************************************************************)

\* s is what T has after its first off bytes, as far as s goes.
PartOf(s, T, off) ==
    off + Len(s) <= Len(T) /\ \A k \in 1 .. Len(s) : T[off + k] = s[k]

\* from_utf8 finds there what it finds in s, unless s cuts it.
LEMMA SamePlace ==
    ASSUME NEW s \in Seq(ByteClasses), NEW T \in Seq(ByteClasses),
           NEW off \in Nat, PartOf(s, T, off), NEW i \in 1 .. Len(s)
    PROVE  /\ off + i \in 1 .. Len(T) /\ T[off + i] = s[i]
           /\ off + Len(s) = Len(T) => Matching(T, off + i) = Matching(s, i)
           /\ ~OpenAt(s, i) => Matching(T, off + i) = Matching(s, i)
  <1> DEFINE m == Matching(s, i)
             w == After(s[i])
             f == Follow(s[i])
  <1>1. Len(s) \in Nat /\ Len(T) \in Nat
    OBVIOUS
  <1>2. off + i \in 1 .. Len(T) /\ T[off + i] = s[i]
    BY <1>1 DEF PartOf
  <1>3. Stops(s, i, m)
    BY MatchingStops
  <1>4. /\ m \in 0 .. w /\ w \in Nat /\ i + m <= Len(s) /\ (~Leads(s[i]) => w = 0)
        /\ \A j \in 1 .. m : s[i + j] \in f[j]
        /\ m = w \/ i + m = Len(s) \/ s[i + m + 1] \notin f[m + 1]
    <2>1. /\ m \in 0 .. w /\ w \in 0 .. 3 /\ i + m <= Len(s)
          /\ ~Leads(s[i]) => w = 0
      BY MatchingIs
    <2> HIDE DEF m, w, f
    <2> QED
      BY <1>3, <2>1 DEF Stops, w, f
  <1>5. OpenAt(s, i) <=> Leads(s[i]) /\ m < w /\ i + m = Len(s)
    BY DEF OpenAt
  <1>6. ASSUME off + Len(s) = Len(T) \/ ~OpenAt(s, i)
        PROVE  Matching(T, off + i) = m
    <2> DEFINE at == off + i
    <2> HIDE DEF m, w, f
    <2>1. m \in Nat /\ at + m <= Len(T)
      BY <1>1, <1>4 DEF PartOf
    <2>2. \A j \in 1 .. m : T[at + j] \in f[j]
      <3>1. \A j \in 1 .. m : i + j \in 1 .. Len(s) /\ at + j = off + (i + j)
        BY <1>1, <1>4, <2>1
      <3> HIDE DEF at
      <3> QED
        BY <1>4, <3>1 DEF PartOf
    <2>3. m = w \/ at + m = Len(T) \/ T[at + m + 1] \notin f[m + 1]
      <3>1. CASE m = w
        BY <3>1
      <3>2. CASE i + m = Len(s) /\ m # w
        <4>1. Leads(s[i]) /\ m < w
          BY <1>4, <2>1, <3>2
        <4>2. off + Len(s) = Len(T)
          BY <1>5, <1>6, <3>2, <4>1
        <4> QED
          BY <1>1, <2>1, <3>2, <4>2
      <3>3. CASE i + m # Len(s) /\ m # w
        <4>1. i + m + 1 \in 1 .. Len(s) /\ at + m + 1 = off + (i + m + 1)
          BY <1>1, <1>4, <2>1, <3>3
        <4>2. T[at + m + 1] = s[i + m + 1]
          BY <4>1 DEF PartOf
        <4> QED
          BY <1>4, <3>3, <4>2
      <3> QED
        BY <3>1, <3>2, <3>3
    <2>4. at \in 1 .. Len(T) /\ T[at] = s[i]
      BY <1>2
    <2> HIDE DEF at
    <2>5. Stops(T, at, m)
      BY <1>4, <2>1, <2>2, <2>3, <2>4 DEF Stops, w, f
    <2>6. Stops(T, at, Matching(T, at))
      BY <2>4, MatchingStops
    <2>7. Matching(T, at) = m
      BY <2>4, <2>5, <2>6, StopsOnce
    <2> QED
      BY <2>7 DEF at
  <1> QED
    BY <1>2, <1>6

\* And the same is made of it.
LEMMA SamePiece ==
    ASSUME NEW s \in Seq(ByteClasses), NEW T \in Seq(ByteClasses),
           NEW off \in Nat, PartOf(s, T, off),
           NEW i \in 1 .. Len(s), ~OpenAt(s, i)
    PROVE  /\ PieceAt(T, off + i) = PieceAt(s, i)
           /\ NextAt(T, off + i) = off + NextAt(s, i)
  <1> DEFINE m == Matching(s, i)
             at == off + i
  <1>1. at \in 1 .. Len(T) /\ T[at] = s[i] /\ Matching(T, at) = m
    BY SamePlace
  <1>2. m \in Nat /\ i + m <= Len(s) /\ Len(s) \in Nat /\ Len(T) \in Nat
    <2>1. m \in 0 .. After(s[i]) /\ After(s[i]) \in 0 .. 3 /\ i + m <= Len(s)
      BY MatchingIs
    <2> HIDE DEF m
    <2> QED
      BY <2>1
  <1>3. NextAt(T, at) = off + NextAt(s, i)
    <2> HIDE DEF m
    <2>1. NextAt(s, i) = i + m + 1
      BY DEF NextAt, m
    <2>2. NextAt(T, at) = at + m + 1
      BY <1>1 DEF NextAt
    <2> QED
      BY <1>2, <2>1, <2>2
  <1>4. SubSeq(T, at, at + m) = SubSeq(s, i, i + m)
    <2> HIDE DEF m
    <2> DEFINE n == m + 1
    <2>1. n \in Nat /\ n >= 1 /\ i + n - 1 = i + m /\ at + n - 1 = at + m
      BY <1>2
    <2>2. i + n - 1 <= Len(s) /\ at + n - 1 <= Len(T)
      BY <1>1, <1>2, <2>1 DEF PartOf
    <2> HIDE DEF n, at
    <2>3. /\ SubSeq(s, i, i + n - 1) \in Seq(ByteClasses)
          /\ Len(SubSeq(s, i, i + n - 1)) = n
          /\ \A k \in 1 .. n : SubSeq(s, i, i + n - 1)[k] = s[i + k - 1]
      BY <2>1, <2>2, SubSeqIs
    <2>4. /\ SubSeq(T, at, at + n - 1) \in Seq(ByteClasses)
          /\ Len(SubSeq(T, at, at + n - 1)) = n
          /\ \A k \in 1 .. n : SubSeq(T, at, at + n - 1)[k] = T[at + k - 1]
      BY <1>1, <2>1, <2>2, SubSeqIs
    <2>5. \A k \in 1 .. n : T[at + k - 1] = s[i + k - 1]
      <3>1. \A k \in 1 .. n : /\ i + k - 1 \in 1 .. Len(s)
                              /\ at + k - 1 = off + (i + k - 1)
        BY <1>2, <2>1, <2>2 DEF at
      <3> QED
        BY <3>1 DEF PartOf
    <2>6. SubSeq(s, i, i + n - 1) = SubSeq(T, at, at + n - 1)
      <3> DEFINE a == SubSeq(s, i, i + n - 1)
                 b == SubSeq(T, at, at + n - 1)
      <3>1. a \in Seq(ByteClasses) /\ b \in Seq(ByteClasses) /\ Len(a) = Len(b)
        BY <2>3, <2>4
      <3>2. \A k \in 1 .. Len(a) : a[k] = b[k]
        BY <2>3, <2>4, <2>5
      <3> HIDE DEF a, b
      <3>3. a = b
        BY <3>1, <3>2
      <3> QED
        BY <3>3 DEF a, b
    <2> QED
      BY <2>1, <2>6
  <1> QED
    BY <1>1, <1>3, <1>4 DEF PieceAt, WholeAt

\* Sequences joined in any order.
LEMMA Associative ==
    ASSUME NEW S, NEW p \in Seq(S), NEW q \in Seq(S), NEW r \in Seq(S)
    PROVE  /\ (p \o q) \o r = p \o (q \o r) /\ p \o q \in Seq(S)
           /\ <<>> \o p = p /\ p \o <<>> = p
  OBVIOUS

\* Texts joined in any order.
LEMMA TextsJoin ==
    ASSUME NEW p \in Texts, NEW q \in Texts, NEW r \in Texts
    PROVE  (p \o q) \o r = p \o (q \o r)
  <1> DEFINE S == Seq(ByteClasses \cup {"U+FFFD"})
  <1>1. p \in Seq(S) /\ q \in Seq(S) /\ r \in Seq(S)
    BY DEF Texts
  <1> HIDE DEF S
  <1> QED
    BY <1>1, Associative

\* What is left of a sequence from i on.
LEMMA SuffixIs ==
    ASSUME NEW S, NEW s \in Seq(S), NEW i \in 1 .. Len(s) + 1
    PROVE  /\ SubSeq(s, i, Len(s)) \in Seq(S)
           /\ Len(SubSeq(s, i, Len(s))) = Len(s) + 1 - i
           /\ \A k \in 1 .. Len(s) + 1 - i :
                 SubSeq(s, i, Len(s))[k] = s[i - 1 + k]
  OBVIOUS

\* The loop of push makes of s what from_utf8_lossy makes of the stream there.
LEMMA LoopIsLossy ==
    ASSUME NEW s \in Seq(ByteClasses), NEW T \in Seq(ByteClasses),
           NEW off \in Nat, PartOf(s, T, off)
    PROVE  LossyRec(T)[off + 1] =
              Pushed(s).out \o LossyRec(T)[off + Pushed(s).rest]
  <1> DEFINE N == Len(s)
             G == PushRec(s)
             L == LossyRec(T)
             Same(j) == L[off + j] = G[j].out \o L[off + G[j].rest]
             S == {j \in 1 .. N + 1 : Same(j)}
  <1>1. N \in Nat /\ 1 \in 1 .. N + 1 /\ N + 1 \in 1 .. N + 1
    OBVIOUS
  <1>2. /\ \A i \in 1 .. N + 1 : G[i] \in [out : Texts, rest : 1 .. N + 1]
        /\ G[N + 1] = [out |-> <<>>, rest |-> N + 1]
        /\ \A i \in 1 .. N : G[i] = Turn(s, i, G[NextAt(s, i)])
    BY PushRecIs
  <1>3. /\ \A i \in 1 .. Len(T) + 1 : L[i] \in Texts
        /\ \A i \in 1 .. Len(T) : L[i] = <<PieceAt(T, i)>> \o L[NextAt(T, i)]
    BY LossyRecIs
  <1>4. \A j \in 1 .. N + 1 : off + j \in 1 .. Len(T) + 1
    BY <1>1 DEF PartOf
  <1>5. \A j \in 1 .. N + 1 : /\ G[j].out \in Texts /\ G[j].rest \in 1 .. N + 1
                              /\ L[off + j] \in Texts
                              /\ L[off + G[j].rest] \in Texts
    <2> HIDE DEF G, L, N
    <2> QED
      BY <1>2, <1>3, <1>4
  <1>6. \A q \in Texts : <<>> \o q = q
    BY Associative DEF Texts
  <1> HIDE DEF G, L, N
  <1>7. N + 1 \in S
    <2>1. L[off + (N + 1)] = <<>> \o L[off + (N + 1)]
      BY <1>1, <1>5, <1>6
    <2>2. G[N + 1].out = <<>> /\ G[N + 1].rest = N + 1
      BY <1>2
    <2> QED
      BY <1>1, <2>1, <2>2
  <1>8. ASSUME NEW i \in 1 .. N, \A j \in i + 1 .. N + 1 : j \in S
        PROVE  i \in S
    <2>0. i \in 1 .. N + 1 /\ i \in 1 .. Len(s)
      BY <1>1 DEF N
    <2>1. NextAt(s, i) \in i + 1 .. N + 1 /\ NextAt(s, i) \in 1 .. N + 1
      BY <2>0, MatchingIs DEF N
    <2>2. G[i] = Turn(s, i, G[NextAt(s, i)])
      BY <1>2
    <2>3. CASE OpenAt(s, i)
      <3>1. G[i].out = <<>> /\ G[i].rest = i
        BY <2>2, <2>3 DEF Turn
      <3>2. L[off + i] = <<>> \o L[off + i]
        BY <1>5, <1>6, <2>0
      <3> QED
        BY <2>0, <3>1, <3>2
    <2>4. CASE ~OpenAt(s, i)
      <3> DEFINE k == NextAt(s, i)
                 c == <<PieceAt(s, i)>>
      <3>1. G[i].out = c \o G[k].out /\ G[i].rest = G[k].rest
        BY <2>2, <2>4 DEF Turn
      <3>2. off + i \in 1 .. Len(T)
        BY <2>0, SamePlace
      <3>3. PieceAt(T, off + i) = PieceAt(s, i) /\ NextAt(T, off + i) = off + k
        BY <2>0, <2>4, SamePiece
      <3>4. L[off + i] = c \o L[off + k]
        BY <1>3, <3>2, <3>3
      <3>5. k \in 1 .. N + 1 /\ Same(k)
        BY <1>8, <2>1
      <3>6. c \in Texts
        BY <2>0, PieceIs DEF Texts
      <3> HIDE DEF k, c
      <3>7. /\ G[k].out \in Texts /\ L[off + G[k].rest] \in Texts
        BY <1>5, <3>5
      <3>8. (c \o G[k].out) \o L[off + G[k].rest] =
               c \o (G[k].out \o L[off + G[k].rest])
        <4> DEFINE x == G[k].out
                   y == L[off + G[k].rest]
        <4>1. x \in Texts /\ y \in Texts
          BY <3>7
        <4> HIDE DEF x, y
        <4>2. (c \o x) \o y = c \o (x \o y)
          BY <3>6, <4>1, TextsJoin
        <4> QED
          BY <4>2 DEF x, y
      <3>9. Same(i)
        BY <3>1, <3>4, <3>5, <3>8
      <3> HIDE DEF Same
      <3> QED
        BY <2>0, <3>9
    <2> QED
      BY <2>3, <2>4
  <1>9. 1 .. N + 1 \subseteq S
    <2> HIDE DEF S
    <2> QED
      BY <1>1, <1>7, <1>8, InductBackwards
  <1>10. Same(1)
    BY <1>1, <1>9
  <1>11. Pushed(s) = G[1]
    BY PushedIsRec DEF G
  <1> QED
    BY <1>10, <1>11 DEF L

-----------------------------------------------------------------------------
(***************************************************************************)
(* The streams.                                                            *)
(***************************************************************************)

\* What is pending is the end of what is fed, and may become a character.
Held ==
    /\ Len(pending) <= Len(fed)
    /\ PartOf(pending, fed, Len(fed) - Len(pending))
    /\ pending = <<>> \/ OpenAt(pending, 1)

\* However the stream goes on: its text is what is out, and what is made of it
\* from the pending bytes on.
SoFar ==
    \A T \in Seq(ByteClasses) :
        PartOf(fed, T, 0) =>
            Lossy(T) = text \o LossyRec(T)[Len(fed) - Len(pending) + 1]

Utf8IInv ==
    /\ fed \in Seq(Bytes) /\ pending \in Seq(Bytes) /\ text \in Texts
    /\ ended \in BOOLEAN
    /\ ~ended => Held /\ SoFar
    /\ ended => pending = <<>> /\ text = Lossy(fed)

\* What is fed is bytes.
LEMMA BytesAre ==
    ASSUME NEW s \in Seq(Bytes)
    PROVE  s \in Seq(ByteClasses)
  BY BytesAssumption

\* The invariant holds before anything is fed.
LEMMA Utf8InitHolds ==
    ASSUME Utf8Init
    PROVE  Utf8IInv
  <1>1. fed = <<>> /\ pending = <<>> /\ text = <<>> /\ ended = FALSE
    BY DEF Utf8Init
  <1>2. fed \in Seq(Bytes) /\ pending \in Seq(Bytes) /\ text \in Texts
    BY <1>1 DEF Texts
  <1>3. Held
    BY <1>1 DEF Held, PartOf
  <1>4. SoFar
    <2> SUFFICES ASSUME NEW T \in Seq(ByteClasses)
                 PROVE  Lossy(T) =
                           text \o LossyRec(T)[Len(fed) - Len(pending) + 1]
      BY DEF SoFar
    <2>1. Len(fed) - Len(pending) + 1 = 1
      BY <1>1
    <2>2. LossyRec(T)[1] \in Texts
      <3>1. 1 \in 1 .. Len(T) + 1
        OBVIOUS
      <3> QED
        BY <3>1, LossyRecIs
    <2>3. <<>> \o LossyRec(T)[1] = LossyRec(T)[1]
      BY <2>2, Associative DEF Texts
    <2> QED
      BY <1>1, <2>1, <2>3, LossyIsRec
  <1> QED
    BY <1>1, <1>2, <1>3, <1>4 DEF Utf8IInv

\* What is left of an open end is open where it begins.
LEMMA OpenTail ==
    ASSUME NEW s \in Seq(ByteClasses), NEW p \in Seq(ByteClasses),
           NEW off \in Nat, PartOf(p, s, off), off + Len(p) = Len(s), Len(p) >= 1
    PROVE  /\ OpenAt(s, off + 1) <=> OpenAt(p, 1)
           /\ Matching(s, off + 1) = Matching(p, 1)
  <1>1. 1 \in 1 .. Len(p)
    OBVIOUS
  <1>2. s[off + 1] = p[1] /\ Matching(s, off + 1) = Matching(p, 1)
    BY <1>1, SamePlace
  <1>3. Matching(p, 1) \in 0 .. After(p[1]) /\ After(p[1]) \in 0 .. 3
    BY <1>1, MatchingIs
  <1>4. off + 1 + Matching(p, 1) = Len(s) <=> 1 + Matching(p, 1) = Len(p)
    <2> DEFINE m == Matching(p, 1)
    <2>1. m \in Nat
      BY <1>3
    <2> HIDE DEF m
    <2>2. off + 1 + m = Len(s) <=> 1 + m = Len(p)
      BY <2>1
    <2> QED
      BY <2>2 DEF m
  <1> QED
    BY <1>2, <1>4 DEF OpenAt

\* A sequence with another behind it.
LEMMA Concatenated ==
    ASSUME NEW S, NEW p \in Seq(S), NEW q \in Seq(S)
    PROVE  /\ p \o q \in Seq(S) /\ Len(p \o q) = Len(p) + Len(q)
           /\ \A k \in 1 .. Len(p) : (p \o q)[k] = p[k]
           /\ \A k \in 1 .. Len(q) : (p \o q)[Len(p) + k] = q[k]
  OBVIOUS

\* A chunk: the loop makes of it what is made of the stream there.
LEMMA PushHolds ==
    ASSUME Utf8IInv, NEW c \in Seq(Bytes), Push(c)
    PROVE  Utf8IInv'
  <1> DEFINE s == pending \o c
             off == Len(fed) - Len(pending)
             out == Pushed(s).out
             rest == Pushed(s).rest
  <1>1. /\ ~ended /\ text' = text \o out /\ pending' = SubSeq(s, rest, Len(s))
        /\ fed' = fed \o c /\ ended' = ended
    BY DEF Push
  <1>2. /\ fed \in Seq(Bytes) /\ pending \in Seq(Bytes) /\ text \in Texts
        /\ Held /\ SoFar
    BY <1>1 DEF Utf8IInv
  <1>3. /\ off \in Nat /\ PartOf(pending, fed, off)
        /\ Len(fed) = off + Len(pending)
        /\ Len(c) \in Nat /\ Len(pending) \in Nat
    BY <1>2 DEF Held
  <1>4. /\ s \in Seq(Bytes) /\ s \in Seq(ByteClasses)
        /\ Len(s) = Len(pending) + Len(c)
        /\ \A k \in 1 .. Len(pending) : s[k] = pending[k]
        /\ \A k \in 1 .. Len(c) : s[Len(pending) + k] = c[k]
    BY <1>2, Concatenated, BytesAre
  <1>5. /\ fed' \in Seq(Bytes) /\ fed' \in Seq(ByteClasses)
        /\ Len(fed') = Len(fed) + Len(c)
        /\ \A k \in 1 .. Len(fed) : fed'[k] = fed[k]
        /\ \A k \in 1 .. Len(c) : fed'[Len(fed) + k] = c[k]
    BY <1>1, <1>2, Concatenated, BytesAre
  <1> HIDE DEF s, off
  <1>6. PartOf(s, fed', off) /\ off + Len(s) = Len(fed')
    <2>1. off + Len(s) = Len(fed')
      BY <1>3, <1>4, <1>5
    <2>2. ASSUME NEW k \in 1 .. Len(s)
          PROVE  fed'[off + k] = s[k]
      <3>1. CASE k <= Len(pending)
        <4>1. k \in 1 .. Len(pending) /\ off + k \in 1 .. Len(fed)
          BY <1>3, <3>1
        <4> QED
          BY <1>3, <1>4, <1>5, <4>1 DEF PartOf
      <3>2. CASE ~(k <= Len(pending))
        <4> DEFINE j == k - Len(pending)
        <4>1. /\ j \in 1 .. Len(c) /\ off + k = Len(fed) + j
              /\ k = Len(pending) + j
          BY <1>3, <1>4, <3>2
        <4> HIDE DEF j
        <4> QED
          BY <1>4, <1>5, <4>1
      <3> QED
        BY <3>1, <3>2
    <2>3. off + Len(s) <= Len(fed')
      BY <1>5, <2>1
    <2> QED
      BY <2>1, <2>2, <2>3 DEF PartOf
  <1>7. /\ out \in Texts /\ rest \in 1 .. Len(s) + 1
        /\ rest = Len(s) + 1 \/ OpenAt(s, rest)
    BY <1>4, RestIsOpen
  <1> HIDE DEF out, rest
  <1>8. /\ pending' \in Seq(Bytes) /\ Len(pending') = Len(s) + 1 - rest
        /\ \A k \in 1 .. Len(pending') : pending'[k] = s[rest - 1 + k]
    <2>1. /\ SubSeq(s, rest, Len(s)) \in Seq(Bytes)
          /\ Len(SubSeq(s, rest, Len(s))) = Len(s) + 1 - rest
          /\ \A k \in 1 .. Len(s) + 1 - rest :
                SubSeq(s, rest, Len(s))[k] = s[rest - 1 + k]
      BY <1>4, <1>7, SuffixIs
    <2> QED
      BY <1>1, <2>1
  <1>9. /\ rest - 1 \in Nat /\ (rest - 1) + Len(pending') = Len(s)
        /\ Len(fed') - Len(pending') = off + (rest - 1)
        /\ Len(pending') \in Nat /\ Len(s) \in Nat
    <2>1. rest \in 1 .. Len(s) + 1 /\ Len(s) \in Nat
      BY <1>4, <1>7
    <2>2. Len(pending') = Len(s) + 1 - rest /\ Len(fed') = off + Len(s)
      BY <1>6, <1>8
    <2>3. rest \in Nat /\ rest >= 1 /\ rest <= Len(s) + 1 /\ off \in Nat
      BY <1>3, <2>1
    <2> QED
      BY <2>1, <2>2, <2>3
  <1>10. PartOf(pending', s, rest - 1)
    BY <1>8, <1>9 DEF PartOf
  <1>11. text' \in Texts
    BY <1>1, <1>2, <1>7 DEF Texts
  <1>12. Held'
    <2>1. Len(pending') <= Len(fed')
      BY <1>3, <1>5, <1>6, <1>9
    <2>2. PartOf(pending', fed', Len(fed') - Len(pending'))
      <3>1. \A k \in 1 .. Len(pending') :
               /\ (rest - 1) + k \in 1 .. Len(s)
               /\ off + ((rest - 1) + k) = (Len(fed') - Len(pending')) + k
        BY <1>3, <1>9, SMTT(30)
      <3>2. \A k \in 1 .. Len(pending') :
               fed'[(Len(fed') - Len(pending')) + k] = pending'[k]
        BY <1>6, <1>8, <3>1 DEF PartOf
      <3>3. (Len(fed') - Len(pending')) + Len(pending') <= Len(fed')
        BY <1>3, <1>6, <1>9
      <3> QED
        BY <3>2, <3>3 DEF PartOf
    <2>3. pending' = <<>> \/ OpenAt(pending', 1)
      <3>1. CASE Len(pending') = 0
        BY <1>8, <3>1
      <3>2. CASE Len(pending') >= 1
        <4>1. rest # Len(s) + 1 /\ (rest - 1) + 1 = rest
          BY <1>7, <1>9, <3>2
        <4>2. OpenAt(s, rest)
          BY <1>7, <4>1
        <4>3. pending' \in Seq(ByteClasses)
          BY <1>8, BytesAre
        <4> DEFINE o == rest - 1
        <4>4. o \in Nat /\ PartOf(pending', s, o) /\ o + Len(pending') = Len(s)
          BY <1>9, <1>10
        <4>5. o + 1 = rest
          BY <4>1
        <4> HIDE DEF o
        <4>6. OpenAt(s, o + 1) <=> OpenAt(pending', 1)
          BY <1>4, <3>2, <4>3, <4>4, OpenTail
        <4> QED
          BY <4>2, <4>5, <4>6
      <3> QED
        BY <1>9, <3>1, <3>2
    <2> QED
      BY <2>1, <2>2, <2>3 DEF Held
  <1>13. SoFar'
    <2> SUFFICES ASSUME NEW T \in Seq(ByteClasses), PartOf(fed', T, 0)
                 PROVE  Lossy(T) =
                           text' \o LossyRec(T)[Len(fed') - Len(pending') + 1]
      BY DEF SoFar
    <2>1. /\ Len(fed') <= Len(T) /\ \A k \in 1 .. Len(fed') : T[k] = fed'[k]
          /\ Len(T) \in Nat
      <3>1. Len(fed') \in Nat /\ 0 + Len(fed') = Len(fed')
        BY <1>5
      <3>2. \A k \in 1 .. Len(fed') : 0 + k = k
        OBVIOUS
      <3> QED
        BY <3>1, <3>2 DEF PartOf
    <2>2. PartOf(fed, T, 0)
      <3>1. \A k \in 1 .. Len(fed) : k \in 1 .. Len(fed') /\ 0 + k = k
        BY <1>2, <1>3, <1>5
      <3>2. 0 + Len(fed) <= Len(T)
        BY <1>2, <1>3, <1>5, <2>1
      <3> QED
        BY <1>5, <2>1, <3>1, <3>2 DEF PartOf
    <2>3. PartOf(s, T, off)
      <3>1. \A k \in 1 .. Len(s) : off + k \in 1 .. Len(fed')
        BY <1>3, <1>6, <1>9
      <3> QED
        BY <1>6, <2>1, <3>1 DEF PartOf
    <2>4. Lossy(T) = text \o LossyRec(T)[off + 1]
      BY <1>2, <2>2 DEF SoFar, off
    <2>5. LossyRec(T)[off + 1] = out \o LossyRec(T)[off + rest]
      BY <1>3, <1>4, <2>3, LoopIsLossy DEF out, rest
    <2>6. Len(fed') - Len(pending') + 1 = off + rest
      BY <1>3, <1>7, <1>9
    <2>7. LossyRec(T)[off + rest] \in Texts
      <3>1. off + rest \in 1 .. Len(T) + 1
        BY <1>3, <1>6, <1>7, <1>9, <2>1
      <3> QED
        BY <3>1, LossyRecIs
    <2> DEFINE y == LossyRec(T)[off + rest]
    <2>8. (text \o out) \o y = text \o (out \o y)
      <3> HIDE DEF y
      <3> QED
        BY <1>2, <1>7, <2>7, TextsJoin DEF y
    <2> QED
      BY <1>1, <2>4, <2>5, <2>6, <2>8
  <1> QED
    BY <1>1, <1>5, <1>8, <1>11, <1>12, <1>13 DEF Utf8IInv

\* The end: what is pending is one error of the stream.
LEMMA FinishHolds ==
    ASSUME Utf8IInv, Finish
    PROVE  Utf8IInv'
  <1> DEFINE off == Len(fed) - Len(pending)
             L == LossyRec(fed)
  <1>1. /\ ~ended /\ ended' = TRUE /\ text' = text \o AtEnd
        /\ pending' = <<>> /\ fed' = fed
    BY DEF Finish
  <1>2. /\ fed \in Seq(Bytes) /\ pending \in Seq(Bytes) /\ text \in Texts
        /\ fed \in Seq(ByteClasses) /\ pending \in Seq(ByteClasses)
        /\ Held /\ SoFar
    BY <1>1, BytesAre DEF Utf8IInv
  <1>3. /\ off \in Nat /\ PartOf(pending, fed, off)
        /\ Len(fed) = off + Len(pending)
        /\ Len(fed) \in Nat /\ Len(pending) \in Nat
    BY <1>2 DEF Held
  <1>4. Lossy(fed) = text \o L[off + 1]
    <2>1. PartOf(fed, fed, 0)
      BY <1>3 DEF PartOf
    <2> QED
      BY <1>2, <2>1 DEF SoFar
  <1>5. L[Len(fed) + 1] = <<>>
    BY <1>2, LossyRecIs
  <1> HIDE DEF off, L
  <1>6. L[off + 1] = AtEnd
    <2>1. CASE pending = <<>>
      <3>1. Len(pending) = 0
        BY <2>1
      <3>2. off + 1 = Len(fed) + 1
        BY <1>3, <3>1
      <3> QED
        BY <1>5, <2>1, <3>2 DEF AtEnd
    <2>2. CASE pending # <<>>
      <3>1. OpenAt(pending, 1) /\ Len(pending) >= 1
        BY <1>2, <1>3, <2>2 DEF Held
      <3>2. OpenAt(fed, off + 1)
        BY <1>2, <1>3, <3>1, OpenTail
      <3> DEFINE m == Matching(fed, off + 1)
      <3>3. off + 1 \in 1 .. Len(fed)
        BY <1>3, <3>1
      <3>4. m < After(fed[off + 1]) /\ off + 1 + m = Len(fed)
        BY <3>2 DEF OpenAt
      <3>5. m \in 0 .. After(fed[off + 1]) /\ After(fed[off + 1]) \in 0 .. 3
        BY <1>2, <3>3, MatchingIs
      <3>6. NextAt(fed, off + 1) = Len(fed) + 1
        BY <3>4 DEF NextAt
      <3>7. PieceAt(fed, off + 1) = Replacement
        <4> HIDE DEF m
        <4>1. m # After(fed[off + 1])
          BY <3>4, <3>5
        <4> QED
          BY <4>1 DEF PieceAt, WholeAt, m
      <3>8. L[off + 1] = <<PieceAt(fed, off + 1)>> \o L[NextAt(fed, off + 1)]
        BY <1>2, <3>3, LossyRecIs DEF L
      <3>9. L[off + 1] = <<Replacement>> \o <<>>
        BY <1>5, <3>6, <3>7, <3>8
      <3>10. <<Replacement>> \o <<>> = <<Replacement>>
        OBVIOUS
      <3> QED
        BY <2>2, <3>9, <3>10 DEF AtEnd
    <2> QED
      BY <2>1, <2>2
  <1>7. AtEnd \in Texts
    <2>1. Replacement \in Seq(ByteClasses \cup {"U+FFFD"})
      BY DEF Replacement
    <2>2. <<Replacement>> \in Texts /\ <<>> \in Texts
      BY <2>1 DEF Texts
    <2> QED
      BY <2>2 DEF AtEnd
  <1>8. text' \in Texts
    BY <1>1, <1>2, <1>7 DEF Texts
  <1>9. pending' \in Seq(Bytes)
    BY <1>1
  <1>10. text' = Lossy(fed')
    BY <1>1, <1>4, <1>6
  <1> QED
    BY <1>1, <1>2, <1>8, <1>9, <1>10 DEF Utf8IInv

\* The invariant holds always.
LEMMA Utf8Inductive == Utf8Spec => []Utf8IInv
  <1>1. Utf8Init => Utf8IInv
    BY Utf8InitHolds
  <1>2. Utf8IInv /\ [Utf8Next]_utf8Vars => Utf8IInv'
    <2> SUFFICES ASSUME Utf8IInv, [Utf8Next]_utf8Vars
                 PROVE  Utf8IInv'
      OBVIOUS
    <2>1. ASSUME NEW n \in 1 .. MaxBytes - Len(fed), NEW c \in [1 .. n -> Bytes],
                 Push(c)
          PROVE  Utf8IInv'
      <3>1. n \in Nat
        OBVIOUS
      <3>2. c \in Seq(Bytes)
        BY <3>1
      <3> QED
        BY <2>1, <3>2, PushHolds
    <2>2. CASE Finish
      BY <2>2, FinishHolds
    <2>3. CASE UNCHANGED utf8Vars
      BY <2>3 DEF utf8Vars, Utf8IInv, Held, SoFar
    <2> QED
      BY <2>1, <2>2, <2>3 DEF Utf8Next
  <1> QED
    BY <1>1, <1>2, PTL DEF Utf8Spec

\* However commands.rs's decoder is fed, what it has returned at the end is
\* String::from_utf8_lossy of the whole stream.
THEOREM TextIsLossy == Utf8Spec => []TextIsReference
  <1>1. Utf8IInv => TextIsReference
    BY DEF Utf8IInv, TextIsReference
  <1> QED
    BY <1>1, Utf8Inductive, PTL

\* The types of the decoder's state; it never holds back more than three bytes.
THEOREM Utf8Types == Utf8Spec => []Utf8TypeOK
  <1>1. Utf8IInv => Utf8TypeOK
    <2> SUFFICES ASSUME Utf8IInv
                 PROVE  Utf8TypeOK
      OBVIOUS
    <2>1. /\ fed \in Seq(Bytes) /\ pending \in Seq(Bytes) /\ text \in Texts
          /\ ended \in BOOLEAN
      BY DEF Utf8IInv
    <2>2. Len(pending) < 4
      <3>1. CASE pending = <<>>
        BY <3>1
      <3>2. CASE pending # <<>>
        <4>1. OpenAt(pending, 1) /\ 1 \in 1 .. Len(pending)
          BY <2>1, <3>2 DEF Utf8IInv, Held
        <4> DEFINE m == Matching(pending, 1)
                   w == After(pending[1])
        <4>2. m < w /\ 1 + m = Len(pending)
          BY <4>1 DEF OpenAt
        <4>3. m \in 0 .. w /\ w \in 0 .. 3
          BY <2>1, <4>1, BytesAre, MatchingIs
        <4> HIDE DEF m, w
        <4> QED
          BY <2>1, <4>2, <4>3
      <3> QED
        BY <3>1, <3>2
    <2> QED
      BY <2>1, <2>2 DEF Utf8TypeOK, Texts
  <1> QED
    BY <1>1, Utf8Inductive, PTL

=============================================================================
