---------------------------- MODULE Lexer_proofs ----------------------------
(* Proofs about Lexer, for every alphabet, every set of reserved words and every
   text. *)
EXTENDS Lexer, FiniteSetTheorems, WellFoundedInduction, SequenceTheorems, TLAPS

-----------------------------------------------------------------------------
(* A set of positions has a first one: among the initial segments of its members
   there is a smallest. *)
LEMMA MinInSet ==
    ASSUME NEW S \in SUBSET Nat, S # {}
    PROVE  Min(S) \in S /\ \A y \in S : Min(S) <= y
<1>. DEFINE T == {0 .. x : x \in S}
<1>1. T \subseteq FiniteSubsetsOf(Nat) /\ T # {}
  <2>1. \A x \in S : 0 .. x \in SUBSET Nat /\ IsFiniteSet(0 .. x)
    BY FS_Interval
  <2>. QED
    BY <2>1 DEF FiniteSubsetsOf
<1>2. PICK I \in T : \A J \in T : <<J, I>> \notin StrictSubsetOrdering(Nat)
  BY <1>1, FS_StrictSubsetOrderingWellFounded, WFMin, Zenon
<1>3. PICK x \in S : I = 0 .. x
  OBVIOUS
<1>4. \A y \in S : x <= y
  <2>. SUFFICES ASSUME NEW y \in S, y < x PROVE FALSE
    OBVIOUS
  <2>1. <<0 .. y, 0 .. x>> \in StrictSubsetOrdering(Nat)
    BY x \in 0 .. x DEF StrictSubsetOrdering
  <2>. QED
    BY <2>1, <1>2, <1>3
<1>. QED
  BY <1>4 DEF Min

(* The one behind the text, which is in every list of delimiters, makes the set
   not empty. *)
LEMMA MinFrom ==
    ASSUME Positions, NEW k \in 1 .. Size + 1, NEW S \in SUBSET From(k), Size + 1 \in S
    PROVE  Min(S) \in S /\ Min(S) \in k .. Size + 1
<1>1. Size \in Nat
  BY LexerConstants DEF Positions, Size
<1>2. S \subseteq Nat /\ S # {}
  BY <1>1 DEF From
<1>. QED
  BY <1>1, <1>2, MinInSet DEF From

LEMMA SizeFacts ==
    ASSUME Positions
    PROVE  /\ Size \in Nat /\ i \in 1 .. Size + 1
           /\ Ch(Size + 1) = "end"
           /\ \A k \in Nat : Ch(k) # "end" => k \in 1 .. Size
BY LexerConstants DEF Positions, Size, Ch

LEMMA Single ==
    ASSUME NEW c, NEW k \in Nat
    PROVE  StartsAt(<<c>>, k) <=> Ch(k) = c
<1>1. DOMAIN <<c>> = {1} /\ k + 1 - 1 = k
  OBVIOUS
<1>. QED
  BY <1>1 DEF StartsAt

LEMMA Pair ==
    ASSUME NEW c, NEW d, NEW k \in Nat
    PROVE  StartsAt(<<c, d>>, k) <=> Ch(k) = c /\ Ch(k + 1) = d
<1>1. DOMAIN <<c, d>> = {1, 2} /\ k + 1 - 1 = k /\ k + 2 - 1 = k + 1
  OBVIOUS
<1>. QED
  BY <1>1 DEF StartsAt

LEMMA Tuples ==
    ASSUME NEW c, NEW d
    PROVE  /\ Len(<<c>>) \in Nat \ {0} /\ Len(<<c>>) \in DOMAIN <<c>> /\ <<c>>[Len(<<c>>)] = c
           /\ Len(<<c, d>>) \in Nat \ {0} /\ Len(<<c, d>>) \in DOMAIN <<c, d>>
           /\ <<c, d>>[Len(<<c, d>>)] = d
           /\ Len(<< >>) = 0
OBVIOUS

LEMMA SubText ==
    ASSUME Positions, NEW a \in 1 .. Size + 1, NEW b \in a - 1 .. Size
    PROVE  SubSeq(text, a, b) \in Seq(Char) /\ Len(SubSeq(text, a, b)) = b - a + 1
<1>1. text \in Seq(Char) /\ Size \in Nat /\ Len(text) = Size
  BY LexerConstants DEF Positions, Size
<1>2. \A k \in a .. b : text[k] \in Char
  BY <1>1, ElementOfSeq
<1>3. a \in Int /\ b \in Int
  BY <1>1
<1>. QED
  BY <1>1, <1>2, <1>3, SubSeqProperties

LEMMA SecondOfLong ==
    ASSUME NEW s \in LongRedirections, NEW k \in Nat, StartsAt(s, k)
    PROVE  Ch(k + 1) # "end"
<1>1. PICK c \in Angles, d \in {"|", ">", "&"} : s = <<c, d>>
  BY DEF LongRedirections, Angles
<1>2. Ch(k + 1) = d
  BY <1>1, Pair
<1>. QED
  BY <1>2

USE DEF Take, Skip, Loading

-----------------------------------------------------------------------------
(* One lemma for each action that moves: it stays in the text and goes forward. *)
LEMMA WordStep == Positions /\ TakeWord => Positions' /\ i' > i
<1>. SUFFICES ASSUME Positions, TakeWord PROVE Positions' /\ i' > i
  OBVIOUS
<1>0. i \in Nat
  BY SizeFacts
<1>. DEFINE S == {k \in From(i) : Ch(k) = "end" \/ (Ch(k) \in WordEnds /\ ~Quoted(i, k))}
<1>1. Size + 1 \in S
  BY SizeFacts DEF From
<1>2. i \notin S
  <2>1. CASE Ch(i) = "\\"
    BY <2>1 DEF WordEnds, Blanks, Angles
  <2>2. CASE Ordinary /\ ~is_redirection(i) /\ OperatorsAt(i) = {}
    <3>1. ~Quoted(i, i)
      BY SizeFacts DEF Quoted
    <3>2. Ch(i) \notin Angles
      <4>1. ASSUME Ch(i) \in Angles PROVE is_redirection(i)
        BY <3>1, <2>2, <4>1, SizeFacts DEF is_redirection, Ordinary
      <4>. QED
        BY <2>2, <4>1
    <3>3. ASSUME NEW c \in {";", "|", "nl", "(", ")", "{", "}"} PROVE Ch(i) # c
      <4>1. ASSUME Ch(i) = c PROVE OperatorsAt(i) # {}
        <5>1. StartsAt(<<c>>, i)
          BY <1>0, <4>1, Single
        <5>2. <<c>> \in Operators
          BY <3>3 DEF Operators
        <5>3. CASE c = "|" /\ Ch(i + 1) = "|"
          <6>1. StartsAt(<<"|", "|">>, i)
            BY <1>0, <4>1, <5>3, Pair
          <6>2. <<"|", "|">> \in Operators /\ <<"|", "|">> # <<"|">>
            BY DEF Operators
          <6>. QED
            BY <6>1, <6>2 DEF OperatorsAt
        <5>4. CASE c = "|" /\ Ch(i + 1) # "|"
          BY <5>1, <5>2, <5>4 DEF OperatorsAt
        <5>5. CASE c # "|"
          <6>1. <<c>> # <<"|">>
            BY <5>5
          <6>. QED
            BY <5>1, <5>2, <6>1 DEF OperatorsAt
        <5>. QED
          BY <5>3, <5>4, <5>5
      <4>. QED
        BY <2>2, <4>1
    <3>4. Ch(i) \notin Blanks \cup {"'", "\"", "\\"}
      BY <2>2 DEF Ordinary, Special
    <3>5. Ch(i) # "end"
      BY <2>2, SizeFacts, LexerConstants DEF Ordinary, Ch, Positions, Size
    <3>. QED
      BY <3>2, <3>3, <3>4, <3>5 DEF WordEnds, Angles
  <2>. QED
    BY <2>1, <2>2 DEF TakeWord
<1>3. handle_word \in S /\ handle_word \in i .. Size + 1
  BY <1>1, SizeFacts, MinFrom DEF handle_word
<1>. QED
  BY <1>2, <1>3, SizeFacts DEF TakeWord, Positions, Size

(* No operator and no reserved word is empty, and none holds the character behind
   the text. *)
LEMMA NotEmpty ==
    ASSUME NEW s \in Operators \cup Keyword
    PROVE  Len(s) \in Nat \ {0} /\ Len(s) \in DOMAIN s /\ s[Len(s)] # "end"
<1>1. CASE s \in Operators
  <2>3. PICK c \in {";", "|", "&", "!", "nl", "{", "}", "(", ")"} : s = <<c>> \/ s = <<c, c>>
    BY <1>1 DEF Operators
  <2>4. CASE s = <<c>>
    BY <2>4, Tuples
  <2>5. CASE s = <<c, c>>
    BY <2>5, Tuples
  <2>. QED
    BY <2>3, <2>4, <2>5
<1>2. CASE s \in Keyword
  <2>1. s \in Seq(Char) /\ s # << >>
    BY <1>2, LexerConstants
  <2>2. Len(s) \in Nat \ {0} /\ DOMAIN s = 1 .. Len(s)
    BY <2>1, EmptySeq, LenProperties
  <2>3. s[Len(s)] \in Char
    BY <2>1, <2>2, ElementOfSeq
  <2>. QED
    BY <2>2, <2>3, LexerConstants
<1>. QED
  BY <1>1, <1>2

LEMMA OperatorStep == Positions /\ TakeOperator => Positions' /\ i' > i
<1>. SUFFICES ASSUME Positions, TakeOperator PROVE Positions' /\ i' > i
  OBVIOUS
<1>1. PICK s \in OperatorsAt(i) : Take(i + Len(s), Token("op", s))
  BY DEF TakeOperator
<1>2. Len(s) \in Nat \ {0} /\ Len(s) \in DOMAIN s /\ s[Len(s)] # "end" /\ StartsAt(s, i)
  BY NotEmpty DEF OperatorsAt
<1>3. Ch(i + Len(s) - 1) # "end"
  BY <1>2 DEF StartsAt
<1>4. i + Len(s) - 1 \in 1 .. Size
  BY <1>2, <1>3, SizeFacts
<1>. QED
  BY <1>1, <1>2, <1>4, SizeFacts DEF Positions, Size

LEMMA RedirectionStep == Positions /\ TakeRedirection => Positions' /\ i' > i
<1>. SUFFICES ASSUME Positions, TakeRedirection PROVE Positions' /\ i' > i
  OBVIOUS
<1>. DEFINE S == {m \in From(i) : Ch(m) \in RedirectionEnds}
            k == Min(S)
            long == {m \in i .. k - 1 : \E s \in LongRedirections : StartsAt(s, m)}
<1>0. Size \in Nat /\ i \in 1 .. Size + 1
  BY SizeFacts
<1>1. k \in S /\ k \in i .. Size + 1
  <2>1. "end" \in RedirectionEnds
    BY DEF RedirectionEnds, KeywordEnds, WordEnds, Angles
  <2>2. Size + 1 \in S
    BY <2>1, <1>0, SizeFacts DEF From
  <2>3. S \in SUBSET From(i)
    OBVIOUS
  <2>. HIDE DEF S
  <2>4. Min(S) \in S /\ Min(S) \in i .. Size + 1
    BY <2>2, <2>3, <1>0, MinFrom
  <2>. QED
    BY <2>4
<1>2. k > i
  <2>1. Ch(i) \in Digits \cup Angles
    <3>1. PICK m \in i .. Size :
            /\ Ch(m) \in Angles
            /\ \A n \in i .. m - 1 : \/ Ch(n) \in Digits \cup {"\\"}
                                     \/ Ch(n) \in Angles /\ Quoted(i, n)
      BY DEF TakeRedirection, is_redirection
    <3>2. m = i \/ i \in i .. m - 1
      BY <1>0
    <3>3. Ch(i) # "\\"
      BY DEF TakeRedirection, Ordinary, Special
    <3>. QED
      BY <3>1, <3>2, <3>3
  <2>2. i \notin S
    BY <2>1 DEF Digits, Angles, RedirectionEnds, KeywordEnds, WordEnds, Blanks
  <2>. QED
    BY <1>0, <1>1, <2>2
<1>3. ASSUME long # {} PROVE 2 + Min(long) \in i + 1 .. Size + 1
  <2>1. \A m \in long : m \in Nat /\ m >= i
    <3>. HIDE DEF k
    <3>. QED
      BY <1>0, <1>1
  <2>2. Min(long) \in long
    <3>. HIDE DEF long
    <3>1. long \in SUBSET Nat
      BY <2>1
    <3>. QED
      BY <3>1, <1>3, MinInSet
  <2>3. PICK s \in LongRedirections : StartsAt(s, Min(long))
    BY <2>2
  <2>. HIDE DEF long, k
  <2>4. Min(long) \in Nat /\ Min(long) >= i
    BY <2>1, <2>2
  <2>5. Min(long) + 1 \in 1 .. Size
    BY <2>3, <2>4, SecondOfLong, SizeFacts
  <2>. QED
    BY <1>0, <2>4, <2>5
<1>4. text' = text /\ i' = IF long = {} THEN k ELSE 2 + Min(long)
  BY DEF TakeRedirection
<1>. HIDE DEF long, k
<1>5. i' \in i + 1 .. Size + 1 /\ text' = text
  BY <1>0, <1>1, <1>2, <1>3, <1>4
<1>. QED
  BY <1>0, <1>5 DEF Positions, Size

LEMMA BlankStep == Positions /\ SkipBlank => Positions' /\ i' > i
BY SizeFacts DEF SkipBlank, Positions, Size

LEMMA CommentStep == Positions /\ SkipComment => Positions' /\ i' > i
<1>. SUFFICES ASSUME Positions, SkipComment PROVE Positions' /\ i' > i
  OBVIOUS
<1>. DEFINE S == {m \in From(i) : Ch(m) \in {"nl", "end"}}
<1>0. Size \in Nat /\ i \in 1 .. Size + 1
  BY SizeFacts
<1>1. Size + 1 \in S /\ S \in SUBSET From(i)
  BY <1>0, SizeFacts DEF From
<1>2. Ch(i) = "#" /\ text' = text /\ i' = IF Ch(Min(S)) = "nl" THEN Min(S) + 1 ELSE Min(S)
  BY DEF SkipComment
<1>3. i \notin S
  BY <1>2
<1>4. Ch(Min(S)) = "nl" => Ch(Min(S)) # "end"
  OBVIOUS
<1>. HIDE DEF S
<1>5. Min(S) \in S /\ Min(S) \in i .. Size + 1
  BY <1>0, <1>1, MinFrom
<1>6. Min(S) > i
  BY <1>0, <1>3, <1>5
<1>7. Ch(Min(S)) = "nl" => Min(S) \in 1 .. Size
  BY <1>0, <1>4, <1>5, SizeFacts
<1>. QED
  BY <1>0, <1>2, <1>5, <1>6, <1>7 DEF Positions, Size

(* Wherever the value says the next turn begins, it begins behind what was taken. *)
LEMMA QuoteParts ==
    ASSUME Positions, TakeQuote
    PROVE  /\ Closing \in i + 1 .. Size /\ i' \in Closing + 1 .. Size + 1
           /\ Ch(i) = "'" /\ Ch(Closing) = "'" /\ text' = text /\ pc' = pc
           /\ SubSeq(text, i + 1, Closing - 1) \in Seq(Char)
           /\ SubSeq(text, Closing + 1, i' - 1) \in Seq(Char)
           /\ \E value : /\ value = SubSeq(text, i + 1, Closing - 1)
                                      \o SubSeq(text, Closing + 1, i' - 1)
                         /\ toks' = IF value = << >> THEN toks ELSE Append(toks, Word(value))
<1>. DEFINE C == {k \in From(i + 1) : Ch(k) \in {"'", "end"}}
            T == {k \in From(Closing + 1) : Ch(k) \in WordEnds}
            to == Min(T)
            value == SubSeq(text, i + 1, Closing - 1) \o SubSeq(text, Closing + 1, to - 1)
<1>0. Size \in Nat /\ i \in 1 .. Size /\ i + 1 \in 1 .. Size + 1 /\ text \in Seq(Char)
  BY SizeFacts, LexerConstants DEF TakeQuote, Positions
<1>1. Ch(i) = "'" /\ Ch(Closing) = "'" /\ Ch(Closing) # "end"
  BY DEF TakeQuote
<1>2. Size + 1 \in C /\ C \in SUBSET From(i + 1) /\ Closing = Min(C)
  BY <1>0, SizeFacts DEF From, Closing
<1>3. "end" \in WordEnds
  BY DEF WordEnds
<1>4. /\ text' = text /\ pc' = pc
      /\ i' = IF value = << >> THEN i + 2 ELSE i + Len(value) + 2
      /\ toks' = IF value = << >> THEN toks ELSE Append(toks, Word(value))
  BY DEF TakeQuote
<1>. HIDE DEF C
<1>5. Closing \in i + 1 .. Size + 1
  BY <1>0, <1>2, MinFrom
<1>6. Closing \in i + 1 .. Size /\ Closing + 1 \in 1 .. Size + 1
  BY <1>0, <1>1, <1>5, SizeFacts
<1>7. Size + 1 \in T /\ T \in SUBSET From(Closing + 1)
  BY <1>0, <1>3, <1>6, SizeFacts DEF From
<1>. HIDE DEF T
<1>8. to \in Closing + 1 .. Size + 1
  BY <1>6, <1>7, MinFrom
<1>. HIDE DEF to
<1>9. /\ Len(value) = to - i - 2
      /\ SubSeq(text, i + 1, Closing - 1) \in Seq(Char)
      /\ SubSeq(text, Closing + 1, to - 1) \in Seq(Char)
  <2>1. /\ i + 1 \in 1 .. Size + 1 /\ Closing - 1 \in (i + 1) - 1 .. Size
        /\ Closing + 1 \in 1 .. Size + 1 /\ to - 1 \in (Closing + 1) - 1 .. Size
    BY <1>0, <1>6, <1>8
  <2>2. /\ SubSeq(text, i + 1, Closing - 1) \in Seq(Char)
        /\ Len(SubSeq(text, i + 1, Closing - 1)) = (Closing - 1) - (i + 1) + 1
    BY <2>1, SubText
  <2>3. /\ SubSeq(text, Closing + 1, to - 1) \in Seq(Char)
        /\ Len(SubSeq(text, Closing + 1, to - 1)) = (to - 1) - (Closing + 1) + 1
    BY <2>1, SubText
  <2>4. Len(value) = ((Closing - 1) - (i + 1) + 1) + ((to - 1) - (Closing + 1) + 1)
    BY <2>2, <2>3, ConcatProperties
  <2>5. Len(value) = to - i - 2
    BY <1>0, <1>6, <1>8, <2>4
  <2>. QED
    BY <2>2, <2>3, <2>5
<1>10. value = << >> => Len(value) = 0
  BY Tuples
<1>. HIDE DEF value
<1>11. i' = to
  BY <1>0, <1>4, <1>6, <1>8, <1>9, <1>10
<1>. QED
  BY <1>1, <1>4, <1>6, <1>8, <1>9, <1>11, Zenon DEF value

LEMMA QuoteStep == Positions /\ TakeQuote => Positions' /\ i' > i
<1>. SUFFICES ASSUME Positions, TakeQuote PROVE Positions' /\ i' > i
  OBVIOUS
<1>1. Closing \in i + 1 .. Size /\ i' \in Closing + 1 .. Size + 1 /\ text' = text
  BY QuoteParts
<1>. QED
  BY <1>1, SizeFacts DEF Positions, Size

LEMMA VarStep == Positions /\ TakeVar => Positions' /\ i' > i
<1>. SUFFICES ASSUME Positions, TakeVar PROVE Positions' /\ i' > i
  OBVIOUS
<1>. DEFINE closer == IF Ch(i + 1) = "(" THEN ")" ELSE "}"
            S == {k \in From(i + 1) : Ch(k) = "end" \/ (Ch(k) = closer /\ ~Quoted(i + 1, k))}
<1>1. i <= Size /\ Ch(handle_var) # "end" /\ text' = text /\ i' = handle_var + 1
  BY DEF TakeVar, AtVar
<1>2. handle_var = Min(S) /\ S \in SUBSET From(i + 1)
  BY DEF handle_var
<1>3. Size + 1 \in From(i + 1) => Size + 1 \in S
  BY SizeFacts
<1>. HIDE DEF S
<1>4. Size \in Nat /\ i \in 1 .. Size /\ i + 1 \in 1 .. Size + 1
  BY <1>1, SizeFacts
<1>5. Size + 1 \in S
  BY <1>4, <1>3 DEF From
<1>6. handle_var \in i + 1 .. Size + 1
  BY <1>4, <1>2, <1>5, MinFrom
<1>7. handle_var \in 1 .. Size
  BY <1>4, <1>1, <1>6, SizeFacts
<1>. QED
  BY <1>4, <1>1, <1>6, <1>7 DEF Positions, Size

LEMMA OpenStep == Positions /\ OpenDouble => Positions' /\ i' > i
<1>. SUFFICES ASSUME Positions, OpenDouble PROVE Positions' /\ i' > i
  OBVIOUS
<1>1. text' = text /\ i' = i + 1 /\ i <= Size
  BY DEF OpenDouble
<1>. QED
  BY <1>1, SizeFacts DEF Positions, Size

LEMMA CloseStep == Positions /\ CloseDouble => Positions' /\ i' > i
<1>. SUFFICES ASSUME Positions, CloseDouble PROVE Positions' /\ i' > i
  OBVIOUS
<1>1. Ch(i) # "end" /\ text' = text /\ i' = i + 1
  BY DEF CloseDouble
<1>. QED
  BY <1>1, SizeFacts DEF Positions, Size

(* The piece is empty only in front of a $, which is passed over. *)
LEMMA TextStep == Positions /\ TakeText => Positions' /\ i' > i
<1>. SUFFICES ASSUME Positions, TakeText PROVE Positions' /\ i' > i
  OBVIOUS
<1>. DEFINE S == {k \in From(i) : Ch(k) = "end" \/ (Ch(k) \in {"\"", "$"} /\ ~Escaped(k))}
<1>0. Size \in Nat /\ i \in 1 .. Size + 1
  BY SizeFacts
<1>1. /\ text' = text
      /\ i' = IF Ch(EndOfPiece) = "$" THEN EndOfPiece + 1 ELSE EndOfPiece
      /\ Ch(EndOfPiece) = "$" => Ch(EndOfPiece) # "end"
  BY DEF TakeText
<1>2. EndOfPiece = Min(S) /\ S \in SUBSET From(i)
  BY DEF EndOfPiece
<1>3. i \in S => Ch(i) = "$"
  BY DEF TakeText
<1>4. Size + 1 \in From(i) => Size + 1 \in S
  BY SizeFacts
<1>. HIDE DEF S
<1>5. Size + 1 \in S
  BY <1>0, <1>4 DEF From
<1>6. EndOfPiece \in S /\ EndOfPiece \in i .. Size + 1
  BY <1>0, <1>2, <1>5, MinFrom
<1>7. Ch(EndOfPiece) = "$" => EndOfPiece \in 1 .. Size
  BY <1>0, <1>1, <1>6, SizeFacts
<1>8. Ch(EndOfPiece) # "$" => EndOfPiece > i
  BY <1>0, <1>3, <1>6
<1>. QED
  BY <1>0, <1>1, <1>6, <1>7, <1>8 DEF Positions, Size

LEMMA NameStep == Positions /\ TakeName => Positions' /\ i' > i
<1>. SUFFICES ASSUME Positions, TakeName PROVE Positions' /\ i' > i
  OBVIOUS
<1>. DEFINE S == {m \in From(i) : Ch(m) \in VariableEnds}
            k == Min(S)
            last == Ch(k) \in {"\"", "end"}
<1>0. Size \in Nat /\ i \in 1 .. Size + 1
  BY SizeFacts
<1>1. /\ text' = text /\ i' = IF last THEN k ELSE k + 1
      /\ last => Ch(k) # Ch(i)
      /\ ~last => Ch(k) # "end"
  BY DEF TakeName
<1>2. "end" \in VariableEnds
  BY DEF VariableEnds, KeywordEnds, WordEnds
<1>3. Size + 1 \in S /\ S \in SUBSET From(i)
  BY <1>0, <1>2, SizeFacts DEF From
<1>. HIDE DEF S
<1>4. k \in i .. Size + 1
  BY <1>0, <1>3, MinFrom
<1>. HIDE DEF k, last
<1>5. ~last => k \in 1 .. Size
  BY <1>0, <1>1, <1>4, SizeFacts
<1>6. last => k > i
  BY <1>0, <1>1, <1>4
<1>. QED
  BY <1>0, <1>1, <1>4, <1>5, <1>6 DEF Positions, Size

-----------------------------------------------------------------------------
(* The actions that end the lexer leave the position where it is. *)
LEMMA EndStep ==
    ASSUME Positions,
           UnclosedQuote \/ UnclosedVar \/ UnclosedDouble \/ ReadBehindText \/ EndOfText
    PROVE  Positions' /\ Ended'
<1>1. text' = text /\ i' = i
  BY DEF UnclosedQuote, UnclosedVar, UnclosedDouble, GiveUp, ReadBehindText, EndOfText
<1>2. pc' \in {"failed", "stopped", "done"}
  BY DEF UnclosedQuote, UnclosedVar, UnclosedDouble, GiveUp, ReadBehindText, EndOfText
<1>. QED
  BY <1>1, <1>2 DEF Positions, Size, Ended

LEMMA Step == Positions /\ [Next]_vars => Positions' /\ (i' > i \/ Ended' \/ UNCHANGED vars)
<1>. SUFFICES ASSUME Positions, [Next]_vars
              PROVE  Positions' /\ (i' > i \/ Ended' \/ UNCHANGED vars)
  OBVIOUS
<1>1. CASE TakeWord
  BY <1>1, WordStep
<1>2. CASE TakeOperator
  BY <1>2, OperatorStep
<1>3. CASE TakeRedirection
  BY <1>3, RedirectionStep
<1>4. CASE SkipBlank
  BY <1>4, BlankStep
<1>5. CASE SkipComment
  BY <1>5, CommentStep
<1>6. CASE TakeQuote
  BY <1>6, QuoteStep
<1>7. CASE TakeVar
  BY <1>7, VarStep
<1>8. CASE OpenDouble
  BY <1>8, OpenStep
<1>9. CASE TakeText
  BY <1>9, TextStep
<1>10. CASE TakeName
  BY <1>10, NameStep
<1>11. CASE CloseDouble
  BY <1>11, CloseStep
<1>12. CASE UnclosedQuote \/ UnclosedVar \/ UnclosedDouble \/ ReadBehindText \/ EndOfText
  BY <1>12, EndStep
<1>13. CASE Finished \/ UNCHANGED vars
  BY <1>13 DEF Finished, Positions, Size, vars
<1>. QED
  BY <1>1, <1>2, <1>3, <1>4, <1>5, <1>6, <1>7, <1>8, <1>9, <1>10, <1>11, <1>12, <1>13 DEF Next

(* The lexer's position is in the text or at once behind it, whatever the text and
   the reserved words (the part of TypeOK that keeps lexer_load and the loops it
   calls from reading past the '\0'; ReadBehindText is the one that does, and there
   the lexer stops). *)
THEOREM PositionsHold == Spec => []Positions
<1>1. Init => Positions
  BY LexerConstants DEF Init, Positions, Size
<1>2. Positions /\ [Next]_vars => Positions'
  BY Step
<1>. QED
  BY <1>1, <1>2, PTL DEF Spec

(* Every turn of lexer_load and of handle_double_quote moves the position forward or
   is the last one, so that the lexer ends on every text. *)
THEOREM LexerAdvances == Spec => Advances
<1>1. Positions /\ [Next]_vars => [i' > i \/ Ended']_vars
  BY Step
<1>. QED
  BY <1>1, PositionsHold, PTL DEF Spec, Advances

-----------------------------------------------------------------------------
(* What holds before a loop and is kept by each of its turns holds after all of them. *)
LEMMA UpTo ==
    ASSUME NEW m \in Nat, NEW S, 0 \in S, \A n \in 1 .. m : n - 1 \in S => n \in S
    PROVE  \A n \in 0 .. m : n \in S
<1>. DEFINE B == {n \in 0 .. m : n \notin S}
<1>. SUFFICES ASSUME B # {}
              PROVE  FALSE
  OBVIOUS
<1>1. B \in SUBSET Nat
  OBVIOUS
<1>2. PICK b \in B : \A y \in B : b <= y
  <2>. HIDE DEF B
  <2>. QED
    BY <1>1, MinInSet
<1>3. b \in 1 .. m /\ b - 1 \in 0 .. m /\ b - 1 \notin B
  BY <1>2
<1>. QED
  BY <1>2, <1>3

(* A loop computes something: the function that says what it has after each turn
   exists, for it does as far as any turn. *)
LEMMA LoopComputes ==
    ASSUME NEW m \in Nat, NEW turn \in [1 .. m -> [Seq(Char) -> Seq(Char)]]
    PROVE  \E f \in [0 .. m -> Seq(Char)] :
               f[0] = << >> /\ \A n \in 1 .. m : f[n] = turn[n][f[n - 1]]
<1>. DEFINE Upto(f, k) == f[0] = << >> /\ \A n \in 1 .. k : f[n] = turn[n][f[n - 1]]
            T == {k \in 0 .. m : \E f \in [0 .. k -> Seq(Char)] : Upto(f, k)}
<1>1. 0 \in T
  <2>. DEFINE f == [n \in 0 .. 0 |-> << >>]
  <2>1. f \in [0 .. 0 -> Seq(Char)] /\ f[0] = << >>
    OBVIOUS
  <2>. HIDE DEF f
  <2>2. Upto(f, 0)
    BY <2>1
  <2>. QED
    BY <2>1, <2>2
<1>2. ASSUME NEW k \in 1 .. m, k - 1 \in T
      PROVE  k \in T
  <2>1. PICK f \in [0 .. k - 1 -> Seq(Char)] : Upto(f, k - 1)
    BY <1>2
  <2>. DEFINE g == [n \in 0 .. k |-> IF n = k THEN turn[k][f[k - 1]] ELSE f[n]]
  <2>2. g \in [0 .. k -> Seq(Char)]
    BY <2>1
  <2>3. g[0] = << >> /\ g[k] = turn[k][g[k - 1]]
    BY <2>1
  <2>4. ASSUME NEW n \in 1 .. k - 1
        PROVE  g[n] = turn[n][g[n - 1]]
    BY <2>1
  <2>. HIDE DEF g
  <2>5. Upto(g, k)
    BY <2>3, <2>4
  <2>6. k \in 0 .. m
    OBVIOUS
  <2>. QED
    BY <2>2, <2>5, <2>6, Zenon
<1>. HIDE DEF T
<1>3. \A k \in 0 .. m : k \in T
  BY <1>1, <1>2, UpTo, Zenon
<1>. QED
  BY <1>3, m \in 0 .. m DEF T

PickEq(f, s, P) ==
    f = [n \in 0 .. Len(s) |->
            IF n = 0 THEN << >>
            ELSE IF n \in P THEN Append(f[n - 1], s[n])
            ELSE f[n - 1]]
Picks(f, s, P) ==
    /\ f[0] = << >>
    /\ \A n \in 1 .. Len(s) : f[n] = IF n \in P THEN Append(f[n - 1], s[n]) ELSE f[n - 1]
    /\ Picked(s, P) = f[Len(s)]

LEMMA PickedPicks ==
    ASSUME NEW s \in Seq(Char), NEW P
    PROVE  \E f : Picks(f, s, P) /\ \A n \in 0 .. Len(s) : f[n] \in Seq(Char)
<1>. DEFINE turn == [n \in 1 .. Len(s) |->
                       [q \in Seq(Char) |-> IF n \in P THEN Append(q, s[n]) ELSE q]]
<1>1. Len(s) \in Nat /\ \A n \in 1 .. Len(s) : s[n] \in Char
  BY ElementOfSeq
<1>2. turn \in [1 .. Len(s) -> [Seq(Char) -> Seq(Char)]] /\ << >> \in Seq(Char)
  BY <1>1, AppendProperties
<1>3. \A n \in 1 .. Len(s) : \A q \in Seq(Char) :
        turn[n][q] = IF n \in P THEN Append(q, s[n]) ELSE q
  OBVIOUS
<1>. HIDE DEF turn
<1>4. PICK g \in [0 .. Len(s) -> Seq(Char)] :
        g[0] = << >> /\ \A n \in 1 .. Len(s) : g[n] = turn[n][g[n - 1]]
  BY <1>1, <1>2, LoopComputes, Zenon
<1>5. \A n \in 1 .. Len(s) : g[n] = IF n \in P THEN Append(g[n - 1], s[n]) ELSE g[n - 1]
  <2>1. \A n \in 1 .. Len(s) : n - 1 \in 0 .. Len(s)
    BY <1>1
  <2>. QED
    BY <1>3, <1>4, <2>1, Zenon
<1>6. PickEq(g, s, P)
  <2>1. \A n \in 0 .. Len(s) : g[n] = IF n = 0 THEN << >>
                                      ELSE IF n \in P THEN Append(g[n - 1], s[n])
                                      ELSE g[n - 1]
    <3>1. \A n \in 0 .. Len(s) : n = 0 \/ n \in 1 .. Len(s)
      BY <1>1
    <3>2. \A n \in 1 .. Len(s) : n # 0
      BY <1>1
    <3>. QED
      BY <3>1, <3>2, <1>4, <1>5, Zenon
  <2>. QED
    BY <2>1 DEF PickEq
<1>7. PICK f : PickEq(f, s, P) /\ Picked(s, P) = f[Len(s)]
  <2>1. PickEq(CHOOSE f : PickEq(f, s, P), s, P)
    BY <1>6, Zenon
  <2>2. Picked(s, P) = (CHOOSE f : PickEq(f, s, P))[Len(s)]
    BY Zenon DEF Picked, PickEq
  <2>. QED
    BY <2>1, <2>2, Zenon
<1>8. \A n \in 0 .. Len(s) : f[n] = IF n = 0 THEN << >>
                                    ELSE IF n \in P THEN Append(f[n - 1], s[n])
                                    ELSE f[n - 1]
  BY <1>7, Zenon DEF PickEq
<1>9. Picks(f, s, P)
  BY <1>1, <1>7, <1>8 DEF Picks
<1>. DEFINE T == {n \in 0 .. Len(s) : f[n] \in Seq(Char)}
<1>10. 0 \in T
  <2>1. 0 \in 0 .. Len(s)
    BY <1>1
  <2>. QED
    BY <2>1, <1>2, <1>9, Zenon DEF Picks
<1>11. ASSUME NEW n \in 1 .. Len(s), n - 1 \in T
       PROVE  n \in T
  <2>1. n \in 0 .. Len(s) /\ s[n] \in Char /\ f[n - 1] \in Seq(Char)
    BY <1>1, <1>11
  <2>2. f[n] = IF n \in P THEN Append(f[n - 1], s[n]) ELSE f[n - 1]
    BY <1>9, Zenon DEF Picks
  <2>3. Append(f[n - 1], s[n]) \in Seq(Char)
    BY <2>1, AppendProperties, Zenon
  <2>. QED
    BY <2>1, <2>2, <2>3, Zenon
<1>. HIDE DEF T
<1>12. \A n \in 0 .. Len(s) : n \in T
  BY <1>1, <1>10, <1>11, UpTo, Zenon
<1>. QED
  BY <1>9, <1>12 DEF T

LEMMA AppendConcat ==
    ASSUME NEW u \in Seq(Char), NEW v \in Seq(Char), NEW c \in Char
    PROVE  Append(u \o v, c) = u \o Append(v, c)
<1>. DEFINE last == <<c>>
<1>1. last \in Seq(Char) /\ u \o v \in Seq(Char)
  OBVIOUS
<1>2. Append(u \o v, c) = (u \o v) \o last /\ Append(v, c) = v \o last
  BY <1>1, AppendIsConcat
<1>. HIDE DEF last
<1>3. (u \o v) \o last = u \o (v \o last)
  BY <1>1, ConcatAssociative
<1>. QED
  BY <1>2, <1>3, Zenon

LEMMA PickedConcat ==
    ASSUME NEW a \in Seq(Char), NEW b \in Seq(Char), NEW P, NEW Q, NEW R,
           \A k \in 1 .. Len(a) : k \in R <=> k \in P,
           \A k \in 1 .. Len(b) : Len(a) + k \in R <=> k \in Q
    PROVE  Picked(a \o b, R) = Picked(a, P) \o Picked(b, Q)
<1>. DEFINE x == a \o b
<1>1. Len(a) \in Nat /\ Len(b) \in Nat /\ x \in Seq(Char) /\ Len(x) = Len(a) + Len(b)
  BY ConcatProperties
<1>2. /\ \A n \in 1 .. Len(a) : x[n] = a[n]
      /\ \A n \in 1 .. Len(b) : x[Len(a) + n] = b[n]
  BY <1>1, ConcatProperties
<1>. HIDE DEF x
<1>3. PICK f : Picks(f, a, P) /\ \A n \in 0 .. Len(a) : f[n] \in Seq(Char)
  BY PickedPicks
<1>4. PICK g : Picks(g, b, Q) /\ \A n \in 0 .. Len(b) : g[n] \in Seq(Char)
  BY PickedPicks
<1>5. PICK h : Picks(h, x, R) /\ \A n \in 0 .. Len(x) : h[n] \in Seq(Char)
  BY <1>1, PickedPicks
<1>. DEFINE T == {n \in 0 .. Len(a) : h[n] = f[n]}
            U == {n \in 0 .. Len(b) : h[Len(a) + n] = f[Len(a)] \o g[n]}
<1>6. Len(a) \in T
  <2>1. 0 \in T
    BY <1>1, <1>3, <1>5 DEF Picks
  <2>2. ASSUME NEW n \in 1 .. Len(a), n - 1 \in T
        PROVE  n \in T
    <3>1. n \in 1 .. Len(x) /\ x[n] = a[n] /\ (n \in R <=> n \in P) /\ h[n - 1] = f[n - 1]
      BY <1>1, <1>2, <2>2
    <3>2. h[n] = IF n \in R THEN Append(h[n - 1], x[n]) ELSE h[n - 1]
      BY <1>5, <3>1 DEF Picks
    <3>3. f[n] = IF n \in P THEN Append(f[n - 1], a[n]) ELSE f[n - 1]
      BY <1>3 DEF Picks
    <3>. QED
      BY <3>1, <3>2, <3>3
  <2>. HIDE DEF T
  <2>3. \A n \in 0 .. Len(a) : n \in T
    BY <1>1, <2>1, <2>2, UpTo, Zenon
  <2>. QED
    BY <1>1, <2>3
<1>7. Len(b) \in U
  <2>. DEFINE fa == f[Len(a)]
  <2>0. fa \in Seq(Char) /\ h[Len(a)] = fa
    BY <1>1, <1>3, <1>6
  <2>. HIDE DEF fa
  <2>1. 0 \in U
    <3>1. g[0] = << >> /\ Len(a) + 0 = Len(a)
      BY <1>1, <1>4 DEF Picks
    <3>2. fa \o << >> = fa
      BY <2>0, ConcatEmptySeq
    <3>3. h[Len(a) + 0] = f[Len(a)] \o g[0]
      BY <2>0, <3>1, <3>2 DEF fa
    <3>4. 0 \in 0 .. Len(b)
      BY <1>1
    <3>. QED
      BY <3>3, <3>4
  <2>2. ASSUME NEW n \in 1 .. Len(b), n - 1 \in U
        PROVE  n \in U
    <3>. DEFINE p == Len(a) + n
    <3>1. /\ p \in 1 .. Len(x) /\ x[p] = b[n]
          /\ (p \in R <=> n \in Q)
          /\ h[p - 1] = fa \o g[n - 1] /\ g[n - 1] \in Seq(Char) /\ b[n] \in Char
      <4>1. p \in 1 .. Len(x) /\ Len(a) + (n - 1) = p - 1 /\ n - 1 \in 0 .. Len(b)
        BY <1>1
      <4>2. b[n] \in Char
        BY ElementOfSeq
      <4>. QED
        BY <1>2, <1>4, <2>2, <4>1, <4>2 DEF fa
    <3>. HIDE DEF p
    <3>2. h[p] = IF p \in R THEN Append(h[p - 1], x[p])
                                             ELSE h[p - 1]
      <4>1. \A k \in 1 .. Len(x) : h[k] = IF k \in R THEN Append(h[k - 1], x[k]) ELSE h[k - 1]
        BY <1>5, Zenon DEF Picks
      <4>. QED
        BY <3>1, <4>1
    <3>3. g[n] = IF n \in Q THEN Append(g[n - 1], b[n]) ELSE g[n - 1]
      BY <1>4 DEF Picks
    <3>4. Append(fa \o g[n - 1], b[n]) = fa \o Append(g[n - 1], b[n])
      <4>1. fa \in Seq(Char) /\ g[n - 1] \in Seq(Char) /\ b[n] \in Char
        BY <2>0, <3>1, Zenon
      <4>. QED
        BY <4>1, AppendConcat
    <3>5. h[p] = fa \o g[n]
      BY <3>1, <3>2, <3>3, <3>4
    <3>6. n \in 0 .. Len(b)
      BY <1>1
    <3>. QED
      BY <3>5, <3>6 DEF fa, p
  <2>. HIDE DEF U
  <2>3. \A n \in 0 .. Len(b) : n \in U
    BY <1>1, <2>1, <2>2, UpTo, Zenon
  <2>. QED
    BY <1>1, <2>3
<1>8. h[Len(x)] = f[Len(a)] \o g[Len(b)]
  BY <1>1, <1>7
<1>. QED
  BY <1>3, <1>4, <1>5, <1>8 DEF Picks, x

LEMMA PickedTyped ==
    ASSUME NEW s \in Seq(Char), NEW P
    PROVE  Picked(s, P) \in Seq(Char)
<1>1. Len(s) \in Nat
  OBVIOUS
<1>2. PICK f : Picks(f, s, P) /\ \A n \in 0 .. Len(s) : f[n] \in Seq(Char)
  BY PickedPicks
<1>3. Len(s) \in 0 .. Len(s)
  BY <1>1
<1>. QED
  BY <1>2, <1>3, Zenon DEF Picks

(* Only goes through a concatenation, and through one character. *)
LEMMA OnlyConcat ==
    ASSUME NEW C, NEW a \in Seq(Char), NEW b \in Seq(Char)
    PROVE  Only(a \o b, C) = Only(a, C) \o Only(b, C)
<1>. DEFINE x == a \o b
            P == {k \in DOMAIN a : a[k] \in C}
            Q == {k \in DOMAIN b : b[k] \in C}
            R == {k \in DOMAIN x : x[k] \in C}
<1>1. Len(a) \in Nat /\ Len(b) \in Nat /\ x \in Seq(Char) /\ Len(x) = Len(a) + Len(b)
  BY ConcatProperties
<1>2. /\ \A n \in 1 .. Len(a) : x[n] = a[n]
      /\ \A n \in 1 .. Len(b) : x[Len(a) + n] = b[n]
  BY <1>1, ConcatProperties
<1>. HIDE DEF x
<1>3. ASSUME NEW k \in 1 .. Len(a)
      PROVE  k \in R <=> k \in P
  <2>1. k \in DOMAIN a /\ k \in DOMAIN x
    BY <1>1
  <2>. QED
    BY <2>1, <1>2
<1>4. ASSUME NEW k \in 1 .. Len(b)
      PROVE  Len(a) + k \in R <=> k \in Q
  <2>1. k \in DOMAIN b /\ Len(a) + k \in DOMAIN x
    BY <1>1
  <2>. QED
    BY <2>1, <1>2
<1>5. Only(a, C) = Picked(a, P) /\ Only(b, C) = Picked(b, Q) /\ Only(x, C) = Picked(x, R)
  BY DEF Only
<1>. HIDE DEF P, Q, R
<1>6. Picked(a \o b, R) = Picked(a, P) \o Picked(b, Q)
  BY <1>3, <1>4, PickedConcat
<1>. QED
  BY <1>5, <1>6, Zenon DEF x

LEMMA OnlyOne ==
    ASSUME NEW C, NEW c \in Char
    PROVE  Only(<<c>>, C) = IF c \in C THEN <<c>> ELSE << >>
<1>. DEFINE s == <<c>>
            P == {k \in DOMAIN s : s[k] \in C}
<1>1. s \in Seq(Char) /\ Len(s) = 1 /\ s[1] = c /\ DOMAIN s = {1}
  OBVIOUS
<1>2. 1 \in P <=> c \in C
  BY <1>1
<1>3. Append(<< >>, c) = s
  OBVIOUS
<1>4. Only(s, C) = Picked(s, P)
  BY DEF Only
<1>. HIDE DEF s, P
<1>5. PICK f : Picks(f, s, P)
  BY <1>1, PickedPicks, Zenon
<1>6. f[0] = << >> /\ f[1] = (IF 1 \in P THEN Append(f[0], s[1]) ELSE f[0]) /\ Picked(s, P) = f[1]
  <2>1. 1 \in 1 .. 1 /\ 1 - 1 = 0
    OBVIOUS
  <2>2. /\ f[0] = << >> /\ Picked(s, P) = f[1]
        /\ \A n \in 1 .. 1 : f[n] = IF n \in P THEN Append(f[n - 1], s[n]) ELSE f[n - 1]
    BY <1>1, <1>5, Zenon DEF Picks
  <2>. QED
    BY <2>1, <2>2
<1>. QED
  BY <1>1, <1>2, <1>3, <1>4, <1>6, Zenon DEF s

LEMMA OnlyEmpty == \A C : Only(<< >>, C) = << >>
<1>. SUFFICES ASSUME NEW C
              PROVE  Only(<< >>, C) = << >>
  OBVIOUS
<1>. DEFINE s == << >>
            P == {k \in DOMAIN s : s[k] \in C}
<1>1. s \in Seq(Char) /\ Len(s) = 0
  OBVIOUS
<1>2. Only(s, C) = Picked(s, P)
  BY DEF Only
<1>. HIDE DEF s, P
<1>3. PICK f : Picks(f, s, P)
  BY <1>1, PickedPicks, Zenon
<1>4. Picked(s, P) = << >>
  BY <1>1, <1>3, Zenon DEF Picks
<1>. QED
  BY <1>2, <1>4, Zenon DEF s

(* What is left out of a word does not matter if its characters do not. *)
LEMMA OnlyPicked ==
    ASSUME NEW C, NEW s \in Seq(Char), NEW P, NEW Q,
           \A k \in 1 .. Len(s) : s[k] \in C => (k \in P <=> k \in Q)
    PROVE  Only(Picked(s, P), C) = Only(Picked(s, Q), C)
<1>1. Len(s) \in Nat
  OBVIOUS
<1>2. PICK f : Picks(f, s, P) /\ \A n \in 0 .. Len(s) : f[n] \in Seq(Char)
  BY PickedPicks
<1>3. PICK g : Picks(g, s, Q) /\ \A n \in 0 .. Len(s) : g[n] \in Seq(Char)
  BY PickedPicks
<1>. DEFINE T == {n \in 0 .. Len(s) : Only(f[n], C) = Only(g[n], C)}
<1>4. 0 \in T
  <2>1. f[0] = g[0] /\ 0 \in 0 .. Len(s)
    BY <1>1, <1>2, <1>3 DEF Picks
  <2>. QED
    BY <2>1, Zenon
<1>5. ASSUME NEW n \in 1 .. Len(s), n - 1 \in T
      PROVE  n \in T
  <2>1. /\ f[n] = IF n \in P THEN Append(f[n - 1], s[n]) ELSE f[n - 1]
        /\ g[n] = IF n \in Q THEN Append(g[n - 1], s[n]) ELSE g[n - 1]
    BY <1>2, <1>3, Zenon DEF Picks
  <2>2. /\ n - 1 \in 0 .. Len(s) /\ n \in 0 .. Len(s)
        /\ f[n - 1] \in Seq(Char) /\ g[n - 1] \in Seq(Char)
        /\ s[n] \in Char
    BY <1>1, <1>2, <1>3, ElementOfSeq
  <2>3. Only(f[n - 1], C) = Only(g[n - 1], C)
    BY <1>5
  <2>4. ASSUME NEW q \in Seq(Char)
        PROVE  Only(Append(q, s[n]), C) = Only(q, C) \o (IF s[n] \in C THEN <<s[n]>> ELSE << >>)
    <3>. DEFINE one == <<s[n]>>
    <3>1. one \in Seq(Char) /\ Append(q, s[n]) = q \o one
      BY <2>2, AppendIsConcat
    <3>2. Only(one, C) = IF s[n] \in C THEN one ELSE << >>
      BY <2>2, OnlyOne, Zenon
    <3>. HIDE DEF one
    <3>3. Only(q \o one, C) = Only(q, C) \o Only(one, C)
      BY <3>1, OnlyConcat
    <3>. QED
      BY <3>1, <3>2, <3>3, Zenon DEF one
  <2>5. ASSUME NEW q \in Seq(Char), s[n] \notin C
        PROVE  Only(Append(q, s[n]), C) = Only(q, C)
    <3>1. Only(Append(q, s[n]), C) = Only(q, C) \o << >>
      BY <2>4, <2>5, Zenon
    <3>2. Only(q, C) \in Seq(Char)
      BY PickedTyped, Zenon DEF Only
    <3>. QED
      BY <3>1, <3>2, ConcatEmptySeq
  <2>6. CASE s[n] \in C
    <3>1. n \in P <=> n \in Q
      BY <2>6
    <3>2. Only(Append(f[n - 1], s[n]), C) = Only(Append(g[n - 1], s[n]), C)
      BY <2>2, <2>3, <2>4, <2>6, Zenon
    <3>3. Only(f[n], C) = Only(g[n], C)
      BY <2>1, <2>3, <3>1, <3>2, Zenon
    <3>. QED
      BY <2>2, <3>3
  <2>7. CASE s[n] \notin C
    <3>1. Only(f[n], C) = Only(f[n - 1], C) /\ Only(g[n], C) = Only(g[n - 1], C)
      BY <2>1, <2>2, <2>5, <2>7, Zenon
    <3>2. Only(f[n], C) = Only(g[n], C)
      BY <2>3, <3>1, Zenon
    <3>. QED
      BY <2>2, <3>2
  <2>. QED
    BY <2>6, <2>7
<1>. HIDE DEF T
<1>6. \A n \in 0 .. Len(s) : n \in T
  BY <1>1, <1>4, <1>5, UpTo, Zenon
<1>7. Only(f[Len(s)], C) = Only(g[Len(s)], C)
  BY <1>1, <1>6 DEF T
<1>. QED
  BY <1>2, <1>3, <1>7, Zenon DEF Picks

LEMMA PickedRange ==
    ASSUME NEW s \in Seq(Char), NEW a \in 1 .. Len(s) + 1, NEW b \in a - 1 .. Len(s)
    PROVE  Picked(s, a .. b) = SubSeq(s, a, b)
<1>1. Len(s) \in Nat /\ a \in Nat /\ b \in Nat /\ 1 <= a /\ a - 1 <= b /\ b <= Len(s)
  OBVIOUS
<1>2. PICK f : Picks(f, s, a .. b) /\ \A n \in 0 .. Len(s) : f[n] \in Seq(Char)
  BY PickedPicks
<1>. DEFINE T == {n \in 0 .. Len(s) :
                    f[n] = IF n < a THEN << >> ELSE SubSeq(s, a, IF n <= b THEN n ELSE b)}
<1>3. 0 \in T
  BY <1>1, <1>2 DEF Picks
<1>4. ASSUME NEW n \in 1 .. Len(s), n - 1 \in T
      PROVE  n \in T
  <2>1. f[n] = IF n \in a .. b THEN Append(f[n - 1], s[n]) ELSE f[n - 1]
    BY <1>2, Zenon DEF Picks
  <2>2. /\ n \in 0 .. Len(s) /\ n \in Nat /\ n >= 1
        /\ f[n - 1] = IF n - 1 < a THEN << >> ELSE SubSeq(s, a, IF n - 1 <= b THEN n - 1 ELSE b)
    BY <1>1, <1>4
  <2>3. CASE n < a
    BY <1>1, <2>1, <2>2, <2>3
  <2>4. CASE n >= a /\ n <= b
    <3>1. f[n - 1] = SubSeq(s, a, n - 1)
      <4>1. CASE n = a
        <5>1. SubSeq(s, a, n - 1) = << >>
          BY <1>1, <4>1, SubSeqEmpty
        <5>. QED
          BY <1>1, <2>2, <4>1, <5>1
      <4>2. CASE n # a
        BY <1>1, <2>2, <2>4, <4>2
      <4>. QED
        BY <4>1, <4>2
    <3>2. SubSeq(s, a, n) = SubSeq(s, a, n - 1) \o <<s[n]>>
      BY <1>1, <2>2, <2>4, SubSeqRecursiveSecond
    <3>3. f[n - 1] \in Seq(Char) /\ s[n] \in Char
      BY <1>1, <1>2, <2>2, ElementOfSeq
    <3>4. Append(f[n - 1], s[n]) = f[n - 1] \o <<s[n]>>
      BY <3>3, AppendIsConcat
    <3>5. f[n] = SubSeq(s, a, n)
      BY <1>1, <2>1, <2>2, <2>4, <3>1, <3>2, <3>4
    <3>6. ~(n < a)
      BY <1>1, <2>2, <2>4
    <3>. QED
      BY <2>2, <2>4, <3>5, <3>6, Zenon
  <2>5. CASE n > b /\ n >= a
    <3>1. f[n] = f[n - 1]
      BY <1>1, <2>1, <2>2, <2>5
    <3>2. f[n - 1] = SubSeq(s, a, b)
      <4>1. CASE n = a
        <5>1. SubSeq(s, a, b) = << >>
          BY <1>1, <2>5, <4>1, SubSeqEmpty
        <5>2. n - 1 < a
          BY <1>1, <4>1
        <5>. QED
          BY <2>2, <5>1, <5>2, Zenon
      <4>2. CASE n # a
        <5>1. ~(n - 1 < a) /\ (n - 1 <= b => n - 1 = b)
          BY <1>1, <2>2, <2>5, <4>2
        <5>. QED
          BY <2>2, <5>1, Zenon
      <4>. QED
        BY <4>1, <4>2
    <3>3. ~(n < a) /\ ~(n <= b)
      BY <1>1, <2>2, <2>5
    <3>. QED
      BY <2>2, <3>1, <3>2, <3>3, Zenon
  <2>. QED
    BY <1>1, <2>2, <2>3, <2>4, <2>5
<1>. HIDE DEF T
<1>5. \A n \in 0 .. Len(s) : n \in T
  BY <1>1, <1>3, <1>4, UpTo, Zenon
<1>6. f[Len(s)] = SubSeq(s, a, b)
  <2>1. f[Len(s)] = IF Len(s) < a THEN << >> ELSE SubSeq(s, a, IF Len(s) <= b THEN Len(s) ELSE b)
    BY <1>1, <1>5 DEF T
  <2>4. Len(s) <= b => Len(s) = b
    BY <1>1
  <2>2. CASE Len(s) < a
    <3>1. SubSeq(s, a, b) = << >>
      BY <1>1, <2>2, SubSeqEmpty
    <3>. QED
      BY <2>1, <2>2, <3>1
  <2>3. CASE ~(Len(s) < a)
    BY <2>1, <2>3, <2>4, Zenon
  <2>. QED
    BY <2>2, <2>3
<1>. QED
  BY <1>2, <1>6, Zenon DEF Picks

-----------------------------------------------------------------------------
(* The text of the tokens grows by the value of the token that is appended. *)
FlattenEq(f, q) == f = [n \in 1 .. Len(q) |-> IF n = 1 THEN q[n] ELSE f[n - 1] \o q[n]]
Flattens(f, q) ==
    /\ \A n \in 1 .. Len(q) : /\ f[n] = IF n = 1 THEN q[n] ELSE f[n - 1] \o q[n]
                              /\ f[n] \in Seq(Char)
    /\ FlattenSeq(q) = IF Len(q) = 0 THEN q ELSE f[Len(q)]

LEMMA FlattenSeqFlattens ==
    ASSUME NEW q \in Seq(Seq(Char))
    PROVE  \E f : Flattens(f, q)
<1>. DEFINE turn == [n \in 1 .. Len(q) |-> [u \in Seq(Char) |-> u \o q[n]]]
<1>1. Len(q) \in Nat /\ \A n \in 1 .. Len(q) : q[n] \in Seq(Char)
  BY ElementOfSeq
<1>2. turn \in [1 .. Len(q) -> [Seq(Char) -> Seq(Char)]]
  BY <1>1
<1>3. \A n \in 1 .. Len(q) : \A u \in Seq(Char) : turn[n][u] = u \o q[n]
  OBVIOUS
<1>. HIDE DEF turn
<1>4. PICK g \in [0 .. Len(q) -> Seq(Char)] :
        g[0] = << >> /\ \A n \in 1 .. Len(q) : g[n] = turn[n][g[n - 1]]
  BY <1>1, <1>2, LoopComputes, Zenon
<1>5. \A n \in 1 .. Len(q) : g[n] = g[n - 1] \o q[n] /\ g[n] \in Seq(Char)
  <2>1. \A n \in 1 .. Len(q) : n \in 0 .. Len(q) /\ n - 1 \in 0 .. Len(q)
    BY <1>1
  <2>2. \A n \in 0 .. Len(q) : g[n] \in Seq(Char)
    BY <1>4
  <2>. QED
    BY <1>3, <1>4, <2>1, <2>2, Zenon
<1>. DEFINE h == [n \in 1 .. Len(q) |-> g[n]]
<1>6. FlattenEq(h, q)
  <2>1. ASSUME NEW n \in 1 .. Len(q)
        PROVE  h[n] = IF n = 1 THEN q[n] ELSE h[n - 1] \o q[n]
    <3>1. CASE n = 1
      <4>0. 1 - 1 = 0
        OBVIOUS
      <4>1. g[n] = << >> \o q[n] /\ q[n] \in Seq(Char)
        BY <1>1, <1>4, <1>5, <3>1, <4>0, Zenon
      <4>2. << >> \o q[n] = q[n]
        BY <4>1, ConcatEmptySeq
      <4>3. h[n] = g[n]
        OBVIOUS
      <4>. QED
        BY <3>1, <4>1, <4>2, <4>3, Zenon
    <3>2. CASE n # 1
      <4>1. n - 1 \in 1 .. Len(q)
        BY <1>1, <3>2
      <4>. QED
        BY <1>5, <3>2, <4>1
    <3>. QED
      BY <3>1, <3>2
  <2>. QED
    BY <2>1 DEF FlattenEq
<1>. HIDE DEF h
<1>7. PICK f : FlattenEq(f, q) /\ FlattenSeq(q) = IF Len(q) = 0 THEN q ELSE f[Len(q)]
  <2>1. FlattenEq(CHOOSE f : FlattenEq(f, q), q)
    BY <1>6, Zenon
  <2>2. FlattenSeq(q) = IF Len(q) = 0 THEN q ELSE (CHOOSE f : FlattenEq(f, q))[Len(q)]
    BY Zenon DEF FlattenSeq, FlattenEq
  <2>. QED
    BY <2>1, <2>2, Zenon
<1>8. \A n \in 1 .. Len(q) : f[n] = IF n = 1 THEN q[n] ELSE f[n - 1] \o q[n]
  BY <1>7, Zenon DEF FlattenEq
<1>. DEFINE T == {n \in 0 .. Len(q) : n # 0 => f[n] \in Seq(Char)}
<1>9. 0 \in T
  BY <1>1
<1>10. ASSUME NEW n \in 1 .. Len(q), n - 1 \in T
       PROVE  n \in T
  <2>1. n = 1 => f[n] = q[n]
    BY <1>8, Zenon
  <2>2. n # 1 => f[n] = f[n - 1] \o q[n] /\ f[n - 1] \in Seq(Char)
    <3>1. n # 1 => n - 1 # 0
      BY <1>1
    <3>2. n - 1 # 0 => f[n - 1] \in Seq(Char)
      BY <1>10
    <3>. QED
      BY <1>8, <3>1, <3>2, Zenon
  <2>3. n \in 0 .. Len(q) /\ q[n] \in Seq(Char)
    BY <1>1
  <2>4. f[n] \in Seq(Char)
    BY <2>1, <2>2, <2>3, ConcatProperties
  <2>. QED
    BY <2>3, <2>4
<1>. HIDE DEF T
<1>11. \A n \in 0 .. Len(q) : n \in T
  BY <1>1, <1>9, <1>10, UpTo, Zenon
<1>12. \A n \in 1 .. Len(q) : f[n] \in Seq(Char)
  BY <1>1, <1>11 DEF T
<1>. QED
  BY <1>7, <1>8, <1>12, Zenon DEF Flattens

LEMMA FlattenAppend ==
    ASSUME NEW q \in Seq(Seq(Char)), NEW v \in Seq(Char)
    PROVE  FlattenSeq(q) \in Seq(Char) /\ FlattenSeq(Append(q, v)) = FlattenSeq(q) \o v
<1>. DEFINE r == Append(q, v)
<1>1. /\ Len(q) \in Nat /\ r \in Seq(Seq(Char)) /\ Len(r) = Len(q) + 1
      /\ \A n \in 1 .. Len(q) : r[n] = q[n]
      /\ r[Len(q) + 1] = v
  BY AppendProperties
<1>. HIDE DEF r
<1>2. PICK f : Flattens(f, q)
  BY FlattenSeqFlattens
<1>3. PICK g : Flattens(g, r)
  BY <1>1, FlattenSeqFlattens
<1>4. /\ \A n \in 1 .. Len(q) : /\ f[n] = IF n = 1 THEN q[n] ELSE f[n - 1] \o q[n]
                                /\ f[n] \in Seq(Char)
      /\ FlattenSeq(q) = IF Len(q) = 0 THEN q ELSE f[Len(q)]
  BY <1>2 DEF Flattens
<1>5. /\ \A n \in 1 .. Len(r) : g[n] = IF n = 1 THEN r[n] ELSE g[n - 1] \o r[n]
      /\ FlattenSeq(r) = IF Len(r) = 0 THEN r ELSE g[Len(r)]
  BY <1>3 DEF Flattens
<1>. DEFINE T == {n \in 0 .. Len(q) : n # 0 => g[n] = f[n]}
<1>6. 0 \in T
  BY <1>1
<1>7. ASSUME NEW n \in 1 .. Len(q), n - 1 \in T
      PROVE  n \in T
  <2>1. n \in 1 .. Len(r) /\ r[n] = q[n] /\ n \in 0 .. Len(q)
    BY <1>1
  <2>2. n # 1 => g[n - 1] = f[n - 1]
    BY <1>1, <1>7
  <2>3. g[n] = IF n = 1 THEN r[n] ELSE g[n - 1] \o r[n]
    BY <1>5, <2>1
  <2>4. f[n] = IF n = 1 THEN q[n] ELSE f[n - 1] \o q[n]
    BY <1>4
  <2>5. g[n] = f[n]
    BY <2>1, <2>2, <2>3, <2>4, Zenon
  <2>. QED
    BY <2>1, <2>5
<1>. HIDE DEF T
<1>8. \A n \in 0 .. Len(q) : n \in T
  BY <1>1, <1>6, <1>7, UpTo, Zenon
<1>9. Len(q) # 0 => g[Len(q)] = f[Len(q)] /\ f[Len(q)] \in Seq(Char)
  BY <1>1, <1>4, <1>8 DEF T
<1>10. CASE Len(q) = 0
  <2>1. q = << >>
    BY <1>10, EmptySeq
  <2>2. Len(r) = 1 /\ 1 \in 1 .. Len(r) /\ r[1] = v
    BY <1>1, <1>10
  <2>3. FlattenSeq(r) = v
    BY <1>5, <2>2
  <2>4. << >> \in Seq(Char) /\ << >> \o v = v
    BY ConcatEmptySeq
  <2>5. FlattenSeq(q) = << >>
    BY <1>4, <1>10, <2>1
  <2>. QED
    BY <2>3, <2>4, <2>5 DEF r
<1>11. CASE Len(q) # 0
  <2>1. Len(q) + 1 \in 1 .. Len(r) /\ Len(q) + 1 # 1 /\ Len(q) + 1 - 1 = Len(q) /\ Len(r) # 0
    BY <1>1, <1>11
  <2>2. g[Len(r)] = g[Len(q)] \o v
    <3>1. Len(r) \in 1 .. Len(r) /\ Len(r) # 1 /\ Len(r) - 1 = Len(q) /\ r[Len(r)] = v
      BY <1>1, <2>1
    <3>2. g[Len(r)] = IF Len(r) = 1 THEN r[Len(r)] ELSE g[Len(r) - 1] \o r[Len(r)]
      BY <1>5, <3>1, Zenon
    <3>. QED
      BY <3>1, <3>2, Zenon
  <2>. QED
    BY <1>4, <1>5, <1>9, <1>11, <2>1, <2>2 DEF r
<1>. QED
  BY <1>10, <1>11

Tok == [type : {"word", "redir", "op", "eof"}, value : Seq(Char)]

LEMMA ValuesAppend ==
    ASSUME NEW ts \in Seq(Tok), NEW t \in Tok
    PROVE  /\ Append(ts, t) \in Seq(Tok) /\ Values(ts) \in Seq(Char)
           /\ Values(Append(ts, t)) = Values(ts) \o t.value
<1>. DEFINE us == Append(ts, t)
            q == [k \in DOMAIN ts |-> ts[k].value]
            r == [k \in DOMAIN us |-> us[k].value]
<1>1. /\ Len(ts) \in Nat /\ DOMAIN ts = 1 .. Len(ts)
      /\ \A k \in 1 .. Len(ts) : ts[k] \in Tok
  OBVIOUS
<1>2. /\ us \in Seq(Tok) /\ Len(us) = Len(ts) + 1 /\ DOMAIN us = 1 .. Len(ts) + 1
      /\ \A k \in 1 .. Len(ts) : us[k] = ts[k]
      /\ us[Len(ts) + 1] = t
  BY AppendProperties
<1>3. t.value \in Seq(Char) /\ \A k \in 1 .. Len(ts) : ts[k].value \in Seq(Char)
  BY <1>1 DEF Tok
<1>. HIDE DEF us
<1>4. q \in Seq(Seq(Char)) /\ Len(q) = Len(ts) /\ \A k \in 1 .. Len(ts) : q[k] = ts[k].value
  BY <1>1, <1>3
<1>5. /\ r \in Seq(Seq(Char)) /\ Len(r) = Len(ts) + 1
      /\ \A k \in 1 .. Len(ts) : r[k] = ts[k].value
      /\ r[Len(ts) + 1] = t.value
  <2>1. \A k \in 1 .. Len(ts) + 1 : us[k].value \in Seq(Char)
    <3>1. \A k \in 1 .. Len(ts) + 1 : k \in 1 .. Len(ts) \/ k = Len(ts) + 1
      BY <1>1
    <3>2. \A k \in 1 .. Len(ts) : us[k].value \in Seq(Char)
      BY <1>2, <1>3, Zenon
    <3>3. us[Len(ts) + 1].value \in Seq(Char)
      BY <1>2, <1>3, Zenon
    <3>. QED
      BY <3>1, <3>2, <3>3, Zenon
  <2>2. Len(ts) + 1 \in Nat /\ \A k \in 1 .. Len(ts) : k \in 1 .. Len(ts) + 1
    BY <1>1
  <2>. QED
    BY <1>1, <1>2, <2>1, <2>2
<1>. HIDE DEF q, r
<1>6. r = Append(q, t.value)
  <2>. DEFINE p == Append(q, t.value)
  <2>1. /\ p \in Seq(Seq(Char)) /\ Len(p) = Len(q) + 1
        /\ \A k \in 1 .. Len(q) : p[k] = q[k]
        /\ p[Len(q) + 1] = t.value
    BY <1>3, <1>4, AppendProperties
  <2>. HIDE DEF p
  <2>2. \A k \in 1 .. Len(r) : r[k] = p[k]
    <3>1. \A k \in 1 .. Len(r) : k \in 1 .. Len(ts) \/ k = Len(ts) + 1
      BY <1>1, <1>5
    <3>2. \A k \in 1 .. Len(ts) : r[k] = p[k]
      BY <1>4, <1>5, <2>1, Zenon
    <3>3. r[Len(ts) + 1] = p[Len(ts) + 1]
      BY <1>4, <1>5, <2>1, Zenon
    <3>. QED
      BY <3>1, <3>2, <3>3, Zenon
  <2>3. r = p
    BY <1>4, <1>5, <2>1, <2>2, SeqEqual
  <2>. QED
    BY <2>3 DEF p
<1>7. Values(ts) = FlattenSeq(q) /\ Values(us) = FlattenSeq(r)
  BY Zenon DEF Values, q, r
<1>8. FlattenSeq(q) \in Seq(Char) /\ FlattenSeq(Append(q, t.value)) = FlattenSeq(q) \o t.value
  BY <1>3, <1>4, FlattenAppend
<1>. QED
  BY <1>2, <1>6, <1>7, <1>8 DEF us

LEMMA ValuesEmpty == Values(<< >>) = << >>
<1>. DEFINE q == [k \in DOMAIN << >> |-> << >>[k].value]
<1>1. q = << >> /\ Len(<< >>) = 0
  OBVIOUS
<1>. QED
  BY <1>1, Zenon DEF Values, FlattenSeq

-----------------------------------------------------------------------------
(* The tokens. *)
LEMMA TokenTyped ==
    ASSUME NEW type \in {"word", "redir", "op", "eof"}, NEW v \in Seq(Char)
    PROVE  Token(type, v) \in Tok /\ Token(type, v).value = v
BY DEF Token, Tok

LEMMA Characters ==
    ASSUME NEW c
    PROVE  /\ DOMAIN <<c>> = 1 .. Len(<<c>>) /\ 1 \in 1 .. Len(<<c>>) /\ <<c>>[1] = c
           /\ Len(<<c>>) \in Nat \ {0} /\ \A n \in 1 .. Len(<<c>>) : <<c>>[n] = c
           /\ DOMAIN <<c, c>> = 1 .. Len(<<c, c>>) /\ 1 \in 1 .. Len(<<c, c>>)
           /\ <<c, c>>[1] = c
           /\ Len(<<c, c>>) \in Nat \ {0} /\ \A n \in 1 .. Len(<<c, c>>) : <<c, c>>[n] = c
<1>1. Len(<<c>>) = 1 /\ <<c>>[1] = c /\ DOMAIN <<c>> = 1 .. 1
  OBVIOUS
<1>2. Len(<<c, c>>) = 2 /\ <<c, c>>[1] = c /\ <<c, c>>[2] = c /\ DOMAIN <<c, c>> = 1 .. 2
  OBVIOUS
<1>. QED
  BY <1>1, <1>2

LEMMA Spelled ==
    ASSUME NEW c \in Char
    PROVE  <<c>> \in Seq(Char) /\ <<c, c>> \in Seq(Char)
OBVIOUS

(* An operator, or a reserved word, is the text it was found in. *)
LEMMA OperatorText ==
    ASSUME Positions, NEW s \in OperatorsAt(i)
    PROVE  s \in Seq(Char) /\ Len(s) \in Nat \ {0} /\ s = SubSeq(text, i, i + Len(s) - 1)
<1>1. StartsAt(s, i) /\ s \in Operators \cup Keyword
  BY DEF OperatorsAt
<1>2. Len(s) \in Nat \ {0} /\ DOMAIN s = 1 .. Len(s) /\ \A n \in 1 .. Len(s) : s[n] # "end"
  <2>1. CASE s \in Operators
    <3>1. PICK c \in {";", "|", "&", "!", "nl", "{", "}", "(", ")"} : s = <<c>> \/ s = <<c, c>>
      BY <2>1 DEF Operators
    <3>2. CASE s = <<c>>
      BY <3>2, Characters
    <3>3. CASE s = <<c, c>>
      BY <3>3, Characters
    <3>. QED
      BY <3>1, <3>2, <3>3
  <2>2. CASE s \in Keyword
    <3>1. s \in Seq(Char) /\ s # << >>
      BY <2>2, LexerConstants
    <3>2. Len(s) \in Nat \ {0} /\ DOMAIN s = 1 .. Len(s)
      BY <3>1, EmptySeq, LenProperties
    <3>3. \A n \in 1 .. Len(s) : s[n] \in Char
      BY <3>1, ElementOfSeq
    <3>. QED
      BY <3>2, <3>3, LexerConstants
  <2>. QED
    BY <1>1, <2>1, <2>2
<1>3. Size \in Nat /\ i \in 1 .. Size + 1 /\ text \in Seq(Char) /\ Len(text) = Size
  BY SizeFacts, LexerConstants DEF Positions, Size
<1>4. ASSUME NEW n \in 1 .. Len(s)
      PROVE  i + n - 1 \in 1 .. Size /\ s[n] = text[i + n - 1]
  <2>1. Ch(i + n - 1) = s[n] /\ s[n] # "end"
    BY <1>1, <1>2 DEF StartsAt
  <2>2. i + n - 1 \in Nat
    BY <1>2, <1>3
  <2>. QED
    BY <2>1, <2>2, SizeFacts DEF Ch
<1>5. i + Len(s) - 1 \in i .. Size
  BY <1>2, <1>3, <1>4
<1>. DEFINE t == SubSeq(text, i, i + Len(s) - 1)
<1>6. t \in Seq(Char) /\ Len(t) = Len(s) /\ \A n \in 1 .. Len(s) : t[n] = text[i + n - 1]
  <2>1. i \in Int /\ i + Len(s) - 1 \in Int /\ \A k \in i .. i + Len(s) - 1 : text[k] \in Char
    BY <1>2, <1>3, <1>5, ElementOfSeq
  <2>. QED
    BY <1>2, <1>3, <2>1, SubSeqProperties
<1>. HIDE DEF t
<1>7. \A n \in 1 .. Len(s) : s[n] = t[n]
  BY <1>4, <1>6
<1>8. s \in Seq(Char)
  <2>1. \A n \in 1 .. Len(s) : s[n] \in Char
    BY <1>3, <1>4, ElementOfSeq
  <2>2. CASE s \in Keyword
    BY <2>2, LexerConstants
  <2>3. CASE s \in Operators
    <3>1. PICK c \in {";", "|", "&", "!", "nl", "{", "}", "(", ")"} : s = <<c>> \/ s = <<c, c>>
      BY <2>3 DEF Operators
    <3>2. CASE s = <<c>>
      <4>1. 1 \in 1 .. Len(s) /\ s[1] = c
        BY <3>2, Characters
      <4>2. c \in Char
        BY <2>1, <4>1, Zenon
      <4>. QED
        BY <3>2, <4>2, Spelled, Zenon
    <3>3. CASE s = <<c, c>>
      <4>1. 1 \in 1 .. Len(s) /\ s[1] = c
        BY <3>3, Characters
      <4>2. c \in Char
        BY <2>1, <4>1, Zenon
      <4>. QED
        BY <3>3, <4>2, Spelled, Zenon
    <3>. QED
      BY <3>1, <3>2, <3>3
  <2>. QED
    BY <1>1, <2>2, <2>3
<1>9. s = t
  BY <1>6, <1>7, <1>8, SeqEqual
<1>. QED
  BY <1>2, <1>8, <1>9 DEF t

-----------------------------------------------------------------------------
(* What the lexer passes over does not matter. *)
Dropped == Blanks \cup {"'", "\"", "\\"}

LEMMA NoMatter ==
    ASSUME NEW c \in Dropped, c \in Char
    PROVE  Only(<<c>>, Matter) = << >>
<1>1. c \notin Matter
  BY DEF Matter, Dropped
<1>. QED
  BY <1>1, OnlyOne, Zenon

(* A part of the text, without some of its backslashes. *)
LEMMA OnlyBackslashes ==
    ASSUME Positions, NEW a \in 1 .. Size + 1, NEW b \in a - 1 .. Size, NEW P,
           P \subseteq a .. b, \A k \in a .. b : Ch(k) # "\\" => k \in P
    PROVE  /\ Picked(text, P) \in Seq(Char)
           /\ Only(Picked(text, P), Matter) = Only(SubSeq(text, a, b), Matter)
<1>1. text \in Seq(Char) /\ Size = Len(text) /\ Size \in Nat
  BY LexerConstants DEF Positions, Size
<1>2. ASSUME NEW k \in 1 .. Len(text), text[k] \in Matter
      PROVE  k \in P <=> k \in a .. b
  <2>1. Ch(k) = text[k] /\ text[k] # "\\"
    BY <1>1, <1>2 DEF Ch, Matter
  <2>. QED
    BY <2>1
<1>3. Only(Picked(text, P), Matter) = Only(Picked(text, a .. b), Matter)
  BY <1>1, <1>2, OnlyPicked
<1>4. Picked(text, a .. b) = SubSeq(text, a, b)
  BY <1>1, PickedRange
<1>. QED
  BY <1>1, <1>3, <1>4, PickedTyped, Zenon

Same(ts, s, k) == Only(Values(ts), Matter) = Only(SubSeq(s, 1, k - 1), Matter)

LEMMA OnlyParts ==
    ASSUME NEW s \in Seq(Char), NEW a \in 1 .. Len(s) + 1, NEW m \in a - 1 .. Len(s),
           NEW b \in m .. Len(s)
    PROVE  /\ SubSeq(s, a, m) \in Seq(Char) /\ SubSeq(s, m + 1, b) \in Seq(Char)
           /\ Only(SubSeq(s, a, b), Matter)
                = Only(SubSeq(s, a, m), Matter) \o Only(SubSeq(s, m + 1, b), Matter)
<1>. DEFINE x == SubSeq(s, a, m)
            y == SubSeq(s, m + 1, b)
<1>1. Len(s) \in Nat /\ \A n \in 1 .. Len(s) : s[n] \in Char
  BY ElementOfSeq
<1>2. x \in Seq(Char) /\ y \in Seq(Char)
  <2>1. a \in Int /\ m \in Int /\ m + 1 \in Int /\ b \in Int
    BY <1>1
  <2>2. (\A n \in a .. m : s[n] \in Char) /\ (\A n \in m + 1 .. b : s[n] \in Char)
    BY <1>1
  <2>. QED
    BY <2>1, <2>2, SubSeqProperties
<1>3. SubSeq(s, a, b) = x \o y
  BY <1>1, ConcatAdjacentSubSeq
<1>. HIDE DEF x, y
<1>4. Only(x \o y, Matter) = Only(x, Matter) \o Only(y, Matter)
  BY <1>2, OnlyConcat
<1>. QED
  BY <1>2, <1>3, <1>4, Zenon DEF x, y

LEMMA OnlyFurther ==
    ASSUME NEW s \in Seq(Char), NEW j \in 1 .. Len(s) + 1, NEW k \in j .. Len(s) + 1
    PROVE  /\ SubSeq(s, 1, j - 1) \in Seq(Char)
           /\ Only(SubSeq(s, 1, k - 1), Matter)
                = Only(SubSeq(s, 1, j - 1), Matter) \o Only(SubSeq(s, j, k - 1), Matter)
<1>1. Len(s) \in Nat
  OBVIOUS
<1>2. 1 \in 1 .. Len(s) + 1 /\ j - 1 \in 1 - 1 .. Len(s) /\ k - 1 \in j - 1 .. Len(s)
  BY <1>1
<1>3. j - 1 + 1 = j
  BY <1>1
<1>4. /\ SubSeq(s, 1, j - 1) \in Seq(Char)
      /\ Only(SubSeq(s, 1, k - 1), Matter)
           = Only(SubSeq(s, 1, j - 1), Matter) \o Only(SubSeq(s, j - 1 + 1, k - 1), Matter)
  BY <1>2, OnlyParts
<1>. QED
  BY <1>3, <1>4, Zenon

LEMMA TokenTaken ==
    ASSUME NEW s \in Seq(Char), NEW j \in 1 .. Len(s) + 1, NEW k \in j .. Len(s) + 1,
           NEW ts \in Seq(Tok), NEW t \in Tok, Same(ts, s, j),
           Only(t.value, Matter) = Only(SubSeq(s, j, k - 1), Matter)
    PROVE  Same(Append(ts, t), s, k)
<1>1. Values(ts) \in Seq(Char) /\ Values(Append(ts, t)) = Values(ts) \o t.value
  BY ValuesAppend
<1>2. t.value \in Seq(Char)
  BY DEF Tok
<1>3. Only(Values(ts) \o t.value, Matter) = Only(Values(ts), Matter) \o Only(t.value, Matter)
  BY <1>1, <1>2, OnlyConcat
<1>4. Only(SubSeq(s, 1, k - 1), Matter)
        = Only(SubSeq(s, 1, j - 1), Matter) \o Only(SubSeq(s, j, k - 1), Matter)
  BY OnlyFurther
<1>. QED
  BY <1>1, <1>3, <1>4, Zenon DEF Same

LEMMA NothingTaken ==
    ASSUME NEW s \in Seq(Char), NEW j \in 1 .. Len(s) + 1, NEW k \in j .. Len(s) + 1,
           NEW ts, Same(ts, s, j), Only(SubSeq(s, j, k - 1), Matter) = << >>
    PROVE  Same(ts, s, k)
<1>1. Only(SubSeq(s, 1, k - 1), Matter) = Only(SubSeq(s, 1, j - 1), Matter) \o << >>
  BY OnlyFurther, Zenon
<1>2. Only(SubSeq(s, 1, j - 1), Matter) \in Seq(Char)
  BY OnlyFurther, PickedTyped, Zenon DEF Only
<1>3. Only(SubSeq(s, 1, j - 1), Matter) \o << >> = Only(SubSeq(s, 1, j - 1), Matter)
  BY <1>2, ConcatEmptySeq
<1>. QED
  BY <1>1, <1>3, Zenon DEF Same

-----------------------------------------------------------------------------
(* What every step keeps: in double quotes there is a double quote in the text, so
   that a text NothingLost speaks of has no $ to go to "var" with. *)
InPieces == (pc \in {"text", "var"} => Has("\"")) /\ (Told => pc # "var")
IInv == TypeOK /\ NothingLost /\ InPieces

(* The same of the state a step leads to; the text is the one it was. *)
Kept ==
    /\ text' = text /\ toks' \in Seq(Tok)
    /\ pc' \in {"load", "text", "var", "done", "failed", "stopped"}
    /\ pc' # "failed" /\ Told => Same(toks', text, i')
    /\ (pc' \in {"text", "var"} => Has("\"")) /\ (Told => pc' # "var")

LEMMA Facts ==
    ASSUME IInv
    PROVE  /\ Positions /\ text \in Seq(Char) /\ Len(text) = Size /\ Size \in Nat
           /\ toks \in Seq(Tok) /\ i \in 1 .. Size + 1
           /\ pc \in {"load", "text", "var", "done", "failed", "stopped"}
           /\ pc # "failed" /\ Told => Same(toks, text, i)
BY LexerConstants DEF IInv, TypeOK, Positions, NothingLost, Same, Size, Tok

LEMMA Before ==
    ASSUME NEW n \in Nat, NEW a \in 1 .. n + 1, NEW b \in 1 .. n + 1, b > a
    PROVE  b >= a /\ b - 1 \in a - 1 .. n
OBVIOUS

LEMMA Forward ==
    ASSUME IInv, Positions', i' > i, text' = text
    PROVE  /\ Positions /\ i \in 1 .. Size + 1 /\ i' \in 1 .. Size + 1
           /\ i' >= i /\ i' - 1 \in i - 1 .. Size
<1>1. Positions /\ i \in 1 .. Size + 1 /\ Size \in Nat
  BY Facts
<1>2. i' \in 1 .. Size + 1
  BY DEF Positions, Size
<1>3. i' >= i /\ i' - 1 \in i - 1 .. Size
  BY <1>1, <1>2, Before
<1>. QED
  BY <1>1, <1>2, <1>3, Zenon

LEMMA OneToken ==
    ASSUME IInv, Positions', i' >= i, text' = text, pc # "failed",
           NEW t \in Tok, toks' = Append(toks, t),
           Told => Only(t.value, Matter) = Only(SubSeq(text, i, i' - 1), Matter)
    PROVE  toks' \in Seq(Tok) /\ (Told => Same(toks', text, i'))
<1>1. /\ text \in Seq(Char) /\ Len(text) = Size /\ Size \in Nat /\ toks \in Seq(Tok)
      /\ i \in 1 .. Size + 1 /\ (Told => Same(toks, text, i))
  BY Facts
<1>2. i' \in i .. Size + 1
  BY <1>1 DEF Positions, Size
<1>3. Append(toks, t) \in Seq(Tok)
  BY <1>1, ValuesAppend
<1>4. i \in 1 .. Len(text) + 1 /\ i' \in i .. Len(text) + 1
  BY <1>1, <1>2
<1>5. Told => Same(Append(toks, t), text, i')
  BY <1>1, <1>4, TokenTaken
<1>. QED
  BY <1>3, <1>5, Zenon

LEMMA NoToken ==
    ASSUME IInv, Positions', i' >= i, text' = text, pc # "failed", toks' = toks,
           Told => Only(SubSeq(text, i, i' - 1), Matter) = << >>
    PROVE  toks' \in Seq(Tok) /\ (Told => Same(toks', text, i'))
<1>1. /\ text \in Seq(Char) /\ Len(text) = Size /\ Size \in Nat /\ toks \in Seq(Tok)
      /\ i \in 1 .. Size + 1 /\ (Told => Same(toks, text, i))
  BY Facts
<1>2. i' \in i .. Size + 1
  BY <1>1 DEF Positions, Size
<1>3. i \in 1 .. Len(text) + 1 /\ i' \in i .. Len(text) + 1
  BY <1>1, <1>2
<1>4. Told => Same(toks, text, i')
  BY <1>1, <1>3, NothingTaken
<1>. QED
  BY <1>1, <1>4, Zenon

(* A turn of lexer_load goes on in "load". *)
LEMMA Turned ==
    ASSUME text' = text, pc' = "load", toks' \in Seq(Tok), Told => Same(toks', text, i')
    PROVE  Kept
BY DEF Kept

LEMMA WordKept == ASSUME IInv, TakeWord PROVE Kept
<1>. DEFINE value == remove_backslash(i, handle_word)
            P == {k \in i .. handle_word - 1 : Ch(k) # "\\" \/ Quoted(i - 1, k)}
<1>1. Positions' /\ i' > i
  BY Facts, WordStep
<1>2. /\ text' = text /\ pc = "load" /\ pc' = "load" /\ i' = handle_word
      /\ toks' = Append(toks, Word(value))
  BY DEF TakeWord, Ordinary
<1>3. Positions /\ i \in 1 .. Size + 1
  BY Facts
<1>5. i' >= i /\ i' - 1 \in i - 1 .. Size
  BY <1>1, <1>2, Forward, Zenon
<1>6. value = Picked(text, P)
  BY Zenon DEF remove_backslash
<1>7. P \subseteq i .. i' - 1 /\ \A k \in i .. i' - 1 : Ch(k) # "\\" => k \in P
  BY <1>2
<1>. HIDE DEF value, P
<1>8. value \in Seq(Char) /\ Only(value, Matter) = Only(SubSeq(text, i, i' - 1), Matter)
  BY <1>3, <1>5, <1>6, <1>7, OnlyBackslashes
<1>9. Word(value) \in Tok /\ Word(value).value = value
  BY <1>8, TokenTyped DEF Word
<1>10. toks' \in Seq(Tok) /\ (Told => Same(toks', text, i'))
  BY <1>1, <1>2, <1>5, <1>8, <1>9, OneToken
<1>. QED
  BY <1>2, <1>10, Turned

LEMMA OperatorKept == ASSUME IInv, TakeOperator PROVE Kept
<1>1. Positions' /\ i' > i
  BY Facts, OperatorStep
<1>2. PICK s \in OperatorsAt(i) : Take(i + Len(s), Token("op", s))
  BY DEF TakeOperator
<1>3. text' = text /\ pc = "load" /\ pc' = "load"
  BY <1>2 DEF TakeOperator, Ordinary
<1>4. /\ s \in Seq(Char) /\ Len(s) \in Nat \ {0} /\ s = SubSeq(text, i, i + Len(s) - 1)
  BY Facts, OperatorText
<1>5. i' = i + Len(s) /\ toks' = Append(toks, Token("op", s))
  BY <1>2
<1>6. Token("op", s) \in Tok /\ Token("op", s).value = s
  BY <1>4, TokenTyped
<1>7. i' >= i /\ i' - 1 = i + Len(s) - 1
  <2>1. i' >= i
    BY <1>1, <1>3, Forward, Zenon
  <2>2. i' - 1 = i + Len(s) - 1
    <3>1. i' = i + Len(s)
      BY <1>5
    <3>2. i \in Nat /\ Len(s) \in Nat
      BY <1>4, Facts
    <3>. QED
      BY <3>1, <3>2
  <2>. QED
    BY <2>1, <2>2
<1>8. s = SubSeq(text, i, i' - 1)
  BY <1>4, <1>7, Zenon
<1>9. toks' \in Seq(Tok) /\ (Told => Same(toks', text, i'))
  BY <1>1, <1>3, <1>5, <1>6, <1>7, <1>8, OneToken
<1>. QED
  BY <1>3, <1>9, Turned

LEMMA RedirectionKept == ASSUME IInv, TakeRedirection PROVE Kept
<1>1. Positions' /\ i' > i
  BY Facts, RedirectionStep
<1>. DEFINE value == SubSeq(text, i, i' - 1)
<1>2. /\ text' = text /\ pc = "load" /\ pc' = "load"
      /\ toks' = Append(toks, Token("redir", value))
  BY DEF TakeRedirection, Ordinary
<1>3. Positions /\ i \in 1 .. Size + 1
  BY Facts
<1>4. i' >= i /\ i' - 1 \in i - 1 .. Size
  BY <1>1, <1>2, Forward, Zenon
<1>5. value \in Seq(Char)
  BY <1>3, <1>4, SubText
<1>6. Token("redir", value) \in Tok /\ Token("redir", value).value = value
  BY <1>5, TokenTyped
<1>7. toks' \in Seq(Tok) /\ (Told => Same(toks', text, i'))
  BY <1>1, <1>2, <1>4, <1>6, OneToken
<1>. QED
  BY <1>2, <1>7, Turned

LEMMA OneOf ==
    ASSUME NEW s \in Seq(Char), NEW k \in 1 .. Len(s)
    PROVE  s[k] \in Char /\ SubSeq(s, k, k) = <<s[k]>>
<1>1. s[k] \in Char /\ Len(s) \in Nat
  BY ElementOfSeq
<1>. DEFINE a == SubSeq(s, k, k)
            b == <<s[k]>>
<1>2. a \in Seq(Char) /\ Len(a) = 1 /\ a[1] = s[k]
  <2>1. k \in Int /\ \A n \in k .. k : s[n] \in Char
    BY <1>1
  <2>2. a \in Seq(Char) /\ Len(a) = k - k + 1 /\ \A n \in 1 .. k - k + 1 : a[n] = s[k + n - 1]
    BY <1>1, <2>1, SubSeqProperties
  <2>3. k - k + 1 = 1 /\ k + 1 - 1 = k /\ 1 \in 1 .. 1
    OBVIOUS
  <2>. HIDE DEF a
  <2>. QED
    BY <2>2, <2>3
<1>3. b \in Seq(Char) /\ Len(b) = 1 /\ b[1] = s[k]
  BY <1>1
<1>. HIDE DEF a, b
<1>4. a = b
  <2>1. \A n \in 1 .. Len(a) : n = 1
    BY <1>2
  <2>2. \A n \in 1 .. Len(a) : a[n] = b[n]
    BY <1>2, <1>3, <2>1, Zenon
  <2>. QED
    BY <1>2, <1>3, <2>2, SeqEqual
<1>. QED
  BY <1>1, <1>4 DEF a, b

(* One character that does not matter. *)
LEMMA OnePassed ==
    ASSUME IInv, Ch(i) \in Dropped, i <= Size, i' = i + 1
    PROVE  Only(SubSeq(text, i, i' - 1), Matter) = << >>
<1>1. text \in Seq(Char) /\ Len(text) = Size /\ i \in 1 .. Len(text)
  <2>1. /\ text \in Seq(Char) /\ Len(text) = Size /\ Size \in Nat /\ i \in 1 .. Size + 1
    BY Facts
  <2>2. i \in 1 .. Size
    BY <2>1
  <2>. QED
    BY <2>1, <2>2, Zenon
<1>2. text[i] = Ch(i)
  BY <1>1, Zenon DEF Ch
<1>3. text[i] \in Char /\ SubSeq(text, i, i) = <<text[i]>>
  BY <1>1, OneOf
<1>4. i' - 1 = i
  BY <1>1
<1>5. Only(<<text[i]>>, Matter) = << >>
  BY <1>2, <1>3, NoMatter
<1>. QED
  BY <1>3, <1>4, <1>5, Zenon

LEMMA BlankKept == ASSUME IInv, SkipBlank PROVE Kept
<1>1. Positions' /\ i' > i
  BY Facts, BlankStep
<1>2. /\ text' = text /\ pc = "load" /\ pc' = "load" /\ toks' = toks /\ i' = i + 1
      /\ i <= Size /\ Ch(i) \in Dropped
  BY DEF SkipBlank, Dropped
<1>3. Only(SubSeq(text, i, i' - 1), Matter) = << >>
  BY <1>2, OnePassed
<1>4. i' >= i
  BY <1>1, <1>2, Forward, Zenon
<1>5. toks' \in Seq(Tok) /\ (Told => Same(toks', text, i'))
  BY <1>1, <1>2, <1>3, <1>4, NoToken
<1>. QED
  BY <1>2, <1>5, Turned

(* NothingLost says nothing of a text with a comment. *)
LEMMA CommentKept == ASSUME IInv, SkipComment PROVE Kept
<1>1. Positions' /\ i' > i
  BY Facts, CommentStep
<1>2. /\ text' = text /\ pc = "load" /\ pc' = "load" /\ toks' = toks
      /\ i <= Size /\ Ch(i) = "#"
  BY DEF SkipComment
<1>3. ~Told
  BY <1>2, Facts DEF Told, Has, Ch
<1>4. toks' \in Seq(Tok)
  BY <1>2, Facts
<1>. QED
  BY <1>2, <1>3, <1>4, Turned

LEMMA VarKept == ASSUME IInv, TakeVar PROVE Kept
<1>. DEFINE value == remove_backslash(i, handle_var + 1)
            P == {k \in i .. (handle_var + 1) - 1 : Ch(k) # "\\" \/ Quoted(i - 1, k)}
<1>1. Positions' /\ i' > i
  BY Facts, VarStep
<1>2. /\ text' = text /\ pc = "load" /\ pc' = "load" /\ i' = handle_var + 1
      /\ toks' = Append(toks, Word(value))
  BY DEF TakeVar, AtVar
<1>3. Positions /\ i \in 1 .. Size + 1
  BY Facts
<1>4. i' >= i /\ i' - 1 \in i - 1 .. Size
  BY <1>1, <1>2, Forward, Zenon
<1>5. value = Picked(text, P)
  BY Zenon DEF remove_backslash
<1>6. P \subseteq i .. i' - 1 /\ \A k \in i .. i' - 1 : Ch(k) # "\\" => k \in P
  BY <1>2
<1>. HIDE DEF value, P
<1>7. value \in Seq(Char) /\ Only(value, Matter) = Only(SubSeq(text, i, i' - 1), Matter)
  BY <1>3, <1>4, <1>5, <1>6, OnlyBackslashes
<1>8. Word(value) \in Tok /\ Word(value).value = value
  BY <1>7, TokenTyped DEF Word
<1>9. toks' \in Seq(Tok) /\ (Told => Same(toks', text, i'))
  BY <1>1, <1>2, <1>4, <1>7, <1>8, OneToken
<1>. QED
  BY <1>2, <1>9, Turned

(* The positions of a text in quotes, of its closing quote and of what follows. *)
LEMMA QuotePositions ==
    ASSUME NEW n \in Nat, NEW a \in 1 .. n, NEW c \in a + 1 .. n, NEW b \in c + 1 .. n + 1
    PROVE  /\ a \in 1 .. n + 1 /\ a \in a - 1 .. n /\ b - 1 \in a .. n
           /\ a + 1 \in 1 .. n + 1 /\ c - 1 \in (a + 1) - 1 .. n
           /\ b - 1 \in c - 1 .. n
           /\ c \in 1 .. n + 1 /\ c \in c - 1 .. n
           /\ b - 1 \in c .. n
           /\ (c - 1) + 1 = c
OBVIOUS

LEMMA QuoteKept == ASSUME IInv, TakeQuote PROVE Kept
<1>. DEFINE a == SubSeq(text, i + 1, Closing - 1)
            b == SubSeq(text, Closing + 1, i' - 1)
<1>1. Positions' /\ i' > i /\ pc = "load" /\ i <= Size
  BY Facts, QuoteStep DEF TakeQuote
<1>2. /\ Closing \in i + 1 .. Size /\ i' \in Closing + 1 .. Size + 1
      /\ Ch(i) = "'" /\ Ch(Closing) = "'" /\ text' = text /\ pc' = pc
      /\ a \in Seq(Char) /\ b \in Seq(Char)
      /\ \E value : value = a \o b
                    /\ toks' = IF value = << >> THEN toks ELSE Append(toks, Word(value))
  BY Facts, QuoteParts
<1>3. /\ text \in Seq(Char) /\ Len(text) = Size /\ Size \in Nat /\ i \in 1 .. Size + 1
      /\ toks \in Seq(Tok)
  BY Facts
<1>4. PICK value : /\ value = a \o b
                   /\ toks' = IF value = << >> THEN toks ELSE Append(toks, Word(value))
  BY <1>2
<1>5. value \in Seq(Char) /\ Only(value, Matter) = Only(a, Matter) \o Only(b, Matter)
  <2>. HIDE DEF a, b
  <2>1. a \o b \in Seq(Char)
    BY <1>2, ConcatProperties
  <2>2. Only(a \o b, Matter) = Only(a, Matter) \o Only(b, Matter)
    BY <1>2, OnlyConcat
  <2>. QED
    BY <1>4, <2>1, <2>2, Zenon
<1>6. Only(SubSeq(text, i, i' - 1), Matter) = Only(value, Matter)
  <2>1. /\ i \in 1 .. Len(text) /\ Closing \in 1 .. Len(text)
        /\ text[i] = Ch(i) /\ text[Closing] = Ch(Closing)
    BY <1>1, <1>2, <1>3 DEF Ch
  <2>2. Ch(i) \in Dropped /\ Ch(Closing) \in Dropped
    BY <1>2, Zenon DEF Dropped
  <2>3. /\ Only(SubSeq(text, i, i), Matter) = << >>
        /\ Only(SubSeq(text, Closing, Closing), Matter) = << >>
    <3>1. /\ text[i] \in Char /\ SubSeq(text, i, i) = <<text[i]>>
          /\ text[Closing] \in Char /\ SubSeq(text, Closing, Closing) = <<text[Closing]>>
      BY <1>3, <2>1, OneOf
    <3>2. Only(<<text[i]>>, Matter) = << >> /\ Only(<<text[Closing]>>, Matter) = << >>
      BY <2>1, <2>2, <3>1, NoMatter
    <3>. QED
      BY <3>1, <3>2, Zenon
  <2>4. /\ i \in 1 .. Len(text) + 1 /\ i \in i - 1 .. Len(text) /\ i' - 1 \in i .. Len(text)
        /\ i + 1 \in 1 .. Len(text) + 1 /\ Closing - 1 \in (i + 1) - 1 .. Len(text)
        /\ i' - 1 \in Closing - 1 .. Len(text)
        /\ Closing \in 1 .. Len(text) + 1 /\ Closing \in Closing - 1 .. Len(text)
        /\ i' - 1 \in Closing .. Len(text)
        /\ (Closing - 1) + 1 = Closing
    BY <1>2, <1>3, <2>1, QuotePositions
  <2>5. Only(SubSeq(text, i, i' - 1), Matter)
          = Only(SubSeq(text, i, i), Matter) \o Only(SubSeq(text, i + 1, i' - 1), Matter)
    BY <1>3, <2>4, OnlyParts
  <2>6. Only(SubSeq(text, i + 1, i' - 1), Matter)
          = Only(a, Matter) \o Only(SubSeq(text, (Closing - 1) + 1, i' - 1), Matter)
    BY <1>3, <2>4, OnlyParts
  <2>7. Only(SubSeq(text, Closing, i' - 1), Matter)
          = Only(SubSeq(text, Closing, Closing), Matter) \o Only(b, Matter)
    BY <1>3, <2>4, OnlyParts
  <2>. DEFINE oa == Only(a, Matter)
              ob == Only(b, Matter)
  <2>8. oa \in Seq(Char) /\ ob \in Seq(Char)
    BY <1>2, PickedTyped, Zenon DEF Only
  <2>. HIDE DEF oa, ob, a, b
  <2>9. << >> \o ob = ob /\ << >> \o (oa \o ob) = oa \o ob
    <3>1. oa \o ob \in Seq(Char)
      BY <2>8, ConcatProperties
    <3>. QED
      BY <2>8, <3>1, ConcatEmptySeq
  <2>. QED
    BY <1>5, <2>3, <2>4, <2>5, <2>6, <2>7, <2>9, Zenon DEF oa, ob
<1>7. i' >= i
  BY <1>1, <1>2, Forward, Zenon
<1>. HIDE DEF a, b
<1>8. CASE value = << >>
  <2>1. Only(SubSeq(text, i, i' - 1), Matter) = << >>
    BY <1>6, <1>8, OnlyEmpty, Zenon
  <2>2. toks' \in Seq(Tok) /\ (Told => Same(toks', text, i'))
    BY <1>1, <1>2, <1>4, <1>7, <1>8, <2>1, NoToken
  <2>. QED
    BY <1>1, <1>2, <2>2, Turned
<1>9. CASE value # << >>
  <2>1. Word(value) \in Tok /\ Word(value).value = value
    BY <1>5, TokenTyped DEF Word
  <2>2. toks' = Append(toks, Word(value))
    BY <1>4, <1>9, Zenon
  <2>3. toks' \in Seq(Tok) /\ (Told => Same(toks', text, i'))
    BY <1>1, <1>2, <1>6, <1>7, <2>1, <2>2, OneToken
  <2>. QED
    BY <1>1, <1>2, <2>3, Turned
<1>. QED
  BY <1>8, <1>9

LEMMA HasAt ==
    ASSUME Positions, NEW k \in Nat, Ch(k) # "end"
    PROVE  Has(Ch(k))
BY SizeFacts DEF Has, Ch

(* A $ behind the quote goes to "var", but not in a text NothingLost speaks of. *)
LEMMA OpenKept == ASSUME IInv, OpenDouble PROVE Kept
<1>. DEFINE quote == "\""
<1>1. Positions' /\ i' > i
  BY Facts, OpenStep
<1>2. /\ text' = text /\ pc = "load" /\ toks' = toks /\ i' = i + 1 /\ i <= Size
      /\ Ch(i) = quote /\ pc' = IF Ch(i + 1) = "$" THEN "var" ELSE "text"
  BY DEF OpenDouble
<1>3. quote \in Dropped /\ quote # "end"
  BY DEF Dropped
<1>4. Told => ~(Has("$") /\ Has(quote))
  BY DEF Told
<1>5. Kept <=> /\ text' = text /\ toks' \in Seq(Tok)
               /\ pc' \in {"load", "text", "var", "done", "failed", "stopped"}
               /\ pc' # "failed" /\ Told => Same(toks', text, i')
               /\ (pc' \in {"text", "var"} => Has(quote)) /\ (Told => pc' # "var")
  BY DEF Kept
<1>. HIDE DEF quote
<1>6. i' >= i /\ Positions /\ i \in 1 .. Size + 1
  BY <1>1, <1>2, Forward, Zenon
<1>7. Only(SubSeq(text, i, i' - 1), Matter) = << >>
  BY <1>2, <1>3, OnePassed
<1>8. pc # "failed"
  BY <1>2
<1>9. toks' \in Seq(Tok) /\ (Told => Same(toks', text, i'))
  BY <1>1, <1>2, <1>6, <1>7, <1>8, NoToken
<1>10. i \in Nat /\ i + 1 \in Nat
  BY Facts
<1>11. Has(quote)
  BY <1>2, <1>3, <1>6, <1>10, HasAt, Zenon
<1>12. Ch(i + 1) = "$" => Has("$")
  <2>1. "$" # "end"
    OBVIOUS
  <2>. QED
    BY <2>1, <1>6, <1>10, HasAt, Zenon
<1>13. pc' \in {"text", "var"} /\ (Told => pc' # "var")
  BY <1>2, <1>4, <1>11, <1>12
<1>14. pc' \in {"load", "text", "var", "done", "failed", "stopped"}
  BY <1>13
<1>. QED
  BY <1>2, <1>5, <1>9, <1>11, <1>13, <1>14, Zenon

LEMMA CloseKept == ASSUME IInv, CloseDouble PROVE Kept
<1>. DEFINE quote == "\""
<1>1. Positions' /\ i' > i
  BY Facts, CloseStep
<1>2. /\ text' = text /\ pc \in {"text", "var"} /\ toks' = toks /\ i' = i + 1
      /\ Ch(i) = quote /\ pc' = "load"
  BY DEF CloseDouble, Inside
<1>3. quote \in Dropped /\ quote # "end"
  BY DEF Dropped
<1>. HIDE DEF quote
<1>4. i' >= i /\ Positions /\ i \in Nat
  BY <1>1, <1>2, Forward, Facts
<1>5. i <= Size
  <2>1. i \in 1 .. Size /\ Size \in Nat
    BY <1>2, <1>3, <1>4, SizeFacts
  <2>. QED
    BY <2>1
<1>6. Only(SubSeq(text, i, i' - 1), Matter) = << >>
  BY <1>2, <1>3, <1>5, OnePassed
<1>7. pc # "failed"
  BY <1>2
<1>8. toks' \in Seq(Tok) /\ (Told => Same(toks', text, i'))
  BY <1>1, <1>2, <1>4, <1>6, <1>7, NoToken
<1>. QED
  BY <1>2, <1>8, Turned

LEMMA TextKept == ASSUME IInv, TakeText PROVE Kept
<1>. DEFINE quote == "\""
            P == {k \in i .. EndOfPiece - 1 :
                    Ch(k) # "\\" \/ Escaped(k) \/ Ch(k + 1) \notin {"\\", "$", "nl", "\""}}
<1>1. Positions' /\ i' > i
  BY Facts, TextStep
<1>2. /\ text' = text /\ pc = "text" /\ toks' = Append(toks, Word(Unescaped))
      /\ IF Ch(EndOfPiece) = "$" THEN pc' = "var" /\ i' = EndOfPiece + 1
         ELSE pc' = pc /\ i' = EndOfPiece
  BY DEF TakeText
<1>3. Told => ~(Has("$") /\ Has(quote))
  BY DEF Told
<1>4. Has(quote)
  BY <1>2 DEF IInv, InPieces
<1>5. Kept <=> /\ text' = text /\ toks' \in Seq(Tok)
               /\ pc' \in {"load", "text", "var", "done", "failed", "stopped"}
               /\ pc' # "failed" /\ Told => Same(toks', text, i')
               /\ (pc' \in {"text", "var"} => Has(quote)) /\ (Told => pc' # "var")
  BY DEF Kept
<1>6. Unescaped = Picked(text, P)
  BY Zenon DEF Unescaped
<1>7. P \subseteq i .. EndOfPiece - 1 /\ \A k \in i .. EndOfPiece - 1 : Ch(k) # "\\" => k \in P
  BY Zenon
<1>. HIDE DEF quote, P
<1>8. /\ Positions /\ i \in 1 .. Size + 1 /\ i' >= i /\ i' - 1 \in i - 1 .. Size
  BY <1>1, <1>2, Forward, Zenon
<1>9. text \in Seq(Char)
  BY Facts
<1>10. Word(Unescaped) \in Tok /\ Word(Unescaped).value = Unescaped
  <2>1. Unescaped \in Seq(Char)
    BY <1>6, <1>9, PickedTyped, Zenon
  <2>. QED
    BY <2>1, TokenTyped DEF Word
<1>11. ASSUME Told
       PROVE  /\ i' = EndOfPiece /\ Ch(EndOfPiece) # "$"
              /\ Only(Unescaped, Matter) = Only(SubSeq(text, i, i' - 1), Matter)
  <2>1. Ch(EndOfPiece) # "$"
    <3>1. SUFFICES ASSUME Ch(EndOfPiece) = "$" PROVE FALSE
      OBVIOUS
    <3>2. i' = EndOfPiece + 1 /\ pc' = "var"
      BY <1>2, <3>1
    <3>3. EndOfPiece \in Nat
      <4>. DEFINE S == {k \in From(i) : Ch(k) = "end" \/ (Ch(k) \in {"\"", "$"} /\ ~Escaped(k))}
      <4>1. EndOfPiece = Min(S) /\ S \in SUBSET From(i)
        BY Zenon DEF EndOfPiece
      <4>2. Size + 1 \in From(i) => Size + 1 \in S
        BY <1>8, SizeFacts
      <4>. HIDE DEF S
      <4>3. Size \in Nat /\ Size + 1 \in S
        BY <1>8, <4>2, SizeFacts DEF From
      <4>4. EndOfPiece \in i .. Size + 1
        BY <1>8, <4>1, <4>3, MinFrom
      <4>. QED
        BY <1>8, <4>3, <4>4
    <3>4. "$" # "end"
      OBVIOUS
    <3>5. Has("$")
      BY <1>8, <3>1, <3>3, <3>4, HasAt, Zenon
    <3>. QED
      BY <1>3, <1>4, <1>11, <3>5
  <2>2. i' = EndOfPiece
    BY <1>2, <2>1
  <2>3. P \subseteq i .. i' - 1 /\ \A k \in i .. i' - 1 : Ch(k) # "\\" => k \in P
    BY <1>7, <2>2
  <2>. QED
    BY <1>6, <1>8, <2>1, <2>2, <2>3, OnlyBackslashes
<1>12. pc # "failed"
  BY <1>2
<1>13. toks' \in Seq(Tok) /\ (Told => Same(toks', text, i'))
  BY <1>1, <1>2, <1>8, <1>10, <1>11, <1>12, OneToken
<1>14. Told => pc' # "var"
  <2>1. Told => pc' = pc
    BY <1>2, <1>11
  <2>. QED
    BY <1>2, <2>1
<1>15. pc' \in {"load", "text", "var", "done", "failed", "stopped"}
  BY <1>2
<1>. QED
  BY <1>2, <1>4, <1>5, <1>13, <1>14, <1>15, Zenon

(* Only a text with a $ in double quotes comes here. *)
LEMMA NameKept == ASSUME IInv, TakeName PROVE Kept
<1>. DEFINE S == {m \in From(i) : Ch(m) \in VariableEnds}
            k == Min(S)
            value == SubSeq(text, i, k - 1)
<1>1. /\ text' = text /\ pc = "var" /\ toks' = Append(toks, Word(value))
      /\ pc' \in {"var", "text"}
  BY DEF TakeName
<1>2. ~Told /\ Has("\"")
  BY <1>1 DEF IInv, InPieces
<1>3. Size \in Nat /\ i \in 1 .. Size + 1 /\ Positions /\ toks \in Seq(Tok)
  BY Facts
<1>4. "end" \in VariableEnds
  BY DEF VariableEnds, KeywordEnds, WordEnds
<1>5. Size + 1 \in S /\ S \in SUBSET From(i)
  BY <1>3, <1>4, SizeFacts DEF From
<1>. HIDE DEF S
<1>6. k \in i .. Size + 1
  BY <1>3, <1>5, MinFrom
<1>. HIDE DEF k
<1>7. k - 1 \in i - 1 .. Size
  BY <1>3, <1>6
<1>8. value \in Seq(Char)
  BY <1>3, <1>7, SubText
<1>. HIDE DEF value
<1>9. Word(value) \in Tok
  BY <1>8, TokenTyped DEF Word
<1>10. toks' \in Seq(Tok)
  BY <1>1, <1>3, <1>9, ValuesAppend
<1>11. pc' \in {"load", "text", "var", "done", "failed", "stopped"}
  BY <1>1
<1>. QED
  BY <1>1, <1>2, <1>10, <1>11, Zenon DEF Kept

(* How the lexer ends: with the token behind the last one, which holds nothing, or
   without the tokens. *)
LEMMA EndKept ==
    ASSUME IInv,
           UnclosedQuote \/ UnclosedVar \/ UnclosedDouble \/ ReadBehindText \/ EndOfText
    PROVE  Kept
<1>1. CASE EndOfText
  <2>1. /\ text' = text /\ i' = i /\ pc = "load" /\ pc' = "done"
        /\ toks' = Append(toks, Token("eof", << >>))
    BY <1>1 DEF EndOfText
  <2>2. Positions' /\ i \in 1 .. Size + 1 /\ Size \in Nat
    BY <2>1, Facts DEF Positions, Size
  <2>3. << >> \in Seq(Char)
    OBVIOUS
  <2>4. Token("eof", << >>) \in Tok /\ Token("eof", << >>).value = << >>
    BY <2>3, TokenTyped
  <2>5. Only(SubSeq(text, i, i' - 1), Matter) = Only(<< >>, Matter)
    <3>1. i' - 1 = i - 1 /\ i \in Int /\ i - 1 \in Int /\ i > i - 1
      BY <2>1, <2>2
    <3>2. SubSeq(text, i, i - 1) = << >>
      BY <3>1, Facts, SubSeqEmpty
    <3>. QED
      BY <3>1, <3>2, Zenon
  <2>6. i' >= i
    BY <2>1, <2>2
  <2>7. pc # "failed"
    BY <2>1
  <2>8. toks' \in Seq(Tok) /\ (Told => Same(toks', text, i'))
    BY <2>1, <2>2, <2>4, <2>5, <2>6, <2>7, OneToken
  <2>. QED
    BY <2>1, <2>8 DEF Kept
<1>2. CASE ReadBehindText
  <2>1. UNCHANGED <<text, i, toks>> /\ pc = "text" /\ pc' = "stopped"
    BY <1>2 DEF ReadBehindText
  <2>2. toks' \in Seq(Tok) /\ (Told => Same(toks', text, i'))
    BY <2>1, Facts
  <2>. QED
    BY <2>1, <2>2 DEF Kept
<1>3. CASE UnclosedQuote \/ UnclosedVar \/ UnclosedDouble
  <2>1. text' = text /\ pc' = "failed" /\ (toks' = toks \/ toks' = << >>)
    BY <1>3 DEF UnclosedQuote, UnclosedVar, UnclosedDouble, GiveUp
  <2>2. << >> \in Seq(Tok)
    OBVIOUS
  <2>3. toks' \in Seq(Tok)
    BY <2>1, <2>2, Facts, Zenon
  <2>. QED
    BY <2>1, <2>3 DEF Kept
<1>. QED
  BY <1>1, <1>2, <1>3

LEMMA KeptIsInv == ASSUME Positions', Kept PROVE IInv'
<1>1. text' = text /\ toks' \in Seq(Tok)
  BY DEF Kept
<1>2. Told' = Told /\ Has("\"")' = Has("\"")
  BY <1>1 DEF Told, Has, Size
<1>3. TypeOK'
  BY <1>1 DEF Kept, TypeOK, Tok
<1>4. NothingLost'
  BY <1>1, <1>2 DEF Kept, NothingLost, Same
<1>5. InPieces'
  BY <1>2 DEF Kept, InPieces
<1>. QED
  BY <1>3, <1>4, <1>5 DEF IInv

LEMMA InvStep == IInv /\ [Next]_vars => IInv'
<1>. SUFFICES ASSUME IInv, [Next]_vars PROVE IInv'
  OBVIOUS
<1>0. Positions'
  BY Facts, Step
<1>1. CASE TakeWord
  BY <1>0, <1>1, WordKept, KeptIsInv
<1>2. CASE TakeOperator
  BY <1>0, <1>2, OperatorKept, KeptIsInv
<1>3. CASE TakeRedirection
  BY <1>0, <1>3, RedirectionKept, KeptIsInv
<1>4. CASE SkipBlank
  BY <1>0, <1>4, BlankKept, KeptIsInv
<1>5. CASE SkipComment
  BY <1>0, <1>5, CommentKept, KeptIsInv
<1>6. CASE TakeQuote
  BY <1>0, <1>6, QuoteKept, KeptIsInv
<1>7. CASE TakeVar
  BY <1>0, <1>7, VarKept, KeptIsInv
<1>8. CASE OpenDouble
  BY <1>0, <1>8, OpenKept, KeptIsInv
<1>9. CASE TakeText
  BY <1>0, <1>9, TextKept, KeptIsInv
<1>10. CASE TakeName
  BY <1>0, <1>10, NameKept, KeptIsInv
<1>11. CASE CloseDouble
  BY <1>0, <1>11, CloseKept, KeptIsInv
<1>12. CASE UnclosedQuote \/ UnclosedVar \/ UnclosedDouble \/ ReadBehindText \/ EndOfText
  BY <1>0, <1>12, EndKept, KeptIsInv
<1>13. CASE Finished \/ UNCHANGED vars
  <2>1. UNCHANGED <<text, i, toks, pc>>
    BY <1>13 DEF Finished, vars
  <2>2. Kept
    BY <2>1, Facts DEF Kept, IInv, InPieces
  <2>. QED
    BY <1>0, <2>2, KeptIsInv
<1>. QED
  BY <1>1, <1>2, <1>3, <1>4, <1>5, <1>6, <1>7, <1>8, <1>9, <1>10, <1>11, <1>12, <1>13 DEF Next

LEMMA InvInit == Init => IInv
<1>. SUFFICES ASSUME Init PROVE IInv
  OBVIOUS
<1>1. text \in Seq(Char) /\ i = 1 /\ toks = << >> /\ pc = "load" /\ text \in Texts
  BY LexerConstants DEF Init
<1>2. TypeOK
  <2>1. toks \in Seq(Tok)
    BY <1>1
  <2>2. Positions
    BY <1>1 DEF Positions, Size
  <2>. QED
    BY <1>1, <2>1, <2>2 DEF TypeOK, Tok
<1>3. NothingLost
  <2>1. SubSeq(text, 1, i - 1) = << >>
    BY <1>1, SubSeqEmpty
  <2>2. Values(toks) = << >>
    BY <1>1, ValuesEmpty, Zenon
  <2>. QED
    BY <2>1, <2>2, Zenon DEF NothingLost
<1>4. InPieces
  BY <1>1 DEF InPieces
<1>. QED
  BY <1>2, <1>3, <1>4 DEF IInv

LEMMA InvHolds == Spec => []IInv
BY InvInit, InvStep, PTL DEF Spec

(* The tokens are sequences of characters of the alphabet, never with what is behind
   the text, whatever the text: no loop of the lexer copies the '\0'. *)
THEOREM TypeCorrect == Spec => []TypeOK
BY InvHolds, PTL DEF IInv

(* The lexer loses nothing: the characters of the tokens, the blanks and what quotes
   left out, are those of the text up to the position, in their order, at every step
   and at the end, for every text without a comment and without a $ in double quotes
   (lexer_load and the loops it calls). *)
THEOREM TextIsKept == Spec => []NothingLost
BY InvHolds, PTL DEF IInv
=============================================================================
