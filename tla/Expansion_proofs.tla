-------------------------- MODULE Expansion_proofs --------------------------
(* Proofs about Expansion, for every word, every value of the variables, every output
   of a command and every size of the buffer; and, at the end, about Substitution, for
   every size of the buffer, the pipe and the outputs. *)
EXTENDS Expansion, Substitution, FiniteSetTheorems, WellFoundedInduction, SequenceTheorems, TLAPS

-----------------------------------------------------------------------------
(* A set of numbers has a lowest one: the intervals below its members are finite
   sets, and the smallest of them belongs to the lowest member. *)
LEMMA LowestNumber ==
    ASSUME NEW S \in SUBSET Nat, S # {}
    PROVE  \E x \in S : \A y \in S : x <= y
<1>. DEFINE T == {0 .. x : x \in S}
<1>1. S \subseteq Nat
  OBVIOUS
<1>2. T \subseteq FiniteSubsetsOf(Nat) /\ T # {}
  <2>1. \A x \in S : 0 .. x \in SUBSET Nat /\ IsFiniteSet(0 .. x)
    BY <1>1, FS_Interval
  <2>. QED
    BY <2>1 DEF FiniteSubsetsOf
<1>3. PICK I \in T : \A J \in T : <<J, I>> \notin StrictSubsetOrdering(Nat)
  BY <1>2, FS_StrictSubsetOrderingWellFounded, WFMin, Zenon
<1>4. PICK x \in S : I = 0 .. x
  OBVIOUS
<1>5. \A y \in S : x <= y
  <2>. SUFFICES ASSUME NEW y \in S, y < x
                PROVE  FALSE
    BY <1>1
  <2>1. 0 .. y \subseteq 0 .. x /\ x \in 0 .. x /\ x \notin 0 .. y
    BY <1>1
  <2>2. <<0 .. y, 0 .. x>> \in StrictSubsetOrdering(Nat)
    BY <2>1, <1>1 DEF StrictSubsetOrdering
  <2>. QED
    BY <2>2, <1>3, <1>4
<1>. QED
  BY <1>5

Word == Seq(Char)

LEMMA Constants ==
    /\ << >> \in Word /\ <<"$">> \in Word
    /\ Len(<< >>) = 0
    /\ \A c : Len(<<c>>) = 1 /\ <<c>>[1] = c
    /\ \A c : ~Within(<< >>, c)
<1>1. \A c \in Char : <<c>> \in Word
  BY DEF Word
<1>2. << >> \in Word /\ Len(<< >>) = 0
  BY DEF Word
<1>3. \A c : Len(<<c>>) = 1 /\ <<c>>[1] = c
  OBVIOUS
<1>4. \A c : ~Within(<< >>, c)
  BY DEF Within
<1>. QED
  BY <1>1, <1>2, <1>3, <1>4, ExpansionAssumption, Zenon

LEMMA Part ==
    ASSUME NEW w \in Word, NEW i \in Nat \ {0}, NEW j \in Nat, j <= Len(w)
    PROVE  /\ SubSeq(w, i, j) \in Word
           /\ Len(SubSeq(w, i, j)) = IF i <= j THEN j - i + 1 ELSE 0
           /\ \A k \in 1 .. Len(SubSeq(w, i, j)) : SubSeq(w, i, j)[k] = w[k + i - 1]
<1>1. Len(w) \in Nat /\ \A k \in 1 .. Len(w) : w[k] \in Char
  BY DEF Word
<1>2. \A k \in i .. j : w[k] \in Char
  BY <1>1
<1>3. /\ SubSeq(w, i, j) \in Seq(Char)
      /\ Len(SubSeq(w, i, j)) = IF i <= j THEN j - i + 1 ELSE 0
      /\ \A k \in 1 .. j - i + 1 : SubSeq(w, i, j)[k] = w[i + k - 1]
  BY <1>2, SubSeqProperties
<1>. QED
  BY <1>1, <1>3 DEF Word

LEMMA FromIs ==
    ASSUME NEW w \in Word, NEW i \in Nat \ {0}
    PROVE  /\ From(w, i) \in Word /\ Len(w) \in Nat
           /\ Len(From(w, i)) = IF i <= Len(w) THEN Len(w) - i + 1 ELSE 0
           /\ \A k \in 1 .. Len(From(w, i)) : From(w, i)[k] = w[k + i - 1]
<1>1. Len(w) \in Nat
  BY DEF Word
<1>. QED
  BY <1>1, Part DEF From

(* strcspn: the number of characters before the first c. *)
LEMMA SpanIs ==
    ASSUME NEW w \in Word, NEW c
    PROVE  /\ strcspn(w, c) \in 0 .. Len(w)
           /\ \A j \in 1 .. strcspn(w, c) : w[j] # c
           /\ Within(w, c) => strcspn(w, c) < Len(w) /\ w[strcspn(w, c) + 1] = c
           /\ ~Within(w, c) => strcspn(w, c) = Len(w)
<1>1. Len(w) \in Nat /\ DOMAIN w = 1 .. Len(w)
  BY DEF Word
<1>2. CASE ~Within(w, c)
  BY <1>1, <1>2 DEF strcspn, Within
<1>3. CASE Within(w, c)
  <2>. DEFINE S == {i \in DOMAIN w : w[i] = c}
              First(i) == w[i] = c /\ \A j \in 1 .. i - 1 : w[j] # c
              m == CHOOSE i \in DOMAIN w : First(i)
  <2>1. S \in SUBSET Nat /\ S # {}
    BY <1>1, <1>3 DEF Within
  <2>2. PICK x \in S : \A y \in S : x <= y
    BY <2>1, LowestNumber, Zenon
  <2>3. x \in DOMAIN w /\ First(x)
    BY <1>1, <2>2
  <2>4. m \in DOMAIN w /\ First(m)
    BY <2>3, Zenon
  <2>5. strcspn(w, c) = m - 1
    BY <1>3 DEF strcspn
  <2>. HIDE DEF m
  <2>. QED
    BY <1>1, <1>3, <2>4, <2>5
<1>. QED
  BY <1>2, <1>3

(* SkipAll: what is left behind the leading c begins with another character. *)
LEMMA SkipIs ==
    ASSUME NEW w \in Word, NEW c
    PROVE  /\ SkipAll(w, c) \in Word /\ Len(SkipAll(w, c)) <= Len(w)
           /\ SkipAll(w, c) # << >> => SkipAll(w, c)[1] # c
           /\ (w # << >> /\ w[1] = c) => Len(SkipAll(w, c)) < Len(w)
<1>1. Len(w) \in Nat /\ DOMAIN w = 1 .. Len(w)
  BY DEF Word
<1>. DEFINE S == {i \in 1 .. Len(w) + 1 : i \in DOMAIN w => w[i] # c}
            End(i) == (\A j \in 1 .. i - 1 : w[j] = c) /\ (i \in DOMAIN w => w[i] # c)
            m == CHOOSE i \in 1 .. Len(w) + 1 : End(i)
<1>2. S \in SUBSET Nat /\ Len(w) + 1 \in S
  BY <1>1
<1>3. PICK x \in S : \A y \in S : x <= y
  BY <1>2, LowestNumber, Zenon
<1>4. x \in 1 .. Len(w) + 1 /\ End(x)
  BY <1>1, <1>3
<1>5. m \in 1 .. Len(w) + 1 /\ End(m)
  BY <1>4, Zenon
<1>6. SkipAll(w, c) = From(w, m)
  BY DEF SkipAll
<1>. HIDE DEF m
<1>7. /\ From(w, m) \in Word
      /\ Len(From(w, m)) = IF m <= Len(w) THEN Len(w) - m + 1 ELSE 0
      /\ \A k \in 1 .. Len(From(w, m)) : From(w, m)[k] = w[k + m - 1]
  BY <1>1, <1>5, FromIs
<1>8. From(w, m) # << >> => m <= Len(w) /\ From(w, m)[1] = w[m]
  BY <1>1, <1>5, <1>7 DEF Word
<1>9. (w # << >> /\ w[1] = c) => m # 1
  BY <1>1, <1>5 DEF Word
<1>. QED
  BY <1>1, <1>5, <1>6, <1>7, <1>8, <1>9

(* strtok_r: a token, and what is left behind its delimiter, which is shorter. *)
LEMMA TokenIs ==
    ASSUME NEW w \in Word, NEW c, NEW t, t = strtok_r(w, c)
    PROVE  /\ t = [token |-> t.token, rest |-> t.rest]
           /\ t.token \in Word \cup {Null} /\ t.rest \in Word
           /\ Len(t.rest) <= Len(w)
           /\ (t.rest # << >> /\ w # << >> /\ w[1] = c) => Len(t.rest) < Len(w) - 1
<1>. DEFINE s == SkipAll(w, c)
            n == strcspn(s, c)
<1>1. /\ s \in Word /\ Len(s) <= Len(w) /\ Len(s) \in Nat /\ Len(w) \in Nat
      /\ s # << >> => s[1] # c
      /\ (w # << >> /\ w[1] = c) => Len(s) < Len(w)
  BY SkipIs DEF Word
<1>. HIDE DEF s
<1>2. /\ n \in 0 .. Len(s) /\ (~Within(s, c) => n = Len(s))
      /\ Within(s, c) => s[n + 1] = c
  BY <1>1, SpanIs
<1>3. t = IF s = << >> THEN [token |-> Null, rest |-> << >>]
          ELSE [token |-> SubSeq(s, 1, n), rest |-> From(s, n + 2)]
  BY DEF strtok_r, s
<1>4. CASE s = << >>
  <2>1. t = [token |-> Null, rest |-> << >>]
    BY <1>3, <1>4
  <2>2. t.token = Null /\ t.rest = << >>
    BY <2>1
  <2>3. t = [token |-> t.token, rest |-> t.rest]
    BY <2>1, <2>2, Zenon
  <2>4. t.token \in Word \cup {Null} /\ t.rest \in Word
    BY <2>2, Constants, Zenon
  <2>5. Len(t.rest) = 0
    BY <2>2, Constants, Zenon
  <2>6. Len(t.rest) <= Len(w)
    BY <2>5, <1>1
  <2>. QED
    BY <2>2, <2>3, <2>4, <2>6, Zenon
<1>5. CASE s # << >>
  <2>1. Len(s) >= 1
    BY <1>1, <1>5 DEF Word
  <2>2. n >= 1
    BY <1>1, <1>2, <1>5, <2>1
  <2>. HIDE DEF n
  <2>3. SubSeq(s, 1, n) \in Word
    BY <1>1, <1>2, Part
  <2>4. /\ From(s, n + 2) \in Word
        /\ Len(From(s, n + 2)) = IF n + 2 <= Len(s) THEN Len(s) - (n + 2) + 1 ELSE 0
    BY <1>1, <1>2, FromIs
  <2>5. From(s, n + 2) # << >> => n + 2 <= Len(s)
    BY <1>1, <1>2, <2>4 DEF Word
  <2>6. t = [token |-> SubSeq(s, 1, n), rest |-> From(s, n + 2)]
    BY <1>3, <1>5, Zenon
  <2>. DEFINE rest == From(s, n + 2)
              token == SubSeq(s, 1, n)
  <2>. HIDE DEF rest, token
  <2>7. t.token = token /\ t.rest = rest
    <3>1. t = [token |-> token, rest |-> rest]
      BY <2>6, Zenon DEF rest, token
    <3>. QED
      BY <3>1
  <2>8. t = [token |-> t.token, rest |-> t.rest]
    BY <2>6, <2>7, Zenon DEF rest, token
  <2>9. t.token \in Word \cup {Null} /\ t.rest \in Word
    BY <2>3, <2>4, <2>7, Zenon DEF rest, token
  <2>10. Len(rest) <= Len(w)
    BY <1>1, <1>2, <2>4 DEF rest
  <2>11. (rest # << >> /\ w # << >> /\ w[1] = c) => Len(rest) < Len(w) - 1
    BY <1>1, <1>2, <2>2, <2>4, <2>5 DEF rest
  <2>. QED
    BY <2>7, <2>8, <2>9, <2>10, <2>11, Zenon
<1>. QED
  BY <1>4, <1>5

(* get_word: what is left behind the name, when something is, is shorter than the
   word without its $. *)
LEMMA NameIs ==
    ASSUME NEW w \in Word, w # << >>, w[1] = "$", NEW g, g = get_word(w)
    PROVE  /\ g.token \in Word \cup {Null} /\ g.rest \in Word
           /\ g.rest # << >> => Len(g.rest) < Len(w) - 1
<1>. DEFINE braced == strtok_r(From(w, 3), "}")
<1>1. /\ From(w, 3) \in Word /\ Len(w) \in Nat
      /\ Len(From(w, 3)) = IF 3 <= Len(w) THEN Len(w) - 2 ELSE 0
  BY FromIs
<1>2. /\ braced = [token |-> braced.token, rest |-> braced.rest]
      /\ braced.token \in Word \cup {Null} /\ braced.rest \in Word
      /\ Len(braced.rest) <= Len(From(w, 3))
  BY <1>1, TokenIs
<1>3. \A r \in Word : r # << >> => Len(r) \in Nat /\ Len(r) >= 1
  BY DEF Word
<1>4. CASE CharAt(w, 2) = "$"
  <2>1. g.token = <<"$">> /\ g.rest = From(w, 3)
    BY <1>4 DEF get_word
  <2>2. From(w, 3) # << >> => Len(From(w, 3)) < Len(w) - 1
    BY <1>1, <1>3
  <2>. QED
    BY <1>1, <2>1, <2>2, Constants, Zenon
<1>5. CASE CharAt(w, 2) = "{"
  <2>1. g = IF braced.token # Null /\ Within(braced.token, "$")
            THEN [braced EXCEPT !.token = Null] ELSE braced
    BY <1>5 DEF get_word
  <2>. HIDE DEF braced
  <2>2. g.token \in Word \cup {Null} /\ g.rest = braced.rest
    BY <1>2, <2>1, Constants
  <2>3. braced.rest # << >> => Len(braced.rest) < Len(w) - 1
    BY <1>1, <1>2, <1>3
  <2>. QED
    BY <1>2, <2>2, <2>3, Zenon
<1>6. CASE CharAt(w, 2) \notin {"$", "{"}
  <2>1. g = strtok_r(w, "$")
    BY <1>6 DEF get_word
  <2>. QED
    BY <2>1, TokenIs
<1>. QED
  BY <1>4, <1>5, <1>6

(* Text with no c in front of a word leaves what follows the first c as it is. *)
LEMMA ConcatIs ==
    ASSUME NEW a \in Word, NEW b \in Word, NEW c
    PROVE  /\ a \o b \in Word
           /\ ~Within(a, c) => Len(a \o b) - strcspn(a \o b, c) = Len(b) - strcspn(b, c)
<1>. DEFINE x == a \o b
<1>0. x \in Word
  BY DEF Word
<1>1. Len(a) \in Nat /\ Len(b) \in Nat /\ Len(x) \in Nat /\ Len(x) = Len(a) + Len(b)
  BY DEF Word
<1>2. /\ \A k \in 1 .. Len(a) : x[k] = a[k]
      /\ \A k \in Len(a) + 1 .. Len(x) : x[k] = b[k - Len(a)]
      /\ \A k \in 1 .. Len(b) : x[Len(a) + k] = b[k]
  BY DEF Word
<1>. HIDE DEF x
<1>7. Within(x, c) <=> \E k \in 1 .. Len(x) : x[k] = c
  BY <1>0 DEF Word, Within
<1>8. Within(b, c) <=> \E k \in 1 .. Len(b) : b[k] = c
  BY DEF Word, Within
<1>. DEFINE m == strcspn(x, c)
            n == strcspn(b, c)
<1>3. /\ m \in 0 .. Len(x) /\ \A j \in 1 .. m : x[j] # c
      /\ Within(x, c) => m < Len(x) /\ x[m + 1] = c
      /\ ~Within(x, c) => m = Len(x)
  BY <1>0, SpanIs
<1>4. /\ n \in 0 .. Len(b) /\ \A j \in 1 .. n : b[j] # c
      /\ Within(b, c) => n < Len(b) /\ b[n + 1] = c
      /\ ~Within(b, c) => n = Len(b)
  BY SpanIs
<1>. HIDE DEF m, n
<1>5. ASSUME ~Within(a, c)
      PROVE  m = Len(a) + n
  <2>1. \A j \in 1 .. Len(a) : a[j] # c
    BY <1>5 DEF Within, Word
  <2>2. \A j \in 1 .. Len(a) + n : x[j] # c
    <3>. SUFFICES ASSUME NEW j \in 1 .. Len(a) + n
                  PROVE  x[j] # c
      OBVIOUS
    <3>1. CASE j <= Len(a)
      BY <3>1, <1>1, <1>2, <1>4, <2>1
    <3>2. CASE ~(j <= Len(a))
      <4>1. j - Len(a) \in 1 .. n /\ j \in Len(a) + 1 .. Len(x)
        BY <3>2, <1>1, <1>2, <1>4
      <4>. QED
        BY <4>1, <1>2, <1>4
    <3>. QED
      BY <3>1, <3>2
  <2>3. Within(x, c) <=> Within(b, c)
    <3>1. ASSUME Within(x, c)
          PROVE  Within(b, c)
      <4>1. PICK k \in 1 .. Len(x) : x[k] = c
        BY <3>1, <1>7
      <4>2. ~(k <= Len(a))
        BY <4>1, <1>1, <1>2, <2>1
      <4>3. k - Len(a) \in 1 .. Len(b) /\ b[k - Len(a)] = c
        BY <4>1, <4>2, <1>1, <1>2
      <4>. QED
        BY <4>3, <1>8
    <3>2. ASSUME Within(b, c)
          PROVE  Within(x, c)
      <4>1. n + 1 \in 1 .. Len(b) /\ b[n + 1] = c
        BY <1>1, <1>4, <3>2
      <4>2. Len(a) + n + 1 \in 1 .. Len(x) /\ x[Len(a) + n + 1] = c
        BY <4>1, <1>1, <1>2, <1>4
      <4>. QED
        BY <4>2, <1>7
    <3>. QED
      BY <3>1, <3>2
  <2>4. CASE ~Within(x, c)
    BY <1>1, <1>2, <1>3, <1>4, <2>3, <2>4
  <2>5. CASE Within(x, c)
    <3>1. n + 1 \in 1 .. Len(b) /\ b[n + 1] = c
      BY <1>1, <1>4, <2>3, <2>5
    <3>2. Len(a) + n + 1 \in 1 .. Len(x) /\ x[Len(a) + n + 1] = c
      BY <3>1, <1>1, <1>2, <1>4
    <3>3. ~(m < Len(a) + n)
      BY <1>1, <1>2, <1>3, <1>4, <2>2, <2>5
    <3>4. ~(Len(a) + n < m)
      BY <1>1, <1>2, <1>3, <1>4, <3>2
    <3>5. m \in Nat /\ n \in Nat
      BY <1>1, <1>3, <1>4
    <3>. QED
      BY <1>1, <3>3, <3>4, <3>5
  <2>. QED
    BY <2>4, <2>5
<1>6. ~Within(a, c) => Len(x) - m = Len(b) - n
  BY <1>1, <1>2, <1>3, <1>4, <1>5
<1>. QED
  BY <1>0, <1>6, Zenon DEF x, m, n

(* A word without $ has nothing left; one that begins with it is left whole. *)
LEMMA RemainingIs ==
    ASSUME NEW w \in Word
    PROVE  /\ Remaining(w) \in Nat
           /\ ~Within(w, "$") => Remaining(w) = 0
           /\ Within(w, "$") => Remaining(w) > 0
           /\ (w # << >> /\ w[1] = "$") => Remaining(w) = Len(w)
<1>. DEFINE n == strcspn(w, "$")
<1>1. Len(w) \in Nat
  BY DEF Word
<1>2. /\ n \in 0 .. Len(w) /\ \A j \in 1 .. n : w[j] # "$"
      /\ Within(w, "$") => n < Len(w) /\ w[n + 1] = "$"
      /\ ~Within(w, "$") => n = Len(w)
  BY SpanIs
<1>3. Remaining(w) = Len(w) - n
  BY DEF Remaining
<1>. HIDE DEF n
<1>4. (w # << >> /\ w[1] = "$") => n = 0
  BY <1>1, <1>2
<1>. QED
  BY <1>1, <1>2, <1>3, <1>4

(* expand_variable, when it returns a word: the $ it puts back stands in front of less
   than the first $ of the word did. *)
LEMMA ExpandIs ==
    ASSUME NEW w \in Word, Within(w, "$"), env \in Env,
           NEW new, new = expand_variable(w), new \notin {Null, Crash}
    PROVE  /\ new \in Word
           /\ (\A n \in DOMAIN env : ~Within(env[n], "$")) => Remaining(new) < Remaining(w)
<1>. DEFINE n == strcspn(w, "$")
            before == SubSeq(w, 1, n)
            d == From(w, n + 1)
            name == get_word(d)
            value == ValueOf(name.token)
            rest == name.rest
            tail == IF rest = << >> THEN << >> ELSE <<"$">> \o rest
<1>1. Len(w) \in Nat /\ n \in 0 .. Len(w) - 1 /\ w[n + 1] = "$" /\ \A j \in 1 .. n : w[j] # "$"
  BY SpanIs DEF Word
<1>2. new = IF n >= Len(w) - n THEN before
            ELSE IF name.token = Null \/ Within(name.token, Space) THEN Null
            ELSE IF value = Null THEN Crash
            ELSE before \o value \o tail
  BY Zenon DEF expand_variable
<1>3. Remaining(w) = Len(w) - n
  BY DEF Remaining
<1>. HIDE DEF n
<1>4. before \in Word /\ ~Within(before, "$")
  <2>1. /\ before \in Word /\ Len(before) = n
        /\ \A k \in 1 .. Len(before) : before[k] = w[k + 1 - 1]
    BY <1>1, Part
  <2>2. DOMAIN before = 1 .. Len(before)
    BY <2>1 DEF Word
  <2>. HIDE DEF before
  <2>. QED
    BY <1>1, <2>1, <2>2 DEF Within
<1>5. d \in Word /\ Len(d) = Len(w) - n /\ d # << >> /\ d[1] = "$"
  <2>1. /\ d \in Word /\ Len(d) = Len(w) - (n + 1) + 1
        /\ \A k \in 1 .. Len(d) : d[k] = w[k + (n + 1) - 1]
    BY <1>1, FromIs
  <2>. HIDE DEF d
  <2>2. Len(d) >= 1
    BY <1>1, <2>1
  <2>3. d # << >>
    BY <2>2, Constants
  <2>. QED
    BY <1>1, <2>1, <2>2, <2>3
<1>. HIDE DEF before, d
<1>6. /\ name.token \in Word \cup {Null} /\ rest \in Word
      /\ rest # << >> => Len(rest) < Len(d) - 1
  BY <1>5, NameIs, Zenon
<1>. HIDE DEF name, rest
<1>7. tail \in Word /\ Remaining(tail) < Len(w) - n
  <2>1. CASE rest = << >>
    <3>1. tail = << >> /\ tail \in Word /\ ~Within(tail, "$")
      BY <2>1, Constants DEF Within
    <3>2. Remaining(tail) = 0
      BY <3>1, RemainingIs
    <3>. QED
      BY <1>1, <3>1, <3>2
  <2>2. CASE rest # << >>
    <3>1. tail = <<"$">> \o rest
      BY <2>2
    <3>. HIDE DEF tail
    <3>2. Len(rest) \in Nat
      BY <1>6 DEF Word
    <3>3. tail \in Word /\ Len(tail) = Len(rest) + 1 /\ tail[1] = "$" /\ tail # << >>
      BY <1>6, <3>1, <3>2, Constants DEF Word
    <3>4. Remaining(tail) = Len(tail)
      BY <3>3, RemainingIs
    <3>. QED
      BY <1>1, <1>5, <1>6, <2>2, <3>2, <3>3, <3>4
  <2>. QED
    BY <2>1, <2>2
<1>. HIDE DEF tail
<1>8. CASE n >= Len(w) - n
  <2>1. new = before
    BY <1>2, <1>8, Zenon
  <2>. QED
    BY <2>1, <1>1, <1>3, <1>4, RemainingIs
<1>9. CASE ~(n >= Len(w) - n)
  <2>1. name.token # Null /\ value # Null /\ new = before \o value \o tail
    BY <1>2, <1>9, Zenon
  <2>2. value \in Word
    BY <2>1, Constants, ExpansionAssumption, Zenon DEF ValueOf, Word
  <2>3. (\A k \in DOMAIN env : ~Within(env[k], "$")) => ~Within(value, "$")
    BY Constants, Zenon DEF ValueOf
  <2>. HIDE DEF value
  <2>4. value \o tail \in Word /\ before \o (value \o tail) \in Word
    BY <1>4, <1>7, <2>2, ConcatIs
  <2>5. new = before \o (value \o tail)
    <3>1. (before \o value) \o tail = before \o (value \o tail)
      BY <1>4, <1>7, <2>2, ConcatAssociative DEF Word
    <3>. QED
      BY <2>1, <3>1, Zenon
  <2>6. (\A k \in DOMAIN env : ~Within(env[k], "$")) => Remaining(new) = Remaining(tail)
    <3>. SUFFICES ASSUME \A k \in DOMAIN env : ~Within(env[k], "$")
                  PROVE  Remaining(new) = Remaining(tail)
      OBVIOUS
    <3>1. Remaining(value \o tail) = Remaining(tail)
      BY <1>7, <2>2, <2>3, ConcatIs, Zenon DEF Remaining
    <3>2. Remaining(before \o (value \o tail)) = Remaining(value \o tail)
      BY <1>4, <2>4, ConcatIs, Zenon DEF Remaining
    <3>. QED
      BY <3>1, <3>2, <2>5, Zenon
  <2>. QED
    BY <1>3, <1>7, <2>4, <2>5, <2>6
<1>. QED
  BY <1>8, <1>9

-----------------------------------------------------------------------------
(* The types, for every word, environment and output (expansion_handler). *)
THEOREM TypeCorrect == Spec => []TypeOK
<1>1. Init => TypeOK
  BY ExpansionAssumption, Zenon DEF Init, TypeOK
<1>2. TypeOK /\ [Next]_vars => TypeOK'
  <2>. SUFFICES ASSUME TypeOK, [Next]_vars
                PROVE  TypeOK'
    OBVIOUS
  <2>. USE DEF TypeOK
  <2>1. CASE Expanded
    BY <2>1, Zenon DEF Expanded
  <2>2. CASE KeepWord
    BY <2>2, Zenon DEF KeepWord, After
  <2>3. CASE ExpandVariable
    <3>. DEFINE new == expand_variable(word)
    <3>1. UNCHANGED <<source, env, caller>> /\ state' \in {"expanding", "done", "failed", "stopped"}
      BY <2>3, Zenon DEF ExpandVariable, After
    <3>2. word' = word \/ (new \notin {Null, Crash} /\ word' = new /\ ~(Len(new) >= BufferSize))
      BY <2>3, Zenon DEF ExpandVariable
    <3>3. new \notin {Null, Crash} => new \in Word
      BY <2>3, ExpandIs, Zenon DEF Word, ExpandVariable
    <3>. HIDE DEF new
    <3>4. CASE word' = word
      BY <3>1, <3>4, Zenon
    <3>5. CASE word' # word
      <4>1. word' \in Word /\ ~(Len(word') >= BufferSize)
        BY <3>2, <3>3, <3>5, Zenon
      <4>2. Len(word') < BufferSize
        BY <4>1, ExpansionAssumption DEF Word
      <4>. QED
        BY <3>1, <4>1, <4>2, Zenon DEF Word
    <3>. QED
      BY <3>4, <3>5
  <2>4. CASE ExpandSubstitution
    <3>1. /\ UNCHANGED <<source, env, caller>>
          /\ state' \in {"expanding", "done", "failed", "stopped"}
          /\ \/ word' = word
             \/ word' = << >>
             \/ \E out \in Output : out # << >> /\ word' = WithoutLast(out)
      BY <2>4, Zenon DEF ExpandSubstitution, Written, NotWaitedFor, After
    <3>2. << >> \in Seq(Char) /\ Len(<< >>) < BufferSize
      BY ExpansionAssumption
    <3>3. \A out \in Output : out # << >> =>
             WithoutLast(out) \in Seq(Char) /\ Len(WithoutLast(out)) < BufferSize
      <4>. SUFFICES ASSUME NEW out \in Output, out # << >>
                    PROVE  WithoutLast(out) \in Seq(Char) /\ Len(WithoutLast(out)) < BufferSize
        OBVIOUS
      <4>1. out \in Word /\ Len(out) \in Nat \ {0} /\ Len(out) <= BufferSize
        BY ExpansionAssumption DEF Word
      <4>2. /\ SubSeq(out, 1, Len(out) - 1) \in Word
            /\ Len(SubSeq(out, 1, Len(out) - 1)) = IF 1 <= Len(out) - 1 THEN Len(out) - 1 ELSE 0
        BY <4>1, Part
      <4>. QED
        BY <4>1, <4>2, ExpansionAssumption DEF WithoutLast, Word
    <3>4. CASE word' = word
      BY <3>1, <3>4, Zenon
    <3>5. CASE word' # word
      BY <3>1, <3>2, <3>3, <3>5, Zenon
    <3>. QED
      BY <3>4, <3>5
  <2>5. CASE Finished
    BY <2>5, Zenon DEF Finished, vars
  <2>6. CASE UNCHANGED vars
    BY <2>6, Zenon DEF vars
  <2>. QED
    BY <2>1, <2>2, <2>3, <2>4, <2>5, <2>6 DEF Next
<1>. QED
  BY <1>1, <1>2, PTL DEF Spec

(* The loop of to_command ends: as long as the values and the outputs have no $, each
   turn of it shortens what begins with the first $ of the word. *)
THEOREM LoopShortens == Spec => TurnsShorten
<1>. DEFINE Turn == (\A n \in DOMAIN env : ~Within(env[n], "$"))
                      /\ (IsSubstitution(word) => ~Within(word', "$")) /\ state' = "expanding"
                      => Remaining(word') < Remaining(word)
<1>1. TypeOK /\ TypeOK' /\ [Next]_vars => [Turn]_vars
  <2>. SUFFICES ASSUME TypeOK, TypeOK', Next, state' = "expanding",
                       \A n \in DOMAIN env : ~Within(env[n], "$"),
                       IsSubstitution(word) => ~Within(word', "$"), vars' # vars
                PROVE  Remaining(word') < Remaining(word)
    BY Zenon
  <2>1. word \in Word /\ word' \in Word /\ env \in Env
    BY DEF TypeOK, Word
  <2>2. ~Expanded /\ ~Finished
    BY Zenon DEF Expanded, Finished
  <2>3. ~KeepWord
    <3>. SUFFICES ASSUME KeepWord
                  PROVE  FALSE
      OBVIOUS
    <3>1. caller # "assignment"
      BY Zenon DEF KeepWord, After
    <3>. QED
      BY <3>1, Zenon DEF KeepWord, Expanding, contains_expansions
  <2>4. CASE ExpandVariable
    <3>1. /\ Within(word, "$") /\ expand_variable(word) \notin {Null, Crash}
          /\ word' = expand_variable(word)
      BY <2>4, Zenon DEF ExpandVariable
    <3>. QED
      BY <2>1, <3>1, ExpandIs, Zenon
  <2>5. CASE ExpandSubstitution
    <3>1. Within(word, "$") /\ ~Within(word', "$")
      BY <2>5, Zenon DEF ExpandSubstitution, IsSubstitution
    <3>. QED
      BY <2>1, <3>1, RemainingIs
  <2>. QED
    BY <2>2, <2>3, <2>4, <2>5 DEF Next
<1>2. Spec => [][Turn]_vars
  BY <1>1, TypeCorrect, PTL DEF Spec
<1>. QED
  BY <1>2 DEF TurnsShorten

-----------------------------------------------------------------------------
(* The ends the shell holds are a function of where it is. *)
HeldAt ==
    /\ pc = "pipe" => held = {}
    /\ pc \in {"fork", "wait", "waitany", "closewrite", "failed"} => held = {"read", "write"}
    /\ pc \in {"read", "closeread"} => held = {"read"}
    /\ pc \in {"append", "done", "stopped"} => held = {}

(* The child is between fork and wait, or there is none; the job belongs to it and
   is killed only when nobody can read. *)
Processes ==
    /\ pc \in {"pipe", "fork", "waitany"} => child = "none"
    /\ pc \in {"closewrite", "read", "closeread", "append", "done", "stopped", "failed"} =>
         child \in {"none", "exited"}
    /\ child \in {"none", "run", "exited"}
    /\ child = "none" => job = "none" /\ todo = first
    /\ child = "exited" => todo = 0 /\ (late > 0 => job # "none")
    /\ job = "none" => jobTodo = late
    /\ late = 0 => job = "none"
    /\ job = "exited" => jobTodo = 0
    /\ job = "sigpipe" => "read" \notin held
    /\ pc = "failed" => ignored \/ (child = "none" /\ orphan = "reaped")

(* Until the shell reads, the pipe holds what was written; then it has read as much
   of it as fits, and nothing only if there was nothing.  The text lacks one byte of
   what was read. *)
Amounts ==
    /\ pc \in {"pipe", "fork", "wait", "waitany", "closewrite", "read"} =>
         buffer = (first - todo) + (late - jobTodo)
    /\ pc \in {"closeread", "append", "done", "stopped"} =>
         /\ late = 0 /\ child = "exited" => nbread = Least(first, ReadSize)
         /\ child = "none" => nbread = 0
         /\ nbread = 0 => child = "none" \/ (first = 0 /\ late = 0)
    /\ pc = "done" => nbread > 0 /\ text = nbread - 1
    /\ pc = "stopped" => nbread = 0

SubstIInv == SubstTypeOK /\ HeldAt /\ Processes /\ Amounts

USE SubstitutionAssumption

LEMMA SubstInitIInv == SubstInit => SubstIInv
BY DEF SubstInit, SubstIInv, SubstTypeOK, HeldAt, Processes, Amounts

LEMMA ShellKeepsIInv == SubstIInv /\ ExecWord => SubstIInv'
<1>. SUFFICES ASSUME SubstIInv, ExecWord PROVE SubstIInv'
  OBVIOUS
<1>. USE DEF SubstIInv, SubstTypeOK, HeldAt, Processes, Amounts, Goto, writers, world
<1>1. CASE Pipe
  BY <1>1 DEF Pipe
<1>2. CASE Fork
  BY <1>2 DEF Fork
<1>3. CASE Wait
  BY <1>3 DEF Wait
<1>4. CASE CloseWrite
  BY <1>4 DEF CloseWrite
<1>5. CASE Read
  <2>1. /\ pc = "read" /\ pc' = "closeread" /\ buffer' = buffer - nbread'
        /\ nbread' = Least(buffer, ReadSize)
        /\ buffer > 0 \/ "run" \notin {child, job}
        /\ UNCHANGED <<held, text, first, late, ignored, orphan, child, job, todo, jobTodo>>
    BY <1>5 DEF Read
  <2>2. SubstTypeOK'
    BY <2>1 DEF Least
  <2>3. HeldAt' /\ Processes'
    BY <2>1
  <2>4. Amounts'
    BY <2>1 DEF Least
  <2>. QED
    BY <2>2, <2>3, <2>4
<1>6. CASE CloseRead
  BY <1>6 DEF CloseRead
<1>7. CASE AppendText
  <2>1. /\ pc = "append"
        /\ UNCHANGED <<held, nbread, buffer, first, late, ignored, orphan>>
        /\ UNCHANGED <<child, job, todo, jobTodo>>
        /\ \/ nbread > 0 /\ pc' = "done" /\ text' = nbread - 1
           \/ ~(nbread > 0) /\ pc' = "stopped" /\ text' = text
    BY <1>7 DEF AppendText
  <2>2. SubstTypeOK'
    BY <2>1
  <2>3. HeldAt' /\ Processes'
    BY <2>1
  <2>4. Amounts'
    BY <2>1
  <2>. QED
    BY <2>2, <2>3, <2>4
<1>8. CASE WaitAny
  BY <1>8 DEF WaitAny
<1>. QED
  BY <1>1, <1>2, <1>3, <1>4, <1>5, <1>6, <1>7, <1>8 DEF ExecWord

LEMMA WritersKeepIInv == SubstIInv /\ (ChildStep \/ JobStep \/ OrphanExit) => SubstIInv'
<1>. SUFFICES ASSUME SubstIInv, ChildStep \/ JobStep \/ OrphanExit PROVE SubstIInv'
  OBVIOUS
<1>. USE DEF SubstIInv, SubstTypeOK, HeldAt, Processes, Amounts, shell, world
<1>1. CASE ChildWrite
  BY <1>1 DEF ChildWrite
<1>2. CASE ChildSpawn
  BY <1>2 DEF ChildSpawn
<1>3. CASE ChildExit
  BY <1>3 DEF ChildExit
<1>4. CASE JobStep
  <2>1. CASE jobTodo > 0 /\ "read" \in held
    BY <1>4, <2>1 DEF JobStep
  <2>2. CASE ~(jobTodo > 0 /\ "read" \in held)
    BY <1>4, <2>2 DEF JobStep
  <2>. QED
    BY <2>1, <2>2
<1>5. CASE OrphanExit
  <2>1. UNCHANGED <<pc, held, nbread, text, first, late, child, job, todo, jobTodo, buffer>>
    BY <1>5 DEF OrphanExit
  <2>2. ignored' = ignored /\ orphan = "run" /\ orphan' = "exited"
    BY <1>5 DEF OrphanExit
  <2>3. SubstTypeOK' /\ HeldAt' /\ Amounts'
    BY <2>1, <2>2
  <2>4. Processes'
    BY <2>1, <2>2
  <2>. QED
    BY <2>3, <2>4
<1>. QED
  BY <1>1, <1>2, <1>3, <1>4, <1>5 DEF ChildStep

LEMMA SubstNextIInv == SubstIInv /\ [SubstNext]_substVars => SubstIInv'
<1>. SUFFICES ASSUME SubstIInv, [SubstNext]_substVars PROVE SubstIInv'
  OBVIOUS
<1>1. CASE UNCHANGED substVars
  BY <1>1 DEF SubstIInv, SubstTypeOK, HeldAt, Processes, Amounts, substVars, world
<1>2. CASE SubstFinished
  BY <1>1, <1>2 DEF SubstFinished
<1>. QED
  BY <1>1, <1>2, ShellKeepsIInv, WritersKeepIInv DEF SubstNext

LEMMA SubstInvariant == SubstSpec => []SubstIInv
BY SubstInitIInv, SubstNextIInv, PTL DEF SubstSpec

-----------------------------------------------------------------------------
(* Type correctness: what read returns fits the buffer, and the pipe is never
   fuller than it can be (exec_word). *)
THEOREM SubstTypeCorrect == SubstSpec => []SubstTypeOK
<1>1. SubstIInv => SubstTypeOK
  BY DEF SubstIInv
<1>. QED
  BY <1>1, SubstInvariant, PTL

(* The text is what the command wrote, up to the size of the buffer, without its last
   byte, which is the newline of most commands; and the write in front of the buffer
   happens only where there was no output (exec_word). *)
THEOREM TextIsComplete == SubstSpec => []TextComplete
<1>1. SubstIInv => TextComplete
  BY DEF SubstIInv, HeldAt, Processes, Amounts, TextComplete
<1>. QED
  BY <1>1, SubstInvariant, PTL

(* Both ends of the pipe are closed when exec_word returns, except after a waitpid that
   did not return the command it was for: SIGCHLD was ignored, or fork had failed while
   the shell had another child. *)
THEOREM EndsAreClosed == SubstSpec => []ReturnsEmptyHanded
<1>1. SubstIInv => ReturnsEmptyHanded
  BY DEF SubstIInv, HeldAt, Processes, ReturnsEmptyHanded, Returned
<1>. QED
  BY <1>1, SubstInvariant, PTL
=============================================================================
