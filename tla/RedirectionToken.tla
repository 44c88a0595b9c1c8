-------------------------- MODULE RedirectionToken --------------------------
(* What parse_redirection reads in the text of a redirection token: a number, an
   operator and a word.  Numbers are short; the code computes them in an int. *)
EXTENDS Integers, Sequences, SequencesExt

NoNumber == -1
NoWord == << >>     \* the word is the next token

DigitValue == [c \in {"0", "1", "2"} |-> IF c = "0" THEN 0 ELSE IF c = "1" THEN 1 ELSE 2]

get_ionumber(value) ==
    LET n == Max({k \in 0 .. Len(value) : \A m \in 1 .. k : value[m] \in DOMAIN DigitValue})
        Shift(number, c) == 10 * number + DigitValue[c]
    IN  IF n = 0 THEN NoNumber ELSE FoldLeft(Shift, 0, SubSeq(value, 1, n))

Places(s, c) == {k \in DOMAIN s : s[k] = c}

(* From the first < on; only when there is none, from the first >. *)
io_command(value) ==
    LET from == IF Places(value, "<") # {} THEN "<" ELSE ">"
    IN  SubSeq(value, Min(Places(value, from)), Len(value))

(* Where the operator ends: at the last | of the command, or else the last &, > or <. *)
EndOfOperator(command) ==
    LET Present(c) == Places(command, c) # {}
        last == CASE Present("|") -> "|" [] Present("&") -> "&" [] Present(">") -> ">"
                  [] OTHER -> "<"
    IN  Max(Places(command, last))

get_word(command) == SubSeq(command, EndOfOperator(command) + 1, Len(command))

(* input_node, output_node and io_node; what is no operator gets no type. *)
RedirectionType(op) ==
    CASE op = <<"<">> -> "FD_IN"
      [] op = <<"<", "&">> -> "FD_DUP_IN"
      [] op = <<">">> -> "FD_OUT"
      [] op = <<">", ">">> -> "FD_OUT_APPEND"
      [] op = <<">", "|">> -> "FD_OUT_NO_CLOBBER"
      [] op = <<">", "&">> -> "FD_DUP_OUT"
      [] op = <<"<", ">">> -> "FD_IO"
      [] OTHER -> "none"

parse_redirection(value) ==
    LET command == io_command(value)
    IN  [io_number |-> get_ionumber(value),
         type |-> RedirectionType(SubSeq(command, 1, EndOfOperator(command))),
         word |-> get_word(command)]
=============================================================================
