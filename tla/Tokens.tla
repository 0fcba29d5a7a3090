------------------------------- MODULE Tokens -------------------------------
(***************************************************************************)
(* How texts are taken apart: at every delimiter, at the first one, word   *)
(* by word (n_strings.c), and line by line from a file (n_filesystem.c).   *)
(* The text grows by a character per step, so that its states are all the  *)
(* texts up to a length.                                                   *)
(***************************************************************************)
EXTENDS Integers, Sequences, SequencesExt

CONSTANT MaxLength  \* bound: characters of the text

VARIABLE text

Characters == {"a", " ", "CR", "LF"}

Init == text = << >>

Next ==
  /\ Len(text) < MaxLength
  /\ \E c \in Characters : text' = Append(text, c)

Spec == Init /\ [][Next]_text

RECURSIVE Skip(_, _)
Skip(s, blanks) ==
  IF s # << >> /\ Head(s) \in blanks THEN Skip(Tail(s), blanks) ELSE s

(* The longest prefix of s without a character of the set.                 *)
Until(s, set) == SubSeq(s, 1, Min({i \in DOMAIN s : s[i] \in set} \union {Len(s) + 1}) - 1)
After(s, n) == SubSeq(s, n + 1, Len(s))

-----------------------------------------------------------------------------
(* nexus_strings_string_split: one copy of the text with a terminator in   *)
(* place of every delimiter, and a pointer behind each of them.            *)

StringData(s, delimiter) ==
  [i \in DOMAIN s |-> IF s[i] = delimiter THEN "NUL" ELSE s[i]] \o <<"NUL">>

(* Mutant: no string behind a delimiter that ends the text.                *)
InnerPointers(s, delimiter) ==
  <<0>> \o SelectSeq([i \in DOMAIN s |-> i], LAMBDA i : s[i] = delimiter /\ i < Len(s))

Pointers(s, delimiter) ==
  <<0>> \o SelectSeq([i \in DOMAIN s |-> i], LAMBDA i : s[i] = delimiter)

Split(s, delimiter) ==
  [k \in DOMAIN Pointers(s, delimiter) |->
     Until(After(StringData(s, delimiter), Pointers(s, delimiter)[k]), {"NUL"})]

(* nexus_strings_string_split_on_first_delimiter.  A left part that does   *)
(* not fit is refused, a right part is cut to what fits.                   *)
SplitOnFirst(s, delimiter, left_max, right_max) ==
  LET left  == Until(s, {delimiter})
      right == After(s, Len(left) + 1)
  IN  IF left = << >> \/ right = << >> \/ Len(left) >= left_max
        THEN [error |-> "INVALID_ARGUMENT"]
        ELSE [error |-> "NONE", left |-> left,
              right |-> SubSeq(right, 1, Min({Len(right), right_max - 1}))]

(* nexus_strings_string_read_word                                          *)
ReadWord(cursor, max) ==
  LET source == Skip(cursor, {" "})
      word   == Until(source, {" "})
  IN  IF source = << >> \/ Len(word) >= max
        THEN [error |-> "INVALID_ARGUMENT"]
        ELSE [error |-> "NONE", word |-> word, cursor |-> Skip(After(source, Len(word)), {" "})]

(* nexus_filesystem_file_read_line_allocated, on what is left of the file. *)
ReadLine(s) ==
  LET line == Until(s, {"CR", "LF"})
      rest == After(s, Len(line))
  IN  CASE rest = << >> \/ rest = <<"CR">> -> [line |-> line, rest |-> << >>, eof |-> TRUE]
        [] Len(rest) > 1 /\ rest[1] = "CR" /\ rest[2] = "LF" ->
             [line |-> line, rest |-> After(rest, 2), eof |-> FALSE]
        [] OTHER -> [line |-> line, rest |-> After(rest, 1), eof |-> FALSE]

RECURSIVE Words(_)
Words(cursor) ==
  LET w == ReadWord(cursor, Len(cursor) + 1)
  IN  IF w.error = "NONE" THEN <<w.word>> \o Words(w.cursor) ELSE << >>

RECURSIVE Lines(_)
Lines(s) ==
  LET l == ReadLine(s) IN IF l.eof THEN <<l.line>> ELSE <<l.line>> \o Lines(l.rest)

-----------------------------------------------------------------------------
Join(strings, delimiter) ==
  FoldLeft(LAMBDA s, piece : s \o <<delimiter>> \o piece, Head(strings), Tail(strings))

(* The text with every CR LF, and every other CR, read as one LF.          *)
Unix ==
  FoldLeftDomain(LAMBDA s, i :
                   IF text[i] = "LF" /\ i > 1 /\ text[IF i > 1 THEN i - 1 ELSE i] = "CR" THEN s
                   ELSE Append(s, IF text[i] = "CR" THEN "LF" ELSE text[i]),
                 << >>, text)

(* The strings of a split hold no delimiter and joined again give the text,*)
(* empty ones at either end included; the words are those strings that are *)
(* not empty.  A split at the first delimiter loses nothing that its       *)
(* buffers have room for.  The lines of a file are the same whichever line *)
(* ends it uses, or mixes; only an empty line behind a last lone CR is not *)
(* reported.                                                               *)
Tokenized ==
  /\ \A d \in Characters :
       /\ Join(Split(text, d), d) = text
       /\ \A k \in DOMAIN Split(text, d) : d \notin ToSet(Split(text, d)[k])
       /\ LET s == SplitOnFirst(text, d, Len(text), Len(text) + 1)
          IN  IF s.error = "NONE" THEN s.left \o <<d>> \o s.right = text
              ELSE Len(Split(text, d)) < 2 \/ Head(text) = d \/ Until(text, {d}) = Front(text)
  /\ Words(text) = SelectSeq(Split(text, " "), LAMBDA s : s # << >>)
  /\ Lines(text) = LET lines == Split(Unix, "LF")
                   IN  IF text # << >> /\ Last(text) = "CR" THEN Front(lines) ELSE lines
=============================================================================
