-------------------------------- MODULE Utf8 --------------------------------
(***************************************************************************)
(* The text operators of n_strings.c that look into UTF-8: the clip of a   *)
(* character cut at the end of a buffer, and the measure of what a         *)
(* terminal shows of a text.                                               *)
(*                                                                         *)
(* A byte is a class: the lead of a character of some bytes and columns, a *)
(* continuation byte, and the bytes of a colour's escape sequence.         *)
(***************************************************************************)
EXTENDS Integers, Sequences, SequencesExt

Ascii == {"a", "[", "m", "ESC", "|", "-", "LF", " "}
Bytes(lead) == CASE lead \in Ascii -> 1 [] lead = "mark" -> 2 [] lead = "wide" -> 3
Columns(lead) == CASE lead \in {"ESC", "mark", "LF"} -> 0 [] lead = "wide" -> 2 [] OTHER -> 1

-----------------------------------------------------------------------------
(* The bytes in front of the continuation bytes at the end: lead_index.    *)
Tail0(s) == Max({0} \union {i \in DOMAIN s : s[i] # "cont"})

(* Mutant: the text is cut where the buffer ends.                          *)
ClipNothing(s) == s

(* n_strings_utf8_clip_incomplete_tail.  What it takes for the lead is the *)
(* byte after it, a continuation byte, which no text may end with.         *)
RECURSIVE Clip(_)
Clip(s) ==
  CASE s = << >> \/ Last(s) \in Ascii -> s
    [] Tail0(s) = Len(s) -> Clip(Front(s))
    [] OTHER -> Clip(SubSeq(s, 1, Tail0(s)))

(* nexus_strings_string_copy_with_truncation                               *)
Copy(s, max_len) ==
  IF Len(s) < max_len THEN [written |-> s, truncated |-> FALSE]
                      ELSE [written |-> Clip(SubSeq(s, 1, max_len - 1)), truncated |-> TRUE]

-----------------------------------------------------------------------------
(* What n_strings_display_measure reads at once, and the columns it counts:*)
(* an escape sequence up to its "m", or a character, or a stray byte.      *)

SkipAnsi(s) ==
  IF Len(s) > 1 /\ s[2] = "[" THEN Min({i \in 3 .. Len(s) : s[i] = "m"} \union {Len(s)})
                              ELSE 1

Decoded(s) ==
  /\ Head(s) # "cont"
  /\ Len(s) >= Bytes(Head(s))
  /\ \A i \in 2 .. Bytes(Head(s)) : s[i] = "cont"

Glyph(s) ==
  CASE Head(s) = "ESC" -> [bytes |-> SkipAnsi(s), width |-> 0]
    [] Head(s) # "ESC" /\ Decoded(s) -> [bytes |-> Bytes(Head(s)), width |-> Columns(Head(s))]
    [] OTHER -> [bytes |-> 1, width |-> 1]

RECURSIVE Measure(_, _)
Measure(s, max_width) ==
  IF s = << >> \/ Glyph(s).width > max_width THEN [bytes |-> 0, width |-> 0]
  ELSE LET g    == Glyph(s)
           rest == Measure(SubSeq(s, g.bytes + 1, Len(s)), max_width - g.width)
       IN  [bytes |-> g.bytes + rest.bytes, width |-> g.width + rest.width]
=============================================================================
