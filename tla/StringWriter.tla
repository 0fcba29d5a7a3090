---------------------------- MODULE StringWriter ----------------------------
(***************************************************************************)
(* The string writer of n_strings.c, which appends to a buffer of fixed    *)
(* capacity, cuts what does not fit at the end of a character, and         *)
(* remembers that it did; and the measure of what it is given.             *)
(***************************************************************************)
EXTENDS Utf8

CONSTANTS Pieces,    \* strings of whole characters that are appended
          Capacity,  \* of the writer's buffer, the terminator included
          MaxBytes   \* bound: bytes appended in all

VARIABLES
  buffer,     \* the bytes of the buffer before the terminator
  truncated,
  text        \* the bytes appended so far (a history variable)

vars == <<buffer, truncated, text>>

Init ==
  /\ buffer = << >>
  /\ truncated = FALSE
  /\ text = << >>

StringAppend(s) ==
  LET result == Copy(s, Capacity - Len(buffer)) IN
  /\ Len(text) + Len(s) <= MaxBytes
  /\ buffer' = buffer \o result.written
  /\ truncated' = (truncated \/ result.truncated)
  /\ text' = text \o s

Next == \E s \in Pieces : StringAppend(s)

Spec == Init /\ [][Next]_vars

-----------------------------------------------------------------------------
(* Where s may be cut between characters.                                  *)
Cuts(s) == {i \in 0 .. Len(s) : i = Len(s) \/ s[i + 1] # "cont"}

Whole(s) ==
  \A i \in DOMAIN s :
    s[i] # "cont" => /\ i + Bytes(s[i]) - 1 \in Cuts(s)
                     /\ \A j \in i .. i + Bytes(s[i]) - 2 : j \notin Cuts(s)

(* The columns of s, by a terminal that reads it byte by byte.             *)
Shown(s) ==
  FoldLeft(LAMBDA t, b :
             CASE t.in = "csi" -> [t EXCEPT !.in = IF b = "m" THEN "text" ELSE "csi"]
               [] t.in # "csi" /\ b = "ESC" -> [t EXCEPT !.in = "esc"]
               [] t.in = "esc" /\ b = "[" -> [t EXCEPT !.in = "csi"]
               [] OTHER -> [in |-> "text",
                            columns |-> t.columns + IF b = "cont" THEN 0 ELSE Columns(b)],
           [in |-> "text", columns |-> 0], s).columns

(* The buffer holds no half of a character, whatever was cut and whatever  *)
(* was appended after it; while nothing was cut it holds the whole text;   *)
(* and it never outgrows its capacity.                                     *)
Written ==
  /\ Whole(buffer) /\ 0 \in Cuts(buffer)
  /\ ~truncated => buffer = text
  /\ Len(buffer) < Capacity

(* The prefix that is shown in some columns is the longest that fits them, *)
(* cut between characters, with escape sequences counting for nothing.     *)
Measured ==
  \A max_width \in 0 .. Len(text) :
    LET m == Measure(text, max_width) IN
    /\ m.bytes = Max({c \in Cuts(text) : Shown(SubSeq(text, 1, c)) <= max_width})
    /\ m.width = Shown(SubSeq(text, 1, m.bytes))
=============================================================================
