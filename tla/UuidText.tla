------------------------------ MODULE UuidText ------------------------------
(***************************************************************************)
(* The UUIDs that keep no state (n_identity.c): version 4 and random       *)
(* version 7, version 5 from a name, their bytes (n_uint128.c) and their   *)
(* text.  A word is the sequence of its 8 bytes, the most significant      *)
(* first; entropy and SHA-1 digests are arbitrary bytes.                   *)
(***************************************************************************)
EXTENDS Integers, Sequences, FiniteSets, SequencesExt

CONSTANTS Entropy,    \* what 16 random bytes, or those of a digest, may be
          Timestamps  \* the 6 bytes of a time in milliseconds

VARIABLES uuid,  \* the last UUID generated or parsed
          error  \* what the last call returned

vars == <<uuid, error>>

(* nexus_uint128_bytes_big_endian_read, and _write as it stands: the low   *)
(* word goes to the first eight bytes.                                     *)
BigEndianRead(bytes) == [hi |-> SubSeq(bytes, 1, 8), lo |-> SubSeq(bytes, 9, 16)]
BigEndianWrite(value) == value.lo \o value.hi

LittleEndianRead(bytes) ==
  [lo |-> Reverse(SubSeq(bytes, 1, 8)), hi |-> Reverse(SubSeq(bytes, 9, 16))]
LittleEndianWrite(value) == Reverse(value.lo) \o Reverse(value.hi)

(* The version replaces the high half of byte 6, the variant the two high  *)
(* bits of byte 8.                                                         *)
Stamped(bytes, version) ==
  [bytes EXCEPT ![7] = (@ % 16) + 16 * version, ![9] = (@ % 64) + 128]

Init ==
  /\ uuid = [hi |-> [i \in 1 .. 8 |-> 0], lo |-> [i \in 1 .. 8 |-> 0]]
  /\ error = "NONE"

EntropyFails == error' = "IO" /\ UNCHANGED uuid

GenerateV4 ==
  \/ \E bytes \in Entropy : /\ uuid' = BigEndianRead(Stamped(bytes, 4))
                            /\ error' = "NONE"
  \/ EntropyFails

GenerateV5 ==
  \E digest \in Entropy : /\ uuid' = BigEndianRead(Stamped(digest, 5))
                          /\ error' = "NONE"

GenerateV7Random ==
  \/ \E bytes \in Entropy, time \in Timestamps :
       /\ uuid' = BigEndianRead(Stamped(time \o SubSeq(bytes, 7, 16), 7))
       /\ error' = "NONE"
  \/ EntropyFails

-----------------------------------------------------------------------------
Lower == <<"0", "1", "2", "3", "4", "5", "6", "7", "8", "9", "a", "b", "c", "d", "e", "f">>
Upper == SubSeq(Lower, 1, 10) \o <<"A", "B", "C", "D", "E", "F">>
Dashes == {5, 7, 9, 11}  \* the bytes that follow one
DashPlaces == {9, 14, 19, 24}

Text(bytes, digits) ==
  FlattenSeq([i \in 1 .. 16 |->
    (IF i \in Dashes THEN <<"-">> ELSE << >>)
      \o <<digits[(bytes[i] \div 16) + 1], digits[(bytes[i] % 16) + 1]>>])

(* nexus_identity_uuid_string_write                                        *)
StringWrite(value) == Text(BigEndianWrite(value), Lower)

Stripped(string) ==
  LET kept == {i \in DOMAIN string : string[i] # " "}
  IN  IF kept = {} THEN << >> ELSE SubSeq(string, Min(kept), Max(kept))

Nibbles(c) == {n \in 0 .. 15 : c \in {Lower[n + 1], Upper[n + 1]}}

(* Where the two digits of byte i begin.                                   *)
Place(i) == 2 * i - 1 + Cardinality({d \in Dashes : d <= i})

(* Mutant: the dashes are skipped wherever they are.                       *)
WellFormedLoose(s) ==
  /\ Len(s) = 36
  /\ \A i \in DOMAIN s \ DashPlaces : Nibbles(s[i]) # {}

WellFormed(s) ==
  /\ Len(s) = 36
  /\ \A i \in DashPlaces : s[i] = "-"
  /\ \A i \in DOMAIN s \ DashPlaces : Nibbles(s[i]) # {}

(* nexus_identity_uuid_string_parse                                        *)
StringParse(string) ==
  LET s == Stripped(string)
      digit(i) == CHOOSE n \in Nibbles(s[i]) : TRUE
  IN  IF WellFormed(s)
        THEN [error |-> "NONE",
              value |-> BigEndianRead([i \in 1 .. 16 |-> 16 * digit(Place(i)) + digit(Place(i) + 1)])]
        ELSE [error |-> "INVALID_ARGUMENT"]

(* A UUID is written and the text read back.                               *)
Reread ==
  LET parsed == StringParse(StringWrite(uuid)) IN
  /\ error' = parsed.error
  /\ uuid' = parsed.value

Next == GenerateV4 \/ GenerateV5 \/ GenerateV7Random \/ Reread

Spec == Init /\ [][Next]_vars

-----------------------------------------------------------------------------
Canonical(digits) == Text(uuid.hi \o uuid.lo, digits)

(* The standard text of a UUID, in either case and with blanks around it,  *)
(* is read as that UUID; it is refused when a character is no digit, or a  *)
(* dash is elsewhere, or one is missing.  The little-endian bytes lead     *)
(* back to the UUID too.                                                   *)
TextRead ==
  /\ \A digits \in {Lower, Upper} :
       StringParse(<<" ">> \o Canonical(digits) \o <<" ", " ">>) = [error |-> "NONE", value |-> uuid]
  /\ \A i \in 1 .. 36 :
       /\ StringParse([Canonical(Lower) EXCEPT ![i] = "g"]).error = "INVALID_ARGUMENT"
       /\ StringParse(RemoveAt(Canonical(Lower), i)).error = "INVALID_ARGUMENT"
       /\ i \notin DashPlaces =>
            StringParse([Canonical(Lower) EXCEPT ![i] = "-"]).error = "INVALID_ARGUMENT"
  /\ LittleEndianRead(LittleEndianWrite(uuid)) = uuid

(* A UUID that is written and read back is the same one, in the big-endian *)
(* order nexus.h gives.                                                    *)
ReadsBack ==
  /\ StringParse(StringWrite(uuid)).value = uuid
  /\ StringWrite(uuid) = Canonical(Lower)
=============================================================================
