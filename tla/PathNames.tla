----------------------------- MODULE PathNames -----------------------------
(***************************************************************************)
(* The path arithmetic of n_paths.c (POSIX) on canonical absolute paths,   *)
(* character by character: appending a name, the parent, the way from one  *)
(* directory to another, whether one lies in another, and the search for a *)
(* marker up the ancestors.  Paths stay below NEXUS_MAX_PATH_LENGTH.       *)
(***************************************************************************)
EXTENDS Integers, Sequences, FiniteSets, SequencesExt

CONSTANTS Names,     \* file names: sequences of characters other than "/"
          MaxDepth,  \* bound: names in a path
          Leftover,  \* what the buffer of "from" may hold behind its terminator
          MaxClimb   \* directories the search looks at (64 in the code)

VARIABLES from, to   \* two paths, as character sequences

Separator == "/"
Components(p) == SelectSeq(
  FoldLeft(LAMBDA parts, c : IF c = Separator THEN Append(parts, << >>)
                             ELSE Append(Front(parts), Append(Last(parts), c)),
           << << >> >>, p),
  LAMBDA part : part # << >>)

(* nexus_paths_path_append                                                 *)
PathAppend(path, element) ==
  (IF path # << >> /\ Last(path) # Separator THEN Append(path, Separator) ELSE path) \o element

Init == from = <<Separator>> /\ to = <<Separator>>

Next ==
  \/ /\ Len(Components(from)) < MaxDepth
     /\ \E n \in Names : from' = PathAppend(from, n)
     /\ UNCHANGED to
  \/ /\ Len(Components(to)) < MaxDepth
     /\ \E n \in Names : to' = PathAppend(to, n)
     /\ UNCHANGED from

Spec == Init /\ [][Next]_<<from, to>>

-----------------------------------------------------------------------------
RECURSIVE Stripped(_)
Stripped(path) ==
  IF path # << >> /\ Last(path) = Separator THEN Stripped(Front(path)) ELSE path

LastSeparator(path) == Max({0} \union {i \in DOMAIN path : path[i] = Separator})

(* nexus_paths_path_parent                                                 *)
PathParent(path) ==
  LET p    == Stripped(path)
      last == LastSeparator(p)
  IN  CASE p = << >> \/ last = 0 -> <<".">>
        [] p # << >> /\ last = 1 -> <<Separator>>
        [] OTHER -> SubSeq(p, 1, last - 1)

(* nexus_paths_path_is_within_directory                                    *)
IsWithin(candidate, boundary) ==
  /\ IsPrefix(boundary, candidate)
  /\ \/ Len(candidate) = Len(boundary)
     \/ candidate[Len(boundary) + 1] = Separator

(* The first character where the two paths differ or either ends.          *)
Scanned == Len(LongestCommonPrefix({from, to}))
EndsAt(p, i) == i = Len(p)

(* Mutant: the shared prefix ends where the characters part, inside a name.*)
PrefixOfCharacters == Scanned

(* The prefix of whole directories that the paths share.  When to lies     *)
(* below from it takes in the separator, which from does not have.         *)
PrefixLength ==
  IF EndsAt(from, Scanned) /\ (EndsAt(to, Scanned) \/ to[Scanned + 1] = Separator)
    THEN IF EndsAt(to, Scanned) THEN Scanned ELSE Scanned + 1
    ELSE LastSeparator(SubSeq(from, 1, Scanned))

(* The scan of from begins behind the prefix: past its terminator when the *)
(* prefix is longer than it.                                               *)
Above(leftover) ==
  Components(IF PrefixLength > Len(from) THEN leftover
             ELSE SubSeq(from, PrefixLength + 1, Len(from)))

RECURSIVE SkipSeparators(_)
SkipSeparators(path) ==
  IF path # << >> /\ Head(path) = Separator THEN SkipSeparators(Tail(path)) ELSE path

(* nexus_paths_path_relative_between                                       *)
RelativeBetween(leftover) ==
  LET ups    == FoldLeft(LAMBDA s, c : (IF s = << >> THEN s ELSE Append(s, Separator)) \o <<".", ".">>,
                         << >>, Above(leftover))
      rest   == SkipSeparators(SubSeq(to, PrefixLength + 1, Len(to)))
      result == IF ups # << >> /\ rest # << >> THEN ups \o <<Separator>> \o rest ELSE ups \o rest
  IN  IF result = << >> THEN <<".">> ELSE result

(* nexus_paths_path_find_ancestor_with_marker, for the directories that    *)
(* hold the marker.                                                        *)
RECURSIVE FindAncestor(_, _, _)
FindAncestor(path, marked, depth) ==
  CASE depth = 0 -> << >>
    [] depth > 0 /\ path \in marked -> path
    [] depth > 0 /\ path \notin marked /\ Len(path) > 1 /\ Len(PathParent(path)) # Len(path) ->
         FindAncestor(PathParent(path), marked, depth - 1)
    [] OTHER -> << >>

-----------------------------------------------------------------------------
(* Where a relative path leads from a directory.                           *)
Followed(relative) ==
  FoldLeft(LAMBDA parts, c : CASE c = <<".">> -> parts
                               [] c = <<".", ".">> -> Front(parts)
                               [] OTHER -> Append(parts, c),
           Components(from), Components(relative))

(* Following the relative path from the one directory leads to the other,  *)
(* whatever the buffer of the first holds behind its terminator; but if    *)
(* the other lies below it, only if that is nothing.  The parent of an     *)
(* appended name is where it was appended; being within a directory, other *)
(* than the root, is having its names for a prefix; and the search finds   *)
(* the nearest marked ancestor within its reach.                           *)
PathsAgree ==
  /\ \A leftover \in Leftover :
       leftover = << >> \/ ~IsStrictPrefix(Components(from), Components(to)) =>
         Followed(RelativeBetween(leftover)) = Components(to)
  /\ \A n \in Names : PathParent(PathAppend(to, n)) = to
  /\ from # <<Separator>> => IsWithin(to, from) = IsPrefix(Components(from), Components(to))
  /\ LET found == FindAncestor(to, {from}, MaxClimb) IN
     IF /\ IsPrefix(Components(from), Components(to))
        /\ Len(Components(to)) - Len(Components(from)) < MaxClimb
       THEN found = from ELSE found = << >>
=============================================================================
