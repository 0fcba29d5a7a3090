-------------------------- MODULE ExecutableSearch --------------------------
(***************************************************************************)
(* How a program is found for a spawn (n_process.c, POSIX): a name with a  *)
(* separator is a path of its own, any other is looked for in the          *)
(* directories of PATH.  The text of PATH grows by a character per step.   *)
(***************************************************************************)
EXTENDS Integers, Sequences, SequencesExt

CONSTANTS Characters,   \* of PATH
          MaxLength,    \* bound: characters of PATH
          Executables,  \* names that are asked for, character by character
          BufferSize,   \* NEXUS_MAX_PATH_LENGTH, the terminator included
          Answers       \* what stat and access say of a path, NONE for an
                        \* executable file; FILE_NOT_FOUND if not in its domain

VARIABLES path,   \* the environment variable PATH
          isset   \* it is in the environment

vars == <<path, isset>>

Init == path = << >> /\ isset \in BOOLEAN

Next ==
  /\ isset /\ UNCHANGED isset
  /\ Len(path) < MaxLength
  /\ \E c \in Characters : path' = Append(path, c)

Spec == Init /\ [][Next]_vars

-----------------------------------------------------------------------------
(* n_process_posix_executable_validate                                     *)
Validate(candidate) == IF candidate \in DOMAIN Answers THEN Answers[candidate] ELSE "FILE_NOT_FOUND"

(* An empty component is the working directory.                            *)
Candidate(component, name) ==
  CASE component = << >> -> <<".", "/">> \o name
    [] component # << >> /\ Last(component) = "/" -> component \o name
    [] OTHER -> component \o <<"/">> \o name

Fits(candidate) == Len(candidate) + 1 <= BufferSize

ComponentEnd(from) == Min({i \in from .. Len(path) : path[i] = ":"} \union {Len(path) + 1})

(* Mutant: the first directory without permission ends the search.         *)
EndsEarly(error) == error # "FILE_NOT_FOUND"

(* What a candidate must say for the search to stop at it.                 *)
Ends(error) == error \notin {"FILE_NOT_FOUND", "PERMISSION_DENIED"}

(* n_process_posix_executable_search, from the component that begins here. *)
RECURSIVE SearchFrom(_, _, _)
SearchFrom(from, name, permission_denied) ==
  LET end       == ComponentEnd(from)
      candidate == Candidate(SubSeq(path, from, end - 1), name)
      error     == IF Fits(candidate) THEN Validate(candidate) ELSE "FILE_NOT_FOUND"
      denied    == permission_denied \/ error = "PERMISSION_DENIED"
  IN  CASE Ends(error) -> [error |-> error, file |-> candidate]
        [] ~Ends(error) /\ end <= Len(path) -> SearchFrom(end + 1, name, denied)
        [] OTHER -> [error |-> IF denied THEN "PERMISSION_DENIED" ELSE "FILE_NOT_FOUND", file |-> << >>]

(* nexus_process_executable_resolve                                        *)
Resolve(name) ==
  CASE "/" \in ToSet(name) -> [error |-> Validate(name), file |-> name]
    [] "/" \notin ToSet(name) /\ ~isset -> [error |-> "FILE_NOT_FOUND", file |-> << >>]
    [] OTHER -> SearchFrom(1, name, FALSE)

-----------------------------------------------------------------------------
(* The directories of PATH, in its order: none when it is not set, which   *)
(* is not the same as an empty one.                                        *)
Directories ==
  IF ~isset THEN << >> ELSE
  FoldLeft(LAMBDA parts, c : IF c = ":" THEN Append(parts, << >>)
                             ELSE Append(Front(parts), Append(Last(parts), c)),
           << << >> >>, path)

(* The program that runs is that of the first directory that has one; no   *)
(* directory before it, missing, denied or too long to be tried, hides it, *)
(* but one whose file cannot be looked at does.  Without one, a directory  *)
(* that was denied is told from none that had the file.                    *)
Resolved ==
  \A name \in Executables :
    LET tried  == IF "/" \in ToSet(name) THEN <<name>>
                  ELSE SelectSeq([i \in DOMAIN Directories |-> Candidate(Directories[i], name)], Fits)
        answer == [i \in DOMAIN tried |-> Validate(tried[i])]
        first  == {i \in DOMAIN tried : answer[i] \in {"NONE", "IO"}}
        result == Resolve(name)
    IN  IF first # {}
          THEN result = [error |-> answer[Min(first)], file |-> tried[Min(first)]]
          ELSE result.error = IF "PERMISSION_DENIED" \in ToSet(answer) THEN "PERMISSION_DENIED"
                                                                      ELSE "FILE_NOT_FOUND"
=============================================================================
