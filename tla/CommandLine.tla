---------------------------- MODULE CommandLine ----------------------------
(***************************************************************************)
(* How a spawn on Windows turns argv into the one string CreateProcess     *)
(* takes (n_process.c): arguments with blanks or quotes are quoted, and    *)
(* backslashes count only in front of a quote.  The program at the other   *)
(* end takes the string apart by the rules of the C runtime.               *)
(*                                                                         *)
(* The argument vector grows by a character or an argument per step, so    *)
(* that its states are all the vectors up to a length; the program's name  *)
(* is fixed, for a file name holds no quote.                               *)
(***************************************************************************)
EXTENDS Integers, Sequences, SequencesExt

CONSTANTS MaxLength,  \* bound: arguments and their characters
          BufferSizes \* of the buffer the line is built in

Blank == " "  \* stands for the tab too
Slash == "\\"
Quote == "\""
Characters == {"a", Blank, Slash, Quote}

VARIABLE argv

Init == argv = << <<"a">> >>

Next ==
  /\ Len(argv) + Len(FlattenSeq(argv)) < MaxLength
  /\ \/ argv' = Append(argv, << >>)
     \/ /\ Len(argv) > 1
        /\ \E c \in Characters :
             argv' = Append(Front(argv), Append(Last(argv), c))

Spec == Init /\ [][Next]_argv

-----------------------------------------------------------------------------
Slashes(n) == [i \in 1 .. n |-> Slash]

NeedsQuotes(argument) ==
  argument = << >> \/ \E i \in DOMAIN argument : argument[i] \in {Blank, Quote}

(* One turn of the loop: backslashes are held back until it is known what  *)
(* they stand in front of.                                                 *)
Escape(c, line) ==
  CASE c = Slash -> [out |-> line.out, held |-> line.held + 1]
    [] c = Quote -> [out |-> line.out \o Slashes(2 * line.held + 1) \o <<Quote>>, held |-> 0]
    [] OTHER     -> [out |-> line.out \o Slashes(line.held) \o <<c>>, held |-> 0]

(* Mutant: backslashes at the end are not in front of a quote.             *)
ClosedBare(line) == line.out \o Slashes(line.held) \o <<Quote>>

(* The closing quote follows them.                                         *)
Closed(line) == line.out \o Slashes(2 * line.held) \o <<Quote>>

Argument(argument) ==
  IF NeedsQuotes(argument)
    THEN Closed(FoldLeft(LAMBDA line, c : Escape(c, line), [out |-> <<Quote>>, held |-> 0], argument))
    ELSE argument

Line == FoldLeft(LAMBDA line, a : line \o <<Blank>> \o Argument(a),
                 Argument(Head(argv)), Tail(argv))

(* Characters are appended until one of them and the terminator do not fit.*)
Build(size) ==
  IF Len(Line) < size THEN [error |-> "NONE", line |-> Line]
                      ELSE [error |-> "INVALID_ARGUMENT", line |-> SubSeq(Line, 1, size - 1)]

-----------------------------------------------------------------------------
(* The C runtime's rules for the arguments.                                *)

Flushed(p) == p.argument \o Slashes(p.held)

Parse(args, argument, held, begun, quoted) ==
  [args |-> args, argument |-> argument, held |-> held, begun |-> begun, quoted |-> quoted]

ParseStep(p, c) ==
  CASE c = Slash -> Parse(p.args, p.argument, p.held + 1, TRUE, p.quoted)
    [] c = Quote ->
         LET literal == p.held % 2 = 1
             before  == p.argument \o Slashes(p.held \div 2)
         IN  IF literal THEN Parse(p.args, Append(before, Quote), 0, TRUE, p.quoted)
                        ELSE Parse(p.args, before, 0, TRUE, ~p.quoted)
    [] c = Blank /\ ~p.quoted ->
         Parse(IF p.begun THEN Append(p.args, Flushed(p)) ELSE p.args, << >>, 0, FALSE, FALSE)
    [] OTHER -> Parse(p.args, Append(Flushed(p), c), 0, TRUE, p.quoted)

Parsed(line) ==
  FoldLeft(ParseStep, Parse(<< >>, << >>, 0, FALSE, FALSE), line \o <<Blank>>).args

(* The child receives the arguments the caller gave, whatever blanks,      *)
(* quotes and backslashes they hold, or the spawn is refused: never the    *)
(* line cut short to what the buffer holds.                                *)
RoundTrip ==
  \A size \in BufferSizes :
    Build(size).error = "NONE" => Parsed(Build(size).line) = argv
=============================================================================
