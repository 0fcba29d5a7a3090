----------------------------- MODULE MCLibrary -----------------------------
(***************************************************************************)
(* The parts of the library that keep state of their own and share none    *)
(* with another part, each under its own instance.  A behaviour takes one  *)
(* part and stays with it; the others rest in their initial states.  The   *)
(* parts that Library names are proved about, the others are not.          *)
(*                                                                         *)
(* The pages of the allocator are those of a 64-bit machine: a header of   *)
(* 32 bytes, words of 8.  In a page of 216 bytes, a size of 104 leaves 72, *)
(* which is split off; 112 leaves 64, which is not, and with an alignment  *)
(* of 64 it is the largest request a page is taken for; 128 with that      *)
(* alignment is refused.  The two bases differ modulo 64.                  *)
(***************************************************************************)
EXTENDS PagedAllocator, Library, TLC

VARIABLES
  wrBuffer, wrTruncated, wrText,
  tokText,
  pathFrom, pathTo,
  idUuid, idError,
  tabTable, tabOffset, tabBytes, tabFull, tabFitted, tabLoose, tabOutside,
  bitWord, bitPresent, bitHash,
  pathVariable, pathSet

wrVars  == <<wrBuffer, wrTruncated, wrText>>
pathVars == <<pathFrom, pathTo>>
idVars  == <<idUuid, idError>>
tabVars == <<tabTable, tabOffset, tabBytes, tabFull, tabFitted, tabLoose, tabOutside>>
bitVars == <<bitWord, bitPresent, bitHash>>
searchVars == <<pathVariable, pathSet>>

-----------------------------------------------------------------------------
(* Two threads on a directory with a subdirectory and a file, and all that *)
(* one of the calls may create or delete under the other's feet.           *)
SomeCalls ==
  [op : {"create_parents"}, path : {<<"a", "b">>, <<"a", "b", "c">>}] \union
  [op : {"delete"}, path : {<<"a">>, <<"a", "b">>}] \union
  [op : {"rmdir"}, path : {<<"a", "b">>}] \union
  [op : {"collect"}, path : {<<"a">>}] \union
  [op : {"open_write"}, path : {<<"a", "f">>, <<"a", "b">>}]

SomeDeltas == {1, -3}

SomePaths == {<<"a">>, <<"a", "b">>, <<"a", "b", "c">>, <<"a", "f">>}

(* A character of two bytes that takes no column, and one of three bytes   *)
(* that takes two.                                                         *)
Mark == <<"mark", "cont">>
Wide == <<"wide", "cont", "cont">>

Writer == INSTANCE StringWriter WITH
  Pieces <- {<<"a">>, <<"ESC">>, <<"[">>, <<"m">>, Mark, Wide, Wide \o Mark},
  Capacity <- 5, MaxBytes <- 6,
  buffer <- wrBuffer, truncated <- wrTruncated, text <- wrText

Token == INSTANCE Tokens WITH MaxLength <- 6, text <- tokText

Paths == INSTANCE PathNames WITH
  Names <- {<<"a">>, <<"b">>, <<"a", "b">>}, MaxDepth <- 3, Leftover <- {<< >>, <<"a">>}, MaxClimb <- 3,
  from <- pathFrom, to <- pathTo

Identity == INSTANCE UuidText WITH
  Entropy <- {[i \in 1 .. 16 |-> (17 * i * i + k) % 256] : k \in {0, 101, 205}},
  Timestamps <- {<<1, 2, 3, 4, 5, 6>>, <<16, 198, 247, 160, 181, 237>>},
  uuid <- idUuid, error <- idError

Table == INSTANCE Tabular WITH
  Texts <- {<< >>, <<"a">> \o Wide}, Widths <- {0, 4}, Lines <- {Mark}, MaxLen <- 24, CellLength <- 4,
  Initial <- 1, MaxColumns <- 1, MaxRows <- 2, MaxOutside <- 1,
  table <- tabTable, offset <- tabOffset, bytes <- tabBytes, full <- tabFull,
  fitted <- tabFitted, loose <- tabLoose, outside <- tabOutside

Words == INSTANCE Bits WITH
  UnitBits <- 2, Units <- 4, Keys <- <<5, 9, 200, 77>>,
  word <- bitWord, present <- bitPresent, hash <- bitHash

(* A directory that is denied, one that has the program, with and without  *)
(* a separator, one that cannot be read, and the working directory.        *)
ProgramFiles ==
  (<<"a", "/", "x">> :> "NONE") @@ (<<"a", "a", "/", "x">> :> "NONE") @@ (<<"b", "/", "x">> :> "PERMISSION_DENIED") @@
  (<<".", "/", "x">> :> "PERMISSION_DENIED") @@ (<<"/", "x">> :> "IO")

Program == INSTANCE ExecutableSearch WITH
  Characters <- {"a", "b", "/", ":"}, MaxLength <- 6, Executables <- {<<"x">>, <<"b", "/", "x">>},
  BufferSize <- 6, Answers <- ProgramFiles, path <- pathVariable, isset <- pathSet

-----------------------------------------------------------------------------
Parts == {"allocator", "signals", "poller", "counters", "streams", "files", "arguments", "writer", "tokens",
          "paths", "numerals", "wide", "identity", "table", "errors", "bits", "digest", "search", "atomics"}

LibraryInit ==
  /\ part \in Parts
  /\ Init /\ Signal!Init /\ Poller!Init /\ Counters!Init /\ Streams!Init /\ Files!Init /\ Arguments!Init
  /\ Writer!Init /\ Token!Init /\ Paths!Init /\ Numeral!Init /\ WideNumber!Init /\ Identity!Init
  /\ Table!Init /\ Errors!Init /\ Words!Init /\ Digest!Begin /\ Program!Init /\ Atomic!Init
  /\ part = "files" \/ fsTree = [p \in DOMAIN fsTree |-> "none"]
  /\ part = "table" \/ tabTable.label.width = 0
  /\ part = "search" \/ pathSet

Resting(p) ==
  /\ p # "allocator" => UNCHANGED vars
  /\ p # "signals" => UNCHANGED sigVars
  /\ p # "poller" => UNCHANGED polVars
  /\ p # "counters" => UNCHANGED cntVars
  /\ p # "streams" => UNCHANGED strVars
  /\ p # "files" => UNCHANGED fsVars
  /\ p # "arguments" => UNCHANGED argv
  /\ p # "writer" => UNCHANGED wrVars
  /\ p # "tokens" => UNCHANGED tokText
  /\ p # "paths" => UNCHANGED pathVars
  /\ p # "numerals" => UNCHANGED numeral
  /\ p # "wide" => UNCHANGED wide
  /\ p # "identity" => UNCHANGED idVars
  /\ p # "table" => UNCHANGED tabVars
  /\ p # "errors" => UNCHANGED errVars
  /\ p # "bits" => UNCHANGED bitVars
  /\ p # "digest" => UNCHANGED shaVars
  /\ p # "search" => UNCHANGED searchVars
  /\ p # "atomics" => UNCHANGED atVars

LibraryNext ==
  \/ part = "allocator" /\ Next /\ UNCHANGED part /\ Resting("allocator")
  \/ part = "signals" /\ Signal!Next /\ UNCHANGED part /\ Resting("signals")
  \/ part = "poller" /\ Poller!Next /\ UNCHANGED part /\ Resting("poller")
  \/ part = "counters" /\ Counters!Next /\ UNCHANGED part /\ Resting("counters")
  \/ part = "streams" /\ Streams!Next /\ UNCHANGED part /\ Resting("streams")
  \/ part = "files" /\ Files!Next /\ UNCHANGED part /\ Resting("files")
  \/ part = "arguments" /\ Arguments!Next /\ UNCHANGED part /\ Resting("arguments")
  \/ part = "writer" /\ Writer!Next /\ UNCHANGED part /\ Resting("writer")
  \/ part = "tokens" /\ Token!Next /\ UNCHANGED part /\ Resting("tokens")
  \/ part = "paths" /\ Paths!Next /\ UNCHANGED part /\ Resting("paths")
  \/ part = "numerals" /\ Numeral!Next /\ UNCHANGED part /\ Resting("numerals")
  \/ part = "wide" /\ WideNumber!Next /\ UNCHANGED part /\ Resting("wide")
  \/ part = "identity" /\ Identity!Next /\ UNCHANGED part /\ Resting("identity")
  \/ part = "table" /\ Table!Next /\ UNCHANGED part /\ Resting("table")
  \/ part = "errors" /\ Errors!Next /\ UNCHANGED part /\ Resting("errors")
  \/ part = "bits" /\ Words!Next /\ UNCHANGED part /\ Resting("bits")
  \/ part = "digest" /\ Digest!Next /\ UNCHANGED part /\ Resting("digest")
  \/ part = "search" /\ Program!Next /\ UNCHANGED part /\ Resting("search")
  \/ part = "atomics" /\ Atomic!Next /\ UNCHANGED part /\ Resting("atomics")

LibraryVars == <<part, vars, sigVars, polVars, cntVars, strVars, fsVars, argv, wrVars, tokText, pathVars,
                 numeral, wide, idVars, tabVars, errVars, bitVars, shaVars, searchVars, atVars>>

LibrarySpec == LibraryInit /\ [][LibraryNext]_LibraryVars

-----------------------------------------------------------------------------
(* Conversions: a cut text ends with a whole character and is measured     *)
(* right (StringWriter), splitting loses nothing (Tokens), the operations  *)
(* on paths agree with each other (PathNames), UUIDs are read from their   *)
(* text (UuidText), reports are aligned and as long as announced           *)
(* (Tabular), words survive being taken apart (Bits), and PATH is searched *)
(* in its order (ExecutableSearch).                                        *)
Conversions ==
  CASE part = "writer"   -> Writer!Written /\ Writer!Measured
    [] part = "tokens"   -> Token!Tokenized
    [] part = "paths"    -> Paths!PathsAgree
    [] part = "identity" -> Identity!TextRead
    [] part = "table"    -> Table!Sized /\ Table!Aligned
    [] part = "bits"     -> Words!Exchanged /\ Words!Incremental
    [] part = "search"   -> Program!Resolved
    [] OTHER             -> TRUE

(* ReadsBack: a UUID written as text is read back as the same one          *)
(* (UuidText); nexus.h says that both are big-endian.                      *)
ReadsBack == part = "identity" => Identity!ReadsBack
=============================================================================
