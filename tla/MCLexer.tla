------------------------------ MODULE MCLexer -------------------------------
(***************************************************************************)
(* Texts that begin alike, or do not, and then are every text over a small *)
(* alphabet: strings, long strings, comments, numerals, names and symbols. *)
(***************************************************************************)
EXTENDS LuaLexer

CONSTANT Extra   \* how much longer the texts are than they have to be

FilesFrom(prefix, alphabet, max, options) ==
  [text        : UNION {{prefix \o t : t \in [1..n -> alphabet]} : n \in 0..(max + Extra)},
   nonStandard : options,
   cLike       : options]

MCFiles ==
  UNION {FilesFrom(<<"\"">>, {"\"", "\\", "z", "\n", "\r", " "}, 4, {FALSE}),
         FilesFrom(<<"[">>, {"[", "]", "="}, 6, {FALSE}),
         FilesFrom(<<"[", "[">>, {"]", "\n", "\r", "g"}, 4, {FALSE}),
         FilesFrom(<<"-", "-">>, {"[", "]", "\n", "-"}, 4, {FALSE}),
         FilesFrom(<<"/", "*">>, {"*", "/", "\n", "\r"}, 4, {TRUE}),
         FilesFrom(<<>>, {"\n", "\r", "g"}, 5, {FALSE}),
         FilesFrom(<<>>, {"0", "x", "e", "p", ".", "-", "utf8"}, 3, {FALSE}),
         FilesFrom(<<>>, {"#", "/", "=", "\n", " "}, 3, BOOLEAN),
         FilesFrom(<<>>, {"<", "=", "?", "[", "~"}, 3, BOOLEAN),
         FilesFrom(<<"{">>, {"@", "a", "}", "utf8"}, 3, BOOLEAN)}
=============================================================================
