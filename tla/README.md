# Verification of EmmyLuaCodeStyle

TLA+ models of the Lua formatter and its language server, TLC configurations
that check them on small instances, and TLAPS proofs of what matters most for
every instance. Line numbers are those of the commit in `src/`. `PROJECT.json`
lists every component, every run with its properties, the source lines of every
definition, the hazards and the theorems.

## The system

EmmyLuaCodeStyle formats Lua. A file is lexed, parsed into a list of events and
replayed into one array of nodes and tokens; a set of analyzers decides about
spaces, line breaks, indentation, alignment, semicolons and quotes; a
depth-first walk over the tree asks them at every node and writes the result.
The same walk checks style. A language server offers this to editors.

| Component | State | Operations | Interacts with |
|---|---|---|---|
| `LuaParser/Lexer` | position, characters saved, token list, lines counted | one loop per kind of token | parser, `LuaSource` |
| `LuaParser/File` (`LuaSource`) | table of the lines, kind of line break | PushLine, UpdateLineInfo, GetLine | lexer, everybody who needs a line |
| `LuaParser/Parse` | token position, event list, recursion level, errors | grammar rules; Mark, Complete, Undo, Precede | tree |
| `LuaParser/Ast` | array of nodes and tokens, stack of open nodes, next token | BuildTree, navigation | every analyzer |
| `CodeFormatCore/Format/FormatState` | traverse stack, indentation stack, ignored range, stop flag | DfsForeach, Add...Indent, RecoverIndent, AddIgnore | analyzers, writer, checker |
| `.../Analyzer/*` | one map from node index to decision each | Analyze, ComplexAnalyze, Query | FormatState |
| `.../FormatBuilder` | text so far, column | DoResolve, WriteLine, WriteIndent, ... | FormatState |
| `RangeFormat`, `TypeFormat` | as the writer, with a window of lines | | FormatBuilder |
| `Diagnostic/*` | scopes, names, spelling index | | FormatState |
| `Config/*` | style options, editorconfig sections | parse, match | every consumer |
| `CodeFormatServer/Session` | byte buffer, reader thread, logic thread, io_context queue | read, cut frames, post, handle, send | LSP handlers |
| `CodeFormatServer/VFS`, `DB`, `LineIndex` | uri to id, id to text, id to line index | UpdateFile, ClearFile, GetLineIndex | LSP handlers |
| `CodeFormatServer/Service` | styles per workspace, spelling dictionary | | LSP handlers |
| `CodeFormat`, `CodeFormatLib`, `CodeFormatCLib` | none to speak of | run the formatter on files or strings | core |

What is hard about it:

- **Text must survive.** A formatter may move white space and nothing else. A
  token is carried through four representations (tokens, events, tree,
  slices of the writer), each with counters of its own, and every step can
  lose, repeat or reorder it for some shape of file no test has.
- **Lines counted in seven places.** Every loop of the lexer that may cross a line break counts it
  itself; all line breaks, indentations and diagnostics hang on the table that comes of it.
- **Two counters in step.** Parser and tree both skip comments, separately,
  and the tree never looks at the token index an event carries.
- **Events are patched after the fact.** `Precede` gives a complete node a
  parent that starts later in the list; `Undo` leaves a start without a kind.
- **Ending.** The loops of the parser read nothing at an error; the walk pushes
  to the stack it pops from; the reader must never meet a full buffer.
- **Bytes arrive as they like.** A read ends in a header, between CR and LF, or
  after two frames and a half; what a failed attempt left in the members is
  used by the next one.
- **Two threads.** Messages are read on one and handled on another, and the
  session is torn down while handlers that captured it are queued.
- **Cached positions.** A change comes as line and column and is made at byte
  offsets from a cached line index; columns count characters, offsets bytes.

What is correct about each component is stated by the properties below.

## Modules, and how they correspond to the code

**The lexer and the table of lines.** `LuaSource` is the text, its reader (`TextReader`) and the table
of lines with `GetLine`, whose search is two actions on its local variables. `LuaLexer` is `Lex` case
by case. A loop that can cross a line break (strings, the blanks behind `\z`, long strings and
comments), and that of a numeral, is a mode in `loop` with one step per turn; one that cannot is
the end of its run of characters. `reader` is `TextReader`, where
`saved`, `start` and `end` are `_hasSaveText`, `_buffStart` and `_buffIndex`. An error ends `Parse`, which
makes the rest of the table by `UpdateLineInfo`, a character per step. Then somebody asks for the line of
any offset. Characters stand for their classes, as in `LuaIdentify`; `utf8` is one from 0x80 on.

**The tree and its parser.** `LuaGrammar` is the grammar of `LuaParser.cpp` as
data: for every function of the parser the list of its instructions (mark, need
a token, choose by the current token, complete, precede, climb by priority).
`LuaParser` runs them. Its `todo` is the C++ call stack, `marks` the
Markers the functions on it hold, `events` is `_events`, `tokenIndex` the
parser's position, `errors` what `LuaError` records and `Current` counts. Tokens
are kinds. The file is one of `Sources`, each a sequence of sets of kinds, and
is decided token by token when the parser first looks at it, so that
a run covers all files of a shape without enumerating them first; it may end
after any token. `BuildTree` adds `LuaSyntaxTree::BuildTree`: one action per
event, one per turn of the loop that climbs parent events, one per comment or
token taken. `entries` is `_nodeOrTokens`, `nodeStack` is `_nodePosStack`,
`eaten` is `_tokenIndex`, `parents` and `parentPos` the locals of the
climbing loop. A tree is built for every file, also for one with errors, which
on-type formatting uses; `TokensKept` and `OperatorsNest` speak of files without.

**Navigation.** `SyntaxTree` describes the array as the walk sees it: `last[i]`
is the last entry under `i`, and `FirstChild`, `NextSibling`, `LastChild` and the
rest are those of `LuaSyntaxNode.cpp`.

**The walk.** `FormatDoc` computes the ranges that `---@format disable`
comments exempt. `FormatState` is `FormatState::DfsForeach`: its actions are
entering a node, entering one while a range is ignored, and leaving one.
`traverseStack`, `indentStack` and `ignoreRange` are the members; `slices` is
what the writer was handed, in order. The analyzers are an arbitrary answer:
at every node the indentation that is asked for is any of `IndentChoices`, and the
walk may be stopped at any node when `MayStop` holds, as the checkers do. `SourceOrder` says what the walk owes the
writer: slices of the source, each starting where the last one ended.

**The reader.** `ProtocolBuffer` is the reading thread with its byte buffer:
one action for a read of any number of bytes that fit, one per header line
that `TryParseHead` looks at, and one for handing on a body with the move of
the rest and the change of capacity. A byte is a symbol of a class (the
digits of a length are one symbol with a value). `Channel` says what the
session owes the client.

**The threads.** `Session` has the main thread (read, parse, post, shut down,
join) and the logic thread (run one handler, write the answer, reset, poll), with
the queue of the `io_context` between them. Messages are abstracted to
whether they are answered. `Serial` says what the server owes a client.

**The documents.** `LineIndex` has UTF-8 by widths, `LineIndex::Parse`,
`GetOffset` and the way back; a loop of the code is the function of its states after every byte or run. `Documents` has the handlers of open, change,
close, formatting and diagnostics with `VirtualFileSystem`,
`FileDB`, `UriDB` and `LineIndexDB`; the changes of one message are made one
by one, as the loop of `VirtualFileSystem::UpdateFile` does (which a change without a range ends, and one that
throws), against `client`, the text the editor shows.

**The layout.** `SourceTree` is what the analyzers read: the tree that the parser model made of a
file, a *look* (whether its strings are long, its comments short, and the line of every
token, so that one file is laid out in many ways) and a style. `LuaStyle` has the options under their
names. Four modules are analyzers. Each fills maps from token to decision in the code; here each is a
sequence of writes in the order of the code's passes, and a query takes the last write (or the last
of the highest priority), so that an override is visible as one:

- `TokenAnalyzer`: table separators and the parentheses of a call with one argument, with the
  three places before, instead of and after a token;
- `Spacing` (`SpaceAnalyzer`): `TokenWrites` is the switch of `Analyze`, `NodeWrites` that of
  `ComplexAnalyze`, `BlockWrites` and `ArgumentWrites` what `LineBreakAnalyzer` and `TokenAnalyzer`
  add, and `RightSpace` is `GetRightSpace` with `ProcessSpace`;
- `LineBreaks` (`LineBreakAnalyzer`): the pass over tokens and the pass over nodes, with blocks,
  parameter lists and tables, and `LineBreak`, its query;
- `Semicolons` (`SemicolonAnalyzer`): its notes under each style.

`Layout` is the writer: `DoResolve` puts the five decisions for a token together, `Separator` is its
switch over what follows, and `GetFormatResult` the text, a sequence of pieces of which each
remembers the token that it stands for. `Fuses` is the lexer, as far as it says which two tokens
become others when nothing is between them.

**Ranges.** `RangeFormat` extends `FormatState` with `RangeFormatBuilder`: `CheckRange` at every slice the
walk hands out (`Begin`, `Wait`, `Grow`, `Stop` are the branches of its switch), `written` for the
text, and the edit that the server's handler or a command makes of it. `range` is `_range`, whose
column is 0 or that of a token.

`MCLexer`, `MCFormatState`, `MCProtocolBuffer`, `MCDocuments`, `MCSyntax` (for the parser, the tree and the
layout) and `MCRangeFormat` give the constants values too big for a `.cfg`; `TreeShapes` makes the trees of
`MCFormatState` and `MCRangeFormat`. The modules with theorems are `LuaLexerProofs`,
`FormatStateProofs`, `ProtocolBufferProofs`, `DocumentsProofs`, `SessionProofs`, `BuildTreeProofs` (the grammar,
the parser and the tree), `OperatorProofs` (operators in the tree) and `RangeFormatProofs`.

## What the runs check

| Run | Properties | Shows |
|---|---|---|
| `Lexer` | `TokensCover LinesFound LineIsRight Ends` | Tokens are in order, apart, and all of the text but white space; only strings and long comments go over a line, and a short comment takes all of its line; each line break is counted once whichever loop crosses it, also before an error; `GetLine` finds the line of every offset; lexer and search come to an end, also in what is never closed. |
| `Syntax` | `TypeOK EventsLinked InStep TokensThere TokensKept OperatorsNest CommentsOutside` | The tree of an accepted file has every token once, in order, under the node of the file; operators nest by Lua's priorities; comments do not end up at the edge inside a node; the parser gives up at most two errors past its limit, also in its loops that read nothing; the tree never reads behind the last token. |
| | `TokensApart` | On one line, two tokens that the lexer would read as something else keep a space between them, whichever of the passes and of the two neighbours decided last. |
| | `LayoutReadsBack` | The text that is written has, read again, the tokens that were written: none fuse, none end up in a comment, and statements that only a line kept apart stay apart. |
| | `LayoutKeepsCode` | Without the tokens that a style may add or take away the text is the source, in order; what is added or taken away are separators, and parentheses in pairs around one string or table. |
| | `LayoutKeepsStatements` | A semicolon that is all that keeps two statements apart is still there. |
| | `LayoutSettles` | A second formatting breaks the lines where the first one did. |
| `BuildTreeGlobal` | `TokensKept`, violated | Finding 1. |
| `FormatState` | `TypeOK FramesAreOpen SourceComplete PreorderStep SourceInOrder Terminates` | With format comments anywhere and ranges apart, and whatever the analyzers answer, the walk enters nodes in the order of the array, hands every part of the source on once and in order (it implements `SourceOrder`), has frames of open nodes only on the indentation stack, inner above outer, and ends, also when it is stopped. |
| `FormatStateNested` | `WrittenOnce`, violated | Finding 2. |
| `ProtocolBuffer` | `WrittenFits NeverSpins HandsOnWhole Delivers AllArrive` | However bytes are cut up, bodies come out whole, once and in order (it implements `Channel`), all of them come out, no write passes the end of the buffer and a read always has room. |
| `Session` | `TypeOK PostedAreRun NoCrashInService TakesTurns EveryRequestAnswered Ends` | Messages take effect one at a time in order and answers leave in that order (it implements `Serial`); a posted handler always finds a thread that will come to it, with the io_context running or about to be reset; while the client is there, what a handler answers or asks is written (a request whose handler throws, an unknown method and a request without parameters get no answer: the kind `silent`; a command gets an edit, not an answer); both threads end after it. |
| `RangeFormat` | `EditKeepsTokens GrowsOnlyForTokens AllOrNothing` | The text that replaces some lines holds exactly the tokens of those lines, once and in order; lines nobody asked for are replaced only where a token or an exempt part leads over their border; a request is not answered in part. |
| `RangeReformat` | `EditKeepsTokens`, violated | Finding 3. |
| `SpacingTight` | `TokensApart`, violated | Finding 9. |
| `Documents` | `InStep NoOrphans EditReplacesAll DiagnosticsPlaced` | The server's text is the client's after any sequence of edits with ranges; no text or index outlives its document; the edit of a formatting covers the whole text; diagnostics are where they belong. |
| `DocumentsFullText` | `InStep`, violated | Finding 8. |

Every property of a passing run has a mutant in `PROJECT.json`: a plausible
mistake in the code under which TLC finds that property violated.

### Bounds

- `Lexer`: each loop has texts that begin with what leads into it and go on with every word over the four
  to seven characters that the loop tells apart, at least one longer than it takes to enter it, cross a line break
  of two characters or of one, and leave it closed or not. Five or six characters of two line breaks and a letter give
  tables of up to seven lines, in which the search takes both of its branches and both returns. A long
  bracket has room for two `=` on either side.
- `Syntax`, parser and tree: `AnyOrder` has files of at most 4 to 6 tokens from the kinds
  that one part of the grammar turns on (operators, tables, attributes,
  parameters, blocks with comments, suffixes), in every order. `Sentences` has one sentence per
  statement and per place that the spacing rules tell apart; tokens of them are exchanged for one of eight
  others, or have a comment behind every token, and every file may end early. Precedence
  needs three operators in a row; a Marker that is undone or preceded
  needs one node around it: both fit. `MaxErrors = 1` stands for the 5 of
  `Current`: one more error than allowed is then two, and the model still
  recovers once.
- `Syntax`, on one line (`TokensApart`): every accepted file, in the default style and with each
  spacing option at every other value. Strings are short, or all long. The source has a
  blank only where it needs one, which is the least that rules leaving the source alone can rely on. The styles without
  blanks around arithmetic and concatenation, and without a blank before comments, are left to finding 9.
- `Syntax`, on several lines (the `Layout...` properties): the sentences of `LaidOutSentences`, between
  them every place that the analyzers tell apart (tables with and without keys, calls with one argument, parameter
  lists, blocks, comments on both sides, statements with semicolons), and their beginnings that are files.
  `Looks` types each with all on one line, every token on its own, or one break at any
  place, lines next to each other or far apart, and comments long or short. Every style of
  `MCLayoutStyles` has one option of the analyzers at another value, or two that write for the
  same token. No line reaches the maximal length.
- `FormatState` has every tree of at most 5 entries with the
  three format comments anywhere, provided the ranges lie apart: a comment, its
  node, a node in it, a sibling and a parent; an analyzer asks at every node for no indentation, for
  a relative one or for an inverted one, so that frames nest three deep and have
  siblings; width 2 of a tab makes both divisions in the code have a remainder.
- `RangeFormat`: files of up to five entries in two nestings, each token on one line or two and on the
  line of the one before or the next, some of them comments that exempt what follows, and every range of
  the first five lines. A token before the range, one in it and one behind it are three; growing twice is
  reached.
- `ProtocolBuffer`: three frames, bodies of 1 and 9 symbols, the length alone or with another
  header before or after it, a normal capacity of 13: the long frame does not
  fit and makes the buffer grow, a read that completes the short one may bring the
  beginning of the next, and three frames are enough to grow, shrink and grow again.
- `Session`: three messages let one be handled, one wait and one arrive.
- `Documents`: two documents, texts of at most two characters of one and two
  bytes or a line break, and lines with a three-byte character between others;
  two changes per message; two openings. The border between runs of different widths
  is reached in both directions.

`CHECK_DEADLOCK FALSE` is set where the walk or the process ends or the reader
waits for a client that owes nothing.

### Fairness

`LuaLexer` and `FormatState` have `WF(Next)`: the lexer, the search for a line and the walk are loops of one
thread.
`ProtocolBuffer` has weak fairness of the steps of the reader only: the thread
runs on when there is something to read, and the client
sends a prefix of its stream of any length. `Session` has weak fairness of each
thread while the process has not crashed: the operating system runs both, the
logic thread polls (`IOSession.cpp:32`), and nothing is asked of the client.
No strong fairness is used.

## What is proved

All theorems hold for every value of the constants that satisfies the named
assumptions, and TLC evaluates those in the runs.

**`LuaLexerProofs`** (`FilesAssumption`: a text is a sequence of characters and does not hold its end). The
lexer has many steps that do few things, so that each step is first shown to be one of four effects:
the reader goes on in its line (`Moves`), crosses the first line break it meets (`Crosses`), hands a token
on (`Returns`) or fails (`Fails`); a lemma per case of `Lex` and per loop does that. `IInv` then has
to be kept by these, by `UpdateLineInfo` and by the search only. It says what each loop knows of the characters
saved (`Shape`), that tokens and white space are the text so far, with the token that is being read
the last (`Covered`), that the table has the lines up to the reader, and behind an error every
entry is larger than the one before (`Table`), and that the search keeps the line it looks for between its bounds (`Halving`).
`TokensCover` alone is not inductive, as it does not say that what is saved begins behind the last token.
From it `TypeCorrect` (which includes that the reader stays in the text), `LexerCovers`, `LexerFindsLines` and
`GetLineIsRight`, for every text and both options.

**`BuildTreeProofs`** (`SourcesAssumption`: files are sequences of sets of token kinds; `ErrorsAssumption`:
the limit is a natural number). `IInv` adds to `TypeOK` and `EventsLinked`:
`Waiting`, that the tree waits while the parser runs; `ReadInOrder`, that the
events speak of the tokens in order with only comments between them, up to the one
the parser is at; and `TreeFollows`, that the next token an event speaks of is the
next one the tree comes to. `TypeOK` alone is not inductive: it needs that
every instruction the grammar can put on the stack is an instruction, which is a
typing of the whole grammar proved first, rule by rule. From `IInv` follow
`TypeCorrect`, `Linking` (a parent given by `Precede` starts after its child, hence
the climbing loop ends) and `ParserAndTreeInStep`: the tree's own count
arrives at the token the parser read, for every file.

Two more invariants rest on it. `ReadsThere` is about what is left to do: the list of instructions is one that
reads nothing before it looks again (`Quiet`), or reads one token or two that were seen, or records errors while
there is room for them (`Foretold`); and every event speaks of a token that is there (`AllThere`). It is kept because every
function of the grammar foresees what it reads (`BodyForeseen`) and what is behind a call is quiet. From
it `ReadsTokensThere`. `TokensThere` speaks of one event and of a count, and neither is inductive without the
instructions to come. `TreeInOrder` is about what is built: the entries hold the first `eaten` tokens, each once and in
order (`TokensInOrder`), every token that a replayed event read is among them (`ReadIsTaken`), and after a node that
must not begin with comments no comment follows, also not when the node is the last entry and the next token is still to
come (`NoCommentFirst`, the part that `CommentsOutside` lacks). That the tree never runs past the last token is
`ReadsThere`. From it `TreeKeepsOrder` and `NodesBeginWithCode`, also for files with errors, where `TokensKept` says nothing.

`TreeKeepsTokens` is `TokensKept` for every file in which no `global` comes before `function` (`GlobalFunctionFree`).
That hypothesis is the one branch of the grammar that leaves a Marker behind; the code is wrong there, and the run `BuildTreeGlobal` shows
it (finding 1). The theorem takes two more invariants, of files without errors so far (`Clean`):

- `WellParsed`, while the file is parsed. `Shape`: as many nodes end as start, and from no event on more start than end (a node whose Marker
  is open counts only when it is completed; its start is `None` until then); once the Block is completed, one more ends from
  every later event on (`Enclosed`); the open Markers are in order, no event is the parent of two
  others, and a parent is completed or its Marker is open. `ToCome`: the instructions left over, read as what they do to the open
  Markers, close all of these, the innermost first, drop none that is a parent, and end with the completion of the Block. That a function
  does to the Markers what its call is said to do is `BodyKeepsMarkers`, rule by rule; a call within a body stands
  for its whole effect, so no induction over the depth of the recursion is needed.
- `WellGrown`, while the tree is built. The open nodes and the parents collected by the climb are one more than the nodes
  that end from here on (`OpenAsManyEnd`), hence the node stack never runs empty under a node or token; a parent that was climbed to
  has been replaced by `None` and is not met again (`ParentsToCome`);
  entries hang below earlier ones and no entry is between a later one and its parent except below that parent
  (`Hangs`, `Nests`); and when no event reads a token any more, the tree stands where the parser stopped, up to comments
  (`RestLeft`), so that the Block of the file, ended last, takes the comments that are left.

That entries which hang and nest so are a tree as `SyntaxTree` defines one (children and their order, last entry below, next beside) is `ForestIsTree`, a
fact about parents alone; `TokensListed` says that the tokens of such a list, in order, are all of them.
`TokensKept` by itself speaks of a finished file and of nothing before.

The first part of `BuildTreeProofs` needs no assumption and is about the grammar as data. The program of every rule, for every token and the one
behind it, is a program (`BodyTyped`) and reads a token without a test only as its first step or two, where the
choice of the rule has seen them; an error is recorded before the next look at a token at most twice (`BodyForeseen`).
And whatever the tokens, but for a `global` before `function`, it closes no Marker of its caller, leaves none of its own open, and drops none that has become a
parent (`BodyKeepsMarkers`).
Programs are classed by their first instructions (`Quiet`, `Reading`, `ReadingTwo`, `Failing`), the classes compose, and one
step per rule puts it in its class.

**`OperatorProofs`** (the same assumptions and `GlobalFunctionFree`): `OperatorsTakeOperands` is `OperatorsNest` for every file,
whatever the depth of its expressions. The levels of the manual are nowhere in the code, which compares a limit with two priorities per
operator, on a tree that is put together from its inside: a node gets its parent by `Precede` when it is complete. Four
things lead from one to the other.

- *Where a node begins.* A node that was put around another one starts at a later event than what is inside it. The proof gives each node the
  event from which it extends (`low`) and the one that ends it (`close`); `Woven` says that these extents are apart or one in the other,
  and that a node with a `low` of its own is the parent of the node it was put around.
- *What is known of the nodes that are open.* `Frame` says of a node whose Marker is open how far it has come: an operator without its operand
  (`lacking`), with it (`filled`), with an operand that no operator may follow (`closed`), and the limit that was given to `Subexpression`.
  A call of a rule is said to lead from some frames to others (`Turn`), and `BodyKeepsFrames` is that its body does, rule by rule;
  as with the Markers a call stands for its whole effect. `WellFramed` is the invariant while a file is parsed: frames are true of the open Markers
  (`Framed`), what is left to do leads from them to none (`Passes`), and every completed operator has its token and its operands, each of
  which binds as tight as the limit and the next operator allow (`Operated`).
- *From the events to the tree.* `WellBuilt` is the invariant while the tree is built, from the events as the parser left them: the entries but for the
  comments are the nodes and tokens that were reached, each once, below the node whose extent is the next around theirs (`Grafted`); the node
  stack is the nodes that are open (`Stacked`); the climb over parents collects the nodes that begin at the same
  event, the outer ones later (`Collected`), and what it writes into the events is only that a parent was met (`Renamed`).
- *What is below an operator.* So its entries are its token and its operands and no others (`OperandsUnder`, `OperatorBelow`), in the order of their extents, and
  a finite comparison of the priorities with the levels (`RisenNests`) gives `OperatorsNest`.

`NestInv` puts these with the invariants of `BuildTreeProofs`. `OperatorsNest` speaks of a finished tree and is not inductive; that an
operand is small enough is known only from the limit with which it was parsed, which is gone when the tree is there.

**`FormatStateProofs`** (`TreesAssumption`, `StyleAssumption`). `WalkInv` says
that the traverse stack, from top to bottom, is what is left of the preorder: each
entry follows from the one above it. Preorder (`EnteredInPreorder`), completeness
(`DoneMeansAll`) and, with `OpenInv` (the exits on the stack are the open nodes,
outer below inner), `IndentFramesAreOpen` and `IndentIsBalanced` follow.
`ReachInv` ties the slices to the node entered last and the ignored range; with it
the walk implements `SourceOrder` (`WalkImplementsOrder`) and
`WalkIsComplete`, for every tree whose ranges lie apart.

`TypeCorrect` adds that the indentations and slices keep their types.

**`RangeFormatProofs`** (the assumptions above; `RequestsAssumption`; `RangeTreesAssumption`: tokens
are in the order of their lines and exempt ranges apart, between tokens). `RangeInv` ties
the slices that were written to those the walk handed out: which slice the first written one is and why those
before it end before the range (`Waiting`), that the border is where the last written slice ends or
where it was asked for (`Covered`), that nothing behind the border was written (`Onward`), and what the walk has
seen when the answer is given (`Answered`). It rests on `WalkInv` and `ReachInv` of `FormatStateProofs`,
as the walk is the same. From it `RangeKeepsTokens` (for the handlers that leave an empty text alone;
for the commands TLC refutes it), `RangeGrowsOnlyForTokens` and `RangeAllOrNothing`.

**`ProtocolBufferProofs`** (`CapacityAssumption`; `StreamsAssumption`: streams are
whole frames; `HeadersAssumption`: no header fills 65535 bytes).
`BufferInv` says that the written part is a piece of the stream that begins at a
frame (`Aligned`), that the capacity is the normal one or fits the frame
(`Sized`), that the parse position is at the line of the header that `pc` says, with
the members that the lines before it set (`Parsing`), and that a
header not yet read to its end leaves room (`HeadersFit`). From it
`WritesFit`, `ReaderNeverSpins`, `BufferShrinksBack` (the buffer is back to its normal size after every
frame), `FramesAreWhole` and that the
reader implements `Channel`.

**`DocumentsProofs`** (when every change has a range; `DocumentsAssumption`). The first part is about what `LineIndex`
computes, for every text. The library's induction theorems take an operator as a parameter, which the provers cannot
instantiate; `Counting` states induction for a set instead and follows from the pigeonhole theorem (were a number
missing, the numbers up to it could be counted without 0), and `Recursion` says from it that a recursive function
has a solution. Then: UTF-8 is a homomorphism and its offsets grow (`EncodedParts`, `OffsetsGrow`); the loop of
`Parse` takes the bytes of a character together (`CharacterStep`); each run of a line stands for characters of one width and
each line for the characters between two line feeds (`RunHolds`, `LinesHold`), where every position is in one line at its
column (`PositionsIn`), which a character more keeps (`IndexStep`). The loops of `GetOffset` and `GetCol` over the runs find
the position (`OffsetOfColumn`, `ColumnOfOffset`), and `OffsetExact` and `PlaceExact` say that the index is exact in
both directions. The second part is about messages. `DocInv` says that ids are
fresh and shared by nobody (`IdsInv`), that texts are the encoded texts of the client and
cached indexes are those of the present text (`TextInv`), and that the loop over changes works on an
open document (`LoopInv`); `ReplyInv` that there is no answer while that loop runs, so that an answer
is about the text the client has. From them `DocumentsTyped`, `ServerInStep`, `ServerKeepsNoOrphans`,
`FormattingReplacesAll` and `DiagnosticsShownInPlace`.

**`SessionProofs`** (`SessionAssumption`). `SessionInv` says that the queue is
exactly what was read and is not done, in order (`QueueInv`), that a thread that
writes does so for the message at the head (`WriteInv`), and that nothing is torn down before
the client hung up (`EndInv`), that a stopped io_context is about to be reset, and that the logic thread
has gone only when the main thread asked it to, at its own end (`ThreadInv`). From it `NoLostWakeUp`, `StaysInService`,
and that the two threads implement `Serial`, for any number of messages.

**Only model-checked**: everything about liveness (`Terminates`,
`AllArrive`, `EveryRequestAnswered`, `Ends` of the session and of the lexer), which is out of the prover's
reach; and spacing and layout (`TokensApart` and the `Layout...` properties), which are tables of cases over
the kinds of neighbours in a finished tree and are checked case by case.

## What the checks found

1. `LuaParser.cpp:535`: `global function f() end` completes its node and falls
   through to `Undo`; the block of the file then ends early and what follows the
   function is not in it, hence not written (`BuildTreeGlobal`).
2. `FormatState.cpp:140`: a `disable-next` inside a disabled block replaces the
   one ignored range there is. `FormatState.cpp:211` skips nodes behind the start of the range only,
   so the comment is handed on with its own range, and both are written twice (`FormatStateNested`).
3. `CommandService.cpp:92`: the reformat command (and the range option of the command line tool,
   `LuaFormat.cpp:121`) makes an edit also of an empty text, which stands for an exempt range or
   one without a token, and deletes the lines (`RangeReformat`).
4. `FormatDocAnalyze.cpp:152`: the range of a `disable-next` in front of an empty
   block ends at index 0 and the comment is dropped: `do ---@format disable-next`, `end` becomes `do`, `end`.
5. `FormatBuilder.cpp:346,401`: a line break trims trailing spaces of the text
   so far, also those that are inside a long string, and never trailing tabs.
6. `SemicolonAnalyzer.cpp:139`: the look at what follows a semicolon stops at a comment: `never` takes the
   semicolon of `a = b;`, `-- c`, `(f)()` away, and the lines become a call of `b`.
   `same_line` and `replace_with_newline` (lines 27 to 42) do not look at all.
7. `FormatBuilder.cpp:159`: a slice copied from the source ends at its last token
   and the white space behind it on the same line is left to nobody: `do ---@format disable-next`,
   `x = y end` becomes `x = yend`.
8. `VirtualFileSystem.cpp:27`: a change with the whole text leaves the line index
   of the text before, and the next change is made at the wrong offset
   (`DocumentsFullText`).
9. `SpaceAnalyzer.cpp:110`: with `space_around_math_operator = false`, `a - -b` is
   written `a--b`, a comment (`SpacingTight`). In the same way `space_around_concat_operator = none` looks
   at the token in front of `..` only, so that `a .. ...` becomes `a.....` and `a .. .5` becomes `a...5`.

10. `TokenAnalyzer.cpp:291`: with `call_arg_parentheses = always` the closing parenthesis of `f {} -- c`
    is written behind the comment that the table's node ends with; and with
    `end_statement_with_semicolon = always` the semicolon takes its place (`f("a";`), as both are
    the one thing written after the token.
11. `FormatBuilder.cpp:277`: a `min(n)` line space writes one line break where the two tokens were on one
    line, and the minimum only when the file is formatted again; `fixed(0)` and `max(0)` write no separator at all.

Findings 4 to 7, 10 and 11 were met while modelling and seen in a build of the formatter. They are
kept out of the passing runs openly: `LayoutKeepsStatements` is not asked of `same_line` and
`replace_with_newline`; `LayoutSettles` not of `min` styles, and compares the breaks between tokens that both texts
have; and `MCLaidOut` and `MCLayoutStyles` have no comment between a semicolon and a parenthesis, no inline comment
behind a table that is the argument of a call, not both `always` styles at once, and no line space of 0.

Also met: behind an error the table of lines is made of line feeds only (`LuaSource.cpp:151`), where the lexer also counts
carriage returns and pairs in either order (`LuaLexer.cpp:599`); `#` is taken for a shebang behind blanks too
(`LuaLexer.cpp:352`), and a template name (`LuaLexer.cpp:366`) hands its characters on as `char`, which for the
bytes of UTF-8 leads in front of the table of classes; `{ a b }` and a bare name as a statement are accepted; a node that
was undone is completed at `LuaParser.cpp:962` after an error, and on-type formatting
writes trees of files with errors; nothing limits the depth of the parser's recursion;
columns are code points where the protocol says UTF-16, and differ from it for characters of four bytes, which the
models leave out for that reason; `Content-Length` that is no number throws on the reading
thread (`ProtocolBuffer.cpp:103`); a range that grows to a token in the middle of a line replaces from
its column but writes its indentation again; with `call_arg_parentheses`
a range that cuts a call in two changes one of its parentheses only.

## Not modelled

The parser's models take token kinds, not what the lexer's model makes of a text; columns, and whatever else `LuaSource`
sums up over UTF-8, are left out. `IndentationAnalyzer` and
`AlignAnalyzer` decide how much white space there is where some is written; the walk takes any answer of
the first, and the second never decides whether there is any. Breaks made because a line gets
too long need widths in columns, which the layout does not count. JSON serialisation, the
command line tool and the bindings are argument and file handling around the formatter; the
style options, `.editorconfig` files and file name patterns are read string by string; the name and spelling
checkers report and change nothing. Messages are abstracted to whether they are answered and format comments to
their action. Clients that send requests before `initialize`, or frames without a length,
are not modelled.
