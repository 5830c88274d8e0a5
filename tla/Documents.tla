------------------------------ MODULE Documents ------------------------------
(***************************************************************************)
(* The documents of the language server: the handlers of LSPHandle that    *)
(* read and write them, VirtualFileSystem, VirtualFile and the three       *)
(* databases, next to the client whose documents they should be copies of. *)
(*                                                                         *)
(* A message is handled in the step that sends it: Session shows that the  *)
(* logic thread handles them one at a time, in the order they were sent.   *)
(***************************************************************************)
EXTENDS LineIndex, FiniteSets

CONSTANTS
  Uris,         \* the documents
  Texts,        \* the texts they may have, as sequences of Char
  NewTexts,     \* what an edit may insert
  ChangeKinds,  \* the changes clients make: "range", "full"
  MaxFiles,     \* bound on the files allocated
  MaxChanges    \* bound on the changes in one message

\* The characters of a client; they are named after their first byte.
Char == {"a", "nl", "e", "w"}

Bytes(c) ==
  CASE c = "e" -> <<"e", "cont">>
    [] c = "w" -> <<"w", "cont", "cont">>
    [] OTHER   -> <<c>>

\* The bytes of the first characters of a text, for each number of them.
Encoded(t) ==
  LET UpTo[k \in 0..Len(t)] == IF k = 0 THEN <<>> ELSE UpTo[k - 1] \o Bytes(t[k])
  IN UpTo

Encode(t) == Encoded(t)[Len(t)]

Take(t, k) == SubSeq(t, 1, k)

Drop(t, k) == SubSeq(t, k + 1, Len(t))

\* The position of the client between the first k characters of t and the rest.
PositionAt(t, k) ==
  LET ends == {i \in 1..k : t[i] = "nl"}
  IN [line |-> Cardinality(ends),
      col  |-> IF ends = {} THEN k ELSE k - CHOOSE i \in ends : \A j \in ends : j <= i]

ASSUME DocumentsAssumption ==
  /\ Texts \subseteq Seq(Char)
  /\ NewTexts \subseteq Texts
  /\ ChangeKinds \subseteq {"range", "full"}
  /\ MaxFiles \in Nat
  /\ MaxChanges \in Nat

VARIABLES
  client,         \* the client's text of every open document
  uriDB,          \* UriDB: the id of a uri
  fileDB,         \* FileDB: the text of an id, in bytes
  lineIndexDB,    \* LineIndexDB: the line index of an id
  fileIdCounter,  \* FileDB::_fileIdCounter
  loop,           \* the changes of a didChange still to be made
  reply           \* the answer to the last message, if it was a request

databases == <<uriDB, fileDB, lineIndexDB, fileIdCounter>>

vars == <<client, databases, loop, reply>>

None == [kind |-> "none"]

Idle == [uri |-> "", left |-> 0, live |-> FALSE]

Init ==
  /\ client = <<>>
  /\ uriDB = <<>>
  /\ fileDB = <<>>
  /\ lineIndexDB = <<>>
  /\ fileIdCounter = 1
  /\ loop = Idle
  /\ reply = None

-----------------------------------------------------------------------------
(***************************************************************************)
(* The client.  An edit replaces the characters from + 1 to `to` of its    *)
(* text; the message it sends names them by their positions.               *)
(***************************************************************************)
Edits(t) ==
  {e \in [kind : ChangeKinds, from : 0..Len(t), to : 0..Len(t), new : NewTexts] :
     /\ e.from <= e.to
     /\ e.kind = "full" => e.from = 0 /\ e.to = Len(t)
     /\ Take(t, e.from) \o e.new \o Drop(t, e.to) \in Texts}

Edited(t, e) == Take(t, e.from) \o e.new \o Drop(t, e.to)

Change(t, e) ==
  [kind  |-> e.kind, text |-> Encode(e.new),
   start |-> PositionAt(t, e.from), end |-> PositionAt(t, e.to)]

-----------------------------------------------------------------------------
(***************************************************************************)
(* VirtualFileSystem.                                                      *)
(***************************************************************************)
Put(f, x, v) == [y \in DOMAIN f \union {x} |-> IF y = x THEN v ELSE f[y]]

Without(f, x) == [y \in DOMAIN f \ {x} |-> f[y]]

\* A uri seen for the first time gets an id of its own: AllocFileId, UriDB::Input.
FileIdOf(uri) ==
  IF uri \in DOMAIN uriDB THEN UNCHANGED <<uriDB, fileIdCounter>>
  ELSE /\ uriDB' = Put(uriDB, uri, fileIdCounter)
       /\ fileIdCounter' = fileIdCounter + 1

\* VirtualFile::GetLineIndex computes it when there is none yet.
GetLineIndex(id) ==
  IF id \in DOMAIN lineIndexDB THEN lineIndexDB[id] ELSE Parse(fileDB[id])

\* UpdateFile with the whole text: the line index is not told.
UpdateText(id, text) ==
  /\ fileDB' = Put(fileDB, id, text)
  /\ UNCHANGED lineIndexDB

\* std::string throws when the range starts behind the text, and when the size computed for
\* the new text wraps around by more than the 4096 that is added before it is reserved.
Throws(id, change) ==
  /\ id \in DOMAIN fileDB
  /\ LET size == Len(fileDB[id])
         from == GetOffset(GetLineIndex(id), change.start)
         end  == GetOffset(GetLineIndex(id), change.end)
     IN from > size \/ end > from + size + Len(change.text) + 4096

\* As UpdateRange, without parsing the line index again.
UpdateRangeNoParse(id, change) ==
  IF id \notin DOMAIN fileDB THEN UpdateText(id, change.text)
  ELSE LET source == fileDB[id]
           index  == GetLineIndex(id)
           from   == GetOffset(index, change.start)
           end    == GetOffset(index, change.end)
           to     == IF end < from \/ end > Len(source) THEN Len(source) ELSE end
       IN /\ lineIndexDB' = Put(lineIndexDB, id, index)
          /\ IF from > Len(source) THEN UNCHANGED fileDB
             ELSE fileDB' = Put(fileDB, id, Take(source, from) \o change.text \o Drop(source, to))

\* As UpdateRange, but the end of the range is taken for its length.
UpdateRangeLength(id, change) ==
  IF id \notin DOMAIN fileDB THEN UpdateText(id, change.text)
  ELSE LET source == fileDB[id]
           from   == GetOffset(GetLineIndex(id), change.start)
           end    == from + GetOffset(GetLineIndex(id), change.end)
           to     == IF end > Len(source) THEN Len(source) ELSE end
           text   == Take(source, from) \o change.text \o Drop(source, to)
       IN IF from > Len(source) THEN UNCHANGED <<fileDB, lineIndexDB>>
          ELSE fileDB' = Put(fileDB, id, text) /\ lineIndexDB' = Put(lineIndexDB, id, Parse(text))

\* UpdateFile with a range.  std::string cuts off a range that ends behind the text, as one
\* that ends before it starts does.
UpdateRange(id, change) ==
  IF id \notin DOMAIN fileDB THEN UpdateText(id, change.text)
  ELSE LET source == fileDB[id]
           index  == GetLineIndex(id)
           from   == GetOffset(index, change.start)
           end    == GetOffset(index, change.end)
           to     == IF end < from \/ end > Len(source) THEN Len(source) ELSE end
           text   == Take(source, from) \o change.text \o Drop(source, to)
       IN IF Throws(id, change)
          THEN UNCHANGED fileDB /\ lineIndexDB' = Put(lineIndexDB, id, index)
          ELSE /\ fileDB' = Put(fileDB, id, text)
               /\ lineIndexDB' = Put(lineIndexDB, id, Parse(text))

\* As ClearFile, but the line index stays.
ClearFileKeepIndex(uri) ==
  IF uri \notin DOMAIN uriDB THEN UNCHANGED databases
  ELSE /\ uriDB' = Without(uriDB, uri)
       /\ fileDB' = Without(fileDB, uriDB[uri])
       /\ UNCHANGED <<lineIndexDB, fileIdCounter>>

ClearFile(uri) ==
  IF uri \notin DOMAIN uriDB THEN UNCHANGED databases
  ELSE /\ uriDB' = Without(uriDB, uri)
       /\ fileDB' = Without(fileDB, uriDB[uri])
       /\ lineIndexDB' = Without(lineIndexDB, uriDB[uri])
       /\ UNCHANGED fileIdCounter

-----------------------------------------------------------------------------
(***************************************************************************)
(* The handlers of LSPHandle.                                              *)
(***************************************************************************)
OnDidOpen(u, t) ==
  /\ loop = Idle
  /\ u \notin DOMAIN client
  /\ fileIdCounter <= MaxFiles
  /\ client' = Put(client, u, t)
  /\ FileIdOf(u)
  /\ UpdateText(uriDB'[u], Encode(t))
  /\ reply' = None
  /\ UNCHANGED loop

\* A message with one change.
OnDidChange(u, e) ==
  /\ loop = Idle
  /\ client' = Put(client, u, Edited(client[u], e))
  /\ FileIdOf(u)
  /\ LET change == Change(client[u], e)
     IN IF change.kind = "range" THEN UpdateRange(uriDB'[u], change)
        ELSE UpdateText(uriDB'[u], change.text)
  /\ reply' = None
  /\ UNCHANGED loop

\* A message with none or with several: they are made one by one.
OnDidChangeAll(u, n) ==
  /\ loop = Idle
  /\ n # 1
  /\ loop' = IF n = 0 THEN Idle ELSE [uri |-> u, left |-> n, live |-> u \in DOMAIN uriDB]
  /\ reply' = None
  /\ UNCHANGED <<client, databases>>

\* The next of them.  A change without a range ends the loop, and so does one that throws,
\* through the try of IOSession::Handle: the rest is not made.
NextChange(u, e) ==
  /\ loop # Idle
  /\ loop.uri = u
  /\ client' = Put(client, u, Edited(client[u], e))
  /\ LET change == Change(client[u], e)
         live   == loop.live /\ e.kind = "range"
     IN /\ IF live
           THEN UpdateRange(uriDB[u], change) /\ UNCHANGED <<uriDB, fileIdCounter>>
           ELSE UNCHANGED databases
        /\ loop' = IF loop.left = 1 THEN Idle
                   ELSE [loop EXCEPT !.left = @ - 1, !.live = live /\ ~Throws(uriDB[u], change)]
  /\ UNCHANGED reply

OnClose(u) ==
  /\ loop = Idle
  /\ u \in DOMAIN client
  /\ client' = Without(client, u)
  /\ ClearFile(u)
  /\ reply' = None
  /\ UNCHANGED loop

\* The edit replaces everything from the start to the line behind the last one.  `error`
\* stands for a text that does not parse.
OnFormatting(u, error) ==
  /\ loop = Idle
  /\ IF u \notin DOMAIN uriDB \/ error
     THEN reply' = [kind |-> "error"] /\ UNCHANGED lineIndexDB
     ELSE LET id == uriDB[u] IN
          /\ lineIndexDB' = Put(lineIndexDB, id, GetLineIndex(id))
          /\ reply' = [kind |-> "edit", uri |-> u, text |-> fileDB[id],
                       endLine |-> GetTotalLine(GetLineIndex(id)) + 1]
  /\ UNCHANGED <<client, uriDB, fileDB, fileIdCounter, loop>>

\* A diagnostic for the characters from + 1 to `to` of the text the client knows.
OnTextDocumentDiagnostic(u, from, to) ==
  /\ loop = Idle
  /\ IF u \notin DOMAIN uriDB
     THEN reply' = [kind |-> "error"] /\ UNCHANGED lineIndexDB
     ELSE LET id    == uriDB[u]
              index == GetLineIndex(id)
              first == Len(Encode(Take(client[u], from)))
              last  == Len(Encode(Take(client[u], to))) - 1
              end   == GetLineCol(index, last)
          IN /\ lineIndexDB' = Put(lineIndexDB, id, index)
             /\ reply' = [kind |-> "diagnostic", uri |-> u, from |-> from, to |-> to,
                          start |-> GetLineCol(index, first),
                          end |-> [end EXCEPT !.col = @ + 1]]
  /\ UNCHANGED <<client, uriDB, fileDB, fileIdCounter, loop>>

Next ==
  \/ \E u \in Uris :
       \/ \E t \in Texts : OnDidOpen(u, t)
       \/ \E n \in 0..MaxChanges : u \in DOMAIN client /\ OnDidChangeAll(u, n)
       \/ OnClose(u)
       \/ \E error \in BOOLEAN : OnFormatting(u, error)
  \/ \E u \in DOMAIN client :
       \/ \E e \in Edits(client[u]) : OnDidChange(u, e) \/ NextChange(u, e)
       \/ \E to \in 1..Len(client[u]) : \E from \in 0..(to - 1) :
            OnTextDocumentDiagnostic(u, from, to)

Spec == Init /\ [][Next]_vars

-----------------------------------------------------------------------------

TypeOK ==
  /\ DOMAIN client \subseteq Uris
  /\ \A u \in DOMAIN client : client[u] \in Texts
  /\ DOMAIN uriDB \subseteq Uris
  /\ \A u \in DOMAIN uriDB : uriDB[u] \in 1..(fileIdCounter - 1)
  /\ \A id \in DOMAIN fileDB : fileDB[id] \in Seq(Byte)
  /\ fileIdCounter \in 1..(MaxFiles + 1)

\* The server's copy of every open document is the client's text, and it has no other
\* documents: one change at the wrong offset spoils every later one.
InStep ==
  /\ DOMAIN uriDB = DOMAIN client
  /\ \A u \in DOMAIN client :
       uriDB[u] \in DOMAIN fileDB /\ fileDB[uriDB[u]] = Encode(client[u])

\* No text and no line index outlives its document, and no two documents share them.
NoOrphans ==
  /\ \A u, v \in DOMAIN uriDB : uriDB[u] = uriDB[v] => u = v
  /\ DOMAIN fileDB = {uriDB[u] : u \in DOMAIN uriDB}
  /\ DOMAIN lineIndexDB \subseteq DOMAIN fileDB

\* The edit that answers a formatting request was made from the text the client has, and
\* replaces all of it: what it left standing would follow the formatted text.
EditReplacesAll ==
  reply.kind = "edit" =>
    /\ reply.text = Encode(client[reply.uri])
    /\ reply.endLine > PositionAt(client[reply.uri], Len(client[reply.uri])).line

\* A diagnostic is shown where its characters are.
DiagnosticsPlaced ==
  reply.kind = "diagnostic" =>
    LET t    == client[reply.uri]
        last == PositionAt(t, reply.to - 1)
    IN /\ reply.start = PositionAt(t, reply.from)
       /\ reply.end = [last EXCEPT !.col = @ + 1]

\* What the others rest on: a line index that is kept is that of the text.
IndexFresh ==
  \A id \in DOMAIN lineIndexDB : lineIndexDB[id] = Parse(fileDB[id])
=============================================================================
