------------------------------- MODULE Session -------------------------------
(***************************************************************************)
(* The two threads of the language server.  The main thread runs the       *)
(* session: it reads messages (whole ones, see Channel), parses them and   *)
(* posts their handlers to the io_context; at the end of the input it      *)
(* destroys the session, which stops and joins the other thread.  The      *)
(* logic thread runs the io_context: it takes the handlers from its queue  *)
(* one by one and writes what they answer.                                 *)
(*                                                                         *)
(* The main thread takes the session away without telling the logic        *)
(* thread: a handler that writes then uses an object that is being         *)
(* destroyed.  What comes of it is any of: written, lost, or the process   *)
(* ends.                                                                   *)
(***************************************************************************)
EXTENDS Naturals, Sequences

CONSTANTS MaxMessages  \* bound on the messages a client sends

ASSUME SessionAssumption == MaxMessages \in Nat

\* A message: one that is answered; one whose handler sends a request to the client (a
\* command that makes an edit, a new configuration); one for which nothing is written (any
\* other notification, a method nobody handles, parameters that are no object, a handler that
\* throws); and one that is no JSON object.
Kinds == {"answered", "asks", "silent", "malformed"}

Speaking == {"answered", "asks"}

VARIABLES
  sent, hungUp,  \* the client
  main,          \* where the main thread is
  received,      \* how many messages it has read
  session,       \* LanguageServer::_session is set
  queue,         \* the handlers posted, by the number of their message
  stopped,       \* the io_context has run out of work and was not reset
  stop,          \* the stop token of the logic thread
  logic,         \* where the logic thread is
  done,          \* how many handlers have returned
  out,           \* the messages something was written for
  crashed        \* the process has ended through an exception or a dead object

client == <<sent, hungUp>>

vars == <<client, main, received, session, queue, stopped, stop, logic, done, out, crashed>>

Init ==
  /\ sent = <<>>
  /\ hungUp = FALSE
  /\ main = "read"
  /\ received = 0
  /\ session = TRUE
  /\ queue = <<>>
  /\ stopped = FALSE
  /\ stop = FALSE
  /\ logic = "check"
  /\ done = 0
  /\ out = <<>>
  /\ crashed = FALSE

-----------------------------------------------------------------------------
(***************************************************************************)
(* The client.                                                             *)
(***************************************************************************)
Send(k) ==
  /\ ~hungUp
  /\ Len(sent) < MaxMessages
  /\ sent' = Append(sent, k)
  /\ UNCHANGED <<hungUp, main, received, session, queue, stopped, stop, logic, done, out, crashed>>

HangUp ==
  /\ ~hungUp
  /\ hungUp' = TRUE
  /\ UNCHANGED <<sent, main, received, session, queue, stopped, stop, logic, done, out, crashed>>

-----------------------------------------------------------------------------
(***************************************************************************)
(* The main thread.                                                        *)
(***************************************************************************)

\* As Receive, but the handler is put in front of those that wait.
ReceiveFirst ==
  /\ main = "read"
  /\ received < Len(sent)
  /\ received' = received + 1
  /\ IF sent[received'] = "malformed"
     THEN crashed' = TRUE /\ UNCHANGED queue
     ELSE queue' = <<received'>> \o queue /\ UNCHANGED crashed
  /\ UNCHANGED <<client, main, session, stopped, stop, logic, done, out>>

\* ProtocolParser::Parse throws out of the thread when the message is no JSON object.
Receive ==
  /\ main = "read"
  /\ received < Len(sent)
  /\ received' = received + 1
  /\ IF sent[received'] = "malformed"
     THEN crashed' = TRUE /\ UNCHANGED queue
     ELSE queue' = Append(queue, received') /\ UNCHANGED crashed
  /\ UNCHANGED <<client, main, session, stopped, stop, logic, done, out>>

\* As EndOfStream, but a read that returns nothing is taken for the end.
EndOfStreamEarly ==
  /\ main = "read"
  /\ received = Len(sent)
  /\ main' = "leave"
  /\ UNCHANGED <<client, received, session, queue, stopped, stop, logic, done, out, crashed>>

\* The connection may break before everything that was sent is read.
EndOfStream ==
  /\ main = "read"
  /\ hungUp
  /\ main' = "leave"
  /\ UNCHANGED <<client, received, session, queue, stopped, stop, logic, done, out, crashed>>

\* LanguageServer::Run forgets the session; its destructor is next.
Leave ==
  /\ main = "leave"
  /\ session' = FALSE
  /\ main' = "destroy"
  /\ UNCHANGED <<client, received, queue, stopped, stop, logic, done, out, crashed>>

\* As RequestStop, but the logic thread is left to itself.
RequestNoStop ==
  /\ main = "destroy"
  /\ main' = "join"
  /\ UNCHANGED <<client, received, session, queue, stopped, stop, logic, done, out, crashed>>

\* The destructor asks the logic thread to stop; that of its jthread joins it.
RequestStop ==
  /\ main = "destroy"
  /\ stop' = TRUE
  /\ main' = "join"
  /\ UNCHANGED <<client, received, session, queue, stopped, logic, done, out, crashed>>

\* With main the server itself goes: its documents and its services.
Join ==
  /\ main = "join"
  /\ logic = "exited"
  /\ main' = "ended"
  /\ UNCHANGED <<client, received, session, queue, stopped, stop, logic, done, out, crashed>>

Main == Receive \/ EndOfStream \/ Leave \/ RequestStop \/ Join

-----------------------------------------------------------------------------
(***************************************************************************)
(* The logic thread.  The message being handled is the first of the queue, *)
(* until its handler returns.                                              *)
(***************************************************************************)
\* As CheckStop, but the thread ends when there is nothing to do, as a loop over run would.
CheckIdle ==
  /\ logic = "check"
  /\ logic' = IF stop \/ queue = <<>> THEN "exited" ELSE "run"
  /\ UNCHANGED <<client, main, received, session, queue, stopped, stop, done, out, crashed>>

CheckStop ==
  /\ logic = "check"
  /\ logic' = IF stop THEN "exited" ELSE "run"
  /\ UNCHANGED <<client, main, received, session, queue, stopped, stop, done, out, crashed>>

\* io_context::run returns when it has run out of work.
RunReturns ==
  /\ logic = "run"
  /\ stopped \/ queue = <<>>
  /\ stopped' = TRUE
  /\ logic' = "reset"
  /\ UNCHANGED <<client, main, received, session, queue, stop, done, out, crashed>>

\* As Reset, but the io_context stays as it is.
NoReset ==
  /\ logic = "reset"
  /\ logic' = "check"
  /\ UNCHANGED <<client, main, received, session, queue, stopped, stop, done, out, crashed>>

Reset ==
  /\ logic = "reset"
  /\ stopped' = FALSE
  /\ logic' = "check"
  /\ UNCHANGED <<client, main, received, session, queue, stop, done, out, crashed>>

\* As Return, but the handler stays in the queue.
ReturnAndKeep ==
  /\ done' = done + 1
  /\ queue' = queue
  /\ stopped' = (Tail(queue) = <<>>)
  /\ logic' = "run"

\* A handler has returned; when it was the last, the io_context stops.
Return ==
  /\ done' = done + 1
  /\ queue' = Tail(queue)
  /\ stopped' = (Tail(queue) = <<>>)
  /\ logic' = "run"

\* IOSession::Handle up to where it writes.  SendRequest looks at the session first.
Handle ==
  /\ logic = "run"
  /\ ~stopped
  /\ queue # <<>>
  /\ \/ /\ sent[Head(queue)] = "answered"
        /\ logic' = "answer"
        /\ UNCHANGED <<queue, stopped, done>>
     \/ /\ sent[Head(queue)] = "asks"
        /\ session
        /\ logic' = "ask"
        /\ UNCHANGED <<queue, stopped, done>>
     \/ /\ sent[Head(queue)] = "silent" \/ (sent[Head(queue)] = "asks" /\ ~session)
        /\ Return
  /\ UNCHANGED <<client, main, received, session, stop, out, crashed>>

\* Once the client has hung up nobody may be listening and asio::write may throw; once the
\* session is gone the handler writes through a dead object.
Unheard == hungUp \/ ~session

\* Send.
Write ==
  /\ logic \in {"answer", "ask"}
  /\ \/ /\ out' = Append(out, Head(queue))
        /\ Return
        /\ UNCHANGED crashed
     \/ /\ Unheard
        /\ Return
        /\ UNCHANGED <<out, crashed>>
     \/ /\ Unheard
        /\ crashed' = TRUE
        /\ UNCHANGED <<out, queue, stopped, logic, done>>
  /\ UNCHANGED <<client, main, received, session, stop>>

Logic == CheckStop \/ RunReturns \/ Reset \/ Handle \/ Write

Next ==
  /\ ~crashed
  /\ \/ \E k \in Kinds : Send(k)
     \/ HangUp
     \/ Main
     \/ Logic

\* Both threads run on, and the logic thread polls.  No client has to do anything.
Spec ==
  /\ Init /\ [][Next]_vars
  /\ WF_vars(~crashed /\ Main)
  /\ WF_vars(~crashed /\ Logic)

-----------------------------------------------------------------------------
(***************************************************************************)
(* Properties.                                                             *)
(***************************************************************************)
TypeOK ==
  /\ sent \in Seq(Kinds)
  /\ {hungUp, session, stopped, stop, crashed} \subseteq BOOLEAN
  /\ main \in {"read", "leave", "destroy", "join", "ended"}
  /\ logic \in {"check", "run", "answer", "ask", "reset", "exited"}
  /\ received \in 0..Len(sent)
  /\ done \in 0..received
  /\ queue \in Seq(Nat)
  /\ out \in Seq(Nat)

\* The server with its two threads implements a server that takes the messages one by one.
OneByOne == INSTANCE Serial

TakesTurns == OneByOne!Spec

\* No wake-up is lost: as long as the client is there, a posted handler finds a logic thread
\* that will come to it, wherever the post falls between the return of io_context::run, its
\* reset and the test of the stop token.  The thread has not gone, and an io_context that
\* has run out of work is about to be reset, never to be run as it is and never forgotten.
PostedAreRun ==
  (queue # <<>> /\ ~hungUp /\ ~crashed) =>
    /\ logic # "exited"
    /\ stopped => logic \in {"run", "reset"}

\* The process ends through the session only after the client is gone, or through a
\* message that is no JSON object.
NoCrashInService ==
  crashed => hungUp \/ \E i \in 1..received : sent[i] = "malformed"

\* Every message that makes the server speak is handled and what it says is written, whatever
\* is posted while io_context::run is about to return.  The silent ones get no answer, the
\* requests among them too: Handle returns "" when the handler throws or nobody handles the
\* method.
Answered(i) == \E j \in DOMAIN out : out[j] = i

EveryRequestAnswered ==
  \A i \in 1..MaxMessages :
    (i <= Len(sent) /\ sent[i] \in Speaking) ~> (Answered(i) \/ hungUp \/ crashed)

\* A client that hangs up makes the process end.
Ends == hungUp ~> (main = "ended" \/ crashed)
=============================================================================
