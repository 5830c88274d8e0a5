---------------------------- MODULE SessionProofs ----------------------------
(***************************************************************************)
(* Proofs about the two threads of the server, for any number of messages. *)
(* That every request is answered and that the process ends are liveness   *)
(* properties, which TLC checks.                                           *)
(***************************************************************************)
EXTENDS Session, TLAPS

(***************************************************************************)
(* The inductive invariant.  The queue holds the messages that were read   *)
(* and are not done, in order; a handler that is about to write is the     *)
(* first of them; the session is there as long as the client is.  An       *)
(* io_context that is stopped is about to be reset; the logic thread has   *)
(* gone only when it was asked to, and the main thread asks at its end.    *)
(***************************************************************************)
QueueInv ==
  ~crashed =>
    /\ Len(queue) = received - done
    /\ \A i \in 1..Len(queue) : queue[i] = done + i

WriteInv ==
  (~crashed /\ logic \in {"answer", "ask"}) =>
    queue # <<>> /\ sent[Head(queue)] \in Speaking

EndInv ==
  /\ main # "read" => hungUp
  /\ ~session => main # "read"

ThreadInv ==
  /\ stopped => logic \in {"run", "reset"}
  /\ logic = "exited" => stop
  /\ stop => main \in {"join", "ended"}

SessionInv ==
  TypeOK /\ QueueInv /\ WriteInv /\ EndInv /\ ThreadInv /\ NoCrashInService

LEMMA SessionInit ==
  ASSUME Init
  PROVE  SessionInv
<1>1. TypeOK
  <2>1. sent \in Seq(Kinds) /\ queue \in Seq(Nat) /\ out \in Seq(Nat) /\ Len(sent) = 0
    BY DEF Init
  <2>2. {hungUp, session, stopped, stop, crashed} \subseteq BOOLEAN
    BY DEF Init
  <2>3. QED BY <2>1, <2>2 DEF Init, TypeOK
<1>2. QueueInv
  BY DEF Init, QueueInv
<1>3. WriteInv /\ EndInv /\ ThreadInv /\ NoCrashInService
  BY DEF Init, WriteInv, EndInv, ThreadInv, NoCrashInService
<1>4. QED BY <1>1, <1>2, <1>3 DEF SessionInv

\* A message that is sent changes none of those before it.
LEMMA SendInv ==
  ASSUME SessionInv, ~crashed, NEW k \in Kinds, Send(k)
  PROVE  SessionInv'
<1>1. /\ sent' = Append(sent, k)
      /\ UNCHANGED <<hungUp, main, received, session, queue, stopped, stop, logic, done, out, crashed>>
  BY DEF Send
<1>2. /\ sent \in Seq(Kinds) /\ sent' \in Seq(Kinds) /\ Len(sent') = Len(sent) + 1
      /\ \A i \in 1..Len(sent) : sent'[i] = sent[i]
  BY <1>1 DEF SessionInv, TypeOK
<1>3. TypeOK'
  BY <1>1, <1>2 DEF SessionInv, TypeOK
<1>4. QueueInv'
  BY <1>1 DEF SessionInv, QueueInv
<1>5. WriteInv'
  <2>1. CASE logic \in {"answer", "ask"}
    <3>1. /\ queue # <<>> /\ sent[Head(queue)] \in Speaking
          /\ queue \in Seq(Nat)
          /\ Len(queue) = received - done
          /\ \A i \in 1..Len(queue) : queue[i] = done + i
      BY <2>1 DEF SessionInv, WriteInv, QueueInv, TypeOK
    <3>2. Head(queue) = done + 1 /\ Len(queue) >= 1
      BY <3>1
    <3>3. Head(queue) \in 1..Len(sent)
      BY <3>1, <3>2 DEF SessionInv, TypeOK
    <3>4. QED BY <1>1, <1>2, <3>1, <3>3 DEF WriteInv
  <2>2. CASE logic \notin {"answer", "ask"}
    BY <2>2, <1>1 DEF WriteInv
  <2>3. QED BY <2>1, <2>2
<1>6. EndInv' /\ ThreadInv' /\ NoCrashInService'
  BY <1>1 DEF SessionInv, EndInv, ThreadInv, NoCrashInService
<1>7. QED BY <1>3, <1>4, <1>5, <1>6 DEF SessionInv

LEMMA HangUpInv ==
  ASSUME SessionInv, ~crashed, HangUp
  PROVE  SessionInv'
<1>1. /\ hungUp' = TRUE
      /\ UNCHANGED <<sent, main, received, session, queue, stopped, stop, logic, done, out, crashed>>
  BY DEF HangUp
<1>2. TypeOK' /\ QueueInv' /\ WriteInv'
  BY <1>1 DEF SessionInv, TypeOK, QueueInv, WriteInv
<1>3. EndInv' /\ ThreadInv' /\ NoCrashInService'
  BY <1>1 DEF SessionInv, EndInv, ThreadInv, NoCrashInService
<1>4. QED BY <1>2, <1>3 DEF SessionInv

\* A message that is read is the next one, and is put behind those that wait.
LEMMA ReceiveInv ==
  ASSUME SessionInv, ~crashed, Receive
  PROVE  SessionInv'
<1>1. /\ main = "read" /\ received < Len(sent) /\ received' = received + 1
      /\ UNCHANGED <<sent, hungUp, main, session, stopped, stop, logic, done, out>>
  BY DEF Receive, client
<1>2. /\ sent \in Seq(Kinds) /\ received \in Nat /\ done \in 0..received /\ queue \in Seq(Nat)
      /\ received \in 0..Len(sent)
      /\ Len(queue) = received - done
      /\ \A i \in 1..Len(queue) : queue[i] = done + i
  BY DEF SessionInv, TypeOK, QueueInv
<1>3. CASE sent[received'] = "malformed"
  <2>1. crashed' = TRUE /\ queue' = queue
    BY <1>3 DEF Receive
  <2>2. TypeOK'
    BY <1>1, <1>2, <2>1 DEF SessionInv, TypeOK
  <2>3. QueueInv' /\ WriteInv'
    BY <2>1 DEF QueueInv, WriteInv
  <2>4. EndInv' /\ ThreadInv'
    BY <1>1 DEF SessionInv, EndInv, ThreadInv
  <2>5. NoCrashInService'
    BY <1>1, <1>2, <1>3 DEF NoCrashInService
  <2>6. QED BY <2>2, <2>3, <2>4, <2>5 DEF SessionInv
<1>4. CASE sent[received'] # "malformed"
  <2>1. queue' = Append(queue, received + 1) /\ crashed' = crashed
    BY <1>1, <1>4 DEF Receive
  <2>2. /\ queue' \in Seq(Nat) /\ Len(queue') = Len(queue) + 1
        /\ queue'[Len(queue) + 1] = received + 1
        /\ \A i \in 1..Len(queue) : queue'[i] = queue[i]
    BY <1>2, <2>1
  <2>3. TypeOK'
    BY <1>1, <1>2, <2>1, <2>2 DEF SessionInv, TypeOK
  <2>4. QueueInv'
    BY <1>1, <1>2, <2>2 DEF QueueInv
  <2>5. WriteInv'
    <3>1. CASE logic \in {"answer", "ask"}
      <4>1. queue # <<>> /\ sent[Head(queue)] \in Speaking
        BY <3>1 DEF SessionInv, WriteInv
      <4>2. Head(queue') = Head(queue) /\ queue' # <<>>
        <5>1. Len(queue) >= 1
          BY <1>2, <4>1
        <5>2. queue'[1] = queue[1] /\ Len(queue') >= 1
          BY <1>2, <2>2, <5>1
        <5>3. QED BY <1>2, <2>2, <4>1, <5>2
      <4>3. QED BY <1>1, <4>1, <4>2 DEF WriteInv
    <3>2. CASE logic \notin {"answer", "ask"}
      BY <3>2, <1>1 DEF WriteInv
    <3>3. QED BY <3>1, <3>2
  <2>6. EndInv' /\ ThreadInv' /\ NoCrashInService'
    BY <1>1, <2>1 DEF SessionInv, EndInv, ThreadInv, NoCrashInService
  <2>7. QED BY <2>3, <2>4, <2>5, <2>6 DEF SessionInv
<1>5. QED BY <1>3, <1>4

\* The end of the main thread leaves the queue alone.
LEMMA EndOfStreamInv ==
  ASSUME SessionInv, ~crashed, EndOfStream
  PROVE  SessionInv'
<1>1. /\ main = "read" /\ hungUp /\ main' = "leave"
      /\ UNCHANGED <<sent, hungUp, received, session, queue, stopped, stop, logic, done, out, crashed>>
  BY DEF EndOfStream, client
<1>2. TypeOK' /\ QueueInv' /\ WriteInv'
  BY <1>1 DEF SessionInv, TypeOK, QueueInv, WriteInv
<1>3. EndInv' /\ ThreadInv' /\ NoCrashInService'
  BY <1>1 DEF SessionInv, EndInv, ThreadInv, NoCrashInService
<1>4. QED BY <1>2, <1>3 DEF SessionInv

LEMMA LeaveInv ==
  ASSUME SessionInv, ~crashed, Leave
  PROVE  SessionInv'
<1>1. /\ main = "leave" /\ main' = "destroy" /\ session' = FALSE
      /\ UNCHANGED <<sent, hungUp, received, queue, stopped, stop, logic, done, out, crashed>>
  BY DEF Leave, client
<1>2. TypeOK' /\ QueueInv' /\ WriteInv'
  BY <1>1 DEF SessionInv, TypeOK, QueueInv, WriteInv
<1>3. EndInv' /\ ThreadInv' /\ NoCrashInService'
  BY <1>1 DEF SessionInv, EndInv, ThreadInv, NoCrashInService
<1>4. QED BY <1>2, <1>3 DEF SessionInv

LEMMA RequestStopInv ==
  ASSUME SessionInv, ~crashed, RequestStop
  PROVE  SessionInv'
<1>1. /\ main = "destroy" /\ main' = "join" /\ stop' = TRUE
      /\ UNCHANGED <<sent, hungUp, received, session, queue, stopped, logic, done, out, crashed>>
  BY DEF RequestStop, client
<1>2. TypeOK' /\ QueueInv' /\ WriteInv'
  BY <1>1 DEF SessionInv, TypeOK, QueueInv, WriteInv
<1>3. EndInv' /\ ThreadInv' /\ NoCrashInService'
  BY <1>1 DEF SessionInv, EndInv, ThreadInv, NoCrashInService
<1>4. QED BY <1>2, <1>3 DEF SessionInv

LEMMA JoinInv ==
  ASSUME SessionInv, ~crashed, Join
  PROVE  SessionInv'
<1>1. /\ main = "join" /\ logic = "exited" /\ main' = "ended"
      /\ UNCHANGED <<sent, hungUp, received, session, queue, stopped, stop, logic, done, out, crashed>>
  BY DEF Join, client
<1>2. TypeOK' /\ QueueInv' /\ WriteInv'
  BY <1>1 DEF SessionInv, TypeOK, QueueInv, WriteInv
<1>3. EndInv' /\ ThreadInv' /\ NoCrashInService'
  BY <1>1 DEF SessionInv, EndInv, ThreadInv, NoCrashInService
<1>4. QED BY <1>2, <1>3 DEF SessionInv

\* The logic thread between two handlers.
LEMMA PollInv ==
  ASSUME SessionInv, ~crashed, CheckStop \/ RunReturns \/ Reset
  PROVE  SessionInv'
<1>1. /\ logic \in {"check", "run", "reset"} /\ logic' \in {"check", "run", "reset", "exited"}
      /\ UNCHANGED <<sent, hungUp, main, received, session, queue, stop, done, out, crashed>>
  BY DEF CheckStop, RunReturns, Reset, client
<1>2. stopped' \in BOOLEAN
  BY DEF CheckStop, RunReturns, Reset, SessionInv, TypeOK
<1>3. TypeOK'
  BY <1>1, <1>2 DEF SessionInv, TypeOK
<1>4. QueueInv' /\ WriteInv'
  BY <1>1 DEF SessionInv, QueueInv, WriteInv
<1>5. EndInv' /\ NoCrashInService'
  BY <1>1 DEF SessionInv, EndInv, NoCrashInService
<1>6. ThreadInv'
  BY <1>1 DEF SessionInv, ThreadInv, CheckStop, RunReturns, Reset
<1>7. QED BY <1>3, <1>4, <1>5, <1>6 DEF SessionInv

\* A handler that returns is the first of the queue.
LEMMA ReturnInv ==
  ASSUME SessionInv, ~crashed, Return, queue # <<>>, logic # "exited",
         out' \in Seq(Nat),
         UNCHANGED <<sent, hungUp, main, received, session, stop, crashed>>
  PROVE  SessionInv' /\ Head(queue) = done + 1 /\ done + 1 <= Len(sent)
<1>1. /\ queue \in Seq(Nat) /\ received \in Nat /\ done \in Nat /\ received <= Len(sent)
      /\ sent \in Seq(Kinds)
      /\ Len(queue) = received - done
      /\ \A i \in 1..Len(queue) : queue[i] = done + i
  BY DEF SessionInv, TypeOK, QueueInv
<1>2. Len(queue) >= 1 /\ Head(queue) = done + 1 /\ done + 1 <= received
  BY <1>1
<1>3. /\ Tail(queue) \in Seq(Nat) /\ Len(Tail(queue)) = Len(queue) - 1
      /\ \A i \in 1..Len(Tail(queue)) : Tail(queue)[i] = queue[i + 1]
  BY <1>1, <1>2
<1>4. done' = done + 1 /\ queue' = Tail(queue) /\ logic' = "run"
  BY DEF Return
<1>5. stopped' \in BOOLEAN
  BY DEF Return
<1>6. TypeOK'
  BY <1>1, <1>2, <1>3, <1>4, <1>5 DEF SessionInv, TypeOK
<1>7. QueueInv'
  BY <1>1, <1>2, <1>3, <1>4 DEF QueueInv
<1>8. WriteInv' /\ EndInv' /\ ThreadInv' /\ NoCrashInService'
  BY <1>4 DEF SessionInv, WriteInv, EndInv, ThreadInv, NoCrashInService
<1>9. QED BY <1>1, <1>2, <1>6, <1>7, <1>8 DEF SessionInv

LEMMA HandleInv ==
  ASSUME SessionInv, ~crashed, Handle
  PROVE  SessionInv'
<1>1. /\ logic = "run" /\ ~stopped /\ queue # <<>>
      /\ UNCHANGED <<sent, hungUp, main, received, session, stop, out, crashed>>
  BY DEF Handle, client
<1>2. CASE Return
  BY <1>1, <1>2, ReturnInv DEF SessionInv, TypeOK
<1>3. CASE ~Return
  <2>1. /\ logic' \in {"answer", "ask"} /\ sent[Head(queue)] \in Speaking
        /\ UNCHANGED <<queue, stopped, done>>
    BY <1>3 DEF Handle, Speaking
  <2>2. TypeOK' /\ QueueInv'
    BY <1>1, <2>1 DEF SessionInv, TypeOK, QueueInv
  <2>3. WriteInv'
    BY <1>1, <2>1 DEF WriteInv
  <2>4. EndInv' /\ ThreadInv' /\ NoCrashInService'
    BY <1>1, <2>1 DEF SessionInv, EndInv, ThreadInv, NoCrashInService
  <2>5. QED BY <2>2, <2>3, <2>4 DEF SessionInv
<1>4. QED BY <1>2, <1>3

LEMMA WriteKeepsInv ==
  ASSUME SessionInv, ~crashed, Write
  PROVE  SessionInv'
<1>1. /\ logic \in {"answer", "ask"}
      /\ UNCHANGED <<sent, hungUp, main, received, session, stop>>
  BY DEF Write, client
<1>2. queue # <<>> /\ queue \in Seq(Nat) /\ out \in Seq(Nat) /\ Head(queue) \in Nat
  <2>1. queue # <<>> /\ queue \in Seq(Nat) /\ out \in Seq(Nat)
    BY <1>1 DEF SessionInv, WriteInv, TypeOK
  <2>2. QED BY <2>1
<1>3. CASE out' = Append(out, Head(queue)) /\ Return /\ UNCHANGED crashed
  <2>1. out' \in Seq(Nat)
    BY <1>2, <1>3
  <2>2. QED BY <1>1, <1>2, <1>3, <2>1, ReturnInv
<1>4. CASE Return /\ UNCHANGED <<out, crashed>>
  BY <1>1, <1>2, <1>4, ReturnInv
<1>5. CASE Unheard /\ crashed' = TRUE /\ UNCHANGED <<out, queue, stopped, logic, done>>
  <2>1. hungUp
    BY <1>5 DEF Unheard, SessionInv, EndInv
  <2>2. TypeOK'
    BY <1>1, <1>5 DEF SessionInv, TypeOK
  <2>3. QueueInv' /\ WriteInv'
    BY <1>5 DEF QueueInv, WriteInv
  <2>4. EndInv' /\ ThreadInv' /\ NoCrashInService'
    BY <1>1, <1>5, <2>1 DEF SessionInv, EndInv, ThreadInv, NoCrashInService
  <2>5. QED BY <2>2, <2>3, <2>4 DEF SessionInv
<1>6. QED BY <1>3, <1>4, <1>5 DEF Write

LEMMA SessionNext ==
  ASSUME SessionInv, [Next]_vars
  PROVE  SessionInv'
<1>1. CASE Next
  <2>1. ~crashed
    BY <1>1 DEF Next
  <2>2. CASE \E k \in Kinds : Send(k)
    BY <2>1, <2>2, SendInv
  <2>3. CASE HangUp
    BY <2>1, <2>3, HangUpInv
  <2>4. CASE Main
    BY <2>1, <2>4, ReceiveInv, EndOfStreamInv, LeaveInv, RequestStopInv, JoinInv DEF Main
  <2>5. CASE Logic
    BY <2>1, <2>5, PollInv, HandleInv, WriteKeepsInv DEF Logic
  <2>6. QED BY <1>1, <2>2, <2>3, <2>4, <2>5 DEF Next
<1>2. CASE UNCHANGED vars
  <2>1. UNCHANGED <<sent, hungUp, main, received, session, queue, stopped, stop, logic, done, out, crashed>>
    BY <1>2 DEF vars, client
  <2>2. TypeOK' /\ QueueInv' /\ WriteInv'
    BY <2>1 DEF SessionInv, TypeOK, QueueInv, WriteInv
  <2>3. EndInv' /\ ThreadInv' /\ NoCrashInService'
    BY <2>1 DEF SessionInv, EndInv, ThreadInv, NoCrashInService
  <2>4. QED BY <2>2, <2>3 DEF SessionInv
<1>3. QED BY <1>1, <1>2

(***************************************************************************)
(* The inductive invariant, for any number of messages of any kinds.       *)
(***************************************************************************)
THEOREM SessionCorrect == Spec => []SessionInv
<1>1. Init => SessionInv
  BY SessionInit
<1>2. SessionInv /\ [Next]_vars => SessionInv'
  BY SessionNext
<1>3. QED BY <1>1, <1>2, PTL DEF Spec

\* The variables of both threads keep their types, and no more is done than was read.
THEOREM SessionTypeCorrect == Spec => []TypeOK
<1>1. SessionInv => TypeOK
  BY DEF SessionInv
<1>2. QED BY <1>1, SessionCorrect, PTL

\* No posted handler is left behind while the client is there.
THEOREM NoLostWakeUp == Spec => []PostedAreRun
<1>1. SessionInv => PostedAreRun
  BY DEF SessionInv, EndInv, ThreadInv, PostedAreRun
<1>2. QED BY <1>1, SessionCorrect, PTL

\* The session is not taken away from a client that is still there.
THEOREM StaysInService == Spec => []NoCrashInService
<1>1. SessionInv => NoCrashInService
  BY DEF SessionInv
<1>2. QED BY <1>1, SessionCorrect, PTL

-----------------------------------------------------------------------------
(***************************************************************************)
(* The two threads implement Serial: a handler that returns is a step of   *)
(* the serial server, everything else of the threads a stutter.            *)
(***************************************************************************)

\* A handler that returns, having written something or not.
LEMMA ReturnIsHandle ==
  ASSUME SessionInv, ~crashed, Return, queue # <<>>, logic # "exited",
         UNCHANGED <<sent, hungUp, main, received, session, stop, crashed>>,
         \/ sent[Head(queue)] \in Speaking /\ out' = Append(out, Head(queue))
         \/ (sent[Head(queue)] \notin Speaking \/ hungUp) /\ out' = out
  PROVE  OneByOne!Handle
<1>1. out \in Seq(Nat) /\ queue \in Seq(Nat)
  BY DEF SessionInv, TypeOK
<1>2. Head(queue) \in Nat
  BY <1>1
<1>3. out' \in Seq(Nat)
  <2>1. Append(out, Head(queue)) \in Seq(Nat)
    BY <1>1, <1>2
  <2>2. out' = Append(out, Head(queue)) \/ out' = out
    OBVIOUS
  <2>3. QED BY <1>1, <2>1, <2>2, Zenon
<1>4. Head(queue) = done + 1 /\ done + 1 <= Len(sent)
  BY <1>3, ReturnInv
<1>5. done' = done + 1 /\ done \in Nat /\ Len(sent) \in Nat
  BY DEF Return, SessionInv, TypeOK
<1>6. QED BY <1>4, <1>5 DEF OneByOne!Handle

LEMMA HandleImplements ==
  ASSUME SessionInv, ~crashed, Handle
  PROVE  OneByOne!Handle \/ UNCHANGED OneByOne!vars
<1>1. /\ logic = "run" /\ queue # <<>>
      /\ UNCHANGED <<sent, hungUp, main, received, session, stop, out, crashed>>
  BY DEF Handle, client
<1>2. CASE Return /\ sent[Head(queue)] = "silent"
  <2>1. sent[Head(queue)] \notin Speaking
    BY <1>2 DEF Speaking
  <2>2. QED BY <1>1, <1>2, <2>1, ReturnIsHandle
<1>3. CASE Return /\ ~session
  <2>1. hungUp
    BY <1>3 DEF SessionInv, EndInv
  <2>2. QED BY <1>1, <1>3, <2>1, ReturnIsHandle
<1>4. CASE UNCHANGED done
  BY <1>1, <1>4 DEF OneByOne!vars
<1>5. QED BY <1>2, <1>3, <1>4 DEF Handle

LEMMA WriteImplements ==
  ASSUME SessionInv, ~crashed, Write
  PROVE  OneByOne!Handle \/ UNCHANGED OneByOne!vars
<1>1. /\ logic \in {"answer", "ask"}
      /\ UNCHANGED <<sent, hungUp, main, received, session, stop>>
  BY DEF Write, client
<1>2. queue # <<>> /\ sent[Head(queue)] \in Speaking
  BY <1>1 DEF SessionInv, WriteInv
<1>3. CASE out' = Append(out, Head(queue)) /\ Return /\ UNCHANGED crashed
  BY <1>1, <1>2, <1>3, ReturnIsHandle
<1>4. CASE Unheard /\ Return /\ UNCHANGED <<out, crashed>>
  <2>1. hungUp
    BY <1>4 DEF Unheard, SessionInv, EndInv
  <2>2. QED BY <1>1, <1>2, <1>4, <2>1, ReturnIsHandle
<1>5. CASE UNCHANGED <<out, queue, stopped, logic, done>>
  BY <1>1, <1>5 DEF OneByOne!vars
<1>6. QED BY <1>3, <1>4, <1>5 DEF Write

LEMMA StepImplements ==
  ASSUME SessionInv, [Next]_vars
  PROVE  [OneByOne!Next]_OneByOne!vars
<1>1. CASE Next
  <2>1. ~crashed
    BY <1>1 DEF Next
  <2>2. ASSUME NEW k \in Kinds, Send(k) PROVE OneByOne!Next
    BY <2>2 DEF Send, OneByOne!Send, OneByOne!Next
  <2>3. CASE HangUp
    BY <2>3 DEF HangUp, OneByOne!HangUp, OneByOne!Next
  <2>4. CASE Main
    BY <2>4 DEF Main, Receive, EndOfStream, Leave, RequestStop, Join, client, OneByOne!vars
  <2>5. CASE CheckStop \/ RunReturns \/ Reset
    BY <2>5 DEF CheckStop, RunReturns, Reset, client, OneByOne!vars
  <2>6. CASE Handle \/ Write
    BY <2>1, <2>6, HandleImplements, WriteImplements DEF OneByOne!Next
  <2>7. QED BY <1>1, <2>2, <2>3, <2>4, <2>5, <2>6 DEF Next, Logic
<1>2. CASE UNCHANGED vars
  BY <1>2 DEF vars, client, OneByOne!vars
<1>3. QED BY <1>1, <1>2

\* To a client the server handles one message at a time, in the order they were sent, and
\* answers in that order, however the main and the logic thread take turns.
THEOREM SessionImplementsSerial == Spec => TakesTurns
<1>1. Init => OneByOne!Init
  BY DEF Init, OneByOne!Init
<1>2. SessionInv /\ [Next]_vars => [OneByOne!Next]_OneByOne!vars
  BY StepImplements
<1>3. QED BY <1>1, <1>2, SessionCorrect, PTL DEF Spec, TakesTurns, OneByOne!Spec
=============================================================================
