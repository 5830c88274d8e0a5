-------------------------------- MODULE Serial --------------------------------
(***************************************************************************)
(* What the language server owes a client: messages take effect one at a   *)
(* time, in the order they were sent, and what the server writes because   *)
(* of them arrives in that order.  Only a client that has hung up may miss *)
(* something.                                                              *)
(***************************************************************************)
EXTENDS Naturals, Sequences

CONSTANTS
  Kinds,     \* the kinds of messages
  Speaking   \* those the server writes something for

VARIABLES
  sent,    \* the messages sent, by kind
  hungUp,  \* the client sends no more
  done,    \* how many messages have taken effect
  out      \* the messages the server has written something for, in that order

vars == <<sent, hungUp, done, out>>

Init ==
  /\ sent = <<>>
  /\ hungUp = FALSE
  /\ done = 0
  /\ out = <<>>

Send(k) ==
  /\ ~hungUp
  /\ sent' = Append(sent, k)
  /\ UNCHANGED <<hungUp, done, out>>

HangUp ==
  /\ ~hungUp
  /\ hungUp' = TRUE
  /\ UNCHANGED <<sent, done, out>>

Handle ==
  /\ done < Len(sent)
  /\ done' = done + 1
  /\ \/ sent[done'] \in Speaking /\ out' = Append(out, done')
     \/ (sent[done'] \notin Speaking \/ hungUp) /\ out' = out
  /\ UNCHANGED <<sent, hungUp>>

Next == (\E k \in Kinds : Send(k)) \/ HangUp \/ Handle

Spec == Init /\ [][Next]_vars
=============================================================================
