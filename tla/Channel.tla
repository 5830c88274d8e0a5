------------------------------- MODULE Channel ------------------------------
(***************************************************************************)
(* What the session owes the language client: the bodies of the frames it  *)
(* sent come out one by one, whole, in the order they were sent, however   *)
(* the bytes were cut up on the way.                                       *)
(***************************************************************************)
EXTENDS Naturals, Sequences

VARIABLES
  sent,      \* the bodies the client sends, fixed
  received   \* those handed to the server so far

Init == received = <<>>

Receive ==
  /\ Len(received) < Len(sent)
  /\ received' = Append(received, sent[Len(received) + 1])
  /\ UNCHANGED sent

Spec == Init /\ [][Receive]_<<sent, received>>
=============================================================================
