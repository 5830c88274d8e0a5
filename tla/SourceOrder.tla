---------------------------- MODULE SourceOrder -----------------------------
(***************************************************************************)
(* What a walk over a source of `size` entries owes the writer: slices of  *)
(* the source, each beginning where the one before it ended, so that no    *)
(* entry is lost, repeated or moved.                                       *)
(***************************************************************************)
EXTENDS Naturals, Sequences

VARIABLES
  size,     \* the number of entries of the source, fixed
  slices    \* the slices handed out so far, [start, end]

Reached == IF slices = <<>> THEN 0 ELSE slices[Len(slices)].end

Init == slices = <<>>

Emit ==
  /\ \E e \in (Reached + 1)..size :
        slices' = Append(slices, [start |-> Reached + 1, end |-> e])
  /\ UNCHANGED size

Spec == Init /\ [][Emit]_<<size, slices>>
=============================================================================
