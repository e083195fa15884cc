------------------------------- MODULE FifoQueue ------------------------------
(***************************************************************************)
(* What LockQueue promises: elements are taken one at a time, each one     *)
(* once, in the order in which they were put in.                           *)
(***************************************************************************)
EXTENDS Sequences

CONSTANT Items

VARIABLES
  contents,   \* what was put in and not taken, oldest first
  taken       \* what was taken, oldest first

Init == contents = <<>> /\ taken = <<>>

Put ==
  /\ \E item \in Items : contents' = Append(contents, item)
  /\ UNCHANGED taken

Take ==
  /\ contents # <<>>
  /\ taken' = Append(taken, Head(contents))
  /\ contents' = Tail(contents)

Next == Put \/ Take

Spec == Init /\ [][Next]_<<contents, taken>>

===============================================================================
