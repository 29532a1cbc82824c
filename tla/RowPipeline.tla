----------------------------- MODULE RowPipeline -----------------------------
(***************************************************************************)
(* What each of the image programs promises: the two transformations are   *)
(* applied to every row, each once and in order, and the image is written  *)
(* once, after the last row is finished.                                   *)
(***************************************************************************)
EXTENDS ImageRows

VARIABLES
  stage,   \* stage[r]: how far row r has got
  saved    \* the final image has been written

vars == <<stage, saved>>

Init ==
  /\ stage = read_ppm
  /\ saved = FALSE

Transform(r) ==
  /\ ~saved
  /\ stage[r] # Finished
  /\ stage' = [stage EXCEPT ![r] = @ + 1]
  /\ UNCHANGED saved

Save ==
  /\ ~saved
  /\ \A r \in Rows : stage[r] = Finished
  /\ saved' = TRUE
  /\ UNCHANGED stage

Next == (\E r \in Rows : Transform(r)) \/ Save

Spec == Init /\ [][Next]_vars

=============================================================================
