------------------------------ MODULE ImageRows ------------------------------
(***************************************************************************)
(* What the four image programs of Assignment6 share: an image is a vector *)
(* of rows numbered from 0, and a row is raw (0) until the first of the    *)
(* two transformations has been applied to it (1) and then the second (2). *)
(* Pixel values are abstracted: no transformation ever looks at another    *)
(* row, so the order of the row operations is all that can go wrong        *)
(* between two threads or processes.                                       *)
(***************************************************************************)
EXTENDS Integers, Sequences, FiniteSets

CONSTANTS
  Height,   \* number of rows of the image: original_pixels.size()
  Width     \* pixels of a row: original_pixels[0].size()

\* Every program indexes row 0 of the image, so an image has a pixel.
ASSUME ImageAssumption == Height \in Nat \ {0} /\ Width \in Nat \ {0}

Rows == 0 .. Height - 1

Raw      == 0
Once     == 1
Finished == 2

Stages == {Raw, Once, Finished}

\* read_ppm: the image as it comes from the file.
read_ppm == [r \in Rows |-> Raw]

=============================================================================
