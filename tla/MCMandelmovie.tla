--------------------------- MODULE MCMandelmovie ---------------------------
(* Instances of Mandelmovie for TLC. *)
EXTENDS Mandelmovie

Images == 1 .. MAX_IMAGES
OneRow == [threads |-> 1, width |-> 1, height |-> 1]
\* With three threads: more than rows, a remainder.  A line of four pixels
\* needs no padding, one of three needs three bytes.
SmallImages == [threads : {0, 2, 3}, width : {3, 4}, height : {2, 4}]
=============================================================================
