------------------------------ MODULE MCLevel2 ------------------------------
(* Instances of Level2 for TLC: windows of two bytes.  <<0, 0>> and <<2, 2>> *)
(* have the same hash, as have <<0, 1>> and <<2, 0>>; with four slots        *)
(* <<1, 0>> and <<1, 2>> only have the same slot.                            *)
EXTENDS Level2

\* The first payload repeats its first window; the second has two windows of
\* the first in its middle.
TwoPayloads == {<<0, 0, 0, 0, 0, 1, 2>>, <<2, 0, 0, 1, 1, 0>>}
Lengths == [p \in Packets |-> Len(p)]
Hashes == [w \in Windows |-> (w[1] + 2 * w[2]) % 6]
=============================================================================
