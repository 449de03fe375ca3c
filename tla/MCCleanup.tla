------------------------------ MODULE MCCleanup ------------------------------
(* Four keys, two of them in a folder; pages and batches of one and two.     *)
EXTENDS Cleanup
MCKeys == 1..4
MCFolder == {2, 3}
MCUploads == {<<>>, <<1, 2>>, <<2, 2, 4>>}
=============================================================================
