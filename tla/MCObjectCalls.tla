---------------------------- MODULE MCObjectCalls ----------------------------
(* Two writers of key 1 with two Saves between them, key 2 beside it, one    *)
(* deletion or copy and one request that may arrive late.                    *)
EXTENDS ObjectCalls
MCKeys == {1, 2}
MCWriters == {1, 2}
=============================================================================
