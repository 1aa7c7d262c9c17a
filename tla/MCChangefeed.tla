---------------------------- MODULE MCChangefeed ----------------------------
(* Two tenants, a tree node each.                                          *)
EXTENDS Changefeed, TLC

CONSTANTS u1, u2, a, b

MCUsers == {u1, u2}
MCNodes == {a, b}
NoTree == {}
MCOwner == (a :> u1) @@ (b :> u2)
=============================================================================
