---------------------------- MODULE MCPoolNotices ----------------------------
(* PoolNotices for one pool: no pool's state is read for another.          *)
EXTENDS PoolNotices
=============================================================================
