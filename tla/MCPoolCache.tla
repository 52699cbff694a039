----------------------------- MODULE MCPoolCache -----------------------------
(* PoolCache on a small host: a pool, two goroutines Refresh could have    *)
(* running together, an HTTP request at a time.                            *)
EXTENDS PoolCache
=============================================================================
