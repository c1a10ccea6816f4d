------------------------- MODULE MCInterQueryCache -------------------------
(***************************************************************************)
(* Instances of InterQueryCache.  A cache of 3 bytes and entries of 1 to 3 *)
(* let one insertion evict none, some or all of the others; 2 bytes is     *)
(* what UpdateConfig changes it to, below what may be cached.              *)
(***************************************************************************)
EXTENDS InterQueryCache

Conf(max, threshold, period) == [max |-> max, threshold |-> threshold, period |-> period]

Resized == {Conf(3, 100, 1), Conf(2, 100, 2)}
Switched == {Conf(3, 100, 1), Conf(3, 100, 0)}
Percentage == {Conf(4, 50, 1)}
=============================================================================
