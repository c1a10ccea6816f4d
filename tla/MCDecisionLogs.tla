--------------------------- MODULE MCDecisionLogs ---------------------------
(***************************************************************************)
(* Instances of DecisionLogs.  With an upload limit of 12 bytes the events *)
(* end up in several chunks; event 3 fits only without its builtins cache. *)
(* They compress so well that no chunk comes out above the limit.          *)
(***************************************************************************)
EXTENDS DecisionLogs

Ev(id, len, nd, zip) == [id |-> id, len |-> len, nd |-> nd, zip |-> zip]
Conf(b, u) == [buffer |-> b, upload |-> u]

ThreeEvents == {Ev(1, 9, 0, 3), Ev(2, 9, 0, 1), Ev(3, 14, 6, 2)}
TwoEvents == {Ev(1, 9, 0, 3), Ev(3, 14, 6, 2)}
Limits == {Conf(0, 12), Conf(6, 12)}
OneLimit == {Conf(6, 12)}
NoLimit == {Conf(0, 12)}
=============================================================================
