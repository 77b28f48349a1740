---------------------------- MODULE MCLifecycle ----------------------------
(* A plain configuration, and ones that differ from it in what is read, repaired or
   refused.  With the default request timeout a request stays below the grace period
   unless its client is slow, with the other it may take longer than the write timeout. *)
EXTENDS Lifecycle

MCPlain ==
  [file |-> "ok", rulesFiles |-> "ok", addresses |-> "some", index |-> "some",
   limits |-> [l \in LimitNames |-> 0],
   envAddresses |-> "unset", envIndex |-> "unset", envFlag |-> "unset"]

MCConfigs ==
  {MCPlain, [MCPlain EXCEPT !.limits = [l \in LimitNames |-> -1]],
   [MCPlain EXCEPT !.index = "none", !.envIndex = "some", !.envFlag = "ok", !.limits.requestTimeout = 4],
   [MCPlain EXCEPT !.envAddresses = "none"], [MCPlain EXCEPT !.index = "none"],
   [MCPlain EXCEPT !.limits.defaultSize = 200], [MCPlain EXCEPT !.file = "bad"],
   [MCPlain EXCEPT !.envFlag = "bad"], [MCPlain EXCEPT !.rulesFiles = "bad"]}
=============================================================================
