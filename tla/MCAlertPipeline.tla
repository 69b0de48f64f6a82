-------------------------- MODULE MCAlertPipeline --------------------------
(* Small instances of AlertPipeline: a webhook told of every alert and one     *)
(* told of critical ones only.                                                *)
EXTENDS AlertPipeline

MCOneCrit == [w \in Webhooks |-> IF w = "pager" THEN "crit" ELSE "warn"]
============================================================================
