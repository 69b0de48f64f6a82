-------------------------- MODULE MCRequestPath ---------------------------
(* A reader of the counters, a request for the API, and any other one. *)
EXTENDS RequestPath, TLC

CONSTANTS r1, r2, r3

MCAsks == r1 :> {"serverstats"} @@ r2 :> {"metrics"}
            @@ r3 :> {"healthz", "processes", "metrics"}
=============================================================================
