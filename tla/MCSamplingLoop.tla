-------------------------- MODULE MCSamplingLoop --------------------------
(* Small constants for SamplingLoop; a second is two units of the configuration. *)
EXTENDS SamplingLoop

MCPreferred == <<"cpu-thermal">>
MCZoneLists == {<< >>, <<"other", "cpu-thermal">>}

MCFlags(v, key) == [state |-> "read", version |-> v, flags |-> [api_key |-> key]]

\* Intervals of 1 and 5.5 s, windows around multiples of them.
MCFiles ==
  [poll_interval: {2}, updates_check: {20}, history_window: {1, 5, 6, 7, 8},
     processes_enabled: {TRUE}]
    \union [poll_interval: {11}, healthz_max_staleness: {10, 11}, history_window: {21, 22, 33}]

\* An interval of which three do not fit a Duration, 3.2e9 s in the code, and another one
\* that does not fit.
MCTooLong == [poll_interval: {40000}, updates_check: {20, 200000}]

MCStarted(files) ==
  {[args |-> MCFlags(FALSE, ""), env |-> << >>, file |-> [state |-> "read", fields |-> f]] :
     f \in files}

MCInputs ==
  MCStarted(MCFiles \union MCTooLong)
    \union [args: {MCFlags(TRUE, "k"), [state |-> "bad", version |-> FALSE, flags |-> << >>]},
            env: {[api_key |-> ""]}, file: {[state |-> "none"], [state |-> "bad"]}]
=============================================================================
