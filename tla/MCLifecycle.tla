---------------------------- MODULE MCLifecycle ----------------------------
(* Lifecycle for TLC, with the timeouts of cli.go and config.go in units   *)
(* of five seconds: every command line of up to two arguments that does    *)
(* not turn the healthcheck off, and some longer ones and some that do.    *)
EXTENDS Lifecycle, SequencesExt

MCArgs ==
    SeqOf(Words \ {"--healthcheck=false"}, 2)
    \cup {<<"-healthcheck", "--healthcheck=false">>,
          <<"--healthcheck=false", "-healthcheck">>,
          <<"--healthcheck=false", "-version">>,
          <<"-version", "-healthcheck", "--">>,
          <<"-healthcheck", "-healthcheck", "-healthcheck">>}
=============================================================================
