-------------------------- MODULE MCConfirmationWait --------------------------
(* A transaction that reaches the pool and is committed or rejected, is    *)
(* dropped from the pool or set back by a reorganisation; a node that does *)
(* not know it answers null or "unknown"; one that answers without status. *)
EXTENDS ConfirmationWait

MCRawStatuses == {"null", "unknown", "no_status", "pending", "proposed", "committed", "rejected"}
MCNodeSteps ==
    {<<"null", "pending">>, <<"unknown", "pending">>, <<"no_status", "pending">>,
     <<"pending", "proposed">>, <<"proposed", "committed">>, <<"pending", "rejected">>,
     <<"proposed", "rejected">>, <<"pending", "unknown">>, <<"committed", "pending">>}
MCAcceptedStatuses == {{"committed", "proposed", "pending"}, {"committed"}}
==============================================================================
