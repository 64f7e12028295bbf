------------------------ MODULE PublicationLifecycle ------------------------
(***************************************************************************)
(* What the model of a work report promises of its status: pending and     *)
(* needs_media alternate until a publication starts; only a publication    *)
(* that is under way makes a report public; what a manager rejected comes  *)
(* back through reopening and in no other way.                             *)
(***************************************************************************)
CONSTANT Reports
VARIABLE phase

Phase == {"absent", "pending", "needs_media", "publishing", "published", "needs_review", "rejected"}

Edge ==
    {<<"absent", "pending">>,
     <<"pending", "needs_media">>, <<"needs_media", "pending">>,
     <<"pending", "publishing">>, <<"publishing", "pending">>,
     <<"publishing", "published">>, <<"published", "needs_review">>,
     <<"rejected", "pending">>}
    \cup {"pending", "needs_media", "published", "needs_review"} \X {"rejected"}

Init == phase = [r \in Reports |-> "absent"]

\* Maintenance may move several reports at once.
Next ==
    /\ phase' \in [Reports -> Phase]
    /\ \A r \in Reports : phase'[r] # phase[r] => <<phase[r], phase'[r]>> \in Edge

Spec == Init /\ [][Next]_phase
=============================================================================
