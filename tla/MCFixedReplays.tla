--------------------------- MODULE MCFixedReplays ---------------------------
(* Two files in the bundle and one beside it, two services, two databases, *)
(* and one rewritten file.                                                 *)
EXTENDS FixedReplays

MCBundleFiles == <<"config", "raw">>
MCOtherFiles  == <<"state">>
MCServices    == <<"feed", "recap">>
=============================================================================
