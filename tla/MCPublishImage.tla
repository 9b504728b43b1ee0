--------------------------- MODULE MCPublishImage ---------------------------
(* Builds of two kinds, so that a later one may or may not repeat the      *)
(* first, and three dispatches.                                            *)
EXTENDS PublishImage
=============================================================================
