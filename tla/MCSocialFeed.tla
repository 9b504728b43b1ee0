--------------------------- MODULE MCSocialFeed ---------------------------
(* Two students, the second of whom joins on the second day, and the       *)
(* owner.  The first has two cards, the second one.  Four days of two      *)
(* months, blocks that last two days.                                      *)
EXTENDS SocialFeed

MCJoinDay == <<0, 1, 0>>
MCAuthor  == <<1, 1, 2>>
===========================================================================
