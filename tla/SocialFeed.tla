---------------------------- MODULE SocialFeed ----------------------------
(***************************************************************************)
(* The social side of a visit in the student simulation                    *)
(* (synthetic_data/generate.py: the second half of visit(), feed() and     *)
(* influence()).  A student may follow, unblock, leave or block others,    *)
(* looks at one or two pages of the feed, may click on what is shown and   *)
(* may take a decision about a goal because of it.                         *)
(*                                                                         *)
(* Policy keeps mirrors of who follows and who blocks whom.  The backend,  *)
(* external, keeps the truth and shows a card only to those allowed to see *)
(* it; the oracle (synthetic_data/validate.py) rebuilds the truth from the *)
(* applied commands and judges every one of them.  Any command may be      *)
(* refused.  The money behind a decision is SavingsPolicy's, and so is     *)
(* whether a goal is shared: here the backend shows any cards of authors   *)
(* no block keeps apart from the reader.                                   *)
(***************************************************************************)
EXTENDS Integers, Sequences, FiniteSets

CONSTANTS
  N,            \* students
  Owner,        \* the academy owner's number, 0 when none takes part
  JoinDay,      \* JoinDay[s]: the day s joins
  Cards,        \* shared cards
  Author,       \* Author[c]: the student whose goal card c shows
  UnblockAge,   \* days a block lasts at least (14)
  MonthLength,  \* days of a month
  LastDay,      \* bound: days 0..LastDay
  PageSize      \* cards of a page (5)

Students == 1..N
Pairs    == {p \in Students \X Students : p[1] # p[2]}

ASSUME SocialAssumption ==
  /\ N \in Nat /\ Owner \in Nat
  /\ JoinDay \in [Students -> Nat]
  /\ Author \in [Cards -> Students]
  /\ UnblockAge \in Nat /\ MonthLength \in Nat \ {0}
  /\ LastDay \in Nat /\ PageSize \in Nat \ {0}

VARIABLES
  follows, blocks,      \* backend and oracle: pairs <<viewer, other>>
  since,                \* history: the day the backend last applied a pair's BLOCK
  verdict,              \* oracle: "OK" until a command breaks a rule
  following, blocked,   \* Policy: mirror of follows; day of each block held, or Never
  influenced,           \* Policy: <<student, month>> that had a decision
  decisions,            \* decisions taken, per student and month
  day, who, pc, todo,   \* where Policy.run stands
  page, more, pages,    \* the page shown, whether one follows, pages shown
  shown, slot,          \* slots looked at, the current one
  trail,                \* feed events of this page
  signal                \* index in trail of the sign of interest, 0 if none

truth     == <<follows, blocks, since>>
mirrors   == <<following, blocked>>
turnVars  == <<day, who, todo>>
pageVars  == <<page, more, pages, shown>>
feedVars  == <<pageVars, slot, trail, signal>>
monthVars == <<influenced, decisions>>
vars == <<truth, verdict, mirrors, monthVars, turnVars, pc, feedVars>>

-----------------------------------------------------------------------------
Never    == -1
Joined   == {s \in Students : JoinDay[s] <= day}

Peers(s) == {p \in Joined : p # s /\ p # Owner}
Month(d) == d \div MonthLength
Months   == 0..Month(LastDay)

Judge(lawful) == verdict' = IF lawful THEN verdict ELSE "INVALID"

(* social-direction, owner-isolation: both are members, neither the owner. *)
Social(s, t) == s # t /\ {s, t} \subseteq Joined /\ Owner \notin {s, t}

(* What the backend may show to a reader (feed-membership, feed-block).    *)
Accessible(s) == {c \in Cards : /\ Author[c] \in Peers(s)
                                /\ <<s, Author[c]>> \notin blocks
                                /\ <<Author[c], s>> \notin blocks}

NoPage == /\ page' = <<>> /\ more' = FALSE /\ pages' = 0 /\ shown' = 0
          /\ slot' = 1 /\ trail' = <<>> /\ signal' = 0

Init ==
  /\ follows = {} /\ blocks = {} /\ verdict = "OK"
  /\ following = {} /\ blocked = [p \in Pairs |-> Never] /\ since = [p \in Pairs |-> Never]
  /\ influenced = {} /\ decisions = [x \in Students \X Months |-> 0]
  /\ day = 0 /\ who = 1 /\ pc = "turn" /\ todo = {}
  /\ page = <<>> /\ more = FALSE /\ pages = 0 /\ shown = 0
  /\ slot = 1 /\ trail = <<>> /\ signal = 0

NoSocial == UNCHANGED <<truth, mirrors, verdict>>
NoFeed   == UNCHANGED <<feedVars, monthVars>>

-----------------------------------------------------------------------------
(* Turns.  The savings part of a visit comes first; it touches nothing of  *)
(* this module.                                                            *)

NextPerson ==
  /\ todo' = {}
  /\ \/ who < N /\ who' = who + 1 /\ pc' = "turn" /\ UNCHANGED day
     \/ who = N /\ day < LastDay /\ who' = 1 /\ pc' = "turn" /\ day' = day + 1
     \/ who = N /\ day = LastDay /\ pc' = "done" /\ UNCHANGED <<day, who>>

(* A student who is absent, does not visit today or is the owner. *)
Skip == pc = "turn" /\ NextPerson /\ NoSocial /\ NoFeed

Begin ==
  /\ pc = "turn" /\ who \in Joined /\ who # Owner
  /\ pc' = "meet" /\ UNCHANGED turnVars
  /\ NoSocial /\ NoFeed

Finished == pc = "done" /\ UNCHANGED vars

-----------------------------------------------------------------------------
(* FOLLOW, UNFOLLOW, BLOCK and UNBLOCK, applied or refused: emit() updates *)
(* the mirrors when the command was applied.                               *)

Follow(t) ==
  \/ /\ follows' = follows \cup {<<who, t>>}
     /\ following' = following \cup {<<who, t>>}
     /\ Judge(Social(who, t))
     /\ UNCHANGED <<blocks, since, blocked>>
  \/ NoSocial

Unfollow(t) ==
  \/ /\ follows' = follows \ {<<who, t>>}
     /\ following' = following \ {<<who, t>>}
     /\ Judge(Social(who, t))
     /\ UNCHANGED <<blocks, since, blocked>>
  \/ NoSocial

(* The backend ends the relation in both directions.                       *)
ApplyBlock(t) ==
  /\ blocks' = blocks \cup {<<who, t>>}
  /\ since' = [since EXCEPT ![<<who, t>>] = day]
  /\ follows' = follows \ {<<who, t>>, <<t, who>>}
  /\ Judge(Social(who, t))

(* Mutant: a block is recorded for the one who is blocked. *)
BlockReversed(t) ==
  \/ /\ ApplyBlock(t)
     /\ blocked' = [blocked EXCEPT ![<<t, who>>] = day]
     /\ following' = following \ {<<who, t>>}
  \/ NoSocial

(* Mutant: a second block keeps the day of the first. *)
BlockOnce(t) ==
  \/ /\ ApplyBlock(t)
     /\ blocked' = [blocked EXCEPT ![<<who, t>>] = IF @ = Never THEN day ELSE @]
     /\ following' = following \ {<<who, t>>}
  \/ NoSocial

(* Policy's mirror notes the day, also over that of a block in force, and  *)
(* only forgets that the blocker follows.                                  *)
Block(t) ==
  \/ /\ ApplyBlock(t)
     /\ blocked' = [blocked EXCEPT ![<<who, t>>] = day]
     /\ following' = following \ {<<who, t>>}
  \/ NoSocial

Unblock(t) ==
  \/ /\ blocks' = blocks \ {<<who, t>>}
     /\ blocked' = [blocked EXCEPT ![<<who, t>>] = Never]
     /\ Judge(Social(who, t))
     /\ UNCHANGED <<follows, since, following>>
  \/ NoSocial

(* A classmate, close or not, is followed unless followed already, even    *)
(* one who is blocked. *)
Meet ==
  /\ pc = "meet"
  /\ \/ \E t \in Peers(who) : <<who, t>> \notin following /\ Follow(t)
     \/ NoSocial
  /\ pc' = "forgive" /\ todo' = {t \in Students : t # who /\ blocked[<<who, t>>] # Never}
  /\ UNCHANGED <<day, who>> /\ NoFeed

OldBlock(t) == day - blocked[<<who, t>>] >= UnblockAge

(* Every block of the student that is old enough is to be lifted.          *)
Forgive ==
  /\ pc = "forgive"
  /\ \E t \in todo : /\ \/ OldBlock(t) /\ Unblock(t)
                        \/ ~OldBlock(t) /\ NoSocial
                     /\ todo' = todo \ {t}
  /\ UNCHANGED <<pc, day, who>> /\ NoFeed

Forgiven ==
  /\ pc = "forgive" /\ todo = {}
  /\ pc' = "part" /\ UNCHANGED turnVars
  /\ NoSocial /\ NoFeed

(* Someone the mirror says is followed may be blocked or left. *)
Part ==
  /\ pc = "part"
  /\ \/ \E t \in Peers(who) : <<who, t>> \in following /\ (Block(t) \/ Unfollow(t))
     \/ NoSocial
  /\ pc' = "query" /\ UNCHANGED turnVars
  /\ NoFeed

-----------------------------------------------------------------------------
(* feed(): one page, then the slots the student looks at.                  *)

Orders(S) == {q \in UNION {[1..n -> S] : n \in 0..PageSize} :
                \A i, j \in DOMAIN q : q[i] = q[j] => i = j}

Emitted(kind, applied) ==
  trail' = Append(trail, [kind |-> kind, slot |-> slot, applied |-> applied])

Looked(q, n) == IF n < Len(q) THEN n ELSE Len(q)

Query ==
  /\ pc = "query"
  /\ \E q \in Orders(Accessible(who)), n \in {1, 2} :
       /\ page' = q
       /\ shown' = Looked(q, n)
       /\ more' \in BOOLEAN
  /\ pages' = pages + 1 /\ slot' = 1 /\ trail' = <<>> /\ signal' = 0
  /\ pc' = "slot" /\ UNCHANGED turnVars
  /\ NoSocial /\ UNCHANGED monthVars

QueryRefused ==
  /\ pc = "query"
  /\ pc' = "direct" /\ UNCHANGED turnVars
  /\ NoSocial /\ NoFeed

(* A slot looked at is an exposure, if the backend records it. *)
Impression ==
  /\ pc = "slot" /\ slot <= shown
  /\ Emitted("IMPRESSION", TRUE) /\ signal' = Len(trail) + 1
  /\ pc' = "click"
  /\ NoSocial /\ UNCHANGED <<turnVars, pageVars, slot, monthVars>>

(* Mutant: a refused impression is carried on with. *)
ImpressionRefusedGoesOn ==
  /\ pc = "slot" /\ slot <= shown
  /\ Emitted("IMPRESSION", FALSE) /\ signal' = Len(trail) + 1
  /\ pc' = "click"
  /\ NoSocial /\ UNCHANGED <<turnVars, pageVars, slot, monthVars>>

ImpressionRefused ==
  /\ pc = "slot" /\ slot <= shown
  /\ Emitted("IMPRESSION", FALSE)
  /\ slot' = slot + 1
  /\ NoSocial /\ UNCHANGED <<turnVars, pc, pageVars, signal, monthVars>>

(* Curiosity: the card may be clicked.  A refused click leaves the         *)
(* impression as the sign of interest.                                     *)
Click ==
  /\ pc = "click"
  /\ \/ \E ok \in BOOLEAN : /\ Emitted("CLICK", ok)
                            /\ pc' = IF ok THEN "clicked" ELSE "influence"
     \/ pc' = "influence" /\ UNCHANGED trail
  /\ NoSocial /\ UNCHANGED <<turnVars, pageVars, slot, signal, monthVars>>

(* Then the author may be visited; the visit, even a refused one, or else  *)
(* the click is the sign of interest. *)
Visit ==
  /\ pc = "clicked"
  /\ \/ \E ok \in BOOLEAN : Emitted("PROFILE_VISIT", ok) /\ signal' = Len(trail) + 1
     \/ signal' = Len(trail) /\ UNCHANGED trail
  /\ pc' = "befriend"
  /\ NoSocial /\ UNCHANGED <<turnVars, pageVars, slot, monthVars>>

Befriend ==
  /\ pc = "befriend"
  /\ LET author == Author[page[slot]]
     IN \/ <<who, author>> \notin following /\ Follow(author)
        \/ NoSocial
  /\ pc' = "influence" /\ UNCHANGED turnVars
  /\ NoFeed

(* Mutant: a refused sign of interest counts. *)
AppliedOrNot == signal # 0

Applied == trail[signal].applied

(* A decision is open to a student who had none this month, by an applied  *)
(* sign of interest. *)
Available == Applied /\ <<who, Month(day)>> \notin influenced

(* influence-order, influence-decision *)
OracleInfluence(s, d) ==
  /\ s \in DOMAIN trail /\ d \in DOMAIN trail /\ s < d
  /\ trail[s].kind \in {"IMPRESSION", "CLICK", "PROFILE_VISIT"} /\ trail[s].applied
  /\ trail[d].kind = "DECISION"

(* influence(): CREATE or DEPOSIT, even a refused one, is the decision.    *)
(* The month is not booked yet.                                            *)
Influence ==
  /\ pc = "influence" /\ Available
  /\ \E ok \in BOOLEAN : Emitted("DECISION", ok)
  /\ decisions' = [decisions EXCEPT ![<<who, Month(day)>>] = @ + 1]
  /\ pc' = "confess"
  /\ NoSocial /\ UNCHANGED <<turnVars, pageVars, slot, signal, influenced>>

NextSlot == slot' = slot + 1 /\ signal' = 0 /\ pc' = "slot"

(* No susceptibility, no chance, no month, no capacity and no cash. *)
Unmoved ==
  /\ pc = "influence" /\ NextSlot
  /\ NoSocial /\ UNCHANGED <<turnVars, pageVars, trail, monthVars>>

(* Mutant: the month is booked by an applied decision only. *)
BookedIfApplied == IF trail[Len(trail)].applied THEN influenced \cup {<<who, Month(day)>>}
                                                ELSE influenced

Booked == influenced \cup {<<who, Month(day)>>}

(* The month is booked, whatever became of the decision, and               *)
(* INFLUENCED_DECISION names the sign of interest and the decision.        *)
Confess ==
  /\ pc = "confess"
  /\ influenced' = Booked
  /\ \E ok \in BOOLEAN : /\ Emitted("INFLUENCED_DECISION", ok)
                         /\ Judge(ok => OracleInfluence(signal, Len(trail)))
  /\ NextSlot
  /\ UNCHANGED <<truth, mirrors, turnVars, pageVars, decisions>>

(* A card never looked at may be clicked, which influences nobody. *)
Unmatched ==
  /\ pc = "slot" /\ slot > shown
  /\ Len(page) > shown /\ \E ok \in BOOLEAN : Emitted("CLICK", ok)
  /\ pc' = "leave"
  /\ NoSocial /\ UNCHANGED <<turnVars, pageVars, slot, signal, monthVars>>

Leave ==
  /\ pc = "slot" /\ slot > shown
  /\ pc' = "leave" /\ UNCHANGED turnVars
  /\ NoSocial /\ NoFeed

(* visit(): after the first page a second one, when there is one. *)
NextPage ==
  /\ pc = "leave" /\ pages = 1 /\ more
  /\ pc' = "query" /\ UNCHANGED turnVars
  /\ NoSocial /\ NoFeed

Close ==
  /\ pc = "leave"
  /\ pc' = "direct" /\ UNCHANGED turnVars
  /\ NoSocial /\ NoFeed

(* At last perhaps the profile of a classmate, by no feed at all; the      *)
(* oracle asks that it is a member and not the owner.                      *)
Direct ==
  /\ pc = "direct"
  /\ \/ \E t \in Peers(who) : Judge(t \in Joined /\ Owner \notin {who, t})
     \/ UNCHANGED verdict
  /\ NextPerson /\ NoPage
  /\ UNCHANGED <<truth, mirrors, monthVars>>

Next ==
  \/ Skip \/ Begin \/ Finished
  \/ Meet \/ Forgive \/ Forgiven \/ Part
  \/ Query \/ QueryRefused \/ Impression \/ ImpressionRefused
  \/ Click \/ Visit \/ Befriend \/ Influence \/ Unmoved \/ Confess
  \/ Unmatched \/ Leave \/ NextPage \/ Close \/ Direct

Spec == Init /\ [][Next]_vars

-----------------------------------------------------------------------------
(* The oracle accepts every command of the social side: whoever is         *)
(* followed, left, blocked, unblocked or visited is a member and not the   *)
(* owner, and a decision is tied to an applied sign of interest that came  *)
(* before it (validate.py:111-116, 212-218). *)
SocialAccepted == verdict = "OK"

(* Policy's mirror forgets no follow the backend has, so that it never     *)
(* asks twice for what is there, and it knows exactly the blocks that are  *)
(* in force (generate.py:75-83).  It may remember a follow the other's     *)
(* block has ended.                                                        *)
MirrorCovers ==
  /\ follows \subseteq following
  /\ blocks = {p \in Pairs : blocked[p] # Never}

(* The feed moves a student to one decision a month at most, applied or    *)
(* refused: the month is looked up before a decision and booked after it,  *)
(* and a second slot, a second page and every later visit of the month     *)
(* look it up again (policy-coverage.md, generate.py:215-216, 235-236).    *)
OnceAMonth == \A x \in Students \X Months : decisions[x] <= 1

(* A decision ascribed to the feed follows an exposure: the card of its    *)
(* slot was looked at and the backend recorded it (generate.py:252, 259,   *)
(* 272).                                                                   *)
InfluenceHasExposure ==
  \A i \in DOMAIN trail : trail[i].kind = "INFLUENCED_DECISION" =>
    \E j \in 1..(i - 1) : trail[j] = [kind |-> "IMPRESSION", slot |-> trail[i].slot, applied |-> TRUE]

(* A block in force at the backend is only lifted by the one who set it,   *)
(* UnblockAge days at least after the backend last applied it: one who is  *)
(* followed while blocked, and blocked again, is blocked anew              *)
(* (generate.py:79-81, 289-292).                                           *)
BlocksLast ==
  [][\A p \in blocks \ blocks' : p[1] = who /\ day - since[p] >= UnblockAge]_vars

=============================================================================
