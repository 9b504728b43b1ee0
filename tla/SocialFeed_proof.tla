-------------------------- MODULE SocialFeed_proof --------------------------
(***************************************************************************)
(* Proofs about SocialFeed, for any number of students and cards, any      *)
(* days of joining, any page and any refusals: the oracle accepts every    *)
(* social command, the mirrors cover the truth, the feed moves a student   *)
(* once a month, by what was seen, and a block lasts.                      *)
(***************************************************************************)
EXTENDS SocialFeed, SequenceTheorems, TLAPS

Kinds  == {"IMPRESSION", "CLICK", "PROFILE_VISIT", "DECISION", "INFLUENCED_DECISION"}
Events == [kind : Kinds, slot : Int, applied : BOOLEAN]
Places == {"turn", "done", "meet", "forgive", "part", "query", "slot", "click", "clicked",
           "befriend", "influence", "confess", "leave", "direct"}
AtCard == {"click", "clicked", "befriend", "influence", "confess"}

(* Where the run stands: only a member other than the owner visits, and    *)
(* only classmates are on the list of those to forgive.                    *)
Turn ==
  /\ day \in Nat /\ pc \in Places
  /\ pc \notin {"turn", "done"} => who \in Joined /\ who # Owner
  /\ pc = "forgive" => todo \subseteq Peers(who)

(* Truth and mirrors.  Whoever is blocked is a classmate, and the day the  *)
(* mirror has of a block in force is that of its last BLOCK.               *)
Relations ==
  /\ verdict = "OK"
  /\ follows \subseteq following
  /\ blocked \in [Pairs -> Int] /\ blocks = {p \in Pairs : blocked[p] # Never}
  /\ \A p \in Pairs : blocked[p] # Never => p[2] \in Joined /\ p[2] # Owner
  /\ since \in [Pairs -> Int] /\ \A p \in blocks : blocked[p] = since[p]

(* A decision is remembered: its month is booked, or about to be.          *)
Pending == pc = "confess"
Decided ==
  /\ decisions \in [Students \X Months -> Nat]
  /\ \A x \in Students \X Months :
       decisions[x] = IF x \in influenced \/ (Pending /\ x = <<who, Month(day)>>) THEN 1 ELSE 0

(* The page shows classmates' cards, and the card dealt with is one of the *)
(* page.                                                                   *)
Page ==
  pc \in AtCard \union {"slot"} =>
    /\ Len(page) \in Nat /\ shown \in Int /\ shown <= Len(page) /\ slot \in Nat \ {0}
    /\ \A i \in 1..Len(page) : Author[page[i]] \in Peers(who)
    /\ pc \in AtCard => slot <= shown

(* The feed events of the page: the card dealt with was shown, the sign of *)
(* interest is one, and a decision to confess comes after it.              *)
Seen(s, n) == \E j \in 1..n : trail[j] = [kind |-> "IMPRESSION", slot |-> s, applied |-> TRUE]
Trail ==
  /\ trail \in Seq(Events)
  /\ InfluenceHasExposure
  /\ pc \in AtCard => /\ Seen(slot, Len(trail)) /\ signal \in 1..Len(trail)
                      /\ trail[signal].kind \in {"IMPRESSION", "CLICK", "PROFILE_VISIT"}
  /\ pc = "clicked" => trail[Len(trail)].kind = "CLICK"
  /\ pc = "confess" => /\ trail[signal].applied /\ signal < Len(trail)
                       /\ trail[Len(trail)].kind = "DECISION"

IInv == Turn /\ Relations /\ Decided /\ Page /\ Trail

-----------------------------------------------------------------------------
(* A run begins with nothing known and nothing remembered.                 *)
LEMMA Initially == Init => IInv
<1> SUFFICES ASSUME Init PROVE IInv
  OBVIOUS
<1> USE DEF Init
<1>1. Turn
  BY DEF Turn, Places
<1>2. Relations
  BY DEF Relations, Never
<1>3. Decided
  BY DEF Decided, Pending
<1>4. Page
  BY DEF Page, AtCard
<1>5. Trail
  BY DEF Trail, InfluenceHasExposure, AtCard
<1> QED
  BY <1>1, <1>2, <1>3, <1>4, <1>5 DEF IInv

(* Never is a number, and no day.                                          *)
LEMMA NoDay == Never \in Int /\ \A d \in Nat : d # Never
BY DEF Never

(* Whoever has joined stays a member.                                      *)
LEMMA MembersStay ==
  ASSUME Turn, NEW d \in Nat, d = day \/ d = day + 1, day' = d
  PROVE Joined \subseteq Joined'
BY SocialAssumption DEF Joined, Turn

(* A command towards a classmate.                                          *)
LEMMA PeerSocial ==
  ASSUME Turn, pc \notin {"turn", "done"}, NEW t \in Peers(who)
  PROVE Social(who, t) /\ <<who, t>> \in Pairs /\ t \in Joined /\ t # Owner
BY DEF Turn, Peers, Social, Pairs, Joined

(* A follow or its end, asked for or refused.                              *)
LEMMA FollowKeeps ==
  ASSUME Turn, Relations, pc \notin {"turn", "done"}, NEW t \in Peers(who),
         Follow(t) \/ Unfollow(t) \/ NoSocial, day' = day
  PROVE Relations'
<1>1. verdict' = "OK" /\ blocks' = blocks /\ blocked' = blocked /\ since' = since
  BY PeerSocial DEF Follow, Unfollow, NoSocial, Judge, Relations, truth, mirrors
<1>2. follows' \subseteq following'
  BY DEF Follow, Unfollow, NoSocial, Relations, truth, mirrors
<1> QED
  BY <1>1, <1>2 DEF Relations, Joined

(* A block, asked for or refused.                                          *)
LEMMA BlockKeeps ==
  ASSUME Turn, Relations, pc \notin {"turn", "done"}, NEW t \in Peers(who), Block(t), day' = day
  PROVE Relations'
<1>1. CASE NoSocial
  BY <1>1, FollowKeeps
<1>2. CASE /\ blocks' = blocks \cup {<<who, t>>}
           /\ since' = [since EXCEPT ![<<who, t>>] = day]
           /\ follows' = follows \ {<<who, t>>, <<t, who>>}
           /\ blocked' = [blocked EXCEPT ![<<who, t>>] = day]
           /\ following' = following \ {<<who, t>>}
           /\ Judge(Social(who, t))
  <2>1. /\ <<who, t>> \in Pairs /\ t \in Joined /\ t # Owner /\ verdict' = "OK"
        /\ day \in Nat /\ day # Never
    BY <1>2, PeerSocial, NoDay DEF Judge, Relations, Turn
  <2>2. follows' \subseteq following'
    BY <1>2 DEF Relations
  <2>3. /\ blocked' \in [Pairs -> Int]
        /\ \A p \in Pairs : blocked'[p] = IF p = <<who, t>> THEN day ELSE blocked[p]
    BY <1>2, <2>1 DEF Relations
  <2>4. blocks' = {p \in Pairs : blocked'[p] # Never}
    BY <1>2, <2>1, <2>3 DEF Relations
  <2>5. \A p \in Pairs : blocked'[p] # Never => p[2] \in Joined' /\ p[2] # Owner
    BY <2>1, <2>3 DEF Relations, Joined
  <2>6. /\ since' \in [Pairs -> Int]
        /\ \A p \in Pairs : since'[p] = IF p = <<who, t>> THEN day ELSE since[p]
    BY <1>2, <2>1 DEF Relations
  <2>7. \A p \in blocks' : blocked'[p] = since'[p]
    BY <1>2, <2>1, <2>3, <2>6 DEF Relations
  <2> QED
    BY <2>1, <2>2, <2>3, <2>4, <2>5, <2>6, <2>7 DEF Relations
<1> QED
  BY <1>1, <1>2 DEF Block, ApplyBlock

(* Its end, asked for or refused.                                          *)
LEMMA UnblockKeeps ==
  ASSUME Turn, Relations, pc \notin {"turn", "done"}, NEW t \in Peers(who), Unblock(t), day' = day
  PROVE Relations'
<1>1. CASE NoSocial
  BY <1>1, FollowKeeps
<1>2. CASE /\ blocks' = blocks \ {<<who, t>>}
           /\ blocked' = [blocked EXCEPT ![<<who, t>>] = Never]
           /\ Judge(Social(who, t))
           /\ UNCHANGED <<follows, since, following>>
  <2>1. <<who, t>> \in Pairs /\ verdict' = "OK"
    BY <1>2, PeerSocial DEF Judge, Relations
  <2>2. /\ blocked' \in [Pairs -> Int]
        /\ \A p \in Pairs : blocked'[p] = IF p = <<who, t>> THEN Never ELSE blocked[p]
    BY <1>2, NoDay DEF Relations
  <2>3. blocks' = {p \in Pairs : blocked'[p] # Never}
    BY <1>2, <2>1, <2>2 DEF Relations
  <2>4. \A p \in blocks' : blocked'[p] = since'[p]
    BY <1>2, <2>2 DEF Relations
  <2> QED
    BY <1>2, <2>1, <2>2, <2>3, <2>4 DEF Relations, Joined
<1> QED
  BY <1>1, <1>2 DEF Unblock

-----------------------------------------------------------------------------
(* What a step that leaves a part alone keeps of it.                       *)

(* Relations do not depend on time.                                        *)
LEMMA RelationsStay ==
  ASSUME Turn, Relations, NoSocial, day' = day \/ day' = day + 1
  PROVE Relations'
<1>1. Joined \subseteq Joined'
  BY MembersStay DEF Turn
<1> QED
  BY <1>1 DEF Relations, NoSocial, truth, mirrors

(* A visit goes on.                                                        *)
LEMMA TurnGoesOn ==
  ASSUME Turn, UNCHANGED turnVars, pc \notin {"turn", "done"}, pc' \in Places,
         pc' = "forgive" => pc = "forgive"
  PROVE Turn'
BY DEF Turn, turnVars, Joined, Peers

(* The next turn, perhaps of the next day.                                 *)
LEMMA NextPersonTurn ==
  ASSUME Turn, NextPerson PROVE Turn' /\ pc' \in {"turn", "done"} /\ (day' = day \/ day' = day + 1)
BY DEF Turn, NextPerson, Places

(* A trail that is left.                                                   *)
LEMMA TrailStays ==
  ASSUME Trail, trail' = trail, pc' \notin AtCard PROVE Trail'
BY DEF Trail, AtCard, InfluenceHasExposure

(* No card is dealt with.                                                  *)
LEMMA NothingAtCard == ASSUME pc' \notin AtCard \union {"slot"} PROVE Page'
BY DEF Page

(* No decision is taken and none is to be booked.                          *)
LEMMA DecidedStays ==
  ASSUME Decided, UNCHANGED monthVars, pc # "confess", pc' # "confess" PROVE Decided'
BY DEF Decided, Pending, monthVars

-----------------------------------------------------------------------------
(* The steps outside the feed.                                             *)

(* A turn without a visit.                                                 *)
LEMMA SkipStep == IInv /\ Skip => IInv'
<1> SUFFICES ASSUME IInv, Skip PROVE IInv'
  OBVIOUS
<1>1. Turn' /\ pc' \in {"turn", "done"} /\ (day' = day \/ day' = day + 1)
  BY NextPersonTurn DEF IInv, Skip
<1>2. Page' /\ Trail' /\ Decided'
  BY <1>1, NothingAtCard, TrailStays, DecidedStays DEF Skip, IInv, AtCard, NoFeed, feedVars
<1> QED
  BY <1>1, <1>2, RelationsStay DEF IInv, Skip

(* Steps between two parts of a visit.                                     *)
LEMMA QuietStep ==
  ASSUME IInv, Begin \/ Forgiven \/ QueryRefused \/ Leave \/ NextPage \/ Close PROVE IInv'
<1>1. /\ UNCHANGED turnVars /\ NoSocial /\ NoFeed
      /\ pc' \in {"meet", "part", "direct", "leave", "query"} /\ pc \notin {"done", "confess"}
      /\ pc = "turn" => who \in Joined /\ who # Owner
  BY DEF Begin, Forgiven, QueryRefused, Leave, NextPage, Close
<1>2. Page' /\ Trail' /\ Decided'
  BY <1>1, NothingAtCard, TrailStays, DecidedStays DEF IInv, AtCard, NoFeed, feedVars
<1>3. Turn'
  BY <1>1 DEF IInv, Turn, Places, turnVars, Joined
<1> QED
  BY <1>1, <1>2, <1>3, RelationsStay DEF IInv, turnVars

(* Those to forgive are classmates who were blocked.                       *)
LEMMA MeetStep == IInv /\ Meet => IInv'
<1> SUFFICES ASSUME IInv, Meet PROVE IInv'
  OBVIOUS
<1>1. /\ pc = "meet" /\ pc' = "forgive" /\ UNCHANGED <<day, who>> /\ NoFeed
      /\ todo' = {t \in Students : t # who /\ blocked[<<who, t>>] # Never}
  BY DEF Meet
<1>2. Page' /\ Trail' /\ Decided'
  BY <1>1, NothingAtCard, TrailStays, DecidedStays DEF IInv, AtCard, NoFeed, feedVars
<1>3. Relations'
  BY <1>1, FollowKeeps, RelationsStay DEF Meet, IInv
<1>4. Turn'
  <2>1. who \in Joined /\ who # Owner
    BY <1>1 DEF IInv, Turn
  <2>2. \A t \in Students : t # who /\ blocked[<<who, t>>] # Never => t \in Peers(who)
    BY <2>1 DEF IInv, Relations, Pairs, Peers, Joined
  <2> QED
    BY <1>1, <2>1, <2>2 DEF IInv, Turn, Places, Peers, Joined
<1> QED
  BY <1>2, <1>3, <1>4 DEF IInv

(* One block more is reviewed.                                             *)
LEMMA ForgiveStep == IInv /\ Forgive => IInv'
<1> SUFFICES ASSUME IInv, Forgive PROVE IInv'
  OBVIOUS
<1>1. PICK t \in todo : /\ Unblock(t) \/ NoSocial
                        /\ todo' = todo \ {t}
  BY DEF Forgive
<1>2. pc = "forgive" /\ UNCHANGED <<pc, day, who>> /\ NoFeed /\ t \in Peers(who)
  BY <1>1 DEF Forgive, IInv, Turn
<1>3. Page' /\ Trail' /\ Decided'
  BY <1>2, NothingAtCard, TrailStays, DecidedStays DEF IInv, AtCard, NoFeed, feedVars
<1>4. Turn'
  BY <1>1, <1>2 DEF IInv, Turn, Peers, Joined
<1>5. Relations'
  BY <1>1, <1>2, UnblockKeeps, RelationsStay DEF IInv
<1> QED
  BY <1>3, <1>4, <1>5 DEF IInv

(* A friendship ends.                                                      *)
LEMMA PartStep == IInv /\ Part => IInv'
<1> SUFFICES ASSUME IInv, Part PROVE IInv'
  OBVIOUS
<1>1. pc = "part" /\ pc' = "query" /\ UNCHANGED turnVars /\ NoFeed
  BY DEF Part
<1>2. Page' /\ Trail' /\ Decided' /\ Turn'
  BY <1>1, NothingAtCard, TrailStays, DecidedStays, TurnGoesOn DEF IInv, AtCard, NoFeed, feedVars, Places
<1>3. Relations'
  BY <1>1, FollowKeeps, BlockKeeps, RelationsStay DEF Part, IInv, turnVars
<1> QED
  BY <1>2, <1>3 DEF IInv

(* The profile of a classmate.                                             *)
LEMMA DirectStep == IInv /\ Direct => IInv'
<1> SUFFICES ASSUME IInv, Direct PROVE IInv'
  OBVIOUS
<1>1. Turn' /\ pc' \in {"turn", "done"} /\ (day' = day \/ day' = day + 1)
  BY NextPersonTurn DEF IInv, Direct
<1>2. Page' /\ Decided'
  BY <1>1, NothingAtCard, DecidedStays DEF Direct, IInv, AtCard
<1>3. Trail'
  BY <1>1 DEF Direct, NoPage, Trail, AtCard, InfluenceHasExposure
<1>4. NoSocial
  BY PeerSocial DEF Direct, NoSocial, Judge, IInv, Turn, Relations, Social
<1> QED
  BY <1>1, <1>2, <1>3, <1>4, RelationsStay DEF IInv

-----------------------------------------------------------------------------
(* The feed.                                                               *)

(* An event is added behind the others.                                    *)
LEMMA Added ==
  ASSUME Trail, NEW e \in Events, trail' = Append(trail, e)
  PROVE /\ trail' \in Seq(Events) /\ Len(trail) \in Nat /\ Len(trail') = Len(trail) + 1
        /\ \A i \in 1..Len(trail) : i \in 1..Len(trail') /\ trail'[i] = trail[i]
        /\ trail'[Len(trail) + 1] = e /\ Len(trail) + 1 \in 1..Len(trail')
        /\ DOMAIN trail = 1..Len(trail) /\ DOMAIN trail' = 1..Len(trail')
BY AppendProperties, LenProperties DEF Trail

(* What was seen stays seen, and a new event that is no confession needs   *)
(* nothing seen before it.                                                 *)
LEMMA AddedHarmless ==
  ASSUME Trail, NEW e \in Events, trail' = Append(trail, e),
         e.kind = "INFLUENCED_DECISION" => Seen(e.slot, Len(trail))
  PROVE /\ InfluenceHasExposure'
        /\ \A s : Seen(s, Len(trail)) => Seen(s, Len(trail))'
<1>1. /\ Len(trail) \in Nat /\ Len(trail') = Len(trail) + 1
      /\ \A i \in 1..Len(trail) : i \in 1..Len(trail') /\ trail'[i] = trail[i]
      /\ trail'[Len(trail) + 1] = e
      /\ DOMAIN trail = 1..Len(trail) /\ DOMAIN trail' = 1..Len(trail')
  BY Added
<1>2. \A s : Seen(s, Len(trail)) => Seen(s, Len(trail))'
  BY <1>1 DEF Seen
<1>3. InfluenceHasExposure'
  <2> SUFFICES ASSUME NEW i \in 1..Len(trail'), trail'[i].kind = "INFLUENCED_DECISION"
               PROVE \E j \in 1..(i - 1) :
                       trail'[j] = [kind |-> "IMPRESSION", slot |-> trail'[i].slot, applied |-> TRUE]
    BY <1>1 DEF InfluenceHasExposure
  <2>1. CASE i \in 1..Len(trail)
    <3>1. PICK j \in 1..(i - 1) :
            trail[j] = [kind |-> "IMPRESSION", slot |-> trail[i].slot, applied |-> TRUE]
      BY <1>1, <2>1 DEF Trail, InfluenceHasExposure
    <3>2. j \in 1..Len(trail)
      BY <1>1, <2>1
    <3> QED
      BY <1>1, <2>1, <3>1, <3>2
  <2>2. CASE i \notin 1..Len(trail)
    <3>1. i = Len(trail) + 1
      BY <1>1, <2>2
    <3>2. PICK j \in 1..Len(trail) : trail[j] = [kind |-> "IMPRESSION", slot |-> e.slot, applied |-> TRUE]
      BY <1>1, <3>1 DEF Seen
    <3>3. j \in 1..(i - 1)
      BY <1>1, <3>1
    <3> QED
      BY <1>1, <3>1, <3>2, <3>3
  <2> QED
    BY <2>1, <2>2
<1> QED
  BY <1>2, <1>3

(* The event of a slot.                                                    *)
LEMMA EventOf ==
  ASSUME NEW k \in Kinds, NEW ok \in BOOLEAN, slot \in Int
  PROVE /\ [kind |-> k, slot |-> slot, applied |-> ok] \in Events
        /\ [kind |-> k, slot |-> slot, applied |-> ok].kind = k
        /\ [kind |-> k, slot |-> slot, applied |-> ok].slot = slot
BY DEF Events

(* A page shows what is accessible, the slots looked at are on it.         *)
LEMMA QueryStep == IInv /\ Query => IInv'
<1> SUFFICES ASSUME IInv, Query PROVE IInv'
  OBVIOUS
<1>1. /\ pc = "query" /\ pc' = "slot" /\ UNCHANGED turnVars /\ NoSocial /\ UNCHANGED monthVars
      /\ trail' = <<>> /\ slot' = 1
  BY DEF Query
<1>2. Turn' /\ Decided' /\ Relations'
  BY <1>1, TurnGoesOn, DecidedStays, RelationsStay DEF IInv, Places, turnVars
<1>3. Trail'
  BY <1>1 DEF Trail, InfluenceHasExposure, AtCard
<1>4. Page'
  <2>1. PICK q \in Orders(Accessible(who)), n \in {1, 2} : page' = q /\ shown' = Looked(q, n)
    BY DEF Query
  <2>2. PICK k \in Nat : q \in [1..k -> Accessible(who)]
    BY <2>1, SocialAssumption DEF Orders
  <2>3. Len(q) = k /\ \A i \in 1..k : q[i] \in Accessible(who)
    BY <2>2
  <2>4. shown' \in Int /\ shown' <= Len(page')
    BY <2>1, <2>3 DEF Looked
  <2>5. \A i \in 1..Len(page') : Author[page'[i]] \in Peers(who)'
    BY <1>1, <2>1, <2>3 DEF Accessible, Peers, Joined, turnVars
  <2> QED
    BY <1>1, <2>1, <2>3, <2>4, <2>5 DEF Page, AtCard
<1> QED
  BY <1>2, <1>3, <1>4 DEF IInv

(* Within a page, where no relation changes, only the trail does.          *)
LEMMA StillOnPage ==
  ASSUME IInv, UNCHANGED turnVars, NoSocial, UNCHANGED pageVars,
         pc \in AtCard \union {"slot"},
         \/ /\ pc' \in AtCard \union {"slot"} /\ slot' \in Nat \ {0}
            /\ pc' \in AtCard => slot' <= shown
         \/ pc' = "leave"
  PROVE Turn' /\ Relations' /\ Page'
<1>1. Turn'
  BY TurnGoesOn DEF IInv, AtCard, Places
<1>2. Relations'
  BY RelationsStay DEF IInv, turnVars
<1>3. Page'
  BY DEF IInv, Page, AtCard, pageVars, turnVars, Peers, Joined
<1> QED
  BY <1>1, <1>2, <1>3

(* The same where no decision is taken or booked.                          *)
LEMMA WithinPage ==
  ASSUME IInv, UNCHANGED turnVars, NoSocial, UNCHANGED pageVars, UNCHANGED monthVars,
         pc \in AtCard \union {"slot"}, pc # "confess", pc' # "confess",
         \/ /\ pc' \in AtCard \union {"slot"} /\ slot' \in Nat \ {0}
            /\ pc' \in AtCard => slot' <= shown
         \/ pc' = "leave"
  PROVE Turn' /\ Relations' /\ Decided' /\ Page'
BY StillOnPage, DecidedStays DEF IInv

(* The slot is that of a card shown.                                       *)
LEMMA SlotOfCard ==
  ASSUME IInv, pc \in AtCard \union {"slot"}
  PROVE slot \in Nat \ {0} /\ slot \in Int /\ slot + 1 \in Nat \ {0} /\ (pc \in AtCard => slot <= shown)
BY DEF IInv, Page

(* What is looked at was seen.                                             *)
LEMMA ImpressionStep == IInv /\ Impression => IInv'
<1> SUFFICES ASSUME IInv, Impression PROVE IInv'
  OBVIOUS
<1> DEFINE e == [kind |-> "IMPRESSION", slot |-> slot, applied |-> TRUE]
<1>1. /\ pc = "slot" /\ pc' = "click" /\ slot' = slot /\ slot <= shown /\ signal' = Len(trail) + 1
      /\ trail' = Append(trail, e)
      /\ UNCHANGED turnVars /\ NoSocial /\ UNCHANGED pageVars /\ UNCHANGED monthVars
  BY DEF Impression, Emitted
<1>2. Turn' /\ Relations' /\ Decided' /\ Page'
  BY <1>1, WithinPage, SlotOfCard DEF AtCard
<1>3. e \in Events /\ e.kind = "IMPRESSION"
  BY <1>1, SlotOfCard, EventOf DEF Kinds
<1>4. /\ trail' \in Seq(Events) /\ Len(trail) \in Nat /\ Len(trail') = Len(trail) + 1
      /\ trail'[Len(trail) + 1] = e /\ Len(trail) + 1 \in 1..Len(trail')
  BY <1>1, <1>3, Added DEF IInv
<1>5. InfluenceHasExposure'
  BY <1>1, <1>3, AddedHarmless DEF IInv
<1>6. Trail'
  BY <1>1, <1>3, <1>4, <1>5 DEF Trail, Seen
<1> QED
  BY <1>2, <1>6 DEF IInv

(* An exposure that is refused, a click by no exposure.                    *)
LEMMA RefusedStep == IInv /\ (ImpressionRefused \/ Unmatched) => IInv'
<1> SUFFICES ASSUME IInv, ImpressionRefused \/ Unmatched PROVE IInv'
  OBVIOUS
<1>1. PICK k \in {"IMPRESSION", "CLICK"}, ok \in BOOLEAN :
        trail' = Append(trail, [kind |-> k, slot |-> slot, applied |-> ok])
  BY DEF ImpressionRefused, Unmatched, Emitted
<1>2. /\ pc = "slot" /\ ((pc' = "slot" /\ slot' = slot + 1) \/ pc' = "leave")
      /\ UNCHANGED turnVars /\ NoSocial /\ UNCHANGED pageVars /\ UNCHANGED monthVars
  BY DEF ImpressionRefused, Unmatched
<1>3. Turn' /\ Relations' /\ Decided' /\ Page'
  BY <1>2, WithinPage, SlotOfCard DEF AtCard
<1> DEFINE e == [kind |-> k, slot |-> slot, applied |-> ok]
<1>4. e \in Events /\ e.kind # "INFLUENCED_DECISION"
  BY <1>2, SlotOfCard, EventOf DEF Kinds
<1>5. trail' \in Seq(Events) /\ InfluenceHasExposure'
  BY <1>1, <1>4, Added, AddedHarmless DEF IInv
<1> QED
  BY <1>2, <1>3, <1>5 DEF IInv, Trail, AtCard

(* A sign of interest that was given keeps what was seen.                  *)
LEMMA SignKept ==
  ASSUME IInv, pc \in AtCard, NEW k \in Kinds \ {"INFLUENCED_DECISION"}, NEW ok \in BOOLEAN,
         trail' = Append(trail, [kind |-> k, slot |-> slot, applied |-> ok]), slot' = slot
  PROVE /\ trail' \in Seq(Events) /\ InfluenceHasExposure' /\ Seen(slot, Len(trail))'
        /\ Len(trail) \in Nat /\ Len(trail') = Len(trail) + 1
        /\ \A i \in 1..Len(trail) : i \in 1..Len(trail') /\ trail'[i] = trail[i]
        /\ Len(trail') \in 1..Len(trail') /\ trail'[Len(trail')].kind = k
<1> DEFINE e == [kind |-> k, slot |-> slot, applied |-> ok]
<1>1. e \in Events /\ e.kind = k
  BY SlotOfCard, EventOf
<1>2. InfluenceHasExposure' /\ Seen(slot, Len(trail))'
  BY <1>1, AddedHarmless DEF IInv, Trail, Seen
<1>3. /\ trail' \in Seq(Events) /\ Len(trail) \in Nat /\ Len(trail') = Len(trail) + 1
      /\ \A i \in 1..Len(trail) : i \in 1..Len(trail') /\ trail'[i] = trail[i]
      /\ trail'[Len(trail) + 1] = e /\ Len(trail) + 1 \in 1..Len(trail')
  BY <1>1, Added DEF IInv
<1> QED
  BY <1>1, <1>2, <1>3

(* A click leaves what was seen.                                           *)
LEMMA ClickStep == IInv /\ Click => IInv'
<1> SUFFICES ASSUME IInv, Click PROVE IInv'
  OBVIOUS
<1>1. /\ pc = "click" /\ pc' \in {"clicked", "influence"} /\ slot' = slot /\ signal' = signal
      /\ UNCHANGED turnVars /\ NoSocial /\ UNCHANGED pageVars /\ UNCHANGED monthVars
  BY DEF Click
<1>2. Turn' /\ Relations' /\ Decided' /\ Page'
  BY <1>1, WithinPage, SlotOfCard DEF AtCard
<1> SUFFICES Trail'
  BY <1>2 DEF IInv
<1>3. CASE trail' = trail /\ pc' = "influence"
  BY <1>1, <1>3 DEF IInv, Trail, AtCard, Seen, InfluenceHasExposure
<1>4. CASE \E ok \in BOOLEAN : Emitted("CLICK", ok)
  <2>1. PICK ok \in BOOLEAN : trail' = Append(trail, [kind |-> "CLICK", slot |-> slot, applied |-> ok])
    BY <1>4 DEF Emitted
  <2>2. /\ trail' \in Seq(Events) /\ InfluenceHasExposure' /\ Seen(slot, Len(trail))'
        /\ \A i \in 1..Len(trail) : i \in 1..Len(trail') /\ trail'[i] = trail[i]
        /\ trail'[Len(trail')].kind = "CLICK"
    BY <1>1, <2>1, SignKept DEF Kinds, AtCard
  <2>3. signal \in 1..Len(trail) /\ trail[signal].kind \in {"IMPRESSION", "CLICK", "PROFILE_VISIT"}
    BY <1>1 DEF IInv, Trail, AtCard
  <2> QED
    BY <1>1, <2>2, <2>3 DEF Trail
<1> QED
  BY <1>3, <1>4 DEF Click

(* A visit is a sign of interest.                                          *)
LEMMA VisitStep == IInv /\ Visit => IInv'
<1> SUFFICES ASSUME IInv, Visit PROVE IInv'
  OBVIOUS
<1>1. /\ pc = "clicked" /\ pc' = "befriend" /\ slot' = slot
      /\ UNCHANGED turnVars /\ NoSocial /\ UNCHANGED pageVars /\ UNCHANGED monthVars
  BY DEF Visit
<1>2. Turn' /\ Relations' /\ Decided' /\ Page'
  BY <1>1, WithinPage, SlotOfCard DEF AtCard
<1> SUFFICES Trail'
  BY <1>2 DEF IInv
<1>3. CASE trail' = trail /\ signal' = Len(trail)
  <2>1. Len(trail) \in 1..Len(trail) /\ trail[Len(trail)].kind = "CLICK"
    BY <1>1, LenProperties DEF IInv, Trail, AtCard
  <2> QED
    BY <1>1, <1>3, <2>1 DEF IInv, Trail, AtCard, Seen, InfluenceHasExposure
<1>4. CASE (\E ok \in BOOLEAN : Emitted("PROFILE_VISIT", ok)) /\ signal' = Len(trail) + 1
  <2>1. PICK ok \in BOOLEAN : trail' = Append(trail, [kind |-> "PROFILE_VISIT", slot |-> slot, applied |-> ok])
    BY <1>4 DEF Emitted
  <2>2. /\ trail' \in Seq(Events) /\ InfluenceHasExposure' /\ Seen(slot, Len(trail))'
        /\ Len(trail') = Len(trail) + 1
        /\ Len(trail') \in 1..Len(trail') /\ trail'[Len(trail')].kind = "PROFILE_VISIT"
    BY <1>1, <2>1, SignKept DEF Kinds, AtCard
  <2> QED
    BY <1>1, <1>4, <2>2 DEF Trail
<1> QED
  BY <1>3, <1>4 DEF Visit

(* Authors are classmates.                                                 *)
LEMMA BefriendStep == IInv /\ Befriend => IInv'
<1> SUFFICES ASSUME IInv, Befriend PROVE IInv'
  OBVIOUS
<1> DEFINE author == Author[page[slot]]
<1>1. /\ pc = "befriend" /\ pc' = "influence" /\ UNCHANGED turnVars /\ NoFeed
      /\ Follow(author) \/ NoSocial
  BY DEF Befriend
<1>2. author \in Peers(who) /\ slot \in Nat \ {0} /\ slot <= shown
  BY <1>1 DEF IInv, Page, AtCard
<1>3. Relations'
  BY <1>1, <1>2, FollowKeeps, RelationsStay DEF IInv, turnVars
<1>4. Turn' /\ Decided'
  BY <1>1, TurnGoesOn, DecidedStays DEF IInv, Places, NoFeed
<1>5. Page'
  BY <1>1 DEF IInv, Page, AtCard, NoFeed, feedVars, pageVars, turnVars, Peers, Joined
<1>6. Trail'
  BY <1>1 DEF IInv, Trail, AtCard, NoFeed, feedVars, Seen, InfluenceHasExposure
<1> QED
  BY <1>3, <1>4, <1>5, <1>6 DEF IInv

(* A counter is counted up, if there is one.                               *)
LEMMA CountedUp ==
  ASSUME NEW D, NEW f \in [D -> Nat], NEW a
  PROVE [f EXCEPT ![a] = @ + 1] \in [D -> Nat]
<1>1. CASE a \in D
  <2>1. f[a] + 1 \in Nat
    BY <1>1
  <2> QED
    BY <2>1
<1>2. CASE a \notin D
  BY <1>2
<1> QED
  BY <1>1, <1>2

(* The first decision of the month.                                        *)
LEMMA InfluenceStep == IInv /\ Influence => IInv'
<1> SUFFICES ASSUME IInv, Influence PROVE IInv'
  OBVIOUS
<1> DEFINE now == <<who, Month(day)>>
<1>1. /\ pc = "influence" /\ pc' = "confess" /\ slot' = slot /\ signal' = signal /\ Applied
      /\ now \notin influenced /\ influenced' = influenced
      /\ decisions' = [decisions EXCEPT ![now] = @ + 1]
      /\ UNCHANGED turnVars /\ NoSocial /\ UNCHANGED pageVars
  BY DEF Influence, Available
<1>2. PICK ok \in BOOLEAN : trail' = Append(trail, [kind |-> "DECISION", slot |-> slot, applied |-> ok])
  BY DEF Influence, Emitted
<1>3. Turn' /\ Relations'
  BY <1>1, TurnGoesOn, RelationsStay DEF IInv, Places, turnVars
<1>4. Page'
  BY <1>1 DEF IInv, Page, AtCard, pageVars, turnVars, Peers, Joined
<1>5. Decided'
  <2>1. \A x \in Students \X Months :
          decisions'[x] = IF x = now THEN decisions[x] + 1 ELSE decisions[x]
    BY <1>1 DEF IInv, Decided
  <2>2. decisions' \in [Students \X Months -> Nat]
    BY <1>1, CountedUp DEF IInv, Decided
  <2> QED
    BY <1>1, <2>1, <2>2 DEF IInv, Decided, Pending, turnVars
<1>6. Trail'
  <2>1. /\ trail' \in Seq(Events) /\ InfluenceHasExposure' /\ Seen(slot, Len(trail))'
        /\ Len(trail) \in Nat /\ Len(trail') = Len(trail) + 1
        /\ \A i \in 1..Len(trail) : i \in 1..Len(trail') /\ trail'[i] = trail[i]
        /\ trail'[Len(trail')].kind = "DECISION"
    BY <1>1, <1>2, SignKept DEF Kinds, AtCard
  <2>2. /\ signal \in 1..Len(trail) /\ trail[signal].kind \in {"IMPRESSION", "CLICK", "PROFILE_VISIT"}
        /\ trail[signal].applied
    BY <1>1 DEF IInv, Trail, AtCard, Applied
  <2>3. signal < Len(trail')
    BY <2>1, <2>2
  <2> QED
    BY <1>1, <2>1, <2>2, <2>3 DEF Trail
<1> QED
  BY <1>3, <1>4, <1>5, <1>6 DEF IInv

(* No decision.                                                            *)
LEMMA UnmovedStep == IInv /\ Unmoved => IInv'
<1> SUFFICES ASSUME IInv, Unmoved PROVE IInv'
  OBVIOUS
<1>1. /\ pc = "influence" /\ pc' = "slot" /\ slot' = slot + 1 /\ trail' = trail
      /\ UNCHANGED turnVars /\ NoSocial /\ UNCHANGED pageVars /\ UNCHANGED monthVars
  BY DEF Unmoved, NextSlot
<1>2. Turn' /\ Relations' /\ Decided' /\ Page'
  BY <1>1, WithinPage, SlotOfCard DEF AtCard
<1>3. Trail'
  BY <1>1, TrailStays DEF IInv, AtCard
<1> QED
  BY <1>2, <1>3 DEF IInv

(* The confession names a sign of interest that came before the decision.  *)
LEMMA ConfessStep == IInv /\ Confess => IInv'
<1> SUFFICES ASSUME IInv, Confess PROVE IInv'
  OBVIOUS
<1>1. /\ pc = "confess" /\ pc' = "slot" /\ slot' = slot + 1
      /\ UNCHANGED <<truth, mirrors>> /\ UNCHANGED turnVars /\ UNCHANGED pageVars
      /\ decisions' = decisions /\ influenced' = influenced \cup {<<who, Month(day)>>}
  BY DEF Confess, NextSlot, Booked
<1>2. PICK ok \in BOOLEAN :
        /\ trail' = Append(trail, [kind |-> "INFLUENCED_DECISION", slot |-> slot, applied |-> ok])
        /\ Judge(ok => OracleInfluence(signal, Len(trail)))
  BY DEF Confess, Emitted
<1>3. OracleInfluence(signal, Len(trail))
  <2>1. /\ Len(trail) \in Nat /\ DOMAIN trail = 1..Len(trail) /\ signal \in 1..Len(trail)
        /\ trail[signal].kind \in {"IMPRESSION", "CLICK", "PROFILE_VISIT"} /\ trail[signal].applied
        /\ signal < Len(trail) /\ trail[Len(trail)].kind = "DECISION"
    BY <1>1, LenProperties DEF IInv, Trail, AtCard
  <2> QED
    BY <2>1 DEF OracleInfluence
<1>4. NoSocial
  BY <1>1, <1>2, <1>3 DEF NoSocial, Judge
<1>5. Turn' /\ Relations' /\ Page'
  BY <1>1, <1>4, StillOnPage, SlotOfCard DEF AtCard
<1>7. Decided'
  BY <1>1 DEF IInv, Decided, Pending
<1>6. Trail'
  <2> DEFINE e == [kind |-> "INFLUENCED_DECISION", slot |-> slot, applied |-> ok]
  <2>1. e \in Events /\ e.slot = slot
    BY <1>1, SlotOfCard, EventOf DEF Kinds, AtCard
  <2>2. Seen(slot, Len(trail))
    BY <1>1 DEF IInv, Trail, AtCard
  <2>3. trail' \in Seq(Events) /\ InfluenceHasExposure'
    BY <1>2, <2>1, <2>2, Added, AddedHarmless DEF IInv
  <2> QED
    BY <1>1, <2>3 DEF Trail, AtCard
<1> QED
  BY <1>5, <1>6, <1>7 DEF IInv

-----------------------------------------------------------------------------
(* Every step of a visit keeps the invariant.                              *)
LEMMA Inductive == IInv /\ [Next]_vars => IInv'
<1> SUFFICES ASSUME IInv, [Next]_vars PROVE IInv'
  OBVIOUS
<1>1. CASE UNCHANGED vars
  <2>1. UNCHANGED <<follows, blocks, verdict, following, blocked, influenced, decisions, day, who, todo, pc>>
        /\ UNCHANGED <<page, more, pages, shown, slot, trail, signal>>
        /\ UNCHANGED since
    BY <1>1 DEF vars, truth, mirrors, monthVars, turnVars, feedVars, pageVars
  <2>2. Turn' /\ Relations' /\ Decided'
    BY <2>1 DEF IInv, Turn, Relations, Decided, Pending, Peers, Joined
  <2>3. Page' /\ Trail'
    BY <2>1 DEF IInv, Page, Trail, InfluenceHasExposure, Seen, Peers, Joined
  <2> QED
    BY <2>2, <2>3 DEF IInv
<1>2. CASE Next /\ ~UNCHANGED vars
  BY <1>2, SkipStep, QuietStep, MeetStep, ForgiveStep, PartStep, QueryStep, ImpressionStep, RefusedStep,
     ClickStep, VisitStep, BefriendStep, InfluenceStep, UnmovedStep, ConfessStep, DirectStep
     DEF Next, Finished
<1> QED
  BY <1>1, <1>2

(* The invariant holds over any number of visits.                          *)
THEOREM Invariance == Spec => []IInv
<1>1. Init => IInv
  BY Initially
<1>2. IInv /\ [Next]_vars => IInv'
  BY Inductive
<1> QED
  BY <1>1, <1>2, PTL DEF Spec

(* The oracle accepts every social command and confession, whatever is     *)
(* refused (validate.py:111-116, 212-218).                                 *)
THEOREM SocialLawful == Spec => []SocialAccepted
<1>1. IInv => SocialAccepted
  BY DEF IInv, Relations, SocialAccepted
<1> QED
  BY <1>1, Invariance, PTL

(* No follow is forgotten and blocks are known exactly (the mirrors that   *)
(* emit() keeps).                                                          *)
THEOREM MirrorsCover == Spec => []MirrorCovers
<1>1. IInv => MirrorCovers
  BY DEF IInv, Relations, MirrorCovers
<1> QED
  BY <1>1, Invariance, PTL

(* The feed moves a student to one decision a month, applied or refused,   *)
(* although its month is only booked after it (influence()).               *)
THEOREM MonthlyDecision == Spec => []OnceAMonth
<1>1. IInv => OnceAMonth
  BY DEF IInv, Decided, OnceAMonth
<1> QED
  BY <1>1, Invariance, PTL

(* What the feed is credited with was seen (feed(), influence()).          *)
THEOREM ExposureFirst == Spec => []InfluenceHasExposure
<1>1. IInv => InfluenceHasExposure
  BY DEF IInv, Trail
<1> QED
  BY <1>1, Invariance, PTL

(* A block is lifted by the one who set it, and not before UnblockAge days *)
(* after the backend last applied it (emit(), visit()).                    *)
THEOREM BlocksKept == Spec => BlocksLast
<1> DEFINE Lifted == \A p \in blocks \ blocks' : p[1] = who /\ day - since[p] >= UnblockAge
<1>1. IInv /\ [Next]_vars => [Lifted]_vars
  <2> SUFFICES ASSUME IInv, Next, NEW p \in blocks, p \notin blocks'
               PROVE p[1] = who /\ day - since[p] >= UnblockAge
    OBVIOUS
  <2>1. ~UNCHANGED blocks
    OBVIOUS
  <2>2. Forgive
    BY <2>1 DEF Next, Skip, Begin, Finished, Meet, Forgiven, Part, Query, QueryRefused, Impression,
       ImpressionRefused, Click, Visit, Befriend, Influence, Unmoved, Confess, Unmatched, Leave,
       NextPage, Close, Direct, NoSocial, Follow, Unfollow, Block, ApplyBlock, truth, vars
  <2>3. PICK t \in todo : OldBlock(t) /\ Unblock(t)
    BY <2>1, <2>2 DEF Forgive, NoSocial, truth
  <2>4. p = <<who, t>>
    BY <2>1, <2>3 DEF Unblock, NoSocial, truth
  <2>5. blocked[p] = since[p]
    BY DEF IInv, Relations
  <2> QED
    BY <2>3, <2>4, <2>5 DEF OldBlock
<1> QED
  BY <1>1, Invariance, PTL DEF Spec, BlocksLast
=============================================================================
