------------------------- MODULE AuthorizationProofs -------------------------
(***************************************************************************)
(* For every set of sites, users, types and rows, and every threshold: the *)
(* decision of authorizeIdTag is the one it is meant to be, and repeated   *)
(* rejections are told about once.                                         *)
(***************************************************************************)
EXTENDS Authorization, TLAPS

\* authorizeIdTag and the reference agree in every table of the right shape:
\* the early returns are the conjuncts of MayCharge, taken one by one.
LEMMA Decision ==
  ASSUME NEW site \in Sites, NEW type \in Types \cup {NoType}
  PROVE  authorizeIdTag(site, type) = "Accepted" <=> MayCharge(site, type)
<1> DEFINE row == getIdTagByTag(site)
<1>1. site # NoSite /\ site \in Places /\ NoSite \in Places
  BY AuthorizationAssumption DEF Places
<1>2. row = IF idTags[site] # NoRow THEN idTags[site] ELSE idTags[NoSite]
  BY <1>1 DEF getIdTagByTag
<1> DEFINE good == /\ row # NoRow
                   /\ row.active
                   /\ ~row.expired
                   /\ row.type \in {type, NoType} \/ type = NoType
                   /\ row.user # NoUser => userSites[row.user][site] = "authorized"
<1>3. authorizeIdTag(site, type) = "Accepted" <=> good
  BY <1>1 DEF authorizeIdTag
<1>4. CASE idTags[site] # NoRow
  <2>1. \A p \in Places : Counts(p, site) <=> p = site
    BY <1>1, <1>4 DEF Counts
  <2>2. MayCharge(site, type) <=> good
    BY <1>1, <1>2, <1>4, <2>1 DEF MayCharge
  <2> QED BY <1>3, <2>2
<1>5. CASE idTags[site] = NoRow
  <2>1. \A p \in Places : Counts(p, site) <=> p = NoSite /\ idTags[NoSite] # NoRow
    BY <1>1, <1>5 DEF Counts
  <2>2. MayCharge(site, type) <=> good
    BY <1>1, <1>2, <1>5, <2>1 DEF MayCharge
  <2> QED BY <1>3, <2>2
<1> QED BY <1>4, <1>5

\* Whatever managers did before, authorizeIdTag accepts a tag at a site if and
\* only if the row that counts there is in order and its user may charge there.
THEOREM VerdictIsAlwaysRight == Spec => []VerdictIsRight
<1>1. VerdictIsRight
  BY Decision DEF VerdictIsRight
<1> QED BY <1>1, PTL

-----------------------------------------------------------------------------

\* What a rejection leaves of the counts with any threshold: with 1, no
\* rejection is ever told about.
CountsFit ==
  /\ rejections \in 0 .. Threshold + 1
  /\ told = IF Threshold >= 2 /\ rejections >= Threshold THEN 1 ELSE 0

\* A rejection counts, and tells exactly at the threshold.
LEMMA RejectionFits ==
  ASSUME CountsFit, trackRepeatedAuthReject
  PROVE  CountsFit'
<1>1. Threshold \in Nat \ {0}
  BY AuthorizationAssumption
<1>2. CASE rejections > Threshold
  BY <1>1, <1>2 DEF trackRepeatedAuthReject, Notifies, CountsFit
<1>3. CASE rejections <= Threshold
  <2>1. rejections' = rejections + 1
    BY <1>1, <1>3 DEF trackRepeatedAuthReject, CountsFit
  <2>2. told' = IF rejections # 0 /\ rejections + 1 = Threshold THEN told + 1 ELSE told
    BY <1>1, <1>3 DEF trackRepeatedAuthReject, Notifies, CountsFit
  <2> QED BY <1>1, <1>3, <2>1, <2>2 DEF CountsFit
<1> QED BY <1>1, <1>2, <1>3 DEF CountsFit

\* The two tables hold rows and links whatever managers write into them and
\* whoever is deleted.
TablesFit ==
  /\ idTags \in [Places -> IdTag \cup {NoRow}]
  /\ userSites \in [Users -> [Sites -> Link]]

\* A row that loses its user, or reaches its date, is still a row.
LEMMA RowStaysRow ==
  ASSUME NEW row \in IdTag
  PROVE  /\ [row EXCEPT !.user = NoUser] \in IdTag
         /\ [row EXCEPT !.expired = TRUE] \in IdTag
BY DEF IdTag

\* No request of a manager, and no deletion, leaves anything but rows and links.
LEMMA TablesStay ==
  ASSUME TablesFit, Next
  PROVE  TablesFit'
<1> USE DEF TablesFit
<1>0. Written \subseteq IdTag /\ NoRow \notin IdTag /\ NoSite \in Places /\ Sites \subseteq Places
  BY AuthorizationAssumption DEF Places
<1>1. CASE UNCHANGED <<idTags, userSites>>
  BY <1>1
<1>2. ASSUME NEW p \in Places, NEW row \in Written, PostIdTag(p, row)
      PROVE  TablesFit'
  BY <1>0, <1>2 DEF PostIdTag, createIdTag
<1>3. ASSUME NEW p \in Places, NEW to \in Places, NEW row \in Written, PutIdTag(p, to, row)
      PROVE  TablesFit'
  BY <1>0, <1>3 DEF PutIdTag, updateIdTag
<1>4. ASSUME NEW p \in Places, DropIdTag(p) PROVE TablesFit'
  BY <1>4 DEF DropIdTag, deleteIdTag
<1>5. ASSUME NEW p \in Places, Expires(p) PROVE TablesFit'
  <2>1. [idTags[p] EXCEPT !.expired = TRUE] \in IdTag
    BY <1>5, RowStaysRow DEF Expires
  <2> QED BY <1>5, <2>1 DEF Expires, createIdTag
<1>6. ASSUME NEW u \in Users, NEW s \in Sites, NEW link \in Link,
             setUserSite(u, s, link), UNCHANGED idTags
      PROVE  TablesFit'
  BY <1>6 DEF setUserSite
<1>7. ASSUME NEW u \in Users, NEW sites \in [Sites -> Link], SetUserSites(u, sites)
      PROVE  TablesFit'
  BY <1>7 DEF SetUserSites
<1>8. ASSUME NEW u \in Users, DeleteUser(u) PROVE TablesFit'
  <2>1. [s \in Sites |-> "none"] \in [Sites -> Link]
    BY DEF Link
  <2>2. userSites' \in [Users -> [Sites -> Link]]
    BY <1>8, <2>1 DEF DeleteUser
  <2>3. ASSUME NEW p \in Places
        PROVE  (IF idTags[p] # NoRow /\ idTags[p].user = u
                THEN [idTags[p] EXCEPT !.user = NoUser] ELSE idTags[p]) \in IdTag \cup {NoRow}
    BY <2>3, RowStaysRow
  <2> QED BY <1>8, <2>2, <2>3 DEF DeleteUser
<1>9. ASSUME NEW s \in Sites, DeleteSite(s) PROVE TablesFit'
  <2>1. userSites' \in [Users -> [Sites -> Link]]
    BY <1>9 DEF DeleteSite, Link
  <2>2. idTags' \in [Places -> IdTag \cup {NoRow}]
    BY <1>0, <1>9 DEF DeleteSite
  <2> QED BY <2>1, <2>2
<1>10. ASSUME NEW u \in Users, NEW s \in Sites,
              \/ AddUserToSite(u, s)
              \/ \E authorized \in BOOLEAN : SetUserSiteAuthorized(u, s, authorized)
              \/ RemoveUserFromSite(u, s)
       PROVE  TablesFit'
  <2>1. {"none", "suspended", "authorized"} \subseteq Link
    BY DEF Link
  <2>2. \E link \in Link : setUserSite(u, s, link) /\ UNCHANGED idTags
    BY <1>10, <2>1 DEF AddUserToSite, SetUserSiteAuthorized, RemoveUserFromSite
  <2> QED BY <2>2, <1>6
<1> QED
  BY <1>1, <1>2, <1>3, <1>4, <1>5, <1>7, <1>8, <1>9, <1>10
     DEF Next, Authorize16, Authorize201, Rejected, WindowEnds

\* What TablesFit and CountsFit say holds throughout.
LEMMA Fits == Spec => [](TablesFit /\ CountsFit)
<1>1. Init => TablesFit /\ CountsFit
  BY AuthorizationAssumption DEF Init, TablesFit, CountsFit, Link
<1>2. TablesFit /\ CountsFit /\ [Next]_vars => TablesFit' /\ CountsFit'
  <2> SUFFICES ASSUME TablesFit, CountsFit, [Next]_vars PROVE TablesFit' /\ CountsFit'
    OBVIOUS
  <2>1. CASE UNCHANGED vars
    BY <2>1 DEF vars, TablesFit, CountsFit
  <2>2. CASE Next
    <3>1. TablesFit'
      BY <2>2, TablesStay
    <3>2. CountsFit'
      <4>1. CASE trackRepeatedAuthReject
        BY <4>1, RejectionFits
      <4>2. CASE WindowEnds
        BY <4>2, AuthorizationAssumption DEF WindowEnds, CountsFit
      <4>3. CASE UNCHANGED <<rejections, told>>
        BY <4>3 DEF CountsFit
      <4> QED
        BY <2>2, <4>1, <4>2, <4>3
           DEF Next, Authorize16, Authorize201, Rejected, PostIdTag, PutIdTag, DropIdTag, Expires,
               AddUserToSite, SetUserSiteAuthorized, RemoveUserFromSite, SetUserSites, DeleteUser,
               DeleteSite
    <3> QED BY <3>1, <3>2
  <2> QED BY <2>1, <2>2
<1> QED BY <1>1, <1>2, PTL DEF Spec

\* The tables, the count and the notices hold values of their kinds, and no
\* window is told about twice (trackRepeatedAuthReject).
THEOREM TypeCorrect == Spec => []TypeOK
<1>1. TablesFit /\ CountsFit => TypeOK
  BY AuthorizationAssumption DEF TablesFit, CountsFit, TypeOK
<1> QED BY <1>1, Fits, PTL

\* With a threshold of at least 2, a tag is told about once in a window, at the
\* rejection that reaches the threshold, wherever its rejections came from.
THEOREM RepeatsAreAlwaysTold == Spec => []RepeatsAreTold
<1>1. CountsFit => RepeatsAreTold
  BY AuthorizationAssumption DEF CountsFit, RepeatsAreTold
<1> QED BY <1>1, Fits, PTL
=============================================================================
