---------------------------- MODULE Authorization ----------------------------
(***************************************************************************)
(* Whether a tag may charge at a site, what managers change about it, and  *)
(* the count of its rejections.  The tag has at most one row per site and  *)
(* one for all sites in id_tags (UNIQUE (id_tag, COALESCE(site_id, 0))); a *)
(* row may be a user's, who must then be authorized at the site in         *)
(* user_sites.                                                             *)
(***************************************************************************)
EXTENDS Naturals

CONSTANTS Sites, NoSite,  \* NoSite: the site_id of a tag, or charge point, without one
          Users, NoUser,
          Types, NoType,  \* token types; NoType: the caller, or the row, names none
          NoRow,
          Written,        \* bound: the rows that managers write
          Threshold       \* authRejectThreshold

\* expired: expiry_date is in the past.
IdTag == [active : BOOLEAN, expired : BOOLEAN, type : Types \cup {NoType}, user : Users \cup {NoUser}]

ASSUME AuthorizationAssumption ==
  /\ NoSite \notin Sites
  /\ NoUser \notin Users
  /\ NoType \notin Types
  /\ NoRow \notin IdTag
  /\ Written \subseteq IdTag
  /\ Threshold \in Nat \ {0}

VARIABLES idTags,      \* the rows of the tag, by site
          userSites,   \* the rows of user_sites
          rejections,  \* its count in authRejectTracker, 0 once the window is over
          told         \* repeated_auth_rejected notifications of the window

vars == <<idTags, userSites, rejections, told>>

Places == Sites \cup {NoSite}
Link == {"none", "suspended", "authorized"}

Init ==
  /\ idTags = [p \in Places |-> NoRow]
  /\ userSites = [u \in Users |-> [s \in Sites |-> "none"]]
  /\ rejections = 0
  /\ told = 0

-----------------------------------------------------------------------------
(* The decision.                                                           *)

\* Mutant: ORDER BY site_id, which puts the row of all sites first.
RowOfAllSitesFirst(site) ==
  IF idTags[NoSite] # NoRow THEN idTags[NoSite] ELSE idTags[site]

\* getIdTagByTag: the row of the site before the one of all sites (ORDER BY
\* site_id DESC).  A charge point without a site takes whichever row there is.
getIdTagByTag(site) ==
  LET found == {p \in Places : idTags[p] # NoRow} IN
  IF site # NoSite THEN IF idTags[site] # NoRow THEN idTags[site] ELSE idTags[NoSite]
  ELSE IF found = {} THEN NoRow ELSE idTags[CHOOSE p \in found : TRUE]

\* authorizeIdTag.  The row is never one of another site, so that its
\* 'wrong_site' is never the answer.
authorizeIdTag(site, type) ==
  LET row == getIdTagByTag(site) IN
  IF row = NoRow THEN "Invalid"
  ELSE IF NoType \notin {type, row.type} /\ type # row.type THEN "Invalid"
  ELSE IF ~row.active THEN "Blocked"
  ELSE IF row.expired THEN "Expired"
  ELSE IF row.user # NoUser /\ site # NoSite /\ userSites[row.user][site] # "authorized" THEN "Blocked"
  ELSE "Accepted"

-----------------------------------------------------------------------------
(* Rejections.                                                             *)

\* Mutant: from the threshold on, every rejection notifies.
NotifiesFrom(count) == count >= Threshold

\* tracker.count === AUTH_REJECT_THRESHOLD
Notifies(count) == count = Threshold

\* trackRepeatedAuthReject, which counts by tag whichever charge point rejects.
\* The rejection that opens a window notifies nobody.  Counts above Threshold
\* are not told apart.
trackRepeatedAuthReject ==
  LET count == IF rejections > Threshold THEN rejections ELSE rejections + 1 IN
  /\ rejections' = count
  /\ told' = IF rejections # 0 /\ Notifies(count) THEN told + 1 ELSE told

Rejected(site, type) ==
  /\ authorizeIdTag(site, type) # "Accepted"
  /\ trackRepeatedAuthReject
  /\ UNCHANGED <<idTags, userSites>>

\* The Authorize of a charge point of the site; only 2.0.1 names a type.  In
\* free mode the answer is Accepted, and nothing is counted.
Authorize16(site) == Rejected(site, NoType)
Authorize201(site) == \E type \in Types \cup {NoType} : Rejected(site, type)

\* The next rejection, or the purge of a map of more than 50 entries, finds the
\* entry older than authRejectWindowMinutes.
WindowEnds ==
  /\ rejections > 0
  /\ rejections' = 0
  /\ told' = 0
  /\ UNCHANGED <<idTags, userSites>>

-----------------------------------------------------------------------------
(* What managers change, and time.                                         *)

createIdTag(p, row) == idTags' = [idTags EXCEPT ![p] = row]
updateIdTag(p, to, row) == idTags' = [idTags EXCEPT ![p] = NoRow, ![to] = row]
deleteIdTag(p) == idTags' = [idTags EXCEPT ![p] = NoRow]

setUserSite(u, s, link) == userSites' = [userSites EXCEPT ![u][s] = link]

\* POST id-tags: one row per site.
PostIdTag(p, row) ==
  /\ idTags[p] = NoRow
  /\ createIdTag(p, row)
  /\ UNCHANGED <<userSites, rejections, told>>

\* PUT id-tags/:id, which may move the row to a place that has none.
PutIdTag(p, to, row) ==
  /\ idTags[p] # NoRow
  /\ to = p \/ idTags[to] = NoRow
  /\ updateIdTag(p, to, row)
  /\ UNCHANGED <<userSites, rejections, told>>

\* DELETE id-tags/:id
DropIdTag(p) ==
  /\ idTags[p] # NoRow
  /\ deleteIdTag(p)
  /\ UNCHANGED <<userSites, rejections, told>>

\* A row reaches its expiry_date.
Expires(p) ==
  /\ idTags[p] # NoRow
  /\ ~idTags[p].expired
  /\ createIdTag(p, [idTags[p] EXCEPT !.expired = TRUE])
  /\ UNCHANGED <<userSites, rejections, told>>

\* POST sites/:siteId/users
AddUserToSite(u, s) ==
  /\ userSites[u][s] = "none"
  /\ setUserSite(u, s, "authorized")
  /\ UNCHANGED <<idTags, rejections, told>>

\* PATCH sites/:siteId/users/:userId
SetUserSiteAuthorized(u, s, authorized) ==
  /\ userSites[u][s] # "none"
  /\ setUserSite(u, s, IF authorized THEN "authorized" ELSE "suspended")
  /\ UNCHANGED <<idTags, rejections, told>>

\* DELETE sites/:siteId/users/:userId
RemoveUserFromSite(u, s) ==
  /\ userSites[u][s] # "none"
  /\ setUserSite(u, s, "none")
  /\ UNCHANGED <<idTags, rejections, told>>

\* PUT users/:id/sites: all the sites of a user at once (setUserSites).
SetUserSites(u, sites) ==
  /\ userSites' = [userSites EXCEPT ![u] = sites]
  /\ UNCHANGED <<idTags, rejections, told>>

\* deleteUser: user_sites goes with the user, the tags lose theirs (ON DELETE
\* SET NULL).
DeleteUser(u) ==
  /\ userSites' = [userSites EXCEPT ![u] = [s \in Sites |-> "none"]]
  /\ idTags' = [p \in Places |->
       IF idTags[p] # NoRow /\ idTags[p].user = u THEN [idTags[p] EXCEPT !.user = NoUser] ELSE idTags[p]]
  /\ UNCHANGED <<rejections, told>>

\* DELETE sites/:id: its rows become rows of all sites, unless the tag has one
\* (the DELETE then fails on the UNIQUE index).
DeleteSite(s) ==
  /\ idTags[s] = NoRow \/ idTags[NoSite] = NoRow
  /\ idTags' = IF idTags[s] = NoRow THEN idTags
               ELSE [idTags EXCEPT ![s] = NoRow, ![NoSite] = idTags[s]]
  /\ userSites' = [u \in Users |-> [userSites[u] EXCEPT ![s] = "none"]]
  /\ UNCHANGED <<rejections, told>>

Next ==
  \/ \E site \in Places : Authorize16(site) \/ Authorize201(site)
  \/ WindowEnds
  \/ \E p \in Places, row \in Written : PostIdTag(p, row)
  \/ \E p, to \in Places, row \in Written : PutIdTag(p, to, row)
  \/ \E p \in Places : DropIdTag(p) \/ Expires(p)
  \/ \E u \in Users, s \in Sites :
       \/ AddUserToSite(u, s)
       \/ \E authorized \in BOOLEAN : SetUserSiteAuthorized(u, s, authorized)
       \/ RemoveUserFromSite(u, s)
  \/ \E u \in Users, sites \in [Sites -> Link] : SetUserSites(u, sites)
  \/ \E u \in Users : DeleteUser(u)
  \/ \E s \in Sites : DeleteSite(s)

Spec == Init /\ [][Next]_vars

-----------------------------------------------------------------------------
(* Properties.                                                             *)

\* Every row is one that managers write, or one that has expired or lost its
\* user since; the count is bounded and a window is told about at most once.
TypeOK ==
  /\ idTags \in [Places -> IdTag \cup {NoRow}]
  /\ userSites \in [Users -> [Sites -> Link]]
  /\ rejections \in 0 .. Threshold + 1
  /\ told \in 0 .. 1

\* The row that counts at a site: its own, and the one of all sites only if it
\* has none.
Counts(p, site) ==
  /\ idTags[p] # NoRow
  /\ p = site \/ (p = NoSite /\ idTags[site] = NoRow)

MayCharge(site, type) ==
  \E p \in Places :
    /\ Counts(p, site)
    /\ idTags[p].active
    /\ ~idTags[p].expired
    /\ idTags[p].type \in {type, NoType} \/ type = NoType
    /\ idTags[p].user # NoUser => userSites[idTags[p].user][site] = "authorized"

\* Whatever managers have made of the rows and of the links, and in whichever
\* order, authorizeIdTag accepts a tag at a site if and only if the row that
\* counts there is in order and its user, if any, may charge there: a site that
\* switched a tag off is not overruled by the row of all sites, and a user
\* taken off a site takes their tags along.
VerdictIsRight ==
  \A site \in Sites, type \in Types \cup {NoType} :
    authorizeIdTag(site, type) = "Accepted" <=> MayCharge(site, type)

\* A tag that was rejected Threshold times in a window, wherever that was, has
\* been told about, once (repeated_auth_rejected).  Of a Threshold of at least
\* 2: the rejection that opens a window never notifies.
RepeatsAreTold ==
  Threshold >= 2 => told = IF rejections >= Threshold THEN 1 ELSE 0
=============================================================================
