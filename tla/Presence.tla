------------------------------- MODULE Presence -------------------------------
(***************************************************************************)
(* What the presence notifications of charge points promise to those who   *)
(* receive them, with no client object, timer or table: a link is up or    *)
(* down, and the last thing told of it is true when it is told.            *)
(***************************************************************************)
CONSTANT Identity

VARIABLES link,  \* is the charge point connected
          told   \* the last presence notification since the server started

vars == <<link, told>>

Init ==
  /\ link = [i \in Identity |-> "down"]
  /\ told = [i \in Identity |-> "nothing"]

\* A charge point that connects is told online; one that comes back before it
\* was told offline was online all along.
ComeUp(i) ==
  /\ link' = [link EXCEPT ![i] = "up"]
  /\ told' = [told EXCEPT ![i] = "online"]

GoDown(i) ==
  /\ link[i] = "up"
  /\ link' = [link EXCEPT ![i] = "down"]
  /\ UNCHANGED told

\* Offline is the counterpart of online: never told twice, nor after a timeout.
TellOffline(i) ==
  /\ link[i] = "down"
  /\ told[i] = "online"
  /\ told' = [told EXCEPT ![i] = "offline"]
  /\ UNCHANGED link

TellTimeout(i) ==
  /\ link[i] = "up"
  /\ told' = [told EXCEPT ![i] = "timeout"]
  /\ UNCHANGED link

\* The server starts again and announces itself.
Reset ==
  /\ link' = [i \in Identity |-> "down"]
  /\ told' = [i \in Identity |-> "nothing"]

Next ==
  \/ \E i \in Identity : ComeUp(i) \/ GoDown(i) \/ TellOffline(i) \/ TellTimeout(i)
  \/ Reset

Spec == Init /\ [][Next]_vars

=============================================================================
