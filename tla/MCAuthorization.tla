--------------------------- MODULE MCAuthorization ---------------------------
(* Two sites, one user and two types of token.  Managers write rows that       *)
(* differ in what a decision looks at: in order, switched off, of the other    *)
(* type, of the user, or past their date.                                      *)
EXTENDS Authorization

CONSTANTS iso, mac

InOrder == [active |-> TRUE, expired |-> FALSE, type |-> iso, user |-> NoUser]
Rows ==
  {InOrder, [InOrder EXCEPT !.active = FALSE], [InOrder EXCEPT !.type = mac]}
  \cup {[InOrder EXCEPT !.user = u, !.active = a] : u \in Users, a \in BOOLEAN}
=============================================================================
