------------------------------ MODULE MCAccess ------------------------------
(***************************************************************************)
(* A small instance of Access for TLC.  The parts of the state that have   *)
(* little to do with each other are not all large at once: a state lies in *)
(* one of three views, which meet where nothing has happened yet.          *)
(***************************************************************************)
EXTENDS Access, TLC

Symmetry == Permutations(Browsers) \cup Permutations(Passwords)

\* Cookies and secrets, in a moment in which no attempt was limited.
CodesView == now = 0 /\ \A k \in Keys : admitted[k] = {}

\* No two-factor, and one browser.
Quiet ==
  /\ \A u \in Users : ~totp_enabled[u]
  /\ issued = 1
  /\ \E b \in Browsers : \A d \in Browsers \ {b} : cookies[d] = {Empty}

\* Limited attempts with the present keys, and no links.
LimitsView == Quiet /\ key = 0 /\ tokens = <<>>

\* Links, with one restart and no failed login.
LinksView == Quiet /\ process <= 1 /\ \A u \in Users : admitted[LoginKey(u)] = {}

InView == CodesView \/ LimitsView \/ LinksView
=============================================================================
