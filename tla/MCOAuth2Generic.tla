-------------------------- MODULE MCOAuth2Generic --------------------------
(* Base URLs and their lengths for TLC's run of OAuth2Generic. *)
EXTENDS OAuth2Generic

CONSTANTS l1, l2, l3, public, internal

MCBaseOf == [l \in Logins |-> IF l = l3 THEN internal ELSE public]
MCLength == [b \in Bases |-> IF b = public THEN 2 ELSE 1]
=============================================================================
