-------------------------- MODULE MCOAuthRefresh --------------------------
(* Instance of OAuthRefresh: a cycle and a request in one process, and a    *)
(* request in another.                                                      *)
EXTENDS OAuthRefresh

CONSTANTS cycle, near, far

MCProcess == [w \in Workers |-> IF w = far THEN 2 ELSE 1]
=============================================================================
