-------------------------- MODULE MCHttpsEndpoints ---------------------------
(* The three services of the HTTPS endpoints. *)
EXTENDS HttpsEndpoints, TLC

MCServices == {"ingress", "skill", "egress"}
MCPublishers == {"ingress", "skill"}
MCListeners == {"skill", "egress"}

==============================================================================
