-------------------------- MODULE MCEndpointResolver --------------------------
(***************************************************************************)
(* Model checking of module EndpointResolver: two AASs, one reachable by   *)
(* gRPC and HTTPS, the other by an endpoint of an unknown type and HTTP.   *)
(***************************************************************************)
EXTENDS EndpointResolver

MCEndpoints == {"a_grpc", "a_https", "b_other", "b_http"}

MCType == [e \in MCEndpoints |->
             CASE e = "a_grpc"  -> "grpc"
               [] e = "a_https" -> "https"
               [] e = "b_other" -> "other"
               [] e = "b_http"  -> "http"]

\* One AAS, and two AASs of one role, the second one bad.
MCAnswers ==
  {<<"incomplete", "a_grpc", "a_https">>, <<"a_https", "b_other", "b_http">>}

\* ... or none at all.
MCAnswersOrNone == MCAnswers \cup {<<>>}
=============================================================================
