------------------------------ MODULE MCGrpcHop ------------------------------
(* Two messages, each registered with another certificate, and a call of     *)
(* another installation: the ingress publishes the two and cannot convert    *)
(* the third, or it panics at one, and the egress cannot send another.       *)
EXTENDS GrpcHop, TLC

MCKinds ==
  {"m" :> "fine" @@ "n" :> "fine" @@ "call" :> "empty",
   "m" :> "roleless" @@ "n" :> "silent" @@ "call" :> "fine"}

MCCert == "m" :> "new" @@ "n" :> "old"
==============================================================================
