--------------------------- MODULE MCWorkDocuments ---------------------------
(* A request over HTTP, one by way of content-service, and a crash. *)
EXTENDS WorkDocuments, TLC

Services == {Content, Document}
ServiceMain == Content :> ContentMain @@ Document :> DocumentMain
=============================================================================
