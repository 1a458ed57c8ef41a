----------------------------- MODULE MCProtoWs -----------------------------
(* ProtoWs on two connections and a few requests.                          *)
EXTENDS ProtoWs
=============================================================================
