---------------------------- MODULE MCRpcSession ----------------------------
(***************************************************************************)
(* Two requests that must succeed and, for the probe, one to be refused.   *)
(***************************************************************************)
EXTENDS RpcSession

MCScript == [c \in Clients |->
    IF c = "probe" THEN <<"result", "result", "error">> ELSE <<"result", "result">>]
=============================================================================
