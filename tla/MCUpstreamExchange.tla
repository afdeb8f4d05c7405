------------------------- MODULE MCUpstreamExchange -------------------------
(***************************************************************************)
(* The combinations of options that the callers use: openai-proxy.ts with  *)
(* retries for compaction, without or with deferral for the other routes,  *)
(* claude-proxy.ts with neither.                                           *)
(***************************************************************************)
EXTENDS UpstreamExchange

MCRetries == 2

MCOption ==
    {o \in [mode : {"status", "empty", "single"}, retries : {0, 1, MCRetries}, defer : BOOLEAN,
            complete : BOOLEAN, agent : BOOLEAN, transform : BOOLEAN] :
        /\ o.retries = CASE o.mode = "status" -> MCRetries [] o.mode = "empty" -> 1
                         [] o.mode = "single" -> 0
        /\ o.defer => o.mode = "single"
        /\ o.complete => o.mode = "status"}
=============================================================================
