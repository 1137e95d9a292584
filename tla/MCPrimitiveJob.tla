--------------------------- MODULE MCPrimitiveJob ---------------------------
(* The instance of PrimitiveJob for TLC: who calls what. *)
EXTENDS PrimitiveJob

MayDo ==
  [th \in Thread |->
     IF th = 1 THEN {"result", "status"}
               ELSE {"result", "done", "in_final_state", "cancel"}]
=============================================================================
