--------------------------- MODULE MCAuditAppender ---------------------------
(***************************************************************************)
(* A proxy that seals its own chain, killed and restarted or stopped at    *)
(* any point.  The hosted sealer beside an operator is a part of MCParts.  *)
(***************************************************************************)
EXTENDS AuditAppender

ASSUME ConstantsAssumption
=============================================================================
