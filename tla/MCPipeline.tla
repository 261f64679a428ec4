----------------------------- MODULE MCPipeline -----------------------------
(* Small instances of Pipeline for TLC. *)
EXTENDS Pipeline

CONSTANTS post, after

\* The chain of Stack.Middleware with every field set.
MCAll == {"accessLog", "trace", "flash", "session", "csrf", "transaction", "auth"}

\* The chain of Stack.API of an application that has no logger.
MCApi == {"session", "transaction"}

MCChains == {MCAll, MCApi}

=============================================================================
