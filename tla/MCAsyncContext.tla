--------------------------- MODULE MCAsyncContext ---------------------------
(* Model-checking instance of AsyncContext; values are in the .cfg.        *)
EXTENDS AsyncContext
=============================================================================
