--------------------------- MODULE MCViridianAPI ---------------------------
(* Model-checking instance of ViridianAPI: a refresh token that stays     *)
(* valid after use (so that nothing but the retry flag bounds the 401     *)
(* retries), and a network that may fail.                                  *)
EXTENDS ViridianAPI

MCRotatesRefresh == FALSE
MCNetMayFail == TRUE

=============================================================================
