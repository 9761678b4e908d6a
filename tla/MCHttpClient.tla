----------------------------- MODULE MCHttpClient -----------------------------
(* Two responses.                                                            *)
EXTENDS HttpClient

CONSTANTS r1, r2
=============================================================================
