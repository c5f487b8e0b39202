----------------------------- MODULE MCDownload -----------------------------
(* Two fetches of one file, two attempts each, a body of two pieces that    *)
(* the server publishes twice.                                               *)
EXTENDS Download
=============================================================================
