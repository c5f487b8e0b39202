---------------------------- MODULE MCImageCache ----------------------------
(* Two chunks of one image, and one caller. *)
EXTENDS ImageCache

CONSTANT p1

OneProc == {p1}
=============================================================================
