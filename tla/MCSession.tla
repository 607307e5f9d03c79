----------------------------- MODULE MCSession -----------------------------
(* A small instance of Session.  Three turns are the fewest in which a       *)
(* result can be collected, a second one withheld and an answer given, in    *)
(* either order; the sizes put payloads on both sides of each limit.         *)
EXTENDS SessionProperties

MCReplySizes == {0, 2}
MCNoteSizes == {1}
MCEvidenceSizes == {3, 6, 9}
=============================================================================
