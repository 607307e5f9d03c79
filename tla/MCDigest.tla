------------------------------ MODULE MCDigest ------------------------------
(***************************************************************************)
(* A day of five hours and answers that take no message, one, and several.  *)
(***************************************************************************)
EXTENDS DigestProperties

\* Nothing; one line; lines that meet the limit, pass it, or are empty; more
\* than sroiaaa-notify reads.
MCAnswers ==
  {<<>>, <<<<10>>>>, <<<<>>, <<11, 12, 13>>, <<>>, <<14, 15, 16, 17>>>>,
   <<<<11, 12, 13, 14, 15, 16>>, <<17, 18>>, <<19, 20>>>>}
=============================================================================
