--------------------------- MODULE MCFtpDownload ---------------------------
(***************************************************************************)
(* Three files on one connection: one of two bytes, an empty one and one   *)
(* of a byte.  A size read from a wrong answer is 1.                       *)
(***************************************************************************)
EXTENDS FtpDownload

MCCum == [i \in 0..3 |-> IF i = 0 THEN 0 ELSE IF i = 3 THEN 3 ELSE 2]
=============================================================================
