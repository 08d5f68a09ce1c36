----------------------------- MODULE MCPmsgConn -----------------------------
EXTENDS PmsgConn, TLC

CONSTANTS short, long

\* short: two data bytes and the check byte, less than a head.
\* long: long enough for a cut body to pass for a whole one.
MCMsg == {short, long}
MCBodyLen == (short :> 3) @@ (long :> 6)
MCJunkLen == {2, 8}
=============================================================================
