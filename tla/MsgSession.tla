----------------------------- MODULE MsgSession -----------------------------
(***************************************************************************)
(* What the connection thread of pmsgcli.cpp promises its callback: a      *)
(* session is announced by ONLINE, gives the messages the NVR sent in it,  *)
(* each whole and in the order of sending, and ends with OFFLINE.  The     *)
(* messages that were not handed over by then are lost.                    *)
(***************************************************************************)
EXTENDS Naturals, Sequences

CONSTANT Msg

VARIABLES
    online,     \* a session is open
    sent,       \* the messages the NVR sent in the current (or last) session
    got,        \* how many of them were handed over
    last        \* the last callback: <<kind>>, or <<"MSG", m>> for a message

vars == <<online, sent, got, last>>

Init ==
    /\ online = FALSE
    /\ sent = <<>>
    /\ got = 0
    /\ last = <<"NONE">>

Open ==
    /\ ~online
    /\ online' = TRUE
    /\ sent' = <<>>
    /\ got' = 0
    /\ last' = <<"ONLINE">>

Send(m) ==
    /\ online
    /\ sent' = Append(sent, m)
    /\ UNCHANGED <<online, got, last>>

Get ==
    /\ online
    /\ got < Len(sent)
    /\ got' = got + 1
    /\ last' = <<"MSG", sent[got + 1]>>
    /\ UNCHANGED <<online, sent>>

\* OFFLINE is also what a failed attempt to open a session reports.
Close ==
    /\ online' = FALSE
    /\ last' = <<"OFFLINE">>
    /\ UNCHANGED <<sent, got>>

Next == Open \/ (\E m \in Msg : Send(m)) \/ Get \/ Close

Spec == Init /\ [][Next]_vars
=============================================================================
