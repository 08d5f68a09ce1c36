----------------------------- MODULE MCCmdQueue -----------------------------
EXTENDS CmdQueue

CONSTANTS ui, pmsg

\* The user interface searches and sends; a connection thread asks for the
\* states of the cameras when its NVR comes online.
MCProducers == {ui, pmsg}
=============================================================================
