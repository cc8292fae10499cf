----------------------------- MODULE MCMfSetup -----------------------------
EXTENDS MfSetup

\* One end-point of startiec's own beside hmi's.
MCIec == <<1>>

\* One more than there is room for; the second finds the channel made.
MCDevices == <<1, 2, 3>>
=============================================================================
