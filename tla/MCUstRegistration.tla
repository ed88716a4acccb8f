------------------------- MODULE MCUstRegistration --------------------------
(* Instantiation of UstRegistration for TLC.                               *)
EXTENDS UstRegistration

\* Three applications: enough for the pipe to fill behind a slow apps
\* thread while a third registration is queued.
MCApps == {"app1", "app2", "app3"}

=============================================================================
