-------------------------- MODULE MCStreamSession --------------------------
(* Model values for the runs of StreamSession.                             *)
EXTENDS StreamSession

AnyBackend == Backend
AnsweringBackends == {"asr", "scene", "request", "client"}
=============================================================================
