----------------------- MODULE MCPublicationRecovery -----------------------
(* Bounded instances of PublicationRecovery for TLC. *)
EXTENDS PublicationRecovery

CONSTANTS r1, r2
=============================================================================
