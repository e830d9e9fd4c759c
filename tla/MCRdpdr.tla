------------------------------- MODULE MCRdpdr -------------------------------
(* Model-checking instance of Rdpdr: the smart card and two shared drives. *)
EXTENDS Rdpdr

CONSTANTS scard, d1, d2

MCDriveIds == {d1, d2}
=============================================================================
