------------------------------- MODULE MCStartup -------------------------------
(* A directory, its own base and two whose invites its operator may paste. *)
EXTENDS Startup

CONSTANTS east, west

MCInvited == {east, west}
=============================================================================
