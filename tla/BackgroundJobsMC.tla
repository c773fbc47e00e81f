-------------------------- MODULE BackgroundJobsMC --------------------------
(***************************************************************************)
(* Instances of BackgroundJobs for TLC.                                    *)
(***************************************************************************)
EXTENDS BackgroundJobs

CONSTANTS panel, noOwner

MCWidgets == {panel}

(* An owned call, one without an owner, a plain one and an owned one, in   *)
(* the order in which the application makes them.                          *)
FourOwners == <<panel, noOwner, noOwner, panel>>
FourPlain == {3}
=============================================================================
