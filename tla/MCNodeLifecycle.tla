--------------------------- MODULE MCNodeLifecycle ---------------------------
(***************************************************************************)
(* NodeLifecycle for a database that is fresh, of this program's version   *)
(* or of an older one.                                                     *)
(***************************************************************************)
EXTENDS NodeLifecycle

MCVersions == {0, 2, 3}

=============================================================================
