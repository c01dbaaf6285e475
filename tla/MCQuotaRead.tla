---------------------------- MODULE MCQuotaRead ----------------------------
(***************************************************************************)
(* A login node for QuotaRead: a home, a scratch filesystem with a fileset *)
(* mounted below it, and three GPFS devices of which two may be asked.     *)
(* The path lies in the fileset of the device whose name comes last.       *)
(***************************************************************************)
EXTENDS QuotaRead

CONSTANTS home, scratch, fileset, unmapped, gpfs1, gpfs2, gpfs3

MCMounts == {home, scratch, fileset, unmapped}
MCCovers == [m \in MCMounts |-> CASE m = scratch -> 1 [] m = fileset -> 2 [] OTHER -> 0]
MCDeviceMounts == gpfs1 :> {home} @@ gpfs2 :> {scratch} @@ gpfs3 :> {fileset, unmapped}
MCByName == <<gpfs1, gpfs2, gpfs3>>
=============================================================================
