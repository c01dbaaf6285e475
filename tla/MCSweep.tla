------------------------------ MODULE MCSweep ------------------------------
(***************************************************************************)
(* A small node for Sweep: two processes of ours that share a deleted      *)
(* inode, and one of somebody else.                                        *)
(***************************************************************************)
EXTENDS Sweep

CONSTANTS p1, p2, other, del, gone, nfs, named, hung, memfd, far

MCProcs == {p1, p2, other}
MCInodes == {del, gone, nfs, named, hung, memfd, far}
MCHolds ==
    {<<p1, del>>, <<p1, memfd>>, <<p1, nfs>>,
     <<p2, del>>, <<p2, named>>, <<p2, hung>>,
     <<other, gone>>, <<other, far>>}
MCOwner == [x \in MCHolds |-> x[1]]
MCInode == [x \in MCHolds |-> x[2]]
MCForeign == {other}
MCHidden == {other}
MCOutside == {far}
MCSilly == {nfs}
MCLookalikes == {named}
MCObjects == {memfd}
MCDeletedBefore == {del, gone, hung, memfd, far}
MCUnstatable == {hung}
=============================================================================
