------------------------------- MODULE MCWalk -------------------------------
(***************************************************************************)
(* A small tree for Walk:                                                  *)
(*                                                                         *)
(*     root/  a/  a1/  f      f and g are two names of one inode           *)
(*                a2/                                                      *)
(*            b/  g                                                        *)
(*            m/  k           m and k are on another filesystem            *)
(*            h               a plain file at depth 1                      *)
(***************************************************************************)
EXTENDS WalkInv, WalkRefines, TLC

CONSTANTS root, a, a1, a2, f, b, g, m, k, h

MCDirs == {root, a, a1, a2, b, m}
MCFiles == {f, g, k, h}
MCBelow == (MCDirs \cup MCFiles) \ {root}
MCParent ==
    [e \in MCBelow |-> CASE e \in {a1, a2} -> a [] e = f -> a1 [] e = g -> b
                         [] e = k -> m [] OTHER -> root]
MCTop ==
    [e \in MCDirs \cup MCFiles |->
        CASE e \in {a1, a2, f} -> a [] e = g -> b [] e = k -> m [] OTHER -> e]
MCInode == [x \in MCFiles |-> IF x = g THEN f ELSE x]
MCLinked == {f, g}
MCForeign == {m, k}
MCUnstatable == {a1}
MCUnopenable == {a1}
MCHanging == {a1}

\* The workers are interchangeable; only the safety runs use this.
MCSymmetry == Permutations(Workers)
=============================================================================
