------------------------------ MODULE MCTally ------------------------------
(***************************************************************************)
(* A tree for Tally, three of whose directories are watched (p, q and c):  *)
(*                                                                         *)
(*     root/  p/  q/  f1      f1 and g are two names of one inode          *)
(*                    r/  u                                                *)
(*            c/  t                                                        *)
(*            d/  g                                                        *)
(*                m/  k       m and k are on another filesystem            *)
(*            z               a plain file of another group                *)
(***************************************************************************)
EXTENDS Report

CONSTANTS root, p, q, r, c, d, m, f1, g, u, t, k, z

MCDirs == {root, p, q, r, c, d, m}
MCFiles == {f1, g, u, t, k, z}
MCParent ==
    [e \in (MCDirs \cup MCFiles) \ {root} |->
        CASE e = q -> p [] e \in {f1, r} -> q [] e = u -> r [] e = t -> c
          [] e \in {g, m} -> d [] e = k -> m [] OTHER -> root]

Of(kind, inode, alloc, size, written, age, gid) ==
    [uid |-> "me", gid |-> gid, dev |-> "fs", kind |-> kind, inode |-> inode,
     links |-> 1, size |-> size, blocks |-> alloc, age |-> age, written |-> written]
Directory(e) == Of("dir", e, 1, 1, "old", "old", "g1")
MCAttr ==
    [e \in MCDirs \cup MCFiles |->
        CASE e \in {f1, g} -> [Of("file", f1, 16, 2, "recent", "new", "g1") EXCEPT !.links = 2]
          [] e = u -> Of("file", u, 0, 40, "future", "new", "g1")
          [] e = t -> [Of("special", t, 2, 2, "touched", "old", "g1") EXCEPT !.uid = "you"]
          [] e = k -> [Of("file", k, 2, 5, "old", "old", "g1") EXCEPT !.dev = "other"]
          [] e = z -> Of("link", z, 0, 1, "old", "old", "g2")
          [] e = m -> [Directory(m) EXCEPT !.dev = "other"]
          [] OTHER -> Directory(e)]
MCWatched == {p, q, c}
MCUnstatable == {r, u}
MCUnopenable == {c, r}
MCVanishing == {r}
MCRequests == {Unset, 0, 2}

MCWaits == {0, 6}
MCModes == [count : {FALSE}, ofs : BOOLEAN, depth : {2}]
             \cup {[count |-> c1, ofs |-> ~c1, depth |-> 1] : c1 \in BOOLEAN}
MCPlace ==
    [e \in MCDirs \cup MCFiles |->
        CASE e = root -> 0 [] e = c -> 1 [] e = d -> 2 [] e = p -> 3 [] e = z -> 4
          [] e = q -> 5 [] e = r -> 6 [] e = m -> 7 [] e = f1 -> 8 [] e = g -> 9
          [] e = u -> 10 [] e = t -> 11 [] e = k -> 12]
MCPattern == [a \in MCWatched |-> IF a = q THEN "pycache" ELSE "modules"]
MCTops == {0, 1, 2}

\* The tree is one that OffRootIsLeftOut is about.
ASSUME MCTreeIsPlain == HardLinksOnly /\ NothingMountedBack
=============================================================================
