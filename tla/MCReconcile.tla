---------------------------- MODULE MCReconcile ----------------------------
(***************************************************************************)
(* Three files under the walked directory, for Reconcile: a is mine and    *)
(* has two names, b is another user's, of another group and in another     *)
(* fileset, c is mine but of the other group.  The rows of a list tie: of  *)
(* one user in two filesets, of two whole filesets, and of single scopes,  *)
(* with names that are those of a fileset, a device or a group.            *)
(***************************************************************************)
EXTENDS Reconcile

CONSTANTS root, a, b, c, me, you, g1, g2, fs1, fs2, dev

MCInodes == {root, a, b, c}
Inode(uid, gid, fileset, links, size) ==
    [uid |-> uid, gid |-> gid, fileset |-> fileset, links |-> links, size |-> size]
MCAttr ==
    [i \in MCInodes |->
        CASE i = root -> Inode(me, g1, fs1, 1, 1) [] i = a -> Inode(me, g1, fs1, 2, 4)
          [] i = b -> Inode(you, g2, fs2, 1, 9)   [] i = c -> Inode(me, g2, fs1, 1, 16)]

Row(kind, scope, fileset, part, gid) ==
    [kind |-> kind, scope |-> scope, fileset |-> fileset, part |-> part, group |-> g2,
     gid |-> gid, guessed |-> FALSE, covers |-> TRUE]
Both(row) == <<[row EXCEPT !.kind = "files"], row>>
User(f) == Row("blocks", "user", f, f, Unset)
Group(gid) == Row("blocks", "group", dev, Unset, gid)
Fileset(f) == Row("blocks", "fileset", f, f, Unset)
Below(row) == [row EXCEPT !.covers = FALSE]
MCRowLists ==
    {Both(Row("blocks", "user", dev, Unset, Unset)),
     Both(Row("blocks", "", dev, Unset, Unset)),
     <<User(fs2), User(fs1)>>,
     <<Fileset(fs2), Fileset(fs1), Row("files", "user", fs2, fs2, Unset),
       Row("files", "group", fs1, fs1, Unset)>>,
     <<Below(Fileset(fs2)), Below(Fileset(fs1)), Below(Row("files", "project", dev, fs2, Unset))>>,
     Both(Group(g2)), Both(Group(Unset)), Both(Group(g1)),
     Both([User(fs1) EXCEPT !.guessed = TRUE]), Both(Below(User(fs1)))}
MCUnreached == {a}
MCOtherDevice == {b}
MCFresh == {c}
MCMayBeOpen == {b, c}
MCHidden == {b}
MCNames == {fs1, fs2}
MCElsewhere == {2, 30}
MCAges == {Unset, 0, 4}
MCWalks == {0, 4}
MCOdd ==
    {"-c", "crossed", "-x", "refused", "vanished", "unstatable", "vanished entry",
     "stopped", "disowned", "unsettled", "moved", "no sweep", "other users", "namespaced", "given up", "no backend"}
MCOddSets ==
    {{}} \cup {{o} : o \in MCOdd} \cup
    {{"-c", "crossed"}, {"-x", "other users"}, {"refused", "no sweep"}, {"stopped", "moved"}}
=============================================================================
