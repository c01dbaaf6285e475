------------------------------- MODULE WalkInv -------------------------------
(***************************************************************************)
(* The inductive invariant of Walk, in named parts.                        *)
(*                                                                         *)
(* Its idea: a directory is, at any time, unknown, in one worker's list of *)
(* children, queued, in one worker's hands, or behind: read to the end, or *)
(* given up for a reason that is on record.  What a worker notes of an     *)
(* entry is noted once, by the worker that had its directory in hand, and  *)
(* that worker has the subtree in its `inflight`.                          *)
(***************************************************************************)
EXTENDS Walk

\* The figure a tally has for an entry, under one outcome.
Figure(t, outcome, e) == t[<<outcome, e>>]

\* Worker w has accounted for e; some worker has charged for e.
Noted(w, e) == Accounts(tally[w], e) > 0
NotedByAny(e) == \E w \in Workers : Noted(w, e)
CountedBy(w, e) == Figure(tally[w], "counted", e) > 0
Charged(e) == \E w \in Workers : CountedBy(w, e)

\* d has been found: its own inode was charged, by account_root or a scan.
Known(d) == d = Root \/ Charged(d)

Busy(w) == pc[w] \in {"setup", "scan", "dead"}

\* A worker holds one directory from Take to Release, and what it has in its
\* scan belongs to that directory.
HeldInv ==
    \A w \in Workers :
       /\ Busy(w) => \E d \in Dirs : held[w] = {d}
       /\ ~Busy(w) => held[w] = {}
       /\ pc[w] # "scan" =>
             unread[w] = {} /\ children[w] = {} /\ truncated[w] = FALSE
       /\ \A d \in held[w] :
             /\ unread[w] \subseteq Children(d)
             /\ children[w] \subseteq Children(d)

\* No directory is in two places.
PlacesInv ==
    /\ \A w \in Workers :
          /\ queue \cap held[w] = {}
          /\ queue \cap children[w] = {}
    /\ \A v, w \in Workers :
          /\ held[v] \cap children[w] = {}
          /\ v # w => /\ held[v] \cap held[w] = {}
                      /\ children[v] \cap children[w] = {}

\* What is in one of those places has been charged for.
PlacedInv ==
    /\ \A d \in queue : Known(d)
    /\ \A w \in Workers :
          /\ \A d \in held[w] : Known(d)
          /\ \A d \in children[w] : CountedBy(w, d)

\* Every note is the only one of its entry, and the entry's directory has been
\* opened by a worker that is past it.
NotesInv ==
    /\ \A w \in Workers : ~Noted(w, Root)
    /\ \A v, w \in Workers, e \in Entries : Noted(v, e) /\ Noted(w, e) => v = w
    /\ \A w \in Workers, e \in Entries : Accounts(tally[w], e) <= 1
    /\ \A e \in Entries \ {Root} : NotedByAny(e) =>
          /\ Known(Parent[e])
          /\ Parent[e] \notin queue
          /\ \A v \in Workers :
                /\ e \notin unread[v]
                /\ Parent[e] \notin children[v]
                /\ pc[v] = "setup" => Parent[e] \notin held[v]

\* The result holds what the merged workers noted, and account_root's charge.
ResultInv ==
    /\ Figure(res, "counted", Root) = 1
    /\ Accounts(res, Root) = 1
    /\ \A w \in Workers : merged[w] =>
          /\ pc[w] = "exited"
          /\ \A e \in Entries : Figure(res, "unreadable", e) >= Figure(tally[w], "unreadable", e)
          /\ \A e \in Entries, o \in Dispositions :
                Noted(w, e) => Figure(res, o, e) = Figure(tally[w], o, e)
    /\ \A e \in Entries \ {Root} : (\A w \in Workers : merged[w] => ~Noted(w, e)) =>
          \A o \in Dispositions : Figure(res, o, e) = 0

\* seen_links names the inodes charged under some linked name, each once; an
\* extra name is one of those.
LinksInv ==
    /\ \A w \in Workers, e \in Entries : Figure(tally[w], "extra", e) > 0 =>
          ~CountOnly /\ e \in Files /\ Inode[e] \in seenLinks
    /\ ~CountOnly =>
       /\ \A f \in Files \cap Linked : Charged(f) => Inode[f] \in seenLinks
       /\ \A i \in seenLinks : \E f \in Files : Inode[f] = i /\ Charged(f)
       /\ \A f, g \in Files :
             f # g /\ Inode[f] = Inode[g] => ~(Charged(f) /\ Charged(g))

\* A worker has recorded every subtree it took work from.
InflightInv ==
    /\ \A w \in Workers : \A d \in held[w] : Top[d] \in inflight[w]
    /\ \A w \in Workers, e \in Entries \ {Root} :
          Noted(w, e) => Top[Parent[e]] \in inflight[w]
    /\ \A w \in Workers : \A t \in inflight[w] : t \in Dirs /\ Known(t)

Taken(t) == \E w \in Workers : t \in inflight[w]
Waiting(d) == d \in queue \/ \E w \in Workers : d \in children[w]

\* A depth-1 directory waits before anything below it is taken, and anything
\* deeper waits only after.
TopsInv ==
    /\ \A d \in Dirs \ {Root} : Waiting(d) =>
          IF d \in Tops THEN ~Taken(d) ELSE Taken(Top[d])
    /\ \A t \in finishedTops : Taken(t)

\* All that is listed in d has been noted.
ReadThrough(d) == \A e \in Children(d) : NotedByAny(e)
InHand(d) == d \in Open \/ Waiting(d)

\* A known directory that is not in hand was read through, or its subtree is
\* abandoned, or it is at depth 1 and was never taken.
CoverInv ==
    \A d \in Dirs \ {Root} : Known(d) =>
       \/ InHand(d)
       \/ ReadThrough(d)
       \/ Top[d] \in abandonedTops
       \/ d \in Tops /\ ~Taken(d)

\* A scan that was not cut short has noted all that it no longer has to read.
ScanInv ==
    \A w \in Workers : pc[w] = "scan" /\ ~truncated[w] =>
       \A d \in held[w] : \A e \in Children(d) : e \in unread[w] \/ NotedByAny(e)

\* The walk was stopped in time for the result to say so.
Stopped == IF main = "join" THEN stop ELSE partial
FailedScan(d) == \E w \in Workers : Figure(tally[w], "unreadable", d) > 0

\* In a walk that is not stopped, only a scan that raised is cut short, and a
\* known directory that is not in hand was read through or could not be.
UnstoppedInv ==
    ~Stopped =>
       /\ \A w \in Workers : truncated[w] => \A d \in held[w] : FailedScan(d)
       /\ \A d \in Dirs : Known(d) => InHand(d) \/ ReadThrough(d) \/ FailedScan(d)
       /\ \A w \in Workers : pc[w] \in {"merge", "exited"} => Open = {}

\* Once the main thread is past its wait, no worker is in a position to take
\* work; once it is past the door, the stranded workers are those not merged;
\* and once it has collected what they took, that is abandoned.
MainInv ==
    /\ deadline => stop
    /\ partial => stop
    /\ main # "join" =>
          /\ (\A w \in Workers : Gone(w)) \/ (stop /\ CvFree)
          /\ ~partial => \A w \in Workers : Gone(w)
    /\ main \in {"join", "door"} => ~doorClosed
    /\ main \in {"abandon", "publish", "published"} =>
          doorClosed /\ stranded = {w \in Workers : ~merged[w]}
    /\ main \in {"publish", "published"} =>
          \A w \in stranded : inflight[w] \subseteq abandonedTops
    /\ main # "published" => published = {}

\* The inductive invariant.  Each part is a fact about walk()'s shared state
\* that the next rests on; together they are preserved by every step.
Inductive ==
    /\ TypeOK
    /\ CountersExact
    /\ HeldInv /\ PlacesInv /\ PlacedInv /\ NotesInv
    /\ ResultInv /\ LinksInv
    /\ InflightInv /\ TopsInv /\ FinishedStaysClosed
    /\ CoverInv /\ ScanInv /\ UnstoppedInv
    /\ MainInv
    /\ FinishedTopsExact
=============================================================================
