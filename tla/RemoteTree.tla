------------------------------- MODULE RemoteTree -------------------------------
(***************************************************************************)
(* The files a storage service keeps, as the providers of                  *)
(* domain/adapters/providers see them: a tree of paths.  The services are  *)
(* outside the repository; their calls are modelled from how the providers *)
(* use them.  A path is a sequence of names, and a tree gives each path a  *)
(* file's content, Dir, or None.                                           *)
(***************************************************************************)
EXTENDS Naturals, Sequences, SequencesExt, FiniteSets

CONSTANTS Paths,   \* the paths there may be, the root not among them
          Dir, None

Parent(p) == Front(p)
Name(p) == Last(p)
Within(p, q) == IsPrefix(p, q)                  \* q is p, or below it
Below(p) == {q \in Paths : Within(p, q)}
Rest(p, q) == SubSeq(q, Len(p) + 1, Len(q))     \* the way from p down to q
Ancestors(p) == {q \in Paths : Within(q, p) /\ q # p}
Way(p) == [i \in 1 .. Len(p) |-> SubSeq(p, 1, i)]
Children(t, p) == {q \in Paths : q # <<>> /\ Parent(q) = p /\ t[q] # None}

IsDir(t, p) == p = <<>> \/ (p \in Paths /\ t[p] = Dir)
IsFile(t, p) == p \in Paths /\ t[p] \notin {Dir, None}
There(t, p) == IsDir(t, p) \/ IsFile(t, p)

\* Nothing but directories has anything below it.
Sound(t) == \A p \in Paths : t[p] # None => IsDir(t, Parent(p))

\* Where something may be put: below directories, or below what they can be made of.
Room(t, p, deep) ==
    /\ p \in Paths
    /\ IF deep THEN \A a \in Ancestors(p) : ~IsFile(t, a) ELSE IsDir(t, Parent(p))

WithParents(t, p) == [a \in Paths |-> IF a \in Ancestors(p) /\ t[a] = None THEN Dir ELSE t[a]]
Without(t, p) == [q \in Paths |-> IF Within(p, q) THEN None ELSE t[q]]
Dropped(t, p, left) ==                          \* without p, but for left and what is on the way to it
    [q \in Paths |-> IF Within(p, q) /\ \A l \in left : t[l] # None => ~Within(q, l) THEN None ELSE t[q]]
Put(t, p, content) == [WithParents(t, p) EXCEPT ![p] = content]

\* What is at s is at d too, in place of what was there.
Grafted(t, s, d) == [q \in Paths |->
    IF Within(d, q) THEN IF s \o Rest(d, q) \in Paths THEN t[s \o Rest(d, q)] ELSE None
    ELSE WithParents(t, d)[q]]

\* All of what is at s has a place below d.
Fits(t, s, d) == \A q \in Below(s) : t[q] # None => d \o Rest(s, q) \in Paths
=================================================================================
