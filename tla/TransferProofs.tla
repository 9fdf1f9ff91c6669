--------------------------- MODULE TransferProofs ---------------------------
(***************************************************************************)
(* Theorems about Transfer, for every number of tasks, files, pages,       *)
(* writes of others, failures and restarts.                                *)
(***************************************************************************)
EXTENDS Transfer, FiniteSetTheorems, TLAPS

\* The place of a name in the listing of m.
Upto(m, n) == {k \in Present(m) : k <= n}
Rank(m, n) == Cardinality(Upto(m, n))

Mount == [dir : BOOLEAN, file : [Entries -> Contents \cup {None}]]
Pcs   == Ended \cup {"new", "queued", "clear", "stat", "list", "download", "upload", "write"}
Task  == [op : {"move", "copy"}, overwrite : BOOLEAN, pc : Pcs,
          page : Nat \ {0}, jobs : Seq(Entries), k : Nat \ {0}]
Note  == [found : Mount, quiet : BOOLEAN, unseen : BOOLEAN, short : BOOLEAN]

TasksTyped ==
    /\ task \in [Tasks -> Task]
    /\ \A t \in Tasks : task[t].k <= Len(task[t].jobs) + 1
Typed ==
    /\ mount \in [{"src", "dst"} -> Mount]
    /\ TasksTyped
    /\ temp \in [Tasks -> [Entries -> Contents \cup {None}]]
    /\ note \in [Tasks -> Note]
    /\ writes \in 0 .. MaxWrites /\ faults \in 0 .. MaxFaults
    /\ arrived \subseteq Contents

\* No path is a file and has files below it; no content comes from a write to come.
Made == 2 * Cardinality(Names) + 2 + writes
Sound(m) ==
    /\ m.dir => m.file[Root] = None
    /\ \A n \in Names : m.file[n] # None => m.dir
Old(m) == \A e \in Entries : m.file[e] # None => m.file[e] <= Made
Mounts ==
    /\ Sound(mount.src) /\ Sound(mount.dst) /\ Old(mount.src)
    /\ \A t \in Tasks : Sound(note[t].found) /\ Old(note[t].found)

Taken(js, n) == {js[j] : j \in 1 .. n}
Jobs(t)      == Taken(task[t].jobs, Len(task[t].jobs))
DoneJobs(t)  == Taken(task[t].jobs, task[t].k - 1)

\* The files of the source that are as the run found them.
Same(t) == {e \in Entries : mount.src.file[e] # None /\ mount.src.file[e] = note[t].found.file[e]}

\* What a run has read is in its temporary files, what it has written has arrived, and
\* outside these phases it has no temporary file.
Read(t, e) == temp[t][e] \in Contents /\ (e \in Same(t) => temp[t][e] = mount.src.file[e])
Carried(t) ==
    /\ task[t].pc \notin {"download", "upload", "write", "lost"} => temp[t] = Empty
    /\ task[t].pc = "download" => \A e \in DoneJobs(t) : Read(t, e)
    /\ task[t].pc \in {"upload", "write"} =>
         /\ \A e \in Jobs(t) : Read(t, e)
         /\ \A e \in DoneJobs(t) : temp[t][e] \in arrived

\* What a run that goes on has seen on its way.
Checked(t) ==
    /\ task[t].pc = "clear" => task[t].overwrite
    /\ task[t].pc = "list" => note[t].found.dir /\ task[t].k = 1
    /\ task[t].pc = "write" =>
         /\ JobsLeft(t)
         /\ ~task[t].overwrite /\ ~note[t].unseen => mount.dst.file[Job(t)] = None

\* The pages read so far hold every unchanged file whose place is before them: a file
\* written in between only pushes the others back.
Listed(t) ==
    /\ note[t].quiet \/ task[t].pc \in {"new", "queued"} => ~note[t].short
    /\ task[t].pc = "list" /\ ~note[t].short =>
         \A e \in Same(t) :
            /\ e \in Names
            /\ Rank(mount.src, e) <= (task[t].page - 1) * PageSize => e \in Jobs(t)
    /\ task[t].pc \in {"download", "upload", "write"} /\ ~note[t].short => Same(t) \subseteq Jobs(t)

\* How far a run that nobody disturbs has brought the destination.
Alone(t) ==
    note[t].quiet =>
    /\ task[t].pc \in {"stat", "list", "download"} => mount.dst = Absent
    /\ task[t].pc \in {"list", "download", "upload", "write"} =>
         mount.src = note[t].found /\ \A e \in Jobs(t) : note[t].found.file[e] # None
    /\ task[t].pc \in {"upload", "write"} =>
         /\ mount.dst.dir = note[t].found.dir
         /\ \A e \in Entries : mount.dst.file[e] =
                IF e \in DoneJobs(t) THEN note[t].found.file[e] ELSE None
    /\ task[t].pc = "done" =>
         /\ mount.dst = note[t].found
         /\ mount.src = IF task[t].op = "move" THEN Absent ELSE note[t].found

Run(t) == Carried(t) /\ Checked(t) /\ Listed(t) /\ Alone(t)

IInv == Typed /\ Mounts /\ \A t \in Tasks : Run(t)
-----------------------------------------------------------------------------
LEMMA PresentIsFinite ==
  ASSUME NEW m
  PROVE  /\ IsFiniteSet(Present(m)) /\ Present(m) \subseteq Nat /\ Present(m) \subseteq Names
         /\ Cardinality(Present(m)) \in Nat
         /\ \A n : IsFiniteSet(Upto(m, n)) /\ Rank(m, n) \in Nat
         /\ \A n : Rank(m, n) <= Cardinality(Present(m))
<1>1. Present(m) \in SUBSET Names
  BY DEF Present
<1>2. IsFiniteSet(Present(m))
  BY <1>1, NamesAssumption, FS_Subset
<1>3. Cardinality(Present(m)) \in Nat
  BY <1>2, FS_CardinalityType
<1>4. ASSUME NEW n
      PROVE  IsFiniteSet(Upto(m, n)) /\ Rank(m, n) \in Nat /\ Rank(m, n) <= Cardinality(Present(m))
  <2>1. Upto(m, n) \in SUBSET Present(m)
    BY DEF Upto
  <2>. QED
    BY <1>2, <2>1, FS_Subset, FS_CardinalityType DEF Rank
<1>. QED
  BY <1>1, <1>2, <1>3, <1>4, NamesAssumption

\* Places are given in order, and to each name its own.
LEMMA RankOrder ==
  ASSUME NEW m, NEW n \in Present(m)
  PROVE  /\ Rank(m, n) \in 1 .. Cardinality(Present(m))
         /\ \A k \in Present(m) : k < n => Rank(m, k) < Rank(m, n)
<1>1. /\ \A k : IsFiniteSet(Upto(m, k)) /\ Rank(m, k) \in Nat
      /\ \A k : Rank(m, k) <= Cardinality(Present(m))
      /\ Present(m) \subseteq Nat /\ Cardinality(Present(m)) \in Nat
  BY PresentIsFinite
<1>2. n \in Upto(m, n)
  BY <1>1 DEF Upto
<1>3. Rank(m, n) # 0
  BY <1>1, <1>2, FS_EmptySet DEF Rank
<1>4. ASSUME NEW k \in Present(m), k < n
      PROVE  Rank(m, k) < Rank(m, n)
  <2>1. Upto(m, k) \in SUBSET Upto(m, n) /\ n \notin Upto(m, k)
    BY <1>1, <1>4 DEF Upto
  <2>2. Cardinality(Upto(m, k)) <= Cardinality(Upto(m, n))
        /\ Cardinality(Upto(m, n)) # Cardinality(Upto(m, k))
    BY <1>1, <1>2, <2>1, FS_Subset
  <2>. QED
    BY <1>1, <2>2 DEF Rank
<1>. QED
  BY <1>1, <1>3, <1>4

\* A listing holds each name that is present, at its place.
LEMMA SortedListsAll ==
  ASSUME NEW m
  PROVE  /\ Sorted(m) \in Seq(Names)
         /\ Len(Sorted(m)) = Cardinality(Present(m))
         /\ \A i \in 1 .. Len(Sorted(m)) : Sorted(m)[i] \in Present(m)
         /\ \A n \in Present(m) : Sorted(m)[Rank(m, n)] = n
<1> DEFINE P == Present(m)
           N == Cardinality(P)
           R == [n \in P |-> Rank(m, n)]
           F == [i \in 1 .. N |-> CHOOSE n \in P : R[n] = i]
           Increasing(s) == \A i, j \in DOMAIN s : i < j => s[i] < s[j]
           S == Sorted(m)
<1>1. IsFiniteSet(P) /\ P \subseteq Nat /\ P \subseteq Names /\ N \in Nat
  BY PresentIsFinite
<1>2. \A n \in P : R[n] \in 1 .. N /\ \A k \in P : k < n => R[k] < R[n]
  BY RankOrder
<1>3. IsFiniteSet(1 .. N) /\ Cardinality(1 .. N) = N
  BY <1>1, FS_Interval
<1> HIDE DEF P, N
<1>4. R \in [P -> 1 .. N]
  BY <1>2
<1>5. \A j, k \in P : R[j] = R[k] => j = k
  <2> SUFFICES ASSUME NEW j \in P, NEW k \in P, j # k
               PROVE  R[j] # R[k]
    OBVIOUS
  <2>1. j \in Nat /\ k \in Nat /\ R[j] \in Nat /\ R[k] \in Nat
    BY <1>1, <1>2
  <2> HIDE DEF R
  <2>2. CASE j < k
    BY <1>2, <2>1, <2>2
  <2>3. CASE k < j
    BY <1>2, <2>1, <2>3
  <2>. QED
    BY <2>1, <2>2, <2>3
<1>6. R \in Surjection(P, 1 .. N)
  <2> HIDE DEF R
  <2>1. R \in Injection(P, 1 .. N)
    BY <1>4, <1>5 DEF Injection, IsInjective
  <2>. QED
    BY <1>1, <1>3, <2>1, FS_Injection DEF N
<1>7. \A i \in 1 .. N : \E n \in P : R[n] = i
  <2> HIDE DEF R
  <2>. QED
    BY <1>6 DEF Surjection
<1>8. F \in [1 .. N -> P] /\ \A i \in 1 .. N : R[F[i]] = i
  <2> HIDE DEF R
  <2>. QED
    BY <1>7
<1>9. Increasing(F)
  <2> SUFFICES ASSUME NEW i \in 1 .. N, NEW j \in 1 .. N, i < j
               PROVE  F[i] < F[j]
    BY <1>8
  <2>1. F[i] \in P /\ F[j] \in P /\ R[F[i]] = i /\ R[F[j]] = j
    BY <1>8
  <2>2. F[i] \in Nat /\ F[j] \in Nat
    BY <1>1, <2>1
  <2> HIDE DEF F, R
  <2>3. F[i] # F[j]
    BY <1>1, <2>1
  <2>4. ~ (F[j] < F[i])
    <3>1. F[j] < F[i] => R[F[j]] < R[F[i]]
      BY <1>2, <2>1
    <3>. QED
      BY <1>1, <2>1, <3>1
  <2>. QED
    BY <2>2, <2>3, <2>4
<1>10. S \in [1 .. N -> P] /\ Increasing(S)
  <2> HIDE DEF F, R
  <2>1. \E s \in [1 .. N -> P] : \A i, j \in DOMAIN s : i < j => s[i] < s[j]
    BY <1>8, <1>9
  <2>. QED
    BY <2>1, Zenon DEF Sorted, N, P
<1> HIDE DEF S, R, F
<1>15. \A i \in 1 .. N : S[i] \in P /\ S[i] \in Nat /\ \A j \in 1 .. N : i < j => S[i] < S[j]
  BY <1>1, <1>10
<1>11. S \in Surjection(1 .. N, P)
  <2>1. \A i, j \in 1 .. N : S[i] = S[j] => i = j
    <3> SUFFICES ASSUME NEW i \in 1 .. N, NEW j \in 1 .. N, i < j PROVE S[i] # S[j]
      BY <1>1
    <3>. QED
      BY <1>15
  <2>2. S \in Injection(1 .. N, P)
    BY <1>10, <2>1 DEF Injection, IsInjective
  <2>. QED
    BY <1>1, <1>3, <2>2, FS_Injection DEF N
<1>12. \A i \in 1 .. N : Rank(m, S[i]) = i
  <2> TAKE i \in 1 .. N
  <2> DEFINE U == Upto(m, S[i])
             G == [j \in 1 .. i |-> S[j]]
  <2>1. i \in Nat /\ 1 .. i \subseteq 1 .. N /\ \A j \in 1 .. i : S[j] \in P /\ S[j] \in Nat
    BY <1>1, <1>15
  <2>2. \A j \in 1 .. i : S[j] \in U
    BY <1>10, <2>1 DEF Upto, P
  <2>3. \A k \in U : \E j \in 1 .. i : S[j] = k
    <3> TAKE k \in U
    <3>1. PICK j \in 1 .. N : S[j] = k
      BY <1>11 DEF Surjection, Upto, P
    <3>2. k <= S[i] /\ k \in Nat /\ S[i] \in Nat
      BY <1>1, <1>10 DEF Upto, P
    <3>3. ~ (i < j)
      BY <1>10, <3>1, <3>2
    <3>. QED
      BY <2>1, <3>1, <3>3
  <2> HIDE DEF U
  <2>4. G \in [1 .. i -> U] /\ \A j \in 1 .. i : G[j] = S[j]
    BY <2>2
  <2>5. G \in Injection(1 .. i, U)
    <3>1. \A a, b \in 1 .. i : S[a] = S[b] => a = b
      <4> SUFFICES ASSUME NEW a \in 1 .. i, NEW b \in 1 .. i, a < b PROVE S[a] # S[b]
        BY <2>1
      <4>. QED
        BY <1>10, <2>1
    <3>2. IsInjective(G)
      BY <2>4, <3>1 DEF IsInjective
    <3>. QED
      BY <2>4, <3>2 DEF Injection
  <2>6. G \in Surjection(1 .. i, U)
    BY <2>3, <2>4 DEF Surjection
  <2>7. ExistsBijection(1 .. i, U)
    BY <2>5, <2>6 DEF ExistsBijection, Bijection
  <2>8. Cardinality(U) = i
    BY <2>1, <2>7, FS_CountingElements
  <2>. QED
    BY <2>8 DEF U, Rank
<1>13. \A n \in P : S[Rank(m, n)] = n
  BY <1>11, <1>12 DEF Surjection
<1>14. S \in Seq(Names) /\ Len(S) = N
  <2>1. S \in [1 .. N -> Names]
    BY <1>1, <1>10
  <2>. QED
    BY <1>1, <2>1
<1>. QED
  BY <1>10, <1>13, <1>14 DEF S, P, N

\* A page holds names that are present, and each whose place is on it.
LEMMA PageIsPart ==
  ASSUME NEW m, NEW p \in Nat \ {0}
  PROVE  LET s == Sorted(m)
         IN  /\ PageOf(s, p) \in Seq(Names)
             /\ \A j \in 1 .. Len(PageOf(s, p)) : PageOf(s, p)[j] \in Present(m)
             /\ \A n \in Present(m) : (p - 1) * PageSize < Rank(m, n) /\ Rank(m, n) <= p * PageSize =>
                  \E j \in 1 .. Len(PageOf(s, p)) : PageOf(s, p)[j] = n
<1> DEFINE s == Sorted(m)
           first == (p - 1) * PageSize + 1
           last == IF p * PageSize < Len(s) THEN p * PageSize ELSE Len(s)
<1>1. /\ s \in Seq(Names)
      /\ Len(s) = Cardinality(Present(m)) /\ Len(s) \in Nat
      /\ \A i \in 1 .. Len(s) : s[i] \in Present(m)
      /\ \A n \in Present(m) : s[Rank(m, n)] = n /\ Rank(m, n) \in 1 .. Len(s)
  BY SortedListsAll, PresentIsFinite, RankOrder
<1>2. PageSize \in Nat \ {0}
  BY BoundsAssumption
<1>3. first \in Nat \ {0} /\ p * PageSize \in Nat
  BY <1>2
<1>4. PageOf(s, p) = SubSeq(s, first, last)
  BY DEF PageOf
<1> HIDE DEF s
<1>5. last \in Nat /\ last <= Len(s)
  BY <1>1, <1>3
<1>6. \A n \in Present(m) : (p - 1) * PageSize < Rank(m, n) /\ Rank(m, n) <= p * PageSize =>
         Rank(m, n) \in first .. last
  <2> SUFFICES ASSUME NEW n \in Present(m),
                      (p - 1) * PageSize < Rank(m, n), Rank(m, n) <= p * PageSize
               PROVE  Rank(m, n) \in first .. last
    OBVIOUS
  <2>1. Rank(m, n) \in Nat /\ Rank(m, n) <= Len(s)
    BY <1>1
  <2>2. (p - 1) * PageSize \in Nat
    BY <1>2
  <2>. QED
    BY <1>1, <1>3, <2>1, <2>2
<1> HIDE DEF first, last
<1>7. /\ PageOf(s, p) \in Seq(Names)
      /\ Len(PageOf(s, p)) = IF first <= last THEN last - first + 1 ELSE 0
      /\ \A j \in 1 .. last - first + 1 : PageOf(s, p)[j] = s[first + j - 1]
  BY <1>1, <1>3, <1>4, <1>5
<1>8. \A j \in 1 .. Len(PageOf(s, p)) : PageOf(s, p)[j] \in Present(m)
  BY <1>1, <1>3, <1>5, <1>7
<1>9. ASSUME NEW n \in Present(m), Rank(m, n) \in first .. last
      PROVE  \E j \in 1 .. Len(PageOf(s, p)) : PageOf(s, p)[j] = n
  <2>1. Rank(m, n) - first + 1 \in 1 .. last - first + 1 /\ first <= last
    BY <1>3, <1>5, <1>9
  <2>2. PageOf(s, p)[Rank(m, n) - first + 1] = s[Rank(m, n)]
    BY <1>3, <1>5, <1>7, <1>9, <2>1
  <2>. QED
    BY <1>1, <1>7, <2>1, <2>2
<1>. QED
  BY <1>6, <1>7, <1>8, <1>9 DEF s
-----------------------------------------------------------------------------
LEMMA Types ==
  /\ Root \in Entries /\ Root \notin Names /\ Entries \subseteq Nat /\ Names \subseteq Entries
  /\ IsFiniteSet(Names) /\ Cardinality(Names) \in Nat
  /\ Contents \subseteq Nat /\ None \notin Contents
  /\ Absent \in Mount /\ Empty \in [Entries -> Contents \cup {None}]
  /\ \A e \in Entries : Absent.file[e] = None
  /\ ~Absent.dir
<1>1. IsFiniteSet(Names) /\ Cardinality(Names) \in Nat
  BY NamesAssumption, FS_CardinalityType
<1>2. Root \in Entries /\ Root \notin Names /\ Entries \subseteq Nat /\ Names \subseteq Entries
  BY NamesAssumption DEF Entries, Root
<1>3. Contents \subseteq Nat
  BY <1>1, BoundsAssumption DEF Contents
<1>4. Empty \in [Entries -> Contents \cup {None}]
  BY DEF Empty
<1>5. Absent \in Mount /\ ~Absent.dir /\ Absent.file = Empty
  BY <1>4 DEF Absent, Mount
<1>6. \A e \in Entries : Empty[e] = None
  BY DEF Empty
<1>. QED
  BY <1>1, <1>2, <1>3, <1>4, <1>5, <1>6, BoundsAssumption

\* What one write and one deletion do to a mount.
LEMMA PutOne ==
  ASSUME NEW m \in Mount, NEW e \in Entries, NEW c \in Contents, Fits(m, e), Sound(m)
  PROVE  /\ Put(m, e, c) \in Mount
         /\ Sound(Put(m, e, c))
         /\ Put(m, e, c).dir = (m.dir \/ e # Root)
         /\ \A f \in Entries : Put(m, e, c).file[f] = IF f = e THEN c ELSE m.file[f]
<1>1. m.dir \in BOOLEAN /\ m.file \in [Entries -> Contents \cup {None}]
  BY DEF Mount
<1>2. [m.file EXCEPT ![e] = c] \in [Entries -> Contents \cup {None}]
  BY <1>1
<1>3. Put(m, e, c) = [dir |-> m.dir \/ e # Root, file |-> [m.file EXCEPT ![e] = c]]
  BY DEF Put
<1>4. Put(m, e, c) \in Mount
  BY <1>1, <1>2, <1>3 DEF Mount
<1>5. \A f \in Entries : Put(m, e, c).file[f] = IF f = e THEN c ELSE m.file[f]
  BY <1>1, <1>3
<1>6. Put(m, e, c).dir = (m.dir \/ e # Root)
  BY <1>3
<1>7. Sound(Put(m, e, c))
  BY <1>5, <1>6, Types DEF Sound, Fits
<1>. QED
  BY <1>4, <1>5, <1>6, <1>7

\* What each kind of step makes of the record of its task.
Ok(r) == r \in Task /\ r.k <= Len(r.jobs) + 1

LEMMA Fields ==
  ASSUME NEW r \in Task
  PROVE  /\ r.k \in Nat \ {0} /\ r.page \in Nat \ {0} /\ r.jobs \in Seq(Entries)
         /\ Len(r.jobs) \in Nat /\ r.pc \in Pcs
BY DEF Task

LEMMA NewPc ==
  ASSUME NEW r, Ok(r), NEW pc \in Pcs
  PROVE  Ok([r EXCEPT !.pc = pc])
BY DEF Task, Ok

LEMMA NewRequest ==
  ASSUME NEW r, Ok(r), NEW pc \in Pcs, NEW op \in {"move", "copy"}, NEW ow \in BOOLEAN
  PROVE  Ok([r EXCEPT !.op = op, !.overwrite = ow, !.pc = pc])
BY DEF Task, Ok

LEMMA NewJob ==
  ASSUME NEW r, Ok(r), NEW pc \in Pcs, NEW k \in Nat \ {0}, k <= Len(r.jobs) + 1
  PROVE  Ok([r EXCEPT !.pc = pc, !.k = k])
BY DEF Task, Ok

LEMMA NewJobs ==
  ASSUME NEW r, Ok(r), NEW pc \in Pcs, NEW js \in Seq(Entries), NEW p \in Nat \ {0},
         NEW k \in Nat \ {0}, k <= Len(js) + 1
  PROVE  Ok([r EXCEPT !.pc = pc, !.page = p, !.k = k, !.jobs = js])
BY DEF Task, Ok

LEMMA NewOver ==
  ASSUME NEW r, Ok(r), NEW pc \in Pcs
  PROVE  Ok(Over(r, pc)) /\ Over(r, pc).pc = pc /\ Over(r, pc).op = r.op
<1> DEFINE one == 1  none == <<>>
<1>1. one \in Nat \ {0} /\ none \in Seq(Entries) /\ one <= Len(none) + 1
  OBVIOUS
<1>2. Over(r, pc) = [r EXCEPT !.pc = pc, !.page = one, !.k = one, !.jobs = none]
  BY DEF Over
<1> HIDE DEF one, none
<1>3. Ok([r EXCEPT !.pc = pc, !.page = one, !.k = one, !.jobs = none])
  BY <1>1 DEF Ok, Task
<1>4. Over(r, pc).pc = pc /\ Over(r, pc).op = r.op
  BY <1>2 DEF Ok, Task
<1>. QED
  BY <1>2, <1>3, <1>4

LEMMA TaskTyped ==
  ASSUME Typed, \A t \in Tasks : Checked(t), [Next]_vars
  PROVE  TasksTyped'
<1>1. \A t \in Tasks : task[t] \in Task /\ Ok(task[t]) /\ task[t].k <= Len(task[t].jobs) + 1
  BY DEF Typed, TasksTyped, Ok
<1>2. ASSUME NEW t \in Tasks, NEW r, Ok(r), Becomes(t, r)
      PROVE  TasksTyped'
  BY <1>2 DEF Typed, TasksTyped, Ok, Becomes
<1>3. {"failed", "stat", "clear", "write", "done", "lost", "refused", "queued", "upload",
        "list", "download"} \subseteq Pcs
  BY DEF Pcs, Ended
<1>4. ASSUME NEW t \in Tasks, NEW pc \in Pcs, Go(t, pc)
      PROVE  TasksTyped'
  BY <1>1, <1>2, <1>4, NewPc DEF Go
<1>15. ASSUME NEW t \in Tasks, NEW pc \in Pcs, Becomes(t, Over(task[t], pc))
       PROVE  TasksTyped'
  BY <1>1, <1>2, <1>15, NewOver
<1>5. ASSUME NEW t \in Tasks, Fail(t)
      PROVE  TasksTyped'
  BY <1>3, <1>15, <1>5 DEF Fail
<1>6. ASSUME NEW t \in Tasks, NEW op \in {"move", "copy"}, NEW ow \in BOOLEAN, Enqueue(t, op, ow)
      PROVE  TasksTyped'
  <2>1. PICK pc \in {"refused", "queued"} :
           Becomes(t, [task[t] EXCEPT !.op = op, !.overwrite = ow, !.pc = pc])
    BY <1>6 DEF Enqueue
  <2>2. pc \in Pcs
    BY <1>3
  <2>3. Ok([task[t] EXCEPT !.op = op, !.overwrite = ow, !.pc = pc])
    BY <1>1, <2>2, NewRequest
  <2>. QED
    BY <1>2, <2>1, <2>3
<1>7. ASSUME NEW t \in Tasks, Begin(t) \/ ClearDst(t) \/ Upload(t) \/ DeleteSrc(t) \/ EndCopy(t) \/ Fault(t)
                              \/ LostAnswer(t)
      PROVE  TasksTyped'
  <2>1. (\E pc \in {"failed", "stat", "clear", "write"} : Go(t, pc)) \/ Fail(t)
        \/ Becomes(t, Over(task[t], "done"))
    BY <1>7 DEF Begin, ClearDst, Upload, DeleteSrc, EndCopy, Fault, LostAnswer
  <2>. QED
    BY <1>3, <1>4, <1>5, <1>15, <2>1
<1>8. ASSUME NEW t \in Tasks, StatSrc(t), ~Fail(t)
      PROVE  TasksTyped'
  <2>1. PICK pc \in {"list", "download"}, js \in {<<>>, <<Root>>} :
          Becomes(t, [task[t] EXCEPT !.pc = pc, !.page = 1, !.k = 1, !.jobs = js])
    BY <1>8 DEF StatSrc
  <2>2. pc \in Pcs
    BY <1>3
  <2>3. js \in Seq(Entries) /\ Len(js) \in Nat
    <3>1. Root \in Entries
      BY Types
    <3>2. <<>> \in Seq(Entries) /\ <<Root>> \in Seq(Entries)
      BY <3>1
    <3>. QED
      BY <3>2
  <2> DEFINE one == 1
  <2>5. one \in Nat \ {0} /\ one <= Len(js) + 1
    BY <2>3
  <2>4. Ok([task[t] EXCEPT !.pc = pc, !.page = 1, !.k = 1, !.jobs = js])
    <3>1. Ok([task[t] EXCEPT !.pc = pc, !.page = one, !.k = one, !.jobs = js])
      <4> HIDE DEF one
      <4>. QED
        BY <1>1, <2>2, <2>3, <2>5, NewJobs
    <3>. QED
      BY <3>1
  <2>. QED
    BY <1>2, <2>1, <2>4
<1>9. ASSUME NEW t \in Tasks, ListPage(t), ~Fail(t)
      PROVE  TasksTyped'
  <2> DEFINE s == Sorted(mount.src)
             js == task[t].jobs \o PageOf(s, task[t].page)
             p == task[t].page + 1
             pc == IF task[t].page * PageSize >= Len(s) THEN "download" ELSE task[t].pc
  <2>1. Becomes(t, [task[t] EXCEPT !.jobs = js, !.page = p, !.pc = pc])
    BY <1>9 DEF ListPage
  <2>2. PageOf(s, task[t].page) \in Seq(Entries)
    <3>1. PageOf(s, task[t].page) \in Seq(Names) /\ Names \subseteq Entries
      BY <1>1, Fields, PageIsPart, Types
    <3>. QED
      BY <3>1
  <2>3. js \in Seq(Entries) /\ Len(task[t].jobs) <= Len(js)
    <3> HIDE DEF s
    <3> DEFINE a == task[t].jobs
               b == PageOf(s, task[t].page)
    <3>1. a \in Seq(Entries) /\ b \in Seq(Entries)
      BY <1>1, <2>2, Fields
    <3> HIDE DEF a, b
    <3>2. a \o b \in Seq(Entries) /\ Len(a) <= Len(a \o b)
      BY <3>1
    <3>. QED
      BY <3>2 DEF a, b
  <2>4. p \in Nat \ {0} /\ pc \in Pcs
    BY <1>1, <1>3, Fields
  <2> HIDE DEF js, p, pc
  <2>5. Ok([task[t] EXCEPT !.jobs = js, !.page = p, !.pc = pc])
    <3>1. task[t] \in Task /\ task[t].k <= Len(js) + 1
      BY <1>1, <2>3, Fields
    <3>. QED
      BY <2>3, <2>4, <3>1 DEF Ok, Task
  <2>. QED
    BY <1>2, <2>1, <2>5
<1>10. ASSUME NEW t \in Tasks, Download(t), ~Fail(t)
       PROVE  TasksTyped'
  <2>1. Becomes(t, [task[t] EXCEPT !.k = @ + 1]) /\ task[t].k <= Len(task[t].jobs)
    BY <1>10 DEF Download, JobsLeft
  <2>2. Ok([task[t] EXCEPT !.k = @ + 1])
    BY <1>1, <2>1, Fields DEF Ok, Task
  <2>. QED
    BY <1>2, <2>1, <2>2
<1>11. ASSUME NEW t \in Tasks, Becomes(t, [task[t] EXCEPT !.pc = "upload", !.k = 1])
       PROVE  TasksTyped'
  <2>1. Becomes(t, [task[t] EXCEPT !.pc = "upload", !.k = 1])
    BY <1>11
  <2>2. 1 \in Nat \ {0} /\ 1 <= Len(task[t].jobs) + 1 /\ "upload" \in Pcs
    BY <1>1, <1>3, Fields
  <2>3. Ok([task[t] EXCEPT !.pc = "upload", !.k = 1])
    BY <1>1, <2>2, NewJob
  <2>. QED
    BY <1>2, <2>1, <2>3
<1>12. ASSUME NEW t \in Tasks, Write(t), ~Fail(t)
       PROVE  TasksTyped'
  <2>2. JobsLeft(t)
    BY <1>12 DEF Checked, Write
  <2> DEFINE k == task[t].k + 1
  <2>3. k \in Nat \ {0} /\ k <= Len(task[t].jobs) + 1 /\ "upload" \in Pcs
    <3>1. task[t].k \in Nat \ {0} /\ Len(task[t].jobs) \in Nat
      BY <1>1, Fields
    <3>. QED
      BY <1>3, <2>2, <3>1 DEF JobsLeft
  <2>4. Becomes(t, [task[t] EXCEPT !.pc = "upload", !.k = k])
    BY <1>12 DEF Write
  <2> HIDE DEF k
  <2>5. Ok([task[t] EXCEPT !.pc = "upload", !.k = k])
    BY <1>1, <2>3, NewJob
  <2>. QED
    BY <1>2, <2>4, <2>5
<1>16. ASSUME NEW t \in Tasks, Misled(t)
       PROVE  TasksTyped'
  <2>1. \/ \E pc \in {"stat", "download", "write"} : Go(t, pc)
        \/ Becomes(t, [task[t] EXCEPT !.pc = "upload", !.k = 1])
        \/ Becomes(t, Over(task[t], "done"))
    BY <1>16 DEF Misled
  <2>. QED
    BY <1>3, <1>4, <1>11, <1>15, <2>1
<1>13. CASE Restart
  <2>1. task' = [t \in Tasks |-> IF task[t].pc \in Ended THEN task[t]
                                 ELSE Over(task[t], "lost")]
    BY <1>13 DEF Restart
  <2>2. \A t \in Tasks : Ok(Over(task[t], "lost"))
    BY <1>1, <1>3, NewOver
  <2>3. \A t \in Tasks : Ok(task'[t])
    BY <1>1, <2>1, <2>2 DEF Ok
  <2>. QED
    BY <2>1, <2>3 DEF Ok, TasksTyped
<1>14. ASSUME UNCHANGED task
       PROVE  TasksTyped'
  BY <1>14 DEF Typed, TasksTyped
<1>. QED
  <2>1. ASSUME NEW t \in Tasks, Step(t)
        PROVE  TasksTyped'
    BY <1>5, <1>7, <1>8, <1>9, <1>10, <1>11, <1>12, <2>1 DEF Step, MakeDirs
  <2>2. ASSUME \E side \in {"src", "dst"}, f \in Entries : OtherWrite(side, f) \/ OtherDelete(side, f)
        PROVE  TasksTyped'
    BY <1>14, <2>2 DEF OtherWrite, OtherDelete
  <2>3. ASSUME \E t \in Tasks, op \in {"move", "copy"}, ow \in BOOLEAN : Enqueue(t, op, ow)
        PROVE  TasksTyped'
    BY <1>6, <2>3
  <2>4. ASSUME UNCHANGED vars PROVE TasksTyped'
    BY <1>14, <2>4 DEF vars
  <2>5. ASSUME \E t \in Tasks : Step(t) \/ Failure(t)
        PROVE  TasksTyped'
    BY <1>7, <1>16, <2>1, <2>5 DEF Failure
  <2>. QED
    BY <1>13, <2>2, <2>3, <2>4, <2>5 DEF Next

LEMMA JobIsJob ==
  ASSUME Typed, NEW t \in Tasks, JobsLeft(t)
  PROVE  Job(t) \in Jobs(t) /\ Job(t) \in Entries
<1>1. task[t].k \in Nat \ {0} /\ task[t].jobs \in Seq(Entries) /\ Len(task[t].jobs) \in Nat
  BY Fields DEF Typed, TasksTyped
<1>2. task[t].k \in 1 .. Len(task[t].jobs)
  BY <1>1 DEF JobsLeft
<1>. QED
  BY <1>1, <1>2 DEF Jobs, Taken, Job

\* A write of a run writes a content it has read.
LEMMA WritesRead ==
  ASSUME Typed, NEW t \in Tasks, Carried(t), Checked(t), task[t].pc = "write"
  PROVE  Job(t) \in Entries /\ Job(t) \in Jobs(t) /\ temp[t][Job(t)] \in Contents
<1>1. JobsLeft(t) /\ task[t].pc = "write"
  BY DEF Checked
<1>2. Job(t) \in Entries /\ Job(t) \in Jobs(t)
  BY <1>1, JobIsJob
<1>. QED
  BY <1>1, <1>2 DEF Carried, Read

\* Any step either leaves the mounts alone, or does one of these to one of them.
Touch(side, m) ==
    \/ m = Absent
    \/ \E e \in Entries, c \in Contents :
         /\ Fits(mount[side], e) /\ m = Put(mount[side], e, c)
         /\ side = "src" => c = Made' /\ Made' = Made + 1
    \/ \E e \in Entries : m = [mount[side] EXCEPT !.file[e] = None]
    \/ side = "dst" /\ mount.dst.file[Root] = None /\ m = [mount.dst EXCEPT !.dir = TRUE]

LEMMA MountSteps ==
  ASSUME IInv, [Next]_vars
  PROVE  \/ UNCHANGED mount
         \/ \E side \in {"src", "dst"} : \E m : mount' = [mount EXCEPT ![side] = m] /\ Touch(side, m)
<1> DEFINE Goal == \E side \in {"src", "dst"} : \E m : mount' = [mount EXCEPT ![side] = m] /\ Touch(side, m)
<1>1. ASSUME NEW t \in Tasks, ClearDst(t) \/ DeleteSrc(t)
      PROVE  Goal
  BY <1>1 DEF ClearDst, DeleteSrc, Touch
<1>2. ASSUME NEW t \in Tasks, MakeDirs(t), mount' # mount
      PROVE  Goal
  <2> DEFINE m == [mount.dst EXCEPT !.dir = TRUE]
  <2>1. mount' = [mount EXCEPT !["dst"] = m] /\ mount.dst.file[Root] = None
    BY <1>2 DEF MakeDirs
  <2>. QED
    BY <2>1 DEF Touch
<1>3. ASSUME NEW t \in Tasks, Write(t), mount' # mount
      PROVE  Goal
  <2> DEFINE m == Put(mount.dst, Job(t), temp[t][Job(t)])
  <2>1. mount' = [mount EXCEPT !["dst"] = m] /\ Fits(mount.dst, Job(t))
    BY <1>3 DEF Write
  <2>2. Job(t) \in Entries /\ temp[t][Job(t)] \in Contents
    BY <1>3, WritesRead DEF IInv, Run, Write
  <2>. QED
    BY <2>1, <2>2 DEF Touch
<1>4. ASSUME NEW side \in {"src", "dst"}, NEW e \in Entries, OtherWrite(side, e)
      PROVE  Goal
  <2> DEFINE c == 2 * Cardinality(Names) + 2 + writes + 1
             m == Put(mount[side], e, c)
  <2>1. mount' = [mount EXCEPT ![side] = m] /\ Fits(mount[side], e)
    BY <1>4 DEF OtherWrite
  <2>2. writes \in Nat /\ writes < MaxWrites /\ writes' = writes + 1
    <3>1. writes < MaxWrites /\ writes' = writes + 1
      BY <1>4, Zenon DEF OtherWrite
    <3>. QED
      BY <3>1, BoundsAssumption DEF IInv, Typed
  <2>3. c \in Contents /\ c = Made' /\ Made' = Made + 1
    BY <2>2, Types, BoundsAssumption DEF Contents, Made
  <2> HIDE DEF c
  <2>. QED
    BY <2>1, <2>3 DEF Touch
<1>5. ASSUME NEW side \in {"src", "dst"}, NEW e \in Entries, OtherDelete(side, e)
      PROVE  Goal
  <2> DEFINE m == [mount[side] EXCEPT !.file[e] = None]
  <2>1. mount' = [mount EXCEPT ![side] = m]
    BY <1>5 DEF OtherDelete
  <2>. QED
    BY <2>1 DEF Touch
<1>9. ASSUME NEW t \in Tasks, LostAnswer(t)
      PROVE  Goal
  <2>1. CASE task[t].pc = "clear" \/ task[t].pc = "upload"
    <3>1. \E side \in {"src", "dst"} : mount' = [mount EXCEPT ![side] = Absent]
      BY <1>9, <2>1 DEF LostAnswer
    <3>. QED
      BY <3>1 DEF Touch
  <2>2. CASE task[t].pc = "write"
    <3> DEFINE m == Put(mount.dst, Job(t), temp[t][Job(t)])
    <3>1. mount' = [mount EXCEPT !["dst"] = m] /\ Fits(mount.dst, Job(t))
      BY <1>9, <2>2 DEF LostAnswer
    <3>2. Job(t) \in Entries /\ temp[t][Job(t)] \in Contents
      BY <2>2, WritesRead DEF IInv, Run
    <3>. QED
      BY <3>1, <3>2 DEF Touch
  <2>. QED
    BY <1>9, <2>1, <2>2 DEF LostAnswer
<1> HIDE DEF Goal
<1>6. ASSUME NEW t \in Tasks, Begin(t) \/ StatSrc(t) \/ ListPage(t) \/ Download(t) \/ Upload(t)
                              \/ EndCopy(t) \/ Fault(t) \/ Misled(t) \/ \E op \in {"move", "copy"}, ow \in BOOLEAN : Enqueue(t, op, ow)
      PROVE  UNCHANGED mount
  BY <1>6 DEF Begin, StatSrc, ListPage, Download, Upload, EndCopy, Fault, Misled, Enqueue
<1>7. ASSUME Restart \/ UNCHANGED vars
      PROVE  UNCHANGED mount
  BY <1>7 DEF Restart, vars
<1>8. Goal \/ UNCHANGED mount
  <2>1. ASSUME NEW t \in Tasks, Step(t) \/ Failure(t)
        PROVE  Goal \/ UNCHANGED mount
    BY <1>1, <1>2, <1>3, <1>6, <1>9, <2>1 DEF Step, Failure
  <2>2. ASSUME NEW t \in Tasks, \E op \in {"move", "copy"}, ow \in BOOLEAN : Enqueue(t, op, ow)
        PROVE  Goal \/ UNCHANGED mount
    BY <1>6, <2>2
  <2>. QED
    BY <1>4, <1>5, <1>7, <2>1, <2>2 DEF Next
<1>. QED
  BY <1>8 DEF Goal

\* What a touched mount is.
LEMMA Touched ==
  ASSUME IInv, NEW side \in {"src", "dst"}, NEW m, Touch(side, m)
  PROVE  /\ m \in Mount /\ Sound(m)
         /\ Old(mount[side]) /\ (side = "src" => Made' \in Nat /\ Made <= Made') =>
              (side = "src" => \A e \in Entries : m.file[e] # None => m.file[e] <= Made')
<1> DEFINE old == mount[side]
<1>1. old \in Mount /\ Sound(old)
  BY DEF IInv, Typed, Mounts
<1>2. Made \in Nat
  BY Types, BoundsAssumption DEF Made, IInv, Typed
<1>3. \A e \in Entries : old.file[e] # None => old.file[e] \in Nat
  BY <1>1, Types DEF Mount
<1>4. CASE m = Absent
  BY <1>4, Types DEF Sound
<1>5. ASSUME NEW e \in Entries, NEW c \in Contents, Fits(old, e), m = Put(old, e, c),
             side = "src" => c = Made' /\ Made' = Made + 1
      PROVE  /\ m \in Mount /\ Sound(m)
             /\ Old(old) => (side = "src" => \A f \in Entries : m.file[f] # None => m.file[f] <= Made')
  <2>1. m \in Mount /\ Sound(m) /\ \A f \in Entries : m.file[f] = IF f = e THEN c ELSE old.file[f]
    BY <1>1, <1>5, PutOne
  <2> HIDE DEF old
  <2>. QED
    BY <1>2, <1>3, <1>5, <2>1 DEF Old
<1>6. ASSUME NEW e \in Entries, m = [old EXCEPT !.file[e] = None]
      PROVE  /\ m \in Mount /\ Sound(m) /\ \A f \in Entries : m.file[f] = None \/ m.file[f] = old.file[f]
  <2> HIDE DEF old
  <2>1. m \in Mount /\ m.dir = old.dir /\ \A f \in Entries : m.file[f] = None \/ m.file[f] = old.file[f]
    BY <1>1, <1>6 DEF Mount
  <2>. QED
    BY <1>1, <2>1, Types DEF Sound
<1>7. ASSUME old.file[Root] = None, m = [old EXCEPT !.dir = TRUE]
      PROVE  m \in Mount /\ Sound(m)
  <2> HIDE DEF old
  <2>1. m \in Mount /\ m.dir /\ m.file = old.file
    BY <1>1, <1>7 DEF Mount
  <2>. QED
    BY <1>1, <1>7, <2>1 DEF Sound
<1>. QED
  BY <1>2, <1>3, <1>4, <1>5, <1>6, <1>7, Types DEF Touch, Old

\* What any step does to what is noted of a run.
NoteStep(u) ==
    /\ note'[u] \in Note
    /\ note'[u].found = note[u].found \/ note'[u].found = mount.src

LEMMA NoteSteps ==
  ASSUME Typed, [Next]_vars
  PROVE  note' \in [Tasks -> Note] /\ \A u \in Tasks : NoteStep(u)
<1> DEFINE Goal == note' \in [Tasks -> Note] /\ \A u \in Tasks : NoteStep(u)
<1>1. note \in [Tasks -> Note] /\ mount.src \in Mount
  BY DEF Typed
<1>2. ASSUME NEW f, note' = [u \in Tasks |-> f[u]], \A u \in Tasks : f[u] \in Note /\ f[u].found = note[u].found
      PROVE  Goal
  BY <1>2 DEF NoteStep
<1>3. \A u \in Tasks : note[u] \in Note
  BY <1>1
<1>4. ASSUME NEW u \in Tasks, NEW q \in BOOLEAN, NEW l \in BOOLEAN, NEW s \in BOOLEAN
      PROVE  /\ [note[u] EXCEPT !.quiet = q] \in Note
             /\ [note[u] EXCEPT !.unseen = l] \in Note
             /\ [note[u] EXCEPT !.quiet = q, !.unseen = l] \in Note
             /\ [note[u] EXCEPT !.quiet = q, !.short = s] \in Note
             /\ [note[u] EXCEPT !.quiet = q].found = note[u].found
             /\ [note[u] EXCEPT !.unseen = l].found = note[u].found
             /\ [note[u] EXCEPT !.quiet = q, !.unseen = l].found = note[u].found
             /\ [note[u] EXCEPT !.quiet = q, !.short = s].found = note[u].found
             /\ [note[u] EXCEPT !.quiet = q, !.short = s, !.unseen = l] \in Note
             /\ [note[u] EXCEPT !.quiet = q, !.short = s, !.unseen = l].found = note[u].found
             /\ [note[u] EXCEPT !.found = mount.src] \in Note
             /\ [note[u] EXCEPT !.found = mount.src].found = mount.src
  <2>1. note[u] \in Note
    BY <1>3
  <2>. QED
    BY <1>1, <1>4, <2>1 DEF Note
<1>5. ASSUME NEW T, note' = Disturb(T)
      PROVE  Goal
  <2>1. \A u \in Tasks : note'[u] = note[u] \/ note'[u] = [note[u] EXCEPT !.quiet = FALSE]
    BY <1>5 DEF Disturb
  <2>2. \A u \in Tasks : note'[u] \in Note /\ note'[u].found = note[u].found
    BY <1>3, <1>4, <2>1
  <2>3. DOMAIN note' = Tasks /\ note' = [u \in Tasks |-> note'[u]]
    BY <1>5 DEF Disturb
  <2>. QED
    BY <2>2, <2>3 DEF NoteStep
<1>6. ASSUME NEW t \in Tasks, NEW r \in Note, note' = [note EXCEPT ![t] = r],
             r.found = note[t].found \/ r.found = mount.src
      PROVE  Goal
  BY <1>1, <1>6 DEF NoteStep
<1>7. ASSUME NEW t \in Tasks, Begin(t) \/ StatSrc(t) \/ Upload(t)
      PROVE  Goal
  <2>1. \/ note' = [note EXCEPT ![t] = [note[t] EXCEPT !.quiet = TRUE]]
        \/ note' = [note EXCEPT ![t] = [note[t] EXCEPT !.found = mount.src]]
        \/ note' = [note EXCEPT ![t] = [note[t] EXCEPT !.unseen = FALSE]]
    BY <1>7 DEF Begin, StatSrc, Upload
  <2> HIDE DEF Goal
  <2>. QED
    BY <1>4, <1>6, <2>1
<1>8. ASSUME NEW t \in Tasks, ClearDst(t) \/ MakeDirs(t) \/ DeleteSrc(t)
      PROVE  Goal
  BY <1>5, <1>8 DEF ClearDst, MakeDirs, DeleteSrc
<1>9. ASSUME UNCHANGED note
      PROVE  Goal
  BY <1>1, <1>3, <1>9 DEF NoteStep
<1>16. ASSUME NEW t \in Tasks, Misled(t)
       PROVE  Goal
  <2> DEFINE s == note[t].short \/ task[t].pc = "list"
             l == note[t].unseen \/ task'[t].pc = "write"
  <2>1. note' = [note EXCEPT ![t] = [note[t] EXCEPT !.quiet = FALSE, !.short = s, !.unseen = l]]
    BY <1>1, <1>16 DEF Misled
  <2>2. s \in BOOLEAN /\ l \in BOOLEAN
    OBVIOUS
  <2> HIDE DEF s, l, Goal
  <2>3. /\ [note[t] EXCEPT !.quiet = FALSE, !.short = s, !.unseen = l] \in Note
        /\ [note[t] EXCEPT !.quiet = FALSE, !.short = s, !.unseen = l].found = note[t].found
    BY <1>4, <2>2
  <2>. QED
    BY <1>6, <2>1, <2>3
<1>10. ASSUME NEW t \in Tasks, Write(t) \/ LostAnswer(t), note' # note
       PROVE  Goal
  <2>1. note' = [u \in Tasks |->
                    IF u = t THEN note[t] ELSE [note[u] EXCEPT !.quiet = FALSE, !.unseen = TRUE]]
    BY <1>10 DEF Write, LostAnswer
  <2>2. \A u \in Tasks : note'[u] = note[u] \/ note'[u] = [note[u] EXCEPT !.quiet = FALSE, !.unseen = TRUE]
    BY <2>1
  <2>3. \A u \in Tasks : note'[u] \in Note /\ note'[u].found = note[u].found
    BY <1>3, <1>4, <2>2
  <2>. QED
    BY <2>1, <2>3 DEF NoteStep
<1>11. ASSUME NEW side \in {"src", "dst"}, NEW e \in Entries, OtherWrite(side, e)
       PROVE  Goal
  <2>1. note' = [t \in Tasks |-> [note[t] EXCEPT !.quiet = FALSE, !.unseen = note[t].unseen \/ side = "dst"]]
    BY <1>11 DEF OtherWrite
  <2>2. \A u \in Tasks : (note[u].unseen \/ side = "dst") \in BOOLEAN
    OBVIOUS
  <2>3. \A u \in Tasks : note'[u] \in Note /\ note'[u].found = note[u].found
    BY <1>4, <2>1, <2>2
  <2>. QED
    BY <2>1, <2>3 DEF NoteStep
<1>12. ASSUME NEW side \in {"src", "dst"}, NEW e \in Entries, OtherDelete(side, e)
       PROVE  Goal
  <2> DEFINE s(u) == note[u].short \/ (side = "src" /\ task[u].pc = "list")
  <2>1. note' = [t \in Tasks |-> [note[t] EXCEPT !.quiet = FALSE, !.short = s(t)]]
    BY <1>12 DEF OtherDelete
  <2>2. \A u \in Tasks : s(u) \in BOOLEAN
    OBVIOUS
  <2> HIDE DEF s
  <2>3. \A u \in Tasks : note'[u] \in Note /\ note'[u].found = note[u].found
    BY <1>4, <2>1, <2>2
  <2>. QED
    BY <2>1, <2>3 DEF NoteStep
<1> HIDE DEF Goal
<1>13. ASSUME NEW t \in Tasks, ListPage(t) \/ Download(t) \/ EndCopy(t) \/ Fault(t)
       PROVE  Goal
  BY <1>9, <1>13 DEF ListPage, Download, EndCopy, Fault
<1>14. ASSUME NEW t \in Tasks, NEW op \in {"move", "copy"}, NEW ow \in BOOLEAN, Enqueue(t, op, ow)
       PROVE  Goal
  BY <1>9, <1>14 DEF Enqueue
<1>15. Goal
  <2>1. ASSUME NEW t \in Tasks, Step(t) \/ Failure(t)
        PROVE  Goal
    BY <1>7, <1>8, <1>9, <1>10, <1>13, <1>16, <2>1 DEF Step, Failure
  <2>2. ASSUME Restart \/ UNCHANGED vars
        PROVE  Goal
    BY <1>9, <2>2 DEF Restart, vars
  <2>. QED
    BY <1>11, <1>12, <1>14, <2>1, <2>2 DEF Next
<1>. QED
  BY <1>15 DEF Goal

LEMMA TypedStep ==
  ASSUME IInv, [Next]_vars
  PROVE  Typed' /\ Mounts'
<1>1. TasksTyped'
  BY TaskTyped DEF IInv, Run
<1>2. writes' \in 0 .. MaxWrites /\ faults' \in 0 .. MaxFaults /\ Made' \in Nat /\ Made <= Made'
  <2>1. writes' = writes \/ (writes < MaxWrites /\ writes' = writes + 1)
    BY DEF Next, Step, Begin, ClearDst, StatSrc, ListPage, Download, MakeDirs, Upload, Write,
           DeleteSrc, EndCopy, Failure, Fault, LostAnswer, Misled, Enqueue, OtherWrite, OtherDelete,
           Restart, vars
  <2>2. faults' = faults \/ (faults < MaxFaults /\ faults' = faults + 1)
    BY DEF Next, Step, Begin, ClearDst, StatSrc, ListPage, Download, MakeDirs, Upload, Write,
           DeleteSrc, EndCopy, Failure, Fault, LostAnswer, Misled, Enqueue, OtherWrite, OtherDelete,
           Restart, vars
  <2>. QED
    BY <2>1, <2>2, Types, BoundsAssumption DEF Made, IInv, Typed
<1>3. mount' \in [{"src", "dst"} -> Mount] /\ Sound(mount'.src) /\ Sound(mount'.dst) /\ Old(mount.src)'
  <2>1. mount \in [{"src", "dst"} -> Mount] /\ Sound(mount.src) /\ Sound(mount.dst) /\ Old(mount.src)
    BY DEF IInv, Typed, Mounts
  <2>2. \A e \in Entries : mount.src.file[e] # None => mount.src.file[e] \in Nat
    BY <2>1, Types DEF Mount
  <2>3. Made \in Nat
    BY Types, BoundsAssumption DEF Made, IInv, Typed
  <2>4. CASE UNCHANGED mount
    BY <1>2, <2>1, <2>2, <2>3, <2>4 DEF Old
  <2>5. ASSUME NEW side \in {"src", "dst"}, NEW m, mount' = [mount EXCEPT ![side] = m], Touch(side, m)
        PROVE  mount' \in [{"src", "dst"} -> Mount] /\ Sound(mount'.src) /\ Sound(mount'.dst)
               /\ Old(mount.src)'
    <3>1. m \in Mount /\ Sound(m) /\ (side = "src" => \A e \in Entries : m.file[e] # None => m.file[e] <= Made')
      BY <1>2, <2>1, <2>5, Touched
    <3>2. CASE side = "src"
      BY <2>1, <2>5, <3>1, <3>2 DEF Old
    <3>3. CASE side = "dst"
      BY <1>2, <2>1, <2>2, <2>3, <2>5, <3>1, <3>3 DEF Old
    <3>. QED
      BY <3>2, <3>3
  <2>. QED
    BY <2>4, <2>5, MountSteps
<1>4. note' \in [Tasks -> Note] /\ \A t \in Tasks : Sound(note'[t].found) /\ Old(note[t].found)'
  <2>1. \A t \in Tasks : note[t].found \in Mount /\ Sound(note[t].found) /\ Old(note[t].found)
    BY DEF IInv, Typed, Mounts, Note
  <2>2. mount.src \in Mount /\ Sound(mount.src) /\ Old(mount.src)
    BY DEF IInv, Typed, Mounts
  <2>3. note' \in [Tasks -> Note] /\ \A t \in Tasks :
           note'[t].found = note[t].found \/ note'[t].found = mount.src
    BY NoteSteps DEF IInv, NoteStep
  <2>4. ASSUME NEW m \in Mount, Old(m)
        PROVE  \A e \in Entries : m.file[e] # None => m.file[e] <= Made'
    <3>1. \A e \in Entries : m.file[e] # None => m.file[e] \in Nat
      BY Types DEF Mount
    <3>2. Made \in Nat
      BY Types, BoundsAssumption DEF Made, IInv, Typed
    <3>. QED
      BY <1>2, <2>4, <3>1, <3>2 DEF Old
  <2>. QED
    BY <2>1, <2>2, <2>3, <2>4 DEF Old
<1>5. temp' \in [Tasks -> [Entries -> Contents \cup {None}]]
  <2>1. temp \in [Tasks -> [Entries -> Contents \cup {None}]] /\ Empty \in [Entries -> Contents \cup {None}]
    BY Types DEF IInv, Typed
  <2>2. ASSUME NEW t \in Tasks, Download(t), ~Fail(t)
        PROVE  temp' \in [Tasks -> [Entries -> Contents \cup {None}]]
    <3>1. temp' = [temp EXCEPT ![t][Job(t)] = mount.src.file[Job(t)]] /\ JobsLeft(t)
      BY <2>2 DEF Download
    <3>2. Job(t) \in Entries
      BY <3>1, JobIsJob DEF IInv
    <3>3. mount.src.file[Job(t)] \in Contents \cup {None}
      BY <3>2 DEF IInv, Typed, Mount
    <3>. QED
      BY <2>1, <3>1, <3>2, <3>3
  <2>3. ASSUME NEW t \in Tasks, temp' = [temp EXCEPT ![t] = Empty]
        PROVE  temp' \in [Tasks -> [Entries -> Contents \cup {None}]]
    BY <2>1, <2>3
  <2>4. \/ UNCHANGED temp
        \/ \E t \in Tasks : temp' = [temp EXCEPT ![t] = Empty]
        \/ \E t \in Tasks : Download(t) /\ ~Fail(t)
    BY DEF Next, Step, Begin, ClearDst, StatSrc, ListPage, MakeDirs, Upload, Write, Fail,
           DeleteSrc, EndCopy, Failure, Fault, LostAnswer, Misled, Enqueue, OtherWrite, OtherDelete,
           Restart, vars
  <2>. QED
    BY <2>1, <2>2, <2>3, <2>4
<1>6. arrived' \subseteq Contents
  <2>1. \/ arrived' = arrived
        \/ \E t \in Tasks : task[t].pc = "write" /\ arrived' = arrived \cup {temp[t][Job(t)]}
    BY DEF Next, Step, Begin, ClearDst, StatSrc, ListPage, Download, MakeDirs, Upload, Write,
           DeleteSrc, EndCopy, Failure, Fault, LostAnswer, Misled, Enqueue, OtherWrite, OtherDelete,
           Restart, vars
  <2>. QED
    BY <2>1, WritesRead DEF IInv, Typed, Run
<1>. QED
  BY <1>1, <1>2, <1>3, <1>4, <1>5, <1>6 DEF Typed, Mounts
-----------------------------------------------------------------------------
\* What a step may mean for a run that does not make it.
Beside(u) ==
    /\ task'[u] = task[u] /\ temp'[u] = temp[u] /\ note'[u].found = note[u].found
    /\ arrived \subseteq arrived'
    /\ note[u].short => note'[u].short
    /\ note'[u].short => note[u].short \/ (task[u].pc = "list" /\ ~note'[u].quiet)
    /\ note'[u].quiet => note[u].quiet /\ mount' = mount
    /\ ~note'[u].unseen =>
         ~note[u].unseen /\ \A e \in Entries : mount.dst.file[e] = None => mount'.dst.file[e] = None
    /\ \A e \in Same(u)' : e \in Same(u) /\ mount'.src.file[e] = mount.src.file[e]
    /\ task[u].pc = "list" /\ ~note'[u].short =>
         \A e \in Same(u)' : Rank(mount.src, e) <= Rank(mount'.src, e)

LEMMA BesideKeeps ==
  ASSUME Typed, NEW u \in Tasks, Run(u), Beside(u)
  PROVE  Run(u)'
<1>1. Jobs(u)' = Jobs(u) /\ DoneJobs(u)' = DoneJobs(u) /\ Job(u)' = Job(u) /\ JobsLeft(u)' = JobsLeft(u)
  BY DEF Beside, Jobs, DoneJobs, Job, JobsLeft
<1>2. \A e : Read(u, e) => Read(u, e)'
  BY DEF Read, Beside
<1>3. Carried(u)'
  BY <1>1, <1>2 DEF Beside, Run, Carried
<1>4. Checked(u)'
  <2>1. JobsLeft(u) => Job(u) \in Entries
    BY JobIsJob
  <2>. QED
    BY <1>1, <2>1 DEF Beside, Run, Checked
<1>5. Listed(u)'
  <2>1. task[u].page \in Nat \ {0} /\ PageSize \in Nat /\ \A m, n : Rank(m, n) \in Nat
    BY PresentIsFinite, BoundsAssumption, Fields DEF Typed, TasksTyped
  <2> DEFINE before == (task[u].page - 1) * PageSize
  <2>2. before \in Nat
    BY <2>1
  <2>3. /\ note'[u].quiet \/ task[u].pc \in {"new", "queued"} => ~note'[u].short
        /\ task[u].pc \in {"download", "upload", "write"} /\ ~note'[u].short => Same(u)' \subseteq Jobs(u)
    BY DEF Beside, Run, Listed
  <2>4. ASSUME task[u].pc = "list", ~note'[u].short, NEW e \in Same(u)'
        PROVE  e \in Names /\ (Rank(mount'.src, e) <= before => e \in Jobs(u))
    <3>1. e \in Same(u) /\ Rank(mount.src, e) <= Rank(mount'.src, e) /\ ~note[u].short
      BY <2>4 DEF Beside
    <3>2. e \in Names /\ (Rank(mount.src, e) <= before => e \in Jobs(u))
      BY <2>4, <3>1 DEF Run, Listed
    <3> HIDE DEF before
    <3>. QED
      BY <2>1, <2>2, <3>1, <3>2
  <2>5. task'[u].page = task[u].page /\ task'[u].pc = task[u].pc
    BY DEF Beside
  <2>. QED
    BY <1>1, <2>3, <2>4, <2>5 DEF Listed
<1>6. Alone(u)'
  BY <1>1 DEF Beside, Run, Alone
<1>. QED
  BY <1>3, <1>4, <1>5, <1>6 DEF Run

\* A step that leaves the mounts, and what is another's, alone.
Calm(u) ==
    /\ task'[u] = task[u] /\ temp'[u] = temp[u] /\ note'[u] = note[u]
    /\ arrived' = arrived /\ mount' = mount

LEMMA CalmIsBeside ==
  ASSUME Typed, NEW u \in Tasks, Calm(u)
  PROVE  Beside(u)
<1>1. Same(u)' = Same(u)
  BY DEF Calm, Same
<1>2. \A e : Rank(mount.src, e) <= Rank(mount'.src, e)
  <2>1. \A e : Rank(mount.src, e) \in Nat
    BY PresentIsFinite
  <2>. QED
    BY <2>1 DEF Calm
<1>. QED
  BY <1>1, <1>2 DEF Calm, Beside

\* A name's place only grows when a file is added.
LEMMA RankGrows ==
  ASSUME NEW m, NEW n, Present(m) \subseteq Present(n), NEW e
  PROVE  Rank(m, e) <= Rank(n, e)
<1>1. Upto(m, e) \in SUBSET Upto(n, e) /\ IsFiniteSet(Upto(n, e))
  BY PresentIsFinite DEF Upto
<1>. QED
  BY <1>1, FS_Subset DEF Rank

\* Writes at the destination are no business of the source.
LEMMA AtTheDestination ==
  ASSUME NEW u \in Tasks, mount'.src = mount.src, note'[u].found = note[u].found
  PROVE  /\ \A e \in Same(u)' : e \in Same(u) /\ mount'.src.file[e] = mount.src.file[e]
         /\ \A e : Rank(mount.src, e) <= Rank(mount'.src, e)
<1>1. \A e : Rank(mount.src, e) \in Nat
  BY PresentIsFinite
<1>. QED
  BY <1>1 DEF Same

LEMMA OthersKeep ==
  ASSUME IInv, Typed', NEW t \in Tasks, NEW u \in Tasks \ {t},
         \/ Step(t) \/ Failure(t)
         \/ \E op \in {"move", "copy"}, ow \in BOOLEAN : Enqueue(t, op, ow)
  PROVE  Run(u)'
<1>1. task'[u] = task[u]
  BY DEF IInv, Typed, TasksTyped, Step, Begin, ClearDst, StatSrc, ListPage, Download, MakeDirs,
         Upload, Write, DeleteSrc, EndCopy, Failure, Fault, LostAnswer, Misled, Enqueue, Go, Becomes, Fail
<1>2. temp'[u] = temp[u]
  BY DEF IInv, Typed, Step, Begin, ClearDst, StatSrc, ListPage, Download, MakeDirs,
         Upload, Write, DeleteSrc, EndCopy, Failure, Fault, LostAnswer, Misled, Enqueue, Fail
<1>3. note[u] \in Note /\ note'[u] \in Note
  BY DEF IInv, Typed
<1>4. mount \in [{"src", "dst"} -> Mount]
  BY DEF IInv, Typed
<1>5. ASSUME Begin(t) \/ StatSrc(t) \/ ListPage(t) \/ Download(t) \/ Upload(t) \/ EndCopy(t) \/ Fault(t)
             \/ Misled(t) \/ \E op \in {"move", "copy"}, ow \in BOOLEAN : Enqueue(t, op, ow)
      PROVE  Calm(u)
  BY <1>1, <1>2, <1>5 DEF Calm, IInv, Typed, Begin, StatSrc, ListPage, Download, Upload, EndCopy,
                          Fault, Misled, Enqueue
<1>6. ASSUME Write(t), note' = note
      PROVE  Calm(u) \/ Beside(u)
  <2>1. CASE Fits(mount.dst, Job(t))
    <3>1. note' = [v \in Tasks |->
                    IF v = t THEN note[t] ELSE [note[v] EXCEPT !.quiet = FALSE, !.unseen = TRUE]]
          /\ mount'.src = mount.src /\ arrived \subseteq arrived'
      BY <1>4, <1>6, <2>1 DEF Write
    <3>2. ~note'[u].quiet /\ note'[u].unseen /\ note'[u].found = note[u].found /\ note'[u].short = note[u].short
      BY <1>3, <3>1 DEF Note
    <3>. QED
      BY <1>1, <1>2, <3>1, <3>2, AtTheDestination DEF Beside
  <2>2. CASE ~Fits(mount.dst, Job(t))
    BY <1>1, <1>2, <1>6, <2>2 DEF Calm, Write
  <2>. QED
    BY <2>1, <2>2
<1>7. ASSUME Write(t), note' # note
      PROVE  Beside(u)
  <2>1. note' = [v \in Tasks |->
                    IF v = t THEN note[t] ELSE [note[v] EXCEPT !.quiet = FALSE, !.unseen = TRUE]]
        /\ mount'.src = mount.src /\ arrived \subseteq arrived'
    BY <1>4, <1>7 DEF Write
  <2>2. ~note'[u].quiet /\ note'[u].unseen /\ note'[u].found = note[u].found /\ note'[u].short = note[u].short
    BY <1>3, <2>1 DEF Note
  <2>. QED
    BY <1>1, <1>2, <2>1, <2>2, AtTheDestination DEF Beside
<1>8. ASSUME ClearDst(t) \/ MakeDirs(t) \/ DeleteSrc(t)
      PROVE  Beside(u)
  <2>1. note' = Disturb(Tasks \ {t}) /\ arrived' = arrived
    BY <1>8 DEF ClearDst, MakeDirs, DeleteSrc
  <2>2. note'[u] = [note[u] EXCEPT !.quiet = FALSE]
    BY <2>1 DEF Disturb
  <2>3. ~note'[u].quiet /\ note'[u].found = note[u].found /\ note'[u].short = note[u].short
        /\ note'[u].unseen = note[u].unseen
    BY <1>3, <2>2 DEF Note
  <2>4. CASE ClearDst(t)
    <3>1. mount'.src = mount.src /\ mount'.dst = Absent
      BY <1>4, <2>4 DEF ClearDst
    <3>. QED
      BY <1>1, <1>2, <2>1, <2>3, <3>1, AtTheDestination, Types DEF Beside
  <2>5. CASE MakeDirs(t)
    <3>1. mount'.src = mount.src /\ mount'.dst.file = mount.dst.file
      BY <1>4, <2>5 DEF MakeDirs, Mount
    <3>. QED
      BY <1>1, <1>2, <2>1, <2>3, <3>1, AtTheDestination DEF Beside
  <2>6. CASE DeleteSrc(t)
    <3>1. mount'.src = Absent /\ mount'.dst = mount.dst
      BY <1>4, <2>6 DEF DeleteSrc
    <3>2. Same(u)' = {}
      BY <3>1, Types DEF Same
    <3>. QED
      BY <1>1, <1>2, <2>1, <2>3, <3>1, <3>2 DEF Beside
  <2>. QED
    BY <1>8, <2>4, <2>5, <2>6
<1>10. ASSUME LostAnswer(t)
       PROVE  Beside(u)
  <2>1. note' = [v \in Tasks |->
                    IF v = t THEN note[t] ELSE [note[v] EXCEPT !.quiet = FALSE, !.unseen = TRUE]]
        /\ arrived \subseteq arrived' /\ (mount'.src = mount.src \/ mount'.src = Absent)
    BY <1>4, <1>10 DEF LostAnswer
  <2>2. ~note'[u].quiet /\ note'[u].unseen /\ note'[u].found = note[u].found /\ note'[u].short = note[u].short
    BY <1>3, <2>1 DEF Note
  <2>3. CASE mount'.src = mount.src
    BY <1>1, <1>2, <2>1, <2>2, <2>3, AtTheDestination DEF Beside
  <2>4. CASE mount'.src = Absent
    <3>1. Same(u)' = {}
      BY <2>4, Types DEF Same
    <3>. QED
      BY <1>1, <1>2, <2>1, <2>2, <3>1 DEF Beside
  <2>. QED
    BY <2>1, <2>3, <2>4
<1>9. Calm(u) \/ Beside(u)
  BY <1>5, <1>6, <1>7, <1>8, <1>10 DEF Step, Failure
<1>. QED
  BY <1>9, CalmIsBeside, BesideKeeps DEF IInv

\* What other requests do.
LEMMA OtherWriteKeeps ==
  ASSUME IInv, Typed', NEW u \in Tasks, NEW side \in {"src", "dst"}, NEW f \in Entries, OtherWrite(side, f)
  PROVE  Run(u)'
<1>1. note[u] \in Note /\ note'[u] \in Note /\ mount \in [{"src", "dst"} -> Mount]
  BY DEF IInv, Typed
<1> DEFINE c == 2 * Cardinality(Names) + 2 + writes + 1
<1>2. /\ mount' = [mount EXCEPT ![side] = Put(mount[side], f, c)] /\ Fits(mount[side], f)
      /\ UNCHANGED <<task, temp, arrived>>
      /\ note' = [t \in Tasks |-> [note[t] EXCEPT !.quiet = FALSE, !.unseen = note[t].unseen \/ side = "dst"]]
      /\ writes < MaxWrites
  BY DEF OtherWrite
<1>3. note'[u] = [note[u] EXCEPT !.quiet = FALSE, !.unseen = note[u].unseen \/ side = "dst"]
  BY <1>2
<1>4. ~note'[u].quiet /\ note'[u].found = note[u].found /\ note'[u].short = note[u].short
      /\ note'[u].unseen = (note[u].unseen \/ side = "dst")
  BY <1>1, <1>3 DEF Note
<1>5. c \in Contents /\ c = Made + 1 /\ Made \in Nat
  <2>1. writes < MaxWrites
    BY Zenon DEF OtherWrite
  <2>2. writes \in Nat /\ MaxWrites \in Nat /\ Cardinality(Names) \in Nat
    BY Types, BoundsAssumption DEF IInv, Typed
  <2>. QED
    BY <2>1, <2>2 DEF Contents, Made
<1> HIDE DEF c
<1>6. CASE side = "dst"
  <2>1. mount'.src = mount.src
    BY <1>1, <1>2, <1>6
  <2>2. Beside(u)
    BY <1>2, <1>4, <1>6, <2>1, AtTheDestination DEF Beside
  <2>. QED
    BY <2>2, BesideKeeps DEF IInv
<1>7. CASE side = "src"
  <2>1. mount'.dst = mount.dst /\ mount'.src = Put(mount.src, f, c) /\ Fits(mount.src, f)
    BY <1>1, <1>2, <1>7
  <2>2. \A e \in Entries : mount'.src.file[e] = IF e = f THEN c ELSE mount.src.file[e]
    BY <1>1, <1>5, <2>1, PutOne DEF IInv, Mounts
  <2>3. \A e \in Entries : note[u].found.file[e] # c
    <3>1. note[u].found \in Mount /\ Old(note[u].found)
      BY DEF IInv, Typed, Mounts, Note
    <3>2. \A e \in Entries : note[u].found.file[e] # None =>
            note[u].found.file[e] \in Nat /\ note[u].found.file[e] <= Made
      BY <3>1, Types DEF Mount, Old
    <3>. QED
      BY <1>5, <3>2, Types
  <2>4. \A e \in Same(u)' : e \in Same(u) /\ mount'.src.file[e] = mount.src.file[e]
    BY <1>4, <2>2, <2>3 DEF Same
  <2>5. Present(mount.src) \subseteq Present(mount'.src)
    BY <1>5, <2>2, Types DEF Present
  <2>6. Beside(u)
    BY <1>2, <1>4, <2>1, <2>4, <2>5, RankGrows DEF Beside
  <2>. QED
    BY <2>6, BesideKeeps DEF IInv
<1>. QED
  BY <1>6, <1>7

LEMMA OtherDeleteKeeps ==
  ASSUME IInv, Typed', NEW u \in Tasks, NEW side \in {"src", "dst"}, NEW f \in Entries, OtherDelete(side, f)
  PROVE  Run(u)'
<1>1. note[u] \in Note /\ note'[u] \in Note /\ mount \in [{"src", "dst"} -> Mount]
  BY DEF IInv, Typed
<1> DEFINE s(t) == note[t].short \/ (side = "src" /\ task[t].pc = "list")
<1>2. /\ mount' = [mount EXCEPT ![side] = [mount[side] EXCEPT !.file[f] = None]]
      /\ UNCHANGED <<task, temp, arrived>>
      /\ note' = [t \in Tasks |-> [note[t] EXCEPT !.quiet = FALSE, !.short = s(t)]]
  BY DEF OtherDelete
<1>3. note'[u] = [note[u] EXCEPT !.quiet = FALSE, !.short = s(u)]
  BY <1>2
<1>4. ~note'[u].quiet /\ note'[u].found = note[u].found /\ note'[u].short = s(u)
      /\ note'[u].unseen = note[u].unseen
  <2> HIDE DEF s
  <2>. QED
    BY <1>1, <1>3 DEF Note
<1>5. CASE side = "dst"
  <2>1. mount'.src = mount.src /\ mount'.dst = [mount.dst EXCEPT !.file[f] = None]
    BY <1>1, <1>2, <1>5
  <2>2. \A e \in Entries : mount.dst.file[e] = None => mount'.dst.file[e] = None
    BY <1>1, <2>1 DEF Mount
  <2>3. Beside(u)
    BY <1>2, <1>4, <1>5, <2>1, <2>2, AtTheDestination DEF Beside
  <2>. QED
    BY <2>3, BesideKeeps DEF IInv
<1>6. CASE side = "src"
  <2>1. mount'.dst = mount.dst /\ mount'.src = [mount.src EXCEPT !.file[f] = None]
    BY <1>1, <1>2, <1>6
  <2>2. \A e \in Entries : mount'.src.file[e] = IF e = f THEN None ELSE mount.src.file[e]
    BY <1>1, <2>1 DEF Mount
  <2>3. \A e \in Same(u)' : e \in Same(u) /\ mount'.src.file[e] = mount.src.file[e]
    BY <1>4, <2>2 DEF Same
  <2>4. Beside(u)
    BY <1>2, <1>4, <1>6, <2>1, <2>3 DEF Beside
  <2>. QED
    BY <2>4, BesideKeeps DEF IInv
<1>. QED
  BY <1>5, <1>6

\* A run that a restart cut short is over, whatever it left behind.
LEMMA RestartKeeps ==
  ASSUME IInv, NEW u \in Tasks, Restart
  PROVE  Run(u)'
<1>1. task' = [t \in Tasks |-> IF task[t].pc \in Ended THEN task[t]
                               ELSE Over(task[t], "lost")]
      /\ UNCHANGED <<mount, temp, arrived, note>>
  BY DEF Restart
<1>2. CASE task[u].pc \in Ended
  <2>1. Calm(u)
    BY <1>1, <1>2 DEF Calm
  <2>. QED
    BY <2>1, CalmIsBeside, BesideKeeps DEF IInv
<1>3. CASE task[u].pc \notin Ended
  <2>1. task[u] \in Task
    BY DEF IInv, Typed, TasksTyped
  <2>2. task'[u].pc = "lost"
    BY <1>1, <1>3, <2>1 DEF Task, Over
  <2>3. note'[u].quiet => ~note'[u].short
    BY <1>1 DEF IInv, Run, Listed
  <2>. QED
    BY <2>2, <2>3 DEF Run, Carried, Checked, Listed, Alone
<1>. QED
  BY <1>2, <1>3
-----------------------------------------------------------------------------
\* The jobs of a run, and those it is through with.
LEMMA Through ==
  ASSUME Typed, NEW t \in Tasks
  PROVE  /\ DoneJobs(t) \subseteq Jobs(t) /\ Jobs(t) \subseteq Entries
         /\ ~JobsLeft(t) => DoneJobs(t) = Jobs(t)
         /\ \A js : Taken(js, 1 - 1) = {}
         /\ JobsLeft(t) => Taken(task[t].jobs, task[t].k) = DoneJobs(t) \cup {Job(t)}
<1>1. task[t].k \in Nat \ {0} /\ task[t].jobs \in Seq(Entries) /\ Len(task[t].jobs) \in Nat
      /\ task[t].k <= Len(task[t].jobs) + 1
  BY Fields DEF Typed, TasksTyped
<1>2. 1 .. task[t].k - 1 \subseteq 1 .. Len(task[t].jobs)
  BY <1>1
<1>3. ~JobsLeft(t) => 1 .. task[t].k - 1 = 1 .. Len(task[t].jobs)
  BY <1>1 DEF JobsLeft
<1>4. 1 .. task[t].k = (1 .. task[t].k - 1) \cup {task[t].k}
  BY <1>1
<1>5. \A j \in 1 .. Len(task[t].jobs) : task[t].jobs[j] \in Entries
  BY <1>1
<1>6. DoneJobs(t) \subseteq Jobs(t)
  BY <1>2 DEF DoneJobs, Jobs, Taken
<1>7. Jobs(t) \subseteq Entries
  BY <1>5 DEF Jobs, Taken
<1>8. ~JobsLeft(t) => DoneJobs(t) = Jobs(t)
  BY <1>3 DEF DoneJobs, Jobs, Taken
<1>9. \A js : Taken(js, 1 - 1) = {}
  <2>1. 1 .. 1 - 1 = {}
    OBVIOUS
  <2>. QED
    BY <2>1 DEF Taken
<1>10. Taken(task[t].jobs, task[t].k) = DoneJobs(t) \cup {Job(t)}
  BY <1>4 DEF DoneJobs, Job, Taken
<1>. QED
  BY <1>6, <1>7, <1>8, <1>9, <1>10

LEMMA FailKeeps ==
  ASSUME IInv, NEW t \in Tasks, Fail(t),
         note'[t].quiet = note[t].quiet, note'[t].short = note[t].short
  PROVE  Run(t)'
<1>1. task'[t].pc = "failed"
  BY DEF Fail, Over, Becomes, IInv, Typed, TasksTyped, Task
<1>2. temp'[t] = Empty
  BY DEF Fail, IInv, Typed
<1>3. note[t].quiet => ~note[t].short
  BY DEF IInv, Run, Listed
<1>. QED
  BY <1>1, <1>2, <1>3 DEF Run, Carried, Checked, Listed, Alone

LEMMA LostKeeps ==
  ASSUME IInv, NEW t \in Tasks, LostAnswer(t)
  PROVE  Run(t)'
<1>1. note'[t] = note[t] /\ Fail(t)
  BY DEF LostAnswer
<1>. QED
  BY <1>1, FailKeeps

\* The new record of a task, in parts.
LEMMA Became ==
  ASSUME IInv, NEW t \in Tasks
  PROVE  /\ task[t] \in Task
         /\ \A r : Becomes(t, r) => task'[t] = r
         /\ \A pc \in Pcs : Go(t, pc) =>
              /\ task'[t].pc = pc /\ task'[t].op = task[t].op /\ task'[t].overwrite = task[t].overwrite
              /\ task'[t].page = task[t].page /\ task'[t].jobs = task[t].jobs /\ task'[t].k = task[t].k
<1>1. task[t] \in Task /\ task \in [Tasks -> Task]
  BY DEF IInv, Typed, TasksTyped
<1>2. \A r : Becomes(t, r) => task'[t] = r
  BY <1>1 DEF Becomes
<1>. QED
  BY <1>1, <1>2 DEF Go, Task

LEMMA StartsKeep ==
  ASSUME IInv, NEW t \in Tasks,
         \/ Begin(t) \/ ClearDst(t)
         \/ \E op \in {"move", "copy"}, ow \in BOOLEAN : Enqueue(t, op, ow)
  PROVE  Run(t)'
<1>1. note \in [Tasks -> Note] /\ note[t] \in Note /\ mount \in [{"src", "dst"} -> Mount]
      /\ temp' = temp
  BY DEF IInv, Typed, Begin, ClearDst, Enqueue
<1>2. {"stat", "clear", "failed", "refused", "queued"} \subseteq Pcs
  BY DEF Pcs, Ended
<1>3. CASE Begin(t)
  <2>1. task[t].pc = "queued" /\ temp[t] = Empty /\ ~note[t].short
    BY <1>3 DEF Begin, IInv, Run, Carried, Listed
  <2>2. note'[t].quiet /\ note'[t].found = note[t].found /\ ~note'[t].short
    BY <1>1, <1>3, <2>1 DEF Begin, Note
  <2>3. \/ task'[t].pc = "stat" /\ ~PathExists(mount.dst)
        \/ task'[t].pc = "clear" /\ task'[t].overwrite
        \/ task'[t].pc = "failed"
    BY <1>2, <1>3, Became DEF Begin
  <2>4. ~PathExists(mount.dst) => mount.dst = Absent
    <3> SUFFICES ASSUME ~PathExists(mount.dst) PROVE mount.dst = Absent
      OBVIOUS
    <3>1. mount.dst \in Mount /\ Sound(mount.dst)
      BY <1>1 DEF IInv, Mounts
    <3>2. \A e \in Entries : mount.dst.file[e] = None
      BY <3>1 DEF Sound, PathExists, Entries
    <3>3. mount.dst.file = Empty /\ mount.dst.dir = FALSE
      BY <3>1, <3>2 DEF Mount, Empty, PathExists
    <3>. QED
      BY <3>1, <3>3 DEF Mount, Absent
  <2>5. mount' = mount
    BY <1>3 DEF Begin
  <2>. QED
    BY <1>1, <2>1, <2>2, <2>3, <2>4, <2>5 DEF Run, Carried, Checked, Listed, Alone
<1>4. CASE ClearDst(t)
  <2>1. task[t].pc = "clear" /\ temp[t] = Empty
    BY <1>4 DEF ClearDst, IInv, Run, Carried
  <2>2. note'[t] = note[t] /\ mount'.dst = Absent
    BY <1>1, <1>4 DEF ClearDst, Disturb
  <2>3. task'[t].pc = "stat"
    BY <1>2, <1>4, Became DEF ClearDst
  <2>. QED
    BY <1>1, <2>1, <2>2, <2>3 DEF IInv, Run, Carried, Checked, Listed, Alone
<1>5. ASSUME NEW op \in {"move", "copy"}, NEW ow \in BOOLEAN, Enqueue(t, op, ow)
      PROVE  Run(t)'
  <2>1. task[t].pc = "new" /\ temp[t] = Empty /\ ~note[t].short
    BY <1>5 DEF Enqueue, IInv, Run, Carried, Listed
  <2>2. task'[t].pc \in {"refused", "queued"}
    <3>1. PICK pc \in {"refused", "queued"} :
            Becomes(t, [task[t] EXCEPT !.op = op, !.overwrite = ow, !.pc = pc])
      BY <1>5 DEF Enqueue
    <3>. QED
      BY <3>1, Became DEF Task
  <2>3. note' = note
    BY <1>5 DEF Enqueue
  <2>. QED
    BY <1>1, <2>1, <2>2, <2>3 DEF Run, Carried, Checked, Listed, Alone
<1>. QED
  BY <1>3, <1>4, <1>5

LEMMA StatKeeps ==
  ASSUME IInv, NEW t \in Tasks, StatSrc(t)
  PROVE  Run(t)'
<1>1. note \in [Tasks -> Note] /\ note[t] \in Note /\ mount \in [{"src", "dst"} -> Mount]
      /\ mount.src \in Mount /\ Sound(mount.src)
  BY DEF IInv, Typed, Mounts
<1>2. note' = [note EXCEPT ![t] = [note[t] EXCEPT !.found = mount.src]] /\ mount' = mount
      /\ task[t].pc = "stat"
  BY DEF StatSrc
<1>3. note'[t].found = mount.src /\ note'[t].quiet = note[t].quiet /\ note'[t].short = note[t].short
  BY <1>1, <1>2 DEF Note
<1>4. CASE Fail(t)
  BY <1>3, <1>4, FailKeeps
<1>5. CASE ~Fail(t)
  <2> DEFINE js == IF mount.src.dir THEN <<>> ELSE <<Root>>
             pc == IF mount.src.dir THEN "list" ELSE "download"
  <2>1. /\ Becomes(t, [task[t] EXCEPT !.pc = pc, !.page = 1, !.k = 1, !.jobs = js])
        /\ PathExists(mount.src) /\ temp' = temp
    BY <1>5 DEF StatSrc
  <2> HIDE DEF js, pc
  <2>2. task'[t].pc = pc /\ task'[t].page = 1 /\ task'[t].k = 1 /\ task'[t].jobs = js
    <3>1. task'[t] = [task[t] EXCEPT !.pc = pc, !.page = 1, !.k = 1, !.jobs = js]
      BY <2>1, Became
    <3>2. task[t] \in Task
      BY Became
    <3>. QED
      BY <3>1, <3>2 DEF Task
  <2>3. temp'[t] = Empty /\ (note[t].quiet => ~note[t].short /\ mount.dst = Absent)
    BY <1>2, <2>1 DEF IInv, Run, Carried, Listed, Alone
  <2>4. DoneJobs(t)' = {}
    BY <2>2 DEF DoneJobs, Taken
  <2>5. Same(t)' = {e \in Entries : mount.src.file[e] # None}
    BY <1>2, <1>3 DEF Same
  <2>6. CASE mount.src.dir
    <3>1. task'[t].pc = "list" /\ Jobs(t)' = {}
      BY <2>2, <2>6 DEF js, pc, Jobs, Taken
    <3>2. \A e \in Same(t)' : e \in Names /\ ~(Rank(mount.src, e) <= (1 - 1) * PageSize)
      <4> SUFFICES ASSUME NEW e \in Same(t)'
                   PROVE  e \in Names /\ ~(Rank(mount.src, e) <= (1 - 1) * PageSize)
        OBVIOUS
      <4>1. e \in Names
        BY <1>1, <2>5, <2>6 DEF Sound, Entries
      <4>2. e \in Present(mount.src)
        BY <2>5, <4>1 DEF Present
      <4>3. Rank(mount.src, e) \in 1 .. Cardinality(Present(mount.src))
        BY <4>2, RankOrder
      <4>. QED
        BY <4>1, <4>3, BoundsAssumption
    <3>. QED
      BY <1>2, <1>3, <2>2, <2>3, <2>6, <3>1, <3>2 DEF Run, Carried, Checked, Listed, Alone
  <2>7. CASE ~mount.src.dir
    <3>1. task'[t].pc = "download" /\ Jobs(t)' = {Root}
      BY <2>2, <2>7 DEF js, pc, Jobs, Taken
    <3>2. Same(t)' \subseteq {Root} /\ mount.src.file[Root] # None
      BY <1>1, <2>1, <2>5, <2>7 DEF Sound, Entries, PathExists
    <3>. QED
      BY <1>2, <1>3, <2>2, <2>3, <2>4, <3>1, <3>2 DEF Run, Carried, Checked, Listed, Alone
  <2>. QED
    BY <2>6, <2>7
<1>. QED
  BY <1>4, <1>5

LEMMA ListKeeps ==
  ASSUME IInv, NEW t \in Tasks, ListPage(t)
  PROVE  Run(t)'
<1> DEFINE m == mount.src
           p == task[t].page
           s == Sorted(m)
           page == PageOf(s, p)
<1>1. /\ task[t].pc = "list" /\ mount' = mount /\ note' = note
      /\ task[t] \in Task /\ p \in Nat \ {0} /\ task[t].jobs \in Seq(Entries)
  BY Became DEF ListPage, Task
<1>2. CASE Fail(t)
  BY <1>1, <1>2, FailKeeps
<1>3. CASE ~Fail(t)
  <2> DEFINE pc == IF p * PageSize >= Len(s) THEN "download" ELSE task[t].pc
  <2>1. /\ Becomes(t, [task[t] EXCEPT !.jobs = task[t].jobs \o page, !.page = p + 1, !.pc = pc])
        /\ temp' = temp
    BY <1>3 DEF ListPage
  <2>20. /\ page \in Seq(Names)
         /\ \A j \in 1 .. Len(page) : page[j] \in Present(m)
         /\ \A n \in Present(m) : (p - 1) * PageSize < Rank(m, n) /\ Rank(m, n) <= p * PageSize =>
               \E j \in 1 .. Len(page) : page[j] = n
    <3> HIDE DEF m, p
    <3>1. page \in Seq(Names)
      BY <1>1, PageIsPart
    <3>2. \A j \in 1 .. Len(page) : page[j] \in Present(m)
      BY <1>1, PageIsPart
    <3>3. \A n \in Present(m) : (p - 1) * PageSize < Rank(m, n) /\ Rank(m, n) <= p * PageSize =>
             \E j \in 1 .. Len(page) : page[j] = n
      BY <1>1, PageIsPart
    <3>. QED
      BY <3>1, <3>2, <3>3
  <2>2. /\ page \in Seq(Entries) /\ \A j \in 1 .. Len(page) : page[j] \in Present(m)
        /\ \A n \in Present(m) : (p - 1) * PageSize < Rank(m, n) /\ Rank(m, n) <= p * PageSize =>
              \E j \in 1 .. Len(page) : page[j] = n
    <3> HIDE DEF page, m, p
    <3>2. page \in Seq(Names) /\ Names \subseteq Entries
      BY <2>20, Types
    <3>1. page \in Seq(Entries)
      BY <3>2
    <3>. QED
      BY <2>20, <3>1
  <2>3. Len(s) = Cardinality(Present(m))
    BY SortedListsAll
  <2> HIDE DEF page, pc
  <2>4. /\ task'[t].jobs = task[t].jobs \o page /\ task'[t].page = p + 1 /\ task'[t].pc = pc
        /\ task'[t].k = task[t].k
    <3>1. task'[t] = [task[t] EXCEPT !.jobs = task[t].jobs \o page, !.page = p + 1, !.pc = pc]
      BY <2>1, Became
    <3>. QED
      BY <1>1, <3>1 DEF Task
  <2>5. pc \in {"list", "download"} /\ (pc = "download" => Len(s) <= p * PageSize)
    <3>1. p * PageSize \in Nat /\ Len(s) \in Nat
      BY <1>1, <2>3, PresentIsFinite, BoundsAssumption
    <3>. QED
      BY <1>1, <3>1 DEF pc
  <2> HIDE DEF s
  <2>6. Jobs(t)' = Jobs(t) \cup {page[j] : j \in 1 .. Len(page)}
    <3>1. /\ Len(task[t].jobs \o page) = Len(task[t].jobs) + Len(page)
          /\ Len(task[t].jobs) \in Nat /\ Len(page) \in Nat
          /\ \A j \in 1 .. Len(task[t].jobs) : (task[t].jobs \o page)[j] = task[t].jobs[j]
          /\ \A j \in 1 .. Len(page) : (task[t].jobs \o page)[Len(task[t].jobs) + j] = page[j]
      BY <1>1, <2>2
    <3>2. \A j \in 1 .. Len(task[t].jobs) + Len(page) :
             j \in 1 .. Len(task[t].jobs) \/ j - Len(task[t].jobs) \in 1 .. Len(page)
      BY <3>1
    <3>3. \A j \in 1 .. Len(page) : Len(task[t].jobs) + j \in 1 .. Len(task[t].jobs) + Len(page)
      BY <3>1
    <3>4. \A j \in 1 .. Len(task[t].jobs) : j \in 1 .. Len(task[t].jobs) + Len(page)
      BY <3>1
    <3>5. \A j \in 1 .. Len(task[t].jobs) + Len(page) : Len(task[t].jobs) + (j - Len(task[t].jobs)) = j
      BY <3>1
    <3> DEFINE both == task[t].jobs \o page
               old == task[t].jobs
    <3>6. Jobs(t)' = {both[j] : j \in 1 .. Len(old) + Len(page)} /\ Jobs(t) = {old[j] : j \in 1 .. Len(old)}
      BY <2>4, <3>1 DEF Jobs, Taken
    <3> HIDE DEF both, old
    <3>7. \A j \in 1 .. Len(old) + Len(page) :
             both[j] \in Jobs(t) \cup {page[i] : i \in 1 .. Len(page)}
      <4> TAKE j \in 1 .. Len(old) + Len(page)
      <4>1. CASE j \in 1 .. Len(old)
        BY <3>1, <3>6, <4>1 DEF both, old
      <4>2. CASE j - Len(old) \in 1 .. Len(page)
        <5>1. both[j] = page[j - Len(old)]
          BY <3>1, <3>5, <4>2 DEF both, old
        <5>. QED
          BY <4>2, <5>1
      <4>. QED
        BY <3>2, <4>1, <4>2 DEF old
    <3>8. \A j \in 1 .. Len(old) : old[j] \in {both[i] : i \in 1 .. Len(old) + Len(page)}
      BY <3>1, <3>4 DEF both, old
    <3>9. \A j \in 1 .. Len(page) : page[j] \in {both[i] : i \in 1 .. Len(old) + Len(page)}
      BY <3>1, <3>3 DEF both, old
    <3>. QED
      BY <3>6, <3>7, <3>8, <3>9
  <2>7. Carried(t)'
    <3>1. DoneJobs(t)' = {} /\ temp'[t] = Empty
      BY <1>1, <2>1, <2>4 DEF DoneJobs, Taken, IInv, Run, Checked, Carried
    <3>. QED
      BY <2>4, <2>5, <3>1 DEF Carried
  <2>8. Checked(t)'
    BY <1>1, <2>4, <2>5 DEF Checked, IInv, Run
  <2>9. Listed(t)'
    <3>1. Same(t)' = Same(t)
      BY <1>1 DEF Same
    <3>2. ASSUME ~note[t].short, NEW e \in Same(t)
          PROVE  e \in Present(m) /\ (Rank(m, e) <= p * PageSize => e \in Jobs(t)')
      <4>1. e \in Names /\ (Rank(m, e) <= (p - 1) * PageSize => e \in Jobs(t))
        BY <1>1, <3>2 DEF IInv, Run, Listed
      <4>2. e \in Present(m)
        BY <3>2, <4>1 DEF Present, Same
      <4>3. Rank(m, e) \in Nat
        BY PresentIsFinite
      <4>4. (p - 1) * PageSize \in Nat
        BY <1>1, BoundsAssumption
      <4> HIDE DEF m, p
      <4>. QED
        BY <2>2, <2>6, <4>1, <4>2, <4>3, <4>4
    <3>3. \A e \in Present(m) : Rank(m, e) \in Nat /\ Rank(m, e) <= Len(s)
      BY <2>3, PresentIsFinite
    <3>4. p * PageSize \in Nat /\ Len(s) \in Nat /\ p + 1 - 1 = p
      BY <1>1, <2>3, PresentIsFinite, BoundsAssumption
    <3>5. pc = "download" /\ ~note[t].short => Same(t) \subseteq Jobs(t)'
      <4> HIDE DEF m, p
      <4>. QED
        BY <2>5, <3>2, <3>3, <3>4
    <3>6. Present(m) \subseteq Names
      BY PresentIsFinite
    <3>7. note[t].quiet => ~note[t].short
      BY DEF IInv, Run, Listed
    <3>. QED
      BY <1>1, <2>4, <2>5, <3>1, <3>2, <3>4, <3>5, <3>6, <3>7 DEF Listed
  <2>10. Alone(t)'
    <3>1. \A e \in Present(m) : m.file[e] # None
      BY DEF Present
    <3>. QED
      BY <1>1, <2>2, <2>4, <2>5, <2>6, <3>1 DEF Alone, IInv, Run
  <2>. QED
    BY <2>7, <2>8, <2>9, <2>10 DEF Run
<1>. QED
  BY <1>2, <1>3

LEMMA DownloadKeeps ==
  ASSUME IInv, NEW t \in Tasks, Download(t)
  PROVE  Run(t)'
<1>1. task[t].pc = "download" /\ mount' = mount /\ note' = note /\ arrived' = arrived /\ task[t] \in Task
      /\ JobsLeft(t)
  BY Became DEF Download
<1>2. CASE Fail(t)
  BY <1>1, <1>2, FailKeeps
<1>3. CASE ~Fail(t)
  <2>1. /\ mount.src.file[Job(t)] # None
        /\ temp' = [temp EXCEPT ![t][Job(t)] = mount.src.file[Job(t)]]
        /\ Becomes(t, [task[t] EXCEPT !.k = task[t].k + 1])
    BY <1>3 DEF Download
  <2>2. Job(t) \in Entries /\ mount.src.file[Job(t)] \in Contents
    <3>1. Job(t) \in Entries
      BY <1>1, JobIsJob DEF IInv
    <3>. QED
      BY <2>1, <3>1 DEF IInv, Typed, Mount
  <2>3. task'[t] = [task[t] EXCEPT !.k = task[t].k + 1]
    BY <2>1, Became
  <2>4. task'[t].pc = "download" /\ task'[t].jobs = task[t].jobs /\ task'[t].k = task[t].k + 1
    BY <1>1, <2>3 DEF Task
  <2>5. Jobs(t)' = Jobs(t) /\ DoneJobs(t)' = DoneJobs(t) \cup {Job(t)} /\ Same(t)' = Same(t)
        /\ DoneJobs(t) \subseteq Entries
    <3>1. Taken(task[t].jobs, task[t].k) = DoneJobs(t) \cup {Job(t)}
          /\ DoneJobs(t) \subseteq Entries
      BY <1>1, Through DEF IInv
    <3>4. task'[t].k - 1 = task[t].k
      BY <1>1, <2>4, Fields
    <3>2. DoneJobs(t)' = Taken(task[t].jobs, task[t].k)
      BY <2>4, <3>4, Zenon DEF DoneJobs
    <3>3. Jobs(t)' = Jobs(t) /\ Same(t)' = Same(t)
      BY <1>1, <2>4 DEF Jobs, Same
    <3>. QED
      BY <3>1, <3>2, <3>3
  <2>6. \A e \in Entries : temp'[t][e] = IF e = Job(t) THEN mount.src.file[Job(t)] ELSE temp[t][e]
    BY <2>1, <2>2 DEF IInv, Typed
  <2>7. \A e \in DoneJobs(t)' : Read(t, e)'
    BY <1>1, <2>2, <2>5, <2>6 DEF Read, IInv, Run, Carried
  <2>. QED
    BY <1>1, <2>4, <2>5, <2>7 DEF Run, Carried, Checked, Listed, Alone, IInv
<1>. QED
  BY <1>2, <1>3

LEMMA MakeDirsKeeps ==
  ASSUME IInv, NEW t \in Tasks, MakeDirs(t)
  PROVE  Run(t)'
<1>1. /\ task[t].pc = "download" /\ ~JobsLeft(t) /\ task[t] \in Task
      /\ temp' = temp /\ arrived' = arrived
      /\ mount' = IF note[t].found.dir /\ mount.dst.file[Root] = None
                  THEN [mount EXCEPT !.dst = [mount.dst EXCEPT !.dir = TRUE]] ELSE mount
  BY Became DEF MakeDirs
<1>2. note'[t] = note[t]
  BY DEF MakeDirs, Disturb, IInv, Typed
<1>3. task'[t] = [task[t] EXCEPT !.pc = "upload", !.k = 1]
  BY Became DEF MakeDirs
<1>4. task'[t].pc = "upload" /\ task'[t].k = 1 /\ task'[t].jobs = task[t].jobs
  BY <1>1, <1>3 DEF Task
<1>5. mount \in [{"src", "dst"} -> Mount] /\ mount.src \in Mount /\ mount.dst \in Mount
      /\ note[t].found \in Mount
  BY DEF IInv, Typed, Note
<1>6. /\ mount'.src = mount.src /\ mount'.dst.file = mount.dst.file
      /\ mount'.dst.dir = (mount.dst.dir \/ (note[t].found.dir /\ mount.dst.file[Root] = None))
  BY <1>1, <1>5 DEF Mount
<1>7. Jobs(t)' = Jobs(t) /\ DoneJobs(t)' = {} /\ Same(t)' = Same(t) /\ Jobs(t) = DoneJobs(t)
      /\ DoneJobs(t) \subseteq Entries
  <2>1. Jobs(t)' = Jobs(t) /\ DoneJobs(t)' = Taken(task[t].jobs, 1 - 1) /\ Same(t)' = Same(t)
    BY <1>2, <1>4, <1>6 DEF Jobs, DoneJobs, Same
  <2>. QED
    BY <1>1, <2>1, Through DEF IInv
<1>8. \A e \in Jobs(t)' : Read(t, e)'
  BY <1>1, <1>6, <1>7 DEF Read, IInv, Run, Carried
<1>9. Alone(t)'
  <2> SUFFICES ASSUME note[t].quiet
               PROVE  /\ mount'.src = note[t].found /\ \A e \in Jobs(t) : note[t].found.file[e] # None
                      /\ mount'.dst.dir = note[t].found.dir
                      /\ \A e \in Entries : mount'.dst.file[e] = None
    BY <1>2, <1>4, <1>7 DEF Alone
  <2>1. mount.dst = Absent /\ mount.src = note[t].found
        /\ \A e \in Jobs(t) : note[t].found.file[e] # None
    BY <1>1 DEF IInv, Run, Alone
  <2>2. mount.dst.dir = FALSE /\ \A e \in Entries : mount.dst.file[e] = None
    BY <2>1, Types
  <2>3. mount'.dst.dir = note[t].found.dir
    BY <1>5, <1>6, <2>2, Types, Zenon DEF Mount
  <2>. QED
    BY <1>6, <2>1, <2>2, <2>3
<1>. QED
  BY <1>1, <1>2, <1>4, <1>7, <1>8, <1>9 DEF Run, Carried, Checked, Listed, IInv

LEMMA UploadKeeps ==
  ASSUME IInv, NEW t \in Tasks, Upload(t)
  PROVE  Run(t)'
<1>1. task[t].pc = "upload" /\ JobsLeft(t) /\ mount' = mount /\ arrived' = arrived /\ task[t] \in Task
      /\ note' = [note EXCEPT ![t] = [note[t] EXCEPT !.unseen = FALSE]]
  BY Became DEF Upload
<1>2. note'[t].found = note[t].found /\ note'[t].quiet = note[t].quiet
      /\ note'[t].short = note[t].short
  BY <1>1 DEF IInv, Typed, Note
<1>3. CASE Fail(t)
  BY <1>2, <1>3, FailKeeps
<1>4. CASE ~Fail(t)
  <2>1. Go(t, "write") /\ temp' = temp /\ (~task[t].overwrite => mount.dst.file[Job(t)] = None)
    BY <1>4 DEF Upload
  <2>2. /\ task'[t].pc = "write" /\ task'[t].overwrite = task[t].overwrite
        /\ task'[t].jobs = task[t].jobs /\ task'[t].k = task[t].k
    BY <2>1, Became DEF Pcs
  <2>3. Jobs(t)' = Jobs(t) /\ DoneJobs(t)' = DoneJobs(t) /\ Job(t)' = Job(t) /\ JobsLeft(t)' = JobsLeft(t)
        /\ Same(t)' = Same(t)
    BY <1>1, <1>2, <2>2 DEF Jobs, DoneJobs, Job, JobsLeft, Same
  <2>4. \A e \in Jobs(t) : Read(t, e)'
    BY <1>1, <2>1, <2>3 DEF Read, IInv, Run, Carried
  <2>. QED
    BY <1>1, <1>2, <2>1, <2>2, <2>3, <2>4 DEF Run, Carried, Checked, Listed, Alone, IInv
<1>. QED
  BY <1>3, <1>4

\* A run that takes a failure for an answer knows no less of what it carries.
LEMMA MisledKeeps ==
  ASSUME IInv, NEW t \in Tasks, Misled(t)
  PROVE  Run(t)'
<1>1. task[t] \in Task /\ note[t] \in Note /\ UNCHANGED <<mount, arrived>>
  BY Became DEF Misled, IInv, Typed
<1>2. /\ ~note'[t].quiet /\ note'[t].found = note[t].found
      /\ note'[t].short = (note[t].short \/ task[t].pc = "list")
      /\ note'[t].unseen = (note[t].unseen \/ task'[t].pc = "write")
  BY DEF Misled, IInv, Typed, Note
<1>3. {"stat", "download", "write"} \subseteq Pcs
  BY DEF Pcs
<1>4. Same(t)' = Same(t)
  BY <1>1, <1>2 DEF Same
<1>5. CASE task[t].pc \in {"queued", "clear"}
  <2>1. task'[t].pc = "stat"
    BY <1>3, <1>5, Became DEF Misled
  <2>2. temp'[t] = Empty /\ (task[t].pc = "queued" => ~note[t].short)
    BY <1>5, <2>1 DEF Misled, IInv, Run, Carried, Listed
  <2>. QED
    BY <1>2, <1>5, <2>1, <2>2 DEF Run, Carried, Checked, Listed, Alone
<1>6. CASE task[t].pc = "list"
  <2>1. task'[t].pc = "download" /\ task'[t].k = task[t].k /\ task'[t].jobs = task[t].jobs
    BY <1>3, <1>6, Became DEF Misled
  <2>2. task[t].k = 1
    BY <1>6 DEF IInv, Run, Checked
  <2>3. DoneJobs(t)' = {}
    BY <2>1, <2>2 DEF DoneJobs, Taken
  <2>. QED
    BY <1>2, <1>6, <2>1, <2>3 DEF Run, Carried, Checked, Listed, Alone
<1>7. CASE task[t].pc = "download"
  <2>1. task'[t] = [task[t] EXCEPT !.pc = "upload", !.k = 1] /\ ~JobsLeft(t)
    BY <1>7, Became DEF Misled
  <2>2. task'[t].pc = "upload" /\ task'[t].k = 1 /\ task'[t].jobs = task[t].jobs
    BY <1>1, <2>1 DEF Task
  <2>3. Jobs(t)' = Jobs(t) /\ DoneJobs(t)' = {} /\ Jobs(t) = DoneJobs(t) /\ temp' = temp
    <3>1. Jobs(t)' = Jobs(t) /\ DoneJobs(t)' = Taken(task[t].jobs, 1 - 1)
      BY <2>2 DEF Jobs, DoneJobs
    <3>2. temp' = temp
      BY <2>2 DEF Misled
    <3>. QED
      BY <2>1, <3>1, <3>2, Through DEF IInv
  <2>4. \A e \in Jobs(t)' : Read(t, e)'
    BY <1>1, <1>4, <1>7, <2>3 DEF Read, IInv, Run, Carried
  <2>5. Carried(t)'
    BY <1>7, <2>2, <2>3, <2>4 DEF Carried
  <2>6. Checked(t)'
    BY <2>2 DEF Checked
  <2>7. Listed(t)'
    BY <1>1, <1>2, <1>4, <1>7, <2>2, <2>3 DEF Listed, IInv, Run
  <2>8. Alone(t)'
    BY <1>2, Zenon DEF Alone
  <2>. QED
    BY <2>5, <2>6, <2>7, <2>8 DEF Run
<1>8. CASE task[t].pc = "upload" /\ JobsLeft(t)
  <2>1. /\ task'[t].pc = "write" /\ task'[t].overwrite = task[t].overwrite
        /\ task'[t].jobs = task[t].jobs /\ task'[t].k = task[t].k
    BY <1>3, <1>8, Became DEF Misled
  <2>2. Jobs(t)' = Jobs(t) /\ DoneJobs(t)' = DoneJobs(t) /\ Job(t)' = Job(t) /\ JobsLeft(t)' = JobsLeft(t)
        /\ temp' = temp
    BY <2>1 DEF Misled, Jobs, DoneJobs, Job, JobsLeft
  <2>3. \A e \in Jobs(t) : Read(t, e)'
    BY <1>1, <1>4, <1>8, <2>2 DEF Read, IInv, Run, Carried
  <2>4. \A e \in DoneJobs(t) : temp'[t][e] \in arrived'
    BY <1>1, <1>8, <2>2 DEF Misled, IInv, Run, Carried
  <2>5. Carried(t)'
    BY <1>8, <2>1, <2>2, <2>3, <2>4 DEF Carried
  <2>6. Checked(t)'
    BY <1>2, <1>8, <2>1, <2>2 DEF Checked
  <2>7. Listed(t)'
    BY <1>1, <1>2, <1>4, <1>8, <2>1, <2>2 DEF Listed, IInv, Run
  <2>8. Alone(t)'
    BY <1>2, Zenon DEF Alone
  <2>. QED
    BY <2>5, <2>6, <2>7, <2>8 DEF Run
<1>9. CASE task[t].pc = "upload" /\ ~JobsLeft(t)
  <2>1. Becomes(t, Over(task[t], "done"))
    BY <1>9 DEF Misled
  <2>2. task'[t].pc = "done"
    BY <2>1, Became, NewOver DEF IInv, Typed, TasksTyped, Ok, Pcs, Ended
  <2>3. temp'[t] = Empty
    BY <2>2 DEF Misled, IInv, Typed
  <2>. QED
    BY <1>2, <2>2, <2>3 DEF Run, Carried, Checked, Listed, Alone
<1>. QED
  BY <1>5, <1>6, <1>7, <1>8, <1>9 DEF Misled

LEMMA WriteKeeps ==
  ASSUME IInv, NEW t \in Tasks, Write(t)
  PROVE  Run(t)'
<1> DEFINE e == Job(t)
           c == temp[t][e]
<1>1. task[t].pc = "write" /\ task[t] \in Task /\ JobsLeft(t) /\ e \in Entries /\ e \in Jobs(t)
      /\ c \in Contents
  <2>1. task[t].pc = "write" /\ task[t] \in Task /\ JobsLeft(t)
    BY Became DEF Write, IInv, Run, Checked
  <2>2. e \in Entries /\ e \in Jobs(t)
    <3>1. Taken(task[t].jobs, task[t].k) = DoneJobs(t) \cup {Job(t)}
      BY <2>1, Through DEF IInv
    <3>2. task[t].k \in 1 .. Len(task[t].jobs)
      BY <2>1, Fields DEF JobsLeft, IInv, Typed, TasksTyped
    <3>. QED
      BY <2>1, <3>2, JobIsJob DEF Job, Jobs, Taken, IInv
  <2>. QED
    BY <2>1, <2>2 DEF IInv, Run, Carried, Read
<1>2. mount \in [{"src", "dst"} -> Mount] /\ mount.dst \in Mount /\ Sound(mount.dst)
      /\ note[t].found \in Mount /\ Sound(note[t].found) /\ note \in [Tasks -> Note]
  BY DEF IInv, Typed, Mounts, Note
<1>3. CASE ~Fits(mount.dst, e)
  <2>1. Fail(t) /\ note' = note
    BY <1>3 DEF Write
  <2>. QED
    BY <2>1, FailKeeps
<1>4. CASE Fits(mount.dst, e)
  <2>1. /\ mount' = [mount EXCEPT !.dst = Put(mount.dst, e, c)]
        /\ arrived' = arrived \cup {c} /\ temp' = temp
        /\ Becomes(t, [task[t] EXCEPT !.pc = "upload", !.k = task[t].k + 1])
        /\ note' = [u \in Tasks |->
                    IF u = t THEN note[t] ELSE [note[u] EXCEPT !.quiet = FALSE, !.unseen = TRUE]]
    BY <1>4 DEF Write
  <2>2. mount'.src = mount.src /\ mount'.dst = Put(mount.dst, e, c) /\ note'[t] = note[t]
    BY <1>2, <2>1
  <2>3. task'[t].pc = "upload" /\ task'[t].jobs = task[t].jobs /\ task'[t].k = task[t].k + 1
    <3>1. task'[t] = [task[t] EXCEPT !.pc = "upload", !.k = task[t].k + 1]
      BY <2>1, Became
    <3>. QED
      BY <1>1, <3>1 DEF Task
  <2> HIDE DEF c
  <2>4. Jobs(t)' = Jobs(t) /\ DoneJobs(t)' = DoneJobs(t) \cup {e} /\ Same(t)' = Same(t)
    <3>1. Taken(task[t].jobs, task[t].k) = DoneJobs(t) \cup {Job(t)}
      BY <1>1, Through DEF IInv
    <3>4. task'[t].k - 1 = task[t].k
      BY <1>1, <2>3, Fields
    <3>2. DoneJobs(t)' = Taken(task[t].jobs, task[t].k)
      BY <2>3, <3>4, Zenon DEF DoneJobs
    <3>3. Jobs(t)' = Jobs(t) /\ Same(t)' = Same(t)
      BY <2>2, <2>3 DEF Jobs, Same
    <3>. QED
      BY <3>1, <3>2, <3>3
  <2>5. Carried(t)'
    <3>1. \A f \in Jobs(t)' : Read(t, f)'
      BY <1>1, <2>1, <2>2, <2>4 DEF Read, IInv, Run, Carried
    <3>2. \A f \in DoneJobs(t)' : temp'[t][f] \in arrived'
      BY <1>1, <2>1, <2>4 DEF IInv, Run, Carried, c
    <3>. QED
      BY <2>3, <3>1, <3>2 DEF Carried
  <2>6. Checked(t)'
    BY <2>3 DEF Checked
  <2>7. Listed(t)'
    BY <1>1, <2>2, <2>3, <2>4 DEF Listed, IInv, Run
  <2>8. Alone(t)'
    <3> SUFFICES ASSUME note[t].quiet
                 PROVE  /\ mount.src = note[t].found /\ \A f \in Jobs(t) : note[t].found.file[f] # None
                        /\ mount'.dst.dir = note[t].found.dir
                        /\ \A f \in Entries : mount'.dst.file[f] =
                             IF f \in DoneJobs(t) \cup {e} THEN note[t].found.file[f] ELSE None
      BY <2>2, <2>3, <2>4 DEF Alone
    <3>1. /\ mount.src = note[t].found /\ \A f \in Jobs(t) : note[t].found.file[f] # None
          /\ mount.dst.dir = note[t].found.dir
          /\ \A f \in Entries : mount.dst.file[f] = IF f \in DoneJobs(t) THEN note[t].found.file[f] ELSE None
      BY <1>1 DEF IInv, Run, Alone
    <3>2. c = note[t].found.file[e]
      BY <1>1, <3>1 DEF IInv, Run, Carried, Read, Same, c
    <3>3. \A f \in Entries : mount'.dst.file[f] = IF f = e THEN c ELSE mount.dst.file[f]
      BY <1>1, <1>2, <1>4, <2>2, PutOne
    <3>4. mount'.dst.dir = (mount.dst.dir \/ e # Root)
      BY <2>2 DEF Put
    <3>5. e # Root => note[t].found.dir
      BY <1>1, <1>2, <3>1 DEF Sound, Entries
    <3>6. mount'.dst.dir = note[t].found.dir
      <4>1. note[t].found.dir \in BOOLEAN
        BY <1>2 DEF Mount
      <4>. QED
        BY <3>1, <3>4, <3>5, <4>1, Zenon
    <3>. QED
      BY <3>1, <3>2, <3>3, <3>6
  <2>. QED
    BY <2>5, <2>6, <2>7, <2>8 DEF Run
<1>. QED
  BY <1>3, <1>4

LEMMA EndKeeps ==
  ASSUME IInv, NEW t \in Tasks, DeleteSrc(t) \/ EndCopy(t)
  PROVE  Run(t)'
<1>1. task[t].pc = "upload" /\ ~JobsLeft(t) /\ Becomes(t, Over(task[t], "done"))
      /\ temp' = [temp EXCEPT ![t] = Empty]
  BY DEF DeleteSrc, EndCopy
<1>2. task'[t].pc = "done" /\ task'[t].op = task[t].op /\ temp'[t] = Empty
  <2>1. Ok(task[t]) /\ "done" \in Pcs
    BY DEF IInv, Typed, TasksTyped, Run, Checked, Ok, Pcs, Ended
  <2>2. Over(task[t], "done").pc = "done" /\ Over(task[t], "done").op = task[t].op
    BY <2>1, NewOver
  <2>. QED
    BY <1>1, <2>2, Became DEF IInv, Typed
<1>3. note'[t] = note[t] /\ mount'.dst = mount.dst
      /\ mount'.src = IF task[t].op = "move" THEN Absent ELSE mount.src
  BY DEF DeleteSrc, EndCopy, Disturb, IInv, Typed
<1>4. note[t].quiet => ~note[t].short
  BY DEF IInv, Run, Listed
<1>5. ASSUME note[t].quiet
      PROVE  mount.dst = note[t].found /\ mount.src = note[t].found
  <2>1. /\ mount.src = note[t].found /\ \A e \in Jobs(t) : note[t].found.file[e] # None
        /\ mount.dst.dir = note[t].found.dir
        /\ \A e \in Entries : mount.dst.file[e] = IF e \in DoneJobs(t) THEN note[t].found.file[e] ELSE None
    BY <1>1, <1>5 DEF IInv, Run, Alone
  <2>2. Same(t) \subseteq Jobs(t) /\ Jobs(t) = DoneJobs(t)
    BY <1>1, <1>4, <1>5, Through DEF IInv, Run, Listed
  <2>3. \A e \in Entries : mount.dst.file[e] = note[t].found.file[e]
    BY <2>1, <2>2 DEF Same
  <2>4. mount.dst \in Mount /\ note[t].found \in Mount
    BY DEF IInv, Typed, Note
  <2>5. mount.dst.file = note[t].found.file
    BY <2>3, <2>4 DEF Mount
  <2>. QED
    BY <2>1, <2>4, <2>5 DEF Mount
<1>. QED
  BY <1>2, <1>3, <1>4, <1>5 DEF Run, Carried, Checked, Listed, Alone

\* No step breaks the run of any task.
LEMMA RunsStep ==
  ASSUME IInv, [Next]_vars, NEW u \in Tasks
  PROVE  Run(u)'
<1>1. Typed' /\ Mounts'
  BY TypedStep
<1>2. ASSUME NEW t \in Tasks, Step(t) \/ Failure(t) \/ \E op \in {"move", "copy"}, ow \in BOOLEAN : Enqueue(t, op, ow)
      PROVE  Run(u)'
  <2>1. CASE u = t
    <3>1. CASE Failure(t)
      BY <2>1, <3>1, FailKeeps, LostKeeps, MisledKeeps DEF Failure, Fault
    <3>. QED
      BY <1>2, <2>1, <3>1, StartsKeep, StatKeeps, ListKeeps, DownloadKeeps, MakeDirsKeeps, UploadKeeps,
         WriteKeeps, EndKeeps DEF Step
  <2>2. CASE u # t
    BY <1>1, <1>2, <2>2, OthersKeep
  <2>. QED
    BY <2>1, <2>2
<1>3. ASSUME NEW side \in {"src", "dst"}, NEW e \in Entries, OtherWrite(side, e) \/ OtherDelete(side, e)
      PROVE  Run(u)'
  BY <1>1, <1>3, OtherWriteKeeps, OtherDeleteKeeps
<1>4. ASSUME UNCHANGED vars
      PROVE  Run(u)'
  BY <1>4, CalmIsBeside, BesideKeeps DEF vars, Calm, IInv
<1>. QED
  BY <1>2, <1>3, <1>4, RestartKeeps DEF Next

\* What is at the two ends at first.
LEMMA FirstMounts ==
  ASSUME NEW m \in {Populated(Names, 0), Populated({}, 0), SingleFile(2 * Cardinality(Names) + 1),
                    Populated(Names, Cardinality(Names)), Absent, SingleFile(2 * Cardinality(Names) + 2)}
  PROVE  m \in Mount /\ Sound(m) /\ \A e \in Entries : m.file[e] # None => m.file[e] <= 2 * Cardinality(Names) + 2
<1> DEFINE N == Cardinality(Names)
<1>1. N \in Nat /\ \A e \in Entries : Cardinality({n \in Names : n <= e}) \in Nat
                                      /\ Cardinality({n \in Names : n <= e}) <= N
  <2> SUFFICES ASSUME NEW e \in Entries
               PROVE  Cardinality({n \in Names : n <= e}) \in Nat /\ Cardinality({n \in Names : n <= e}) <= N
    BY Types
  <2>1. {n \in Names : n <= e} \in SUBSET Names /\ IsFiniteSet(Names)
    BY Types
  <2>. QED
    BY <2>1, FS_Subset, FS_CardinalityType
<1>2. \A e \in Names : Cardinality({n \in Names : n <= e}) # 0
  <2> TAKE e \in Names
  <2>1. {n \in Names : n <= e} \in SUBSET Names /\ IsFiniteSet(Names) /\ e \in {n \in Names : n <= e}
    BY Types
  <2>. QED
    BY <2>1, FS_Subset, FS_EmptySet
<1>3. ASSUME NEW S \in {Names, {}}, NEW b \in {0, N}, m = Populated(S, b)
      PROVE  m \in Mount /\ Sound(m) /\ \A e \in Entries : m.file[e] # None => m.file[e] <= 2 * N + 2
  <2> DEFINE card(e) == Cardinality({n \in Names : n <= e})
  <2>1. m.dir /\ m = [dir |-> TRUE, file |-> [e \in Entries |-> IF e \in S THEN b + card(e) ELSE None]]
    BY <1>3 DEF Populated
  <2>2. \A e \in Names : card(e) \in 1 .. N
    BY <1>1, <1>2, Types
  <2> HIDE DEF card, N
  <2>3. \A e \in Names : b + card(e) \in 1 .. 2 * N + 2
    BY <1>1, <1>3, <2>2
  <2>4. \A e \in Names : b + card(e) \in Contents
    BY <1>1, <2>3, BoundsAssumption DEF Contents, N
  <2>5. m.file[Root] = None
    BY <2>1, <1>3, Types
  <2>6. m.file \in [Entries -> Contents \cup {None}]
    BY <1>3, <2>1, <2>4
  <2>. QED
    BY <1>3, <2>1, <2>3, <2>5, <2>6 DEF Mount, Sound
<1>4. ASSUME NEW c \in {2 * N + 1, 2 * N + 2}, m = SingleFile(c)
      PROVE  m \in Mount /\ Sound(m) /\ \A e \in Entries : m.file[e] # None => m.file[e] <= 2 * N + 2
  <2>1. m = [dir |-> FALSE, file |-> [Empty EXCEPT ![Root] = c]]
    BY <1>4 DEF SingleFile
  <2> HIDE DEF N
  <2>2. c \in Nat /\ c <= 2 * N + 2 /\ c \in Contents
    BY <1>1, <1>4, BoundsAssumption DEF Contents, N
  <2>3. \A e \in Entries : m.file[e] = IF e = Root THEN c ELSE None
    BY <2>1 DEF Empty
  <2>4. m \in Mount
    BY <2>1, <2>2, Types DEF Mount
  <2>. QED
    BY <2>1, <2>2, <2>3, <2>4, Types DEF Sound
<1>5. CASE m = Absent
  BY <1>5, Types DEF Sound
<1>. QED
  BY <1>3, <1>4, <1>5

LEMMA Initially == Init => IInv
<1> SUFFICES ASSUME Init PROVE IInv
  OBVIOUS
<1>1. PICK s \in {Populated(Names, 0), Populated({}, 0), SingleFile(2 * Cardinality(Names) + 1)},
           d \in {Populated(Names, Cardinality(Names)), Absent, SingleFile(2 * Cardinality(Names) + 2)} :
         mount = [src |-> s, dst |-> d]
  BY DEF Init
<1>2. /\ mount \in [{"src", "dst"} -> Mount] /\ Sound(mount.src) /\ Sound(mount.dst)
      /\ \A e \in Entries : mount.src.file[e] # None => mount.src.file[e] <= 2 * Cardinality(Names) + 2
  BY <1>1, FirstMounts
<1>3. writes = 0 /\ Made = 2 * Cardinality(Names) + 2
  BY Types DEF Init, Made
<1>4. \A t \in Tasks :
         /\ task[t] = [op |-> "copy", overwrite |-> FALSE, pc |-> "new", page |-> 1, jobs |-> <<>>, k |-> 1]
         /\ temp[t] = Empty
         /\ note[t] = [found |-> Absent, quiet |-> FALSE, unseen |-> FALSE, short |-> FALSE]
  BY DEF Init
<1>5. TasksTyped
  <2>1. task \in [Tasks -> Task]
    BY DEF Init, Task, Pcs
  <2>. QED
    BY <1>4, <2>1 DEF TasksTyped
<1>6. note \in [Tasks -> Note] /\ temp \in [Tasks -> [Entries -> Contents \cup {None}]]
  BY Types DEF Init, Note
<1>7. Typed
  <2>1. writes \in 0 .. MaxWrites /\ faults \in 0 .. MaxFaults /\ arrived \subseteq Contents
    BY BoundsAssumption DEF Init
  <2>. QED
    BY <1>2, <1>5, <1>6, <2>1 DEF Typed
<1>8. Mounts
  BY <1>2, <1>3, <1>4, Types DEF Mounts, Old, Sound
<1>9. \A t \in Tasks : Run(t)
  BY <1>4 DEF Run, Carried, Checked, Listed, Alone
<1>. QED
  BY <1>7, <1>8, <1>9 DEF IInv

LEMMA Invariant == Spec => []IInv
<1>1. IInv /\ [Next]_vars => IInv'
  BY TypedStep, RunsStep DEF IInv
<1>. QED
  BY <1>1, Initially, PTL DEF Spec
-----------------------------------------------------------------------------
\* A transfer that no other actor disturbs, and none of whose failures is taken for an
\* answer, makes the destination what the source was, and takes the source away if it is a
\* move: whatever the number of files and pages, and whatever was at the destination.  No run that ends leaves temporary files
\* (run_cross_mount_transfer_task and its finally block).
THEOREM RunsKept == Spec => []RunsExact
<1>1. IInv => TypeOK
  <2> SUFFICES ASSUME IInv PROVE TypeOK
    OBVIOUS
  <2>1. \A t \in Tasks : /\ task[t].op \in {"move", "copy"} /\ task[t].overwrite \in BOOLEAN
                         /\ task[t].jobs \in Seq(Entries)
                         /\ task[t].k \in 1 .. Len(task[t].jobs) + 1
    <3> TAKE t \in Tasks
    <3>1. task[t] \in Task /\ task[t].k <= Len(task[t].jobs) + 1
      BY DEF IInv, Typed, TasksTyped
    <3>2. task[t].k \in Nat \ {0} /\ Len(task[t].jobs) \in Nat
      BY <3>1, Fields
    <3>3. task[t].k \in 1 .. Len(task[t].jobs) + 1
      BY <3>1, <3>2
    <3>. QED
      BY <3>1, <3>3 DEF Task
  <2>2. \A side \in {"src", "dst"} : mount[side].dir => mount[side].file[Root] = None
    BY DEF IInv, Mounts, Sound
  <2>. QED
    BY <2>1, <2>2 DEF TypeOK, IInv, Typed, Mount
<1>2. IInv => UndisturbedIsExact
  BY DEF IInv, Run, Alone, UndisturbedIsExact
<1>3. IInv => TempGone
  BY DEF IInv, Run, Carried, TempGone
<1>. QED
  BY <1>1, <1>2, <1>3, Invariant, PTL DEF RunsExact

\* A move takes nothing away that was at the source when it began and has not arrived,
\* whoever else reads, writes and deletes meanwhile and whichever call fails; the exception
\* is a listing that another's deletion shifted between two of its pages, or that failed and
\* came as an empty one.
THEOREM MovesKeep == Spec => MoveLosesOnlyLateWrites
<1>1. ASSUME IInv, [Next]_vars, NEW t \in Tasks, task[t].op = "move", ~note[t].short,
             mount'.src = Absent, task'[t] # task[t],
             NEW e \in Entries, mount.src.file[e] # None, mount.src.file[e] = note[t].found.file[e]
      PROVE  mount.src.file[e] \in arrived
  <2>1. mount' # mount /\ mount'.src # mount.src
    BY <1>1, Types
  <2>2. mount \in [{"src", "dst"} -> Mount] /\ task \in [Tasks -> Task]
    BY <1>1 DEF IInv, Typed, TasksTyped
  <2>3. \A u \in Tasks : ClearDst(u) \/ MakeDirs(u) \/ Write(u) => mount'.src = mount.src
    BY <2>2 DEF ClearDst, MakeDirs, Write
  <2>4. PICK u \in Tasks : DeleteSrc(u) \/ (LostAnswer(u) /\ task[u].pc = "upload")
    BY <1>1, <2>1, <2>2, <2>3 DEF Next, Step, Begin, StatSrc, ListPage, Download, Upload, EndCopy, Failure,
         Fault, LostAnswer, Misled, Enqueue, OtherWrite, OtherDelete, Restart, vars
  <2>5. u = t
    BY <1>1, <2>2, <2>4 DEF DeleteSrc, LostAnswer, Fail, Becomes
  <2>6. task[t].pc = "upload" /\ ~JobsLeft(t)
    BY <2>4, <2>5 DEF DeleteSrc, LostAnswer
  <2>7. Same(t) \subseteq Jobs(t) /\ Jobs(t) = DoneJobs(t)
    BY <1>1, <2>6, Through DEF IInv, Run, Listed
  <2>8. e \in DoneJobs(t) /\ e \in Same(t)
    BY <1>1, <2>7 DEF Same
  <2>. QED
    BY <1>1, <2>6, <2>7, <2>8 DEF IInv, Run, Carried, Read
<1>2. IInv /\ [Next]_vars =>
        [\A t \in Tasks : task[t].op = "move" /\ ~note[t].short /\ mount'.src = Absent
            /\ task'[t] # task[t] =>
            \A e \in Entries : mount.src.file[e] # None
                               /\ mount.src.file[e] = note[t].found.file[e]
                               => mount.src.file[e] \in arrived]_vars
  BY <1>1
<1>. QED
  BY <1>2, Invariant, PTL DEF Spec, MoveLosesOnlyLateWrites

\* Without overwrite no step of a transfer replaces a file at the destination, but for
\* one that another actor wrote since the transfer looked or that a failing look did not
\* see (write_file_stream).
THEOREM OverwritesAsked == Spec => OverwriteAsked
<1>1. ASSUME IInv, [Next]_vars, NEW t \in Tasks, ~task[t].overwrite, ~note[t].unseen,
             task'[t] # task[t], NEW e \in Entries, mount.dst.file[e] # None
      PROVE  mount'.dst.file[e] = mount.dst.file[e]
  <2>1. mount \in [{"src", "dst"} -> Mount] /\ task \in [Tasks -> Task] /\ mount.dst \in Mount
    BY <1>1 DEF IInv, Typed, TasksTyped
  <2> SUFFICES ASSUME mount' # mount PROVE mount'.dst.file[e] = mount.dst.file[e]
    OBVIOUS
  <2>2. PICK u \in Tasks : ClearDst(u) \/ MakeDirs(u) \/ Write(u) \/ DeleteSrc(u) \/ LostAnswer(u)
    BY <1>1 DEF Next, Step, Begin, StatSrc, ListPage, Download, Upload, EndCopy, Failure, Fault, Misled,
                Enqueue, OtherWrite, OtherDelete, Restart, vars
  <2>3. u = t
    BY <1>1, <2>1, <2>2 DEF ClearDst, MakeDirs, Write, DeleteSrc, LostAnswer, Go, Becomes, Fail
  <2>4. CASE ClearDst(t)
    BY <1>1, <2>4 DEF ClearDst, IInv, Run, Checked
  <2>5. CASE MakeDirs(t)
    BY <2>1, <2>5 DEF MakeDirs, Mount
  <2>6. CASE task[t].pc = "write" /\ (Write(t) \/ LostAnswer(t))
    <3>1. Fits(mount.dst, Job(t)) /\ mount' = [mount EXCEPT !.dst = Put(mount.dst, Job(t), temp[t][Job(t)])]
      BY <2>6 DEF Write, LostAnswer
    <3>2. Job(t) \in Entries /\ temp[t][Job(t)] \in Contents
      BY <1>1, <2>6, WritesRead DEF IInv, Run
    <3>3. mount.dst.file[Job(t)] = None
      BY <1>1, <2>6 DEF IInv, Run, Checked
    <3>4. mount'.dst = Put(mount.dst, Job(t), temp[t][Job(t)]) /\ Sound(mount.dst)
      BY <1>1, <2>1, <3>1 DEF IInv, Mounts
    <3>. QED
      BY <1>1, <2>1, <3>1, <3>2, <3>3, <3>4, PutOne
  <2>7. CASE DeleteSrc(t) \/ (LostAnswer(t) /\ task[t].pc = "upload")
    BY <2>1, <2>7 DEF DeleteSrc, LostAnswer
  <2>8. CASE LostAnswer(t) /\ task[t].pc = "clear"
    BY <1>1, <2>8 DEF IInv, Run, Checked
  <2>. QED
    BY <2>2, <2>3, <2>4, <2>5, <2>6, <2>7, <2>8 DEF Write, LostAnswer
<1>2. IInv /\ [Next]_vars =>
        [\A t \in Tasks : ~task[t].overwrite /\ ~note[t].unseen /\ task'[t] # task[t] =>
            \A e \in Entries : mount.dst.file[e] # None =>
                mount'.dst.file[e] = mount.dst.file[e]]_vars
  BY <1>1
<1>. QED
  BY <1>2, Invariant, PTL DEF Spec, OverwriteAsked
=============================================================================
