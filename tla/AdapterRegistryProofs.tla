------------------------- MODULE AdapterRegistryProofs -------------------------
(***************************************************************************)
(* Theorems about AdapterRegistry, for every set of adapters, requests and *)
(* administrators and every number of writes.  IInv is the inductive       *)
(* invariant.                                                              *)
(***************************************************************************)
EXTENDS AdapterRegistry, TLAPS

Asking(i) == request[i].pc \in {"look", "query", "fill"}

\* No one has asked for an adapter that never was, and nothing is cached of it.
UnusedUnasked ==
    /\ \A d \in unused : usage[d] = None
    /\ \A i \in Requests : Asking(i) \/ request[i].pc = "usage" => request[i].id \notin unused

\* Stale usage is left behind by a save or a delete, which will clear it.
UsageCleared ==
    \A d \in Ids : usage[d] # None =>
        \/ mixed[d]
        \/ \E a \in Admins : admin[a].pc \in {"saved", "deleted"} /\ admin[a].id = d
        \/ row[d] # None /\ usage[d] = UsageOf(row[d])

\* A version that is to be saved has been seen nowhere yet.
FreshVersions ==
    /\ \A d \in Ids : row[d] # None => row[d].ver <= writes
    /\ \A i \in Requests : Asking(i) => request[i].seen.ver <= writes
    /\ \A a \in Admins : admin[a].pc = "read" =>
        /\ admin[a].row.ver <= writes
        /\ \A d \in Ids : row[d] # None => row[d].ver # admin[a].row.ver
        /\ \A i \in Requests : Asking(i) => request[i].seen.ver # admin[a].row.ver
        /\ \A b \in Admins \ {a} :
            admin[b].pc = "read" => admin[b].row.ver # admin[a].row.ver

\* A refresh for a row that is what it was has read that row.
BuiltSeen ==
    \A i \in Requests :
        request[i].pc = "fill" /\ row[request[i].id] = request[i].seen =>
            request[i].built[request[i].id] = Instance(request[i].seen)

IInv == TypeOK /\ InstanceCurrent /\ UnusedUnasked /\ UsageCleared /\ FreshVersions /\ BuiltSeen

-----------------------------------------------------------------------------
LEMMA InitType == Init => TypeOK
BY WritesAssumption, NoneAssumption
   DEF Init, TypeOK, Instance, Builds, Rows, Versions, Kinds, Free

\* One lemma for each kind of step keeps the types.
LEMMA RequestType ==
    ASSUME TypeOK, NEW i \in Requests, RequestStep(i)
    PROVE  TypeOK'
<1> USE WritesAssumption, NoneAssumption
<1>1. CASE Hit(i)
  <2> DEFINE q == request[i]
  <2>1. q \in [pc : {"look", "query"}, kind : {"resolve", "usage"}, id : Ids, seen : Rows]
    BY <1>1 DEF TypeOK, Hit
  <2>2. instances[q.id] \in Versions \cup {None}
    BY <2>1 DEF TypeOK
  <2>3. CASE Shortcut(i)
    BY <1>1, <2>3 DEF TypeOK, Hit
  <2>4. CASE ~Shortcut(i)
    <3>1. q.seen.ver \in Versions
      BY <2>1 DEF Rows
    <3>. QED
      BY <1>1, <2>1, <2>2, <2>4, <3>1 DEF TypeOK, Hit, Answered
  <2>. QED
    BY <2>3, <2>4
<1>2. CASE Miss(i)
  BY <1>2 DEF TypeOK, Miss
<1>3. CASE QueryRows(i)
  <2>1. [d \in Ids |-> Instance(row[d])] \in [Ids -> Versions \cup {None}]
    BY DEF TypeOK, Instance, Builds, Rows
  <2>. QED
    BY <1>3, <2>1 DEF TypeOK, QueryRows
<1>4. CASE Fill(i)
  <2> DEFINE q == request[i]
  <2>1. q \in [pc : {"fill"}, kind : {"resolve", "usage"}, id : Ids, seen : Rows,
               built : [Ids -> Versions \cup {None}]]
    BY <1>4 DEF TypeOK, Fill
  <2>2. instances' \in [Ids -> Versions \cup {None}]
    BY <1>4, <2>1 DEF TypeOK, Fill, Filled
  <2>3. raced' \in [Ids -> BOOLEAN]
    BY <1>4, <2>1 DEF TypeOK, Fill
  <2>4. q.seen.ver \in Versions
    BY <2>1 DEF Rows
  <2>. QED
    BY <1>4, <2>1, <2>2, <2>3, <2>4 DEF TypeOK, Fill, Answered
<1>5. CASE StoreUsage(i)
  <2>1. request[i] \in [pc : {"usage"}, id : Ids, named : Versions, got : Versions]
    BY <1>5 DEF TypeOK, StoreUsage
  <2>2. usage' \in [Ids -> Usages \cup {None}] /\ mixed' \in [Ids -> BOOLEAN]
    <3>1. [named |-> request[i].named, got |-> request[i].got] \in Usages
      BY <2>1 DEF Usages
    <3>2. CASE usage' = usage /\ mixed' = mixed
      BY <3>2 DEF TypeOK
    <3>3. CASE usage' # usage \/ mixed' # mixed
      <4> DEFINE d == request[i].id
                 answer == [named |-> request[i].named, got |-> request[i].got]
      <4>1. /\ usage' = [usage EXCEPT ![d] = answer]
            /\ mixed' = [mixed EXCEPT ![d] = row[d] = None \/ answer # UsageOf(row[d])]
        BY <1>5, <3>3 DEF StoreUsage
      <4>2. usage' \in [Ids -> Usages \cup {None}]
        BY <2>1, <3>1, <4>1 DEF TypeOK
      <4>3. mixed' \in [Ids -> BOOLEAN]
        BY <2>1, <4>1 DEF TypeOK
      <4>. QED
        BY <4>2, <4>3
    <3>. QED
      BY <3>2, <3>3
  <2>. QED
    BY <1>5, <2>2 DEF TypeOK, StoreUsage
<1>. QED
  BY <1>1, <1>2, <1>3, <1>4, <1>5 DEF RequestStep

LEMMA AdminType ==
    ASSUME TypeOK, NEW a \in Admins, AdminStep(a)
    PROVE  TypeOK'
<1> USE WritesAssumption, NoneAssumption
<1>1. CASE Save(a)
  <2>1. admin[a] \in [pc : {"created", "read", "saved"}, id : Ids, row : Rows]
    BY <1>1 DEF TypeOK, Save, Free
  <2>2. row' \in [Ids -> Rows \cup {None}] /\ \A d \in unused : row'[d] = None
    BY <1>1, <2>1 DEF TypeOK, Save
  <2>. QED
    BY <1>1, <2>1, <2>2 DEF TypeOK, Save
<1>2. CASE PutIn(a)
  <2>1. admin[a] \in [pc : {"created", "read", "saved"}, id : Ids, row : Rows]
    BY <1>2 DEF TypeOK, PutIn, Free
  <2>2. instances' \in [Ids -> Versions \cup {None}] /\ raced' \in [Ids -> BOOLEAN]
    BY <1>2, <2>1 DEF TypeOK, PutIn, Upsert, Instance, Builds, Rows
  <2>3. usage' \in [Ids -> Usages \cup {None}] /\ mixed' \in [Ids -> BOOLEAN]
    BY <1>2, <2>1 DEF TypeOK, PutIn
  <2>. QED
    BY <1>2, <2>2, <2>3 DEF TypeOK, PutIn
<1>3. CASE TakeOut(a)
  BY <1>3 DEF TypeOK, TakeOut, Remove, Free
<1>. QED
  BY <1>1, <1>2, <1>3 DEF AdminStep

LEMMA WrittenType ==
    ASSUME TypeOK, writes < MaxWrites, NEW kind \in Kinds
    PROVE  Written(kind) \in Rows /\ writes + 1 \in Versions
BY WritesAssumption DEF TypeOK, Written, Rows, Versions

LEMMA OperationType ==
    ASSUME TypeOK, NEW a \in Admins, NEW d \in Ids, NEW kind \in Kinds,
           CreateAdapter(a, d, kind) \/ ReadToUpdate(a, d, kind) \/ DeleteAdapter(a, d)
    PROVE  TypeOK'
<1>1. CASE CreateAdapter(a, d, kind)
  BY <1>1, WrittenType DEF TypeOK, CreateAdapter
<1>2. CASE ReadToUpdate(a, d, kind)
  BY <1>2, WrittenType DEF TypeOK, ReadToUpdate
<1>3. CASE DeleteAdapter(a, d)
  BY <1>3 DEF TypeOK, DeleteAdapter
<1>. QED
  BY <1>1, <1>2, <1>3

LEMMA ImportType ==
    ASSUME TypeOK, Import
    PROVE  TypeOK'
<1>1. PICK S \in SUBSET Ids, kind \in {"on", "off"}, merge \in BOOLEAN :
        LET new == [d \in Ids |-> IF d \in S THEN Written(kind)
                                  ELSE IF merge THEN row[d] ELSE None]
            changed == {d \in Ids : new[d] # row[d]}
        IN  /\ row' = new
            /\ unused' = unused \ S
            /\ raced' = [d \in Ids |-> raced[d] \/ (d \in changed /\ instances[d] # None)]
            /\ mixed' = [d \in Ids |-> mixed[d] \/ (d \in changed /\ usage[d] # None)]
  BY DEF Import
<1>2. Written(kind) \in Rows /\ writes + 1 \in Versions
  BY WrittenType DEF Import, Kinds
<1>3. row' \in [Ids -> Rows \cup {None}] /\ \A d \in unused' : row'[d] = None
  BY <1>1, <1>2 DEF TypeOK
<1>4. raced' \in [Ids -> BOOLEAN] /\ mixed' \in [Ids -> BOOLEAN]
  BY <1>1 DEF TypeOK
<1>. QED
  BY <1>1, <1>2, <1>3, <1>4 DEF TypeOK, Import

LEMMA StepType ==
    ASSUME TypeOK, [Next]_vars
    PROVE  TypeOK'
<1>1. CASE Next
  <2>1. ASSUME NEW i \in Requests, NEW d \in Ids, NEW k \in {"resolve", "usage"}, Ask(i, d, k)
        PROVE  TypeOK'
    BY <2>1 DEF TypeOK, Ask
  <2>2. ASSUME NEW d \in Ids, Expire(d)
        PROVE  TypeOK'
    BY <2>2 DEF TypeOK, Expire
  <2>. QED
    BY <1>1, <2>1, <2>2, RequestType, OperationType, AdminType, ImportType DEF Next, Kinds
<1>2. CASE UNCHANGED vars
  BY <1>2 DEF TypeOK, vars
<1>. QED
  BY <1>1, <1>2

-----------------------------------------------------------------------------
(* The registry's instances.                                                *)

\* An import leaves a row alone or marks what is cached of it.
LEMMA ImportRaces ==
    ASSUME TypeOK, Import
    PROVE  \A d \in Ids :
             \/ row'[d] = row[d] /\ raced'[d] = raced[d] /\ mixed'[d] = mixed[d]
             \/ /\ instances[d] # None => raced'[d]
                /\ usage[d] # None => mixed'[d]
<1> SUFFICES ASSUME NEW d \in Ids
             PROVE  \/ row'[d] = row[d] /\ raced'[d] = raced[d] /\ mixed'[d] = mixed[d]
                    \/ /\ instances[d] # None => raced'[d]
                       /\ usage[d] # None => mixed'[d]
  OBVIOUS
<1>1. CASE row'[d] = row[d]
  <2>1. (raced'[d] <=> raced[d]) /\ (mixed'[d] <=> mixed[d])
    BY <1>1 DEF Import
  <2>2. raced[d] \in BOOLEAN /\ mixed[d] \in BOOLEAN
    BY DEF TypeOK
  <2>3. raced'[d] \in BOOLEAN /\ mixed'[d] \in BOOLEAN
    BY ImportType DEF TypeOK
  <2>. QED
    BY <1>1, <2>1, <2>2, <2>3
<1>2. CASE row'[d] # row[d]
  BY <1>2 DEF Import
<1>. QED
  BY <1>1, <1>2

LEMMA InstanceStep ==
    ASSUME TypeOK, InstanceCurrent, Next
    PROVE  InstanceCurrent'
<1> USE DEF InstanceCurrent, Changing, Instance, Builds
<1>1. ASSUME NEW i \in Requests, NEW d \in Ids, NEW k \in {"resolve", "usage"}, Ask(i, d, k)
      PROVE  InstanceCurrent'
  BY <1>1 DEF Ask
<1>2. ASSUME NEW i \in Requests, RequestStep(i)
      PROVE  InstanceCurrent'
  <2>1. CASE Hit(i) \/ QueryRows(i) \/ StoreUsage(i)
    BY <2>1 DEF Hit, QueryRows, StoreUsage
  <2>2. CASE Miss(i)
    BY <2>2 DEF Miss
  \* What is filled in is the row, or is known to have been another one.
  <2>3. CASE Fill(i)
    BY <2>3 DEF Fill, Filled, TypeOK
  <2>. QED
    BY <1>2, <2>1, <2>2, <2>3 DEF RequestStep
<1>3. ASSUME NEW d \in Ids, Expire(d)
      PROVE  InstanceCurrent'
  BY <1>3 DEF Expire
<1>4. ASSUME NEW a \in Admins, NEW d \in Ids, NEW k \in Kinds,
             CreateAdapter(a, d, k) \/ ReadToUpdate(a, d, k) \/ DeleteAdapter(a, d)
      PROVE  InstanceCurrent'
  \* The operation is under way from the write of its row on.
  <2>1. admin'[a] # Free /\ admin'[a].id = d
    BY <1>4 DEF CreateAdapter, ReadToUpdate, DeleteAdapter, TypeOK, Free
  <2>2. \A b \in Admins \ {a} : admin'[b] = admin[b]
    BY <1>4 DEF CreateAdapter, ReadToUpdate, DeleteAdapter, TypeOK
  <2>3. admin[a] = Free
    BY <1>4 DEF CreateAdapter, ReadToUpdate, DeleteAdapter
  <2>4. \A e \in Ids \ {d} : row'[e] = row[e]
    BY <1>4 DEF CreateAdapter, ReadToUpdate, DeleteAdapter, TypeOK
  <2>5. instances' = instances /\ raced' = raced
    BY <1>4 DEF CreateAdapter, ReadToUpdate, DeleteAdapter
  <2>. QED
    BY <2>1, <2>2, <2>3, <2>4, <2>5
<1>5. ASSUME NEW a \in Admins, AdminStep(a)
      PROVE  InstanceCurrent'
  <2>1. \A b \in Admins \ {a} : admin'[b] = admin[b]
    BY <1>5 DEF AdminStep, Save, PutIn, TakeOut, TypeOK
  <2>2. CASE Save(a)
    <3>1. admin[a].id \in Ids /\ admin'[a] # Free /\ admin'[a].id = admin[a].id
      BY <2>2 DEF Save, TypeOK, Free
    <3>2. \A e \in Ids \ {admin[a].id} : row'[e] = row[e]
      BY <2>2, <3>1 DEF Save, TypeOK
    <3>. QED
      BY <2>1, <2>2, <3>1, <3>2 DEF Save
  \* After an upsert or a remove the other adapters are as they were.
  <2>3. CASE PutIn(a) \/ TakeOut(a)
    <3>1. admin[a].id \in Ids
      BY <2>3 DEF PutIn, TakeOut, TypeOK, Free
    <3>2. row' = row
      BY <2>3 DEF PutIn, TakeOut
    <3>3. \A e \in Ids \ {admin[a].id} : instances'[e] = instances[e] /\ raced'[e] = raced[e]
      BY <2>3, <3>1 DEF PutIn, TakeOut, Upsert, Remove, TypeOK
    <3>4. LET d == admin[a].id
          IN  instances'[d] = None \/ raced'[d] \/ instances'[d] = Instance(row[d])
      <4>1. CASE PutIn(a) /\ admin[a].row = row[admin[a].id]
        BY <4>1, <3>1 DEF PutIn, Upsert, TypeOK
      <4>2. CASE PutIn(a) /\ admin[a].row # row[admin[a].id]
        <5>1. raced' = [raced EXCEPT ![admin[a].id] = TRUE]
          BY <4>2 DEF PutIn, Upsert
        <5>. QED
          BY <5>1, <3>1 DEF TypeOK
      <4>3. CASE TakeOut(a)
        BY <4>3, <3>1 DEF TakeOut, Remove, TypeOK
      <4>. QED
        BY <2>3, <4>1, <4>2, <4>3
    <3>. QED
      BY <2>1, <3>1, <3>2, <3>3, <3>4
  <2>. QED
    BY <1>5, <2>2, <2>3 DEF AdminStep
<1>6. ASSUME Import
      PROVE  InstanceCurrent'
  <2>1. \A d \in Ids : instances[d] # None =>
            (raced'[d] \/ (raced'[d] = raced[d] /\ row'[d] = row[d]))
    BY <1>6, ImportRaces
  <2>. QED
    BY <1>6, <2>1 DEF Import
<1>. QED
  BY <1>1, <1>2, <1>3, <1>4, <1>5, <1>6 DEF Next, Kinds

-----------------------------------------------------------------------------
(* The usage.                                                               *)

LEMMA UnusedStep ==
    ASSUME TypeOK, UnusedUnasked, Next
    PROVE  UnusedUnasked'
<1> USE DEF UnusedUnasked, Asking
<1>1. ASSUME NEW i \in Requests, NEW d \in Ids, NEW k \in {"resolve", "usage"}, Ask(i, d, k)
      PROVE  UnusedUnasked'
  BY <1>1 DEF Ask, TypeOK
<1>2. ASSUME NEW i \in Requests, RequestStep(i)
      PROVE  UnusedUnasked'
  <2>1. unused' = unused /\ \A j \in Requests \ {i} : request'[j] = request[j]
    BY <1>2 DEF RequestStep, Hit, Miss, QueryRows, Fill, StoreUsage, TypeOK
  <2>2. /\ Asking(i) \/ request[i].pc = "usage"
        /\ Asking(i)' \/ request'[i].pc = "usage" => request'[i].id = request[i].id
    BY <1>2 DEF RequestStep, Hit, Miss, QueryRows, Fill, StoreUsage, Answered, TypeOK
  <2>3. \A d \in Ids \ {request[i].id} : usage'[d] = usage[d]
    BY <1>2 DEF RequestStep, Hit, Miss, QueryRows, Fill, StoreUsage, TypeOK
  <2>. QED
    BY <2>1, <2>2, <2>3 DEF TypeOK
<1>3. ASSUME NEW d \in Ids, Expire(d)
      PROVE  UnusedUnasked'
  BY <1>3 DEF Expire, TypeOK
<1>4. ASSUME NEW a \in Admins, NEW d \in Ids, NEW k \in Kinds,
             CreateAdapter(a, d, k) \/ ReadToUpdate(a, d, k) \/ DeleteAdapter(a, d)
      PROVE  UnusedUnasked'
  BY <1>4 DEF CreateAdapter, ReadToUpdate, DeleteAdapter
<1>5. ASSUME NEW a \in Admins, AdminStep(a)
      PROVE  UnusedUnasked'
  BY <1>5 DEF AdminStep, Save, PutIn, TakeOut, TypeOK
<1>6. ASSUME Import
      PROVE  UnusedUnasked'
  BY <1>6 DEF Import
<1>. QED
  BY <1>1, <1>2, <1>3, <1>4, <1>5, <1>6 DEF Next, Kinds

LEMMA UsageStep ==
    ASSUME TypeOK, UnusedUnasked, UsageCleared, Next
    PROVE  UsageCleared'
<1> USE DEF UsageCleared
<1>1. ASSUME NEW i \in Requests, NEW d \in Ids, NEW k \in {"resolve", "usage"}, Ask(i, d, k)
      PROVE  UsageCleared'
  BY <1>1 DEF Ask
<1>2. ASSUME NEW i \in Requests, RequestStep(i)
      PROVE  UsageCleared'
  <2>1. CASE Hit(i) \/ Miss(i) \/ QueryRows(i) \/ Fill(i)
    BY <2>1 DEF Hit, Miss, QueryRows, Fill
  \* What is stored is the usage of the row, or is known not to be.
  <2>2. CASE StoreUsage(i)
    <3>1. request[i].id \in Ids
      BY <2>2 DEF StoreUsage, TypeOK
    <3>2. CASE usage' = usage /\ mixed' = mixed
      BY <2>2, <3>2 DEF StoreUsage
    <3>3. CASE usage' # usage \/ mixed' # mixed
      <4> DEFINE d == request[i].id
                 answer == [named |-> request[i].named, got |-> request[i].got]
      <4>1. /\ usage' = [usage EXCEPT ![d] = answer]
            /\ mixed' = [mixed EXCEPT ![d] = row[d] = None \/ answer # UsageOf(row[d])]
        BY <2>2, <3>3 DEF StoreUsage
      <4>2. \A e \in Ids \ {d} : usage'[e] = usage[e] /\ mixed'[e] = mixed[e]
        BY <4>1 DEF TypeOK
      <4>3. mixed'[d] \/ (row[d] # None /\ usage'[d] = UsageOf(row[d]))
        <5>1. usage'[d] = answer
          BY <4>1, <3>1 DEF TypeOK
        <5>2. mixed'[d] <=> (row[d] = None \/ answer # UsageOf(row[d]))
          BY <4>1, <3>1 DEF TypeOK
        <5>. QED
          BY <5>1, <5>2
      <4>. QED
        BY <2>2, <4>2, <4>3 DEF StoreUsage
    <3>. QED
      BY <3>2, <3>3
  <2>. QED
    BY <1>2, <2>1, <2>2 DEF RequestStep
<1>3. ASSUME NEW d \in Ids, Expire(d)
      PROVE  UsageCleared'
  BY <1>3 DEF Expire, TypeOK
<1>4. ASSUME NEW a \in Admins, NEW d \in Ids, NEW k \in Kinds,
             CreateAdapter(a, d, k) \/ ReadToUpdate(a, d, k) \/ DeleteAdapter(a, d)
      PROVE  UsageCleared'
  <2>1. admin[a] = Free /\ \A b \in Admins \ {a} : admin'[b] = admin[b]
    BY <1>4 DEF CreateAdapter, ReadToUpdate, DeleteAdapter, TypeOK
  <2>2. usage' = usage /\ mixed' = mixed /\ \A e \in Ids \ {d} : row'[e] = row[e]
    BY <1>4 DEF CreateAdapter, ReadToUpdate, DeleteAdapter, TypeOK
  \* A new row has no usage yet, a changed one will have its usage cleared.
  <2>3. \/ usage[d] = None
        \/ row'[d] = row[d]
        \/ admin'[a].pc = "deleted" /\ admin'[a].id = d
    BY <1>4 DEF CreateAdapter, ReadToUpdate, DeleteAdapter, UnusedUnasked, TypeOK
  <2>. QED
    BY <2>1, <2>2, <2>3 DEF Free
<1>5. ASSUME NEW a \in Admins, AdminStep(a)
      PROVE  UsageCleared'
  <2>1. \A b \in Admins \ {a} : admin'[b] = admin[b]
    BY <1>5 DEF AdminStep, Save, PutIn, TakeOut, TypeOK
  <2>2. CASE Save(a)
    <3>1. admin[a].pc = "read" /\ admin'[a].pc = "saved" /\ admin'[a].id = admin[a].id
      BY <2>2 DEF Save, TypeOK
    <3>2. \A e \in Ids \ {admin[a].id} : row'[e] = row[e]
      BY <2>2, <3>1 DEF Save, TypeOK, Free
    <3>3. usage' = usage /\ mixed' = mixed
      BY <2>2 DEF Save
    <3>. QED
      BY <2>1, <3>1, <3>2, <3>3
  <2>3. CASE PutIn(a) /\ admin[a].pc = "created"
    BY <2>1, <2>3 DEF PutIn
  <2>4. CASE (PutIn(a) /\ admin[a].pc = "saved") \/ TakeOut(a)
    <3>1. admin[a].id \in Ids /\ row' = row
      BY <2>4 DEF PutIn, TakeOut, TypeOK, Free
    <3>2. usage'[admin[a].id] = None
      BY <2>4, <3>1 DEF PutIn, TakeOut, TypeOK
    <3>3. \A e \in Ids \ {admin[a].id} : usage'[e] = usage[e] /\ mixed'[e] = mixed[e]
      BY <2>4, <3>1 DEF PutIn, TakeOut, TypeOK
    <3>. QED
      BY <2>1, <3>1, <3>2, <3>3
  <2>. QED
    BY <1>5, <2>2, <2>3, <2>4 DEF AdminStep, PutIn
<1>6. ASSUME Import
      PROVE  UsageCleared'
  BY <1>6, ImportRaces DEF Import
<1>. QED
  BY <1>1, <1>2, <1>3, <1>4, <1>5, <1>6 DEF Next, Kinds

-----------------------------------------------------------------------------
(* The requests.                                                            *)

\* The request of a step is the only one it changes; it keeps what it asked for.
LEMMA RequestKeeps ==
    ASSUME TypeOK, NEW i \in Requests, RequestStep(i)
    PROVE  /\ \A j \in Requests \ {i} : request'[j] = request[j]
           /\ Asking(i)' => /\ Asking(i)
                            /\ request'[i].id = request[i].id
                            /\ request'[i].seen = request[i].seen
           /\ row' = row /\ admin' = admin /\ writes' = writes
<1>1. CASE Hit(i)
  BY <1>1 DEF Hit, Answered, Asking, TypeOK
<1>2. CASE Miss(i)
  BY <1>2 DEF Miss, Asking, TypeOK
<1>3. CASE QueryRows(i)
  BY <1>3 DEF QueryRows, Asking, TypeOK
<1>4. CASE Fill(i)
  BY <1>4 DEF Fill, Answered, Asking, TypeOK
<1>5. CASE StoreUsage(i)
  BY <1>5 DEF StoreUsage, Asking, TypeOK
<1>. QED
  BY <1>1, <1>2, <1>3, <1>4, <1>5 DEF RequestStep

\* What a statement writes is a version nobody has seen.
Novel ==
    /\ writes' \in Int /\ writes <= writes'
    /\ request' = request
    /\ \A e \in Ids : row'[e] # None /\ row'[e] # row[e] =>
        /\ row'[e].ver <= writes'
        /\ \A i \in Requests : Asking(i) => request[i].seen.ver # row'[e].ver
        /\ \A b \in Admins : admin'[b].pc = "read" => row'[e].ver # admin'[b].row.ver

LEMMA VersionsAreNumbers ==
    ASSUME TypeOK
    PROVE  /\ writes \in Int
           /\ \A i \in Requests : Asking(i) => request[i].seen.ver \in Int
           /\ \A b \in Admins : admin[b].pc = "read" => admin[b].row.ver \in Int
           /\ \A e \in Ids : row[e] # None => row[e].ver \in Int
BY DEF TypeOK, Versions, Asking, Rows, Free

LEMMA OperationFresh ==
    ASSUME TypeOK, FreshVersions, NEW a \in Admins, NEW d \in Ids, NEW k \in Kinds,
           CreateAdapter(a, d, k) \/ ReadToUpdate(a, d, k) \/ DeleteAdapter(a, d)
    PROVE  Novel
<1> USE VersionsAreNumbers DEF FreshVersions, Novel
<1>1. CASE CreateAdapter(a, d, k)
  BY <1>1 DEF CreateAdapter, Written, TypeOK
<1>2. CASE ReadToUpdate(a, d, k)
  BY <1>2 DEF ReadToUpdate
<1>3. CASE DeleteAdapter(a, d)
  BY <1>3 DEF DeleteAdapter, TypeOK
<1>. QED
  BY <1>1, <1>2, <1>3

LEMMA SaveFresh ==
    ASSUME TypeOK, FreshVersions, NEW a \in Admins, Save(a)
    PROVE  Novel
<1>1. admin[a].id \in Ids /\ admin[a].pc = "read"
  BY DEF Save, TypeOK, Free
<1>2. \A b \in Admins : admin'[b].pc = "read" => b # a /\ admin'[b] = admin[b]
  BY DEF Save, TypeOK
<1>3. \A e \in Ids : row'[e] # row[e] => row'[e] = admin[a].row
  BY <1>1 DEF Save, TypeOK
<1>4. writes' = writes /\ request' = request
  BY DEF Save
<1>. QED
  BY <1>1, <1>2, <1>3, <1>4, VersionsAreNumbers DEF FreshVersions, Novel

LEMMA ImportFresh ==
    ASSUME TypeOK, FreshVersions, Import
    PROVE  Novel
<1>1. /\ \A e \in Ids : row'[e] # None /\ row'[e] # row[e] => row'[e].ver = writes + 1
      /\ writes' = writes + 1 /\ request' = request /\ admin' = admin
  BY DEF Import, Written
<1>. QED
  BY <1>1, VersionsAreNumbers DEF FreshVersions, Novel

LEMMA FreshStep ==
    ASSUME TypeOK, FreshVersions, Next
    PROVE  FreshVersions'
<1> USE DEF FreshVersions
<1>1. ASSUME NEW i \in Requests, NEW d \in Ids, NEW k \in {"resolve", "usage"}, Ask(i, d, k)
      PROVE  FreshVersions'
  <2>1. \A j \in Requests : Asking(j)' =>
            (Asking(j) /\ request'[j] = request[j]) \/ (row[d] # None /\ request'[j].seen = row[d])
    BY <1>1 DEF Ask, Asking, TypeOK
  <2>2. row' = row /\ admin' = admin /\ writes' = writes
    BY <1>1 DEF Ask
  <2>. QED
    BY <2>1, <2>2
<1>2. ASSUME NEW i \in Requests, RequestStep(i)
      PROVE  FreshVersions'
  BY <1>2, RequestKeeps DEF Asking
<1>3. ASSUME NEW d \in Ids, Expire(d)
      PROVE  FreshVersions'
  BY <1>3 DEF Expire, Asking
\* An update that has read its row is to save the next version, or is as before.
<1>4. ASSUME Novel,
             \A b \in Admins : admin'[b].pc = "read" =>
                \/ admin[b].pc = "read" /\ admin'[b] = admin[b]
                \/ /\ admin'[b].row.ver = writes + 1 /\ writes' = writes + 1 /\ row' = row
                   /\ \A c \in Admins \ {b} : admin'[c] = admin[c]
      PROVE  FreshVersions'
  BY <1>4, VersionsAreNumbers DEF Asking, Novel
<1>5. ASSUME NEW a \in Admins, NEW d \in Ids, NEW k \in Kinds,
             CreateAdapter(a, d, k) \/ ReadToUpdate(a, d, k) \/ DeleteAdapter(a, d)
      PROVE  FreshVersions'
  BY <1>4, <1>5, OperationFresh
     DEF CreateAdapter, ReadToUpdate, DeleteAdapter, Written, TypeOK, Free
<1>6. ASSUME NEW a \in Admins, Save(a)
      PROVE  FreshVersions'
  BY <1>4, <1>6, SaveFresh DEF Save, TypeOK
<1>7. ASSUME Import
      PROVE  FreshVersions'
  BY <1>4, <1>7, ImportFresh DEF Import
<1>8. ASSUME NEW a \in Admins, PutIn(a) \/ TakeOut(a)
      PROVE  FreshVersions'
  <2>1. \A b \in Admins : admin'[b].pc = "read" => admin[b].pc = "read" /\ admin'[b] = admin[b]
    BY <1>8 DEF PutIn, TakeOut, TypeOK, Free
  <2>2. row' = row /\ request' = request /\ writes' = writes
    BY <1>8 DEF PutIn, TakeOut
  <2>. QED
    BY <2>1, <2>2 DEF Asking
<1>. QED
  BY <1>1, <1>2, <1>3, <1>5, <1>6, <1>7, <1>8 DEF Next, AdminStep, Kinds

\* A write makes no row what some request has seen of it, if it was not that before.
LEMMA NovelBuilt ==
    ASSUME TypeOK, BuiltSeen, Novel
    PROVE  BuiltSeen'
<1> SUFFICES ASSUME NEW i \in Requests, request[i].pc = "fill",
                    row'[request[i].id] = request[i].seen
             PROVE  request[i].built[request[i].id] = Instance(request[i].seen)
  BY DEF BuiltSeen, Novel, Instance, Builds
<1>1. request[i].id \in Ids /\ request[i].seen # None /\ Asking(i)
  BY NoneAssumption DEF TypeOK, Rows, Versions, Kinds, Asking
<1>2. row'[request[i].id] = row[request[i].id]
  BY <1>1 DEF Novel
<1>. QED
  BY <1>2 DEF BuiltSeen

LEMMA BuiltStep ==
    ASSUME TypeOK, FreshVersions, BuiltSeen, Next
    PROVE  BuiltSeen'
<1> USE DEF Instance, Builds
<1>1. ASSUME NEW i \in Requests, NEW d \in Ids, NEW k \in {"resolve", "usage"}, Ask(i, d, k)
      PROVE  BuiltSeen'
  BY <1>1 DEF Ask, TypeOK, BuiltSeen
<1>2. ASSUME NEW i \in Requests, RequestStep(i)
      PROVE  BuiltSeen'
  <2>1. CASE QueryRows(i)
    BY <2>1 DEF QueryRows, TypeOK, BuiltSeen
  <2>2. CASE Hit(i) \/ Miss(i) \/ Fill(i) \/ StoreUsage(i)
    <3>1. request'[i].pc # "fill" /\ \A j \in Requests \ {i} : request'[j] = request[j]
      BY <2>2 DEF Hit, Miss, Fill, StoreUsage, Answered, TypeOK
    <3>2. row' = row
      BY <2>2 DEF Hit, Miss, Fill, StoreUsage
    <3>. QED
      BY <3>1, <3>2 DEF BuiltSeen
  <2>. QED
    BY <1>2, <2>1, <2>2 DEF RequestStep
<1>3. ASSUME UNCHANGED <<row, request>>
      PROVE  BuiltSeen'
  BY <1>3 DEF BuiltSeen
<1>4. ASSUME NEW a \in Admins, AdminStep(a)
      PROVE  BuiltSeen'
  BY <1>3, <1>4, SaveFresh, NovelBuilt DEF AdminStep, PutIn, TakeOut
<1>. QED
  BY <1>1, <1>2, <1>3, <1>4, OperationFresh, ImportFresh, NovelBuilt DEF Next, Expire, Kinds

\* A path is answered 404 only when no instance of its row could be built, or the
\* row is no longer what the request saw.
LEMMA NeverMissed ==
    ASSUME TypeOK, BuiltSeen, Next,
           NEW i \in Requests, request[i].pc \in {"look", "fill"},
           request[i].kind = "resolve", Builds(request[i].seen),
           row[request[i].id] = request[i].seen
    PROVE  request'[i].pc # "missing"
<1>1. ASSUME NEW j \in Requests, NEW d \in Ids, NEW k \in {"resolve", "usage"}, Ask(j, d, k)
      PROVE  request'[i].pc # "missing"
  BY <1>1 DEF Ask, TypeOK
<1>2. ASSUME NEW j \in Requests, j # i, RequestStep(j)
      PROVE  request'[i].pc # "missing"
  BY <1>2, RequestKeeps
<1>3. ASSUME RequestStep(i)
      PROVE  request'[i].pc # "missing"
  \* The registry had an instance, ...
  <2>1. CASE Hit(i)
    BY <2>1 DEF Hit, Shortcut, Answered, TypeOK
  <2>2. CASE Miss(i)
    BY <2>2 DEF Miss, TypeOK
  \* ... or its refresh has built one from the row.
  <2>3. CASE Fill(i)
    <3>1. request[i].id \in Ids /\ request[i].built[request[i].id] = request[i].seen.ver
      BY <2>3 DEF Fill, TypeOK, BuiltSeen, Instance
    <3>2. request[i].seen.ver # None
      BY <2>3, NoneAssumption DEF Fill, TypeOK, Rows, Versions
    <3>3. instances'[request[i].id] = request[i].seen.ver
      BY <2>3, <3>1, <3>2 DEF Fill, Filled
    <3>. QED
      BY <2>3, <3>2, <3>3 DEF Fill, Answered, TypeOK
  <2>. QED
    BY <1>3, <2>1, <2>2, <2>3 DEF RequestStep, QueryRows, StoreUsage
<1>4. ASSUME UNCHANGED request
      PROVE  request'[i].pc # "missing"
  BY <1>4
<1>. QED
  BY <1>1, <1>2, <1>3, <1>4
     DEF Next, Expire, CreateAdapter, ReadToUpdate, DeleteAdapter, AdminStep, Save, PutIn,
         TakeOut, Import

-----------------------------------------------------------------------------
LEMMA InitInv == Init => IInv
<1> SUFFICES ASSUME Init
             PROVE  IInv
  OBVIOUS
<1>1. TypeOK
  BY InitType
<1>2. \A d \in Ids : row[d] # None => row[d].ver = 0
  BY NoneAssumption DEF Init
<1>. QED
  BY <1>1, <1>2
     DEF Init, IInv, InstanceCurrent, UnusedUnasked, UsageCleared, FreshVersions, BuiltSeen,
         Asking, Free

LEMMA NextInv == IInv /\ [Next]_vars => IInv'
<1> SUFFICES ASSUME IInv, [Next]_vars
             PROVE  IInv'
  OBVIOUS
<1>1. TypeOK'
  BY StepType DEF IInv
<1>2. CASE Next
  BY <1>1, <1>2, InstanceStep, UnusedStep, UsageStep, FreshStep, BuiltStep DEF IInv
<1>3. CASE UNCHANGED vars
  BY <1>1, <1>3
     DEF vars, IInv, InstanceCurrent, UnusedUnasked, UsageCleared, FreshVersions, BuiltSeen,
         Asking, Changing, Instance, Builds
<1>. QED
  BY <1>2, <1>3

LEMMA Invariant == Spec => []IInv
BY InitInv, NextInv, PTL DEF Spec

\* Type correctness, and what the version numbers of the model stand for: an id that
\* was not given has no row.
THEOREM TypeCorrect == Spec => []TypeOK
<1>1. IInv => TypeOK
  BY DEF IInv
<1>. QED
  BY <1>1, Invariant, PTL

\* However many requests refresh the registry at once, and whatever administrators
\* and imports do meanwhile, an instance of a row that has changed is served only
\* in the races InstanceCurrent names.
THEOREM InstancesCurrent == Spec => []InstanceCurrent
<1>1. IInv => InstanceCurrent
  BY DEF IInv
<1>. QED
  BY <1>1, Invariant, PTL

\* The cached usage of an adapter, with the name, type and paths it is stored under, is that
\* of its row but in the races UsageCurrent names.
THEOREM UsagesCurrent == Spec => []UsageCurrent
<1>1. IInv => UsageCurrent
  BY DEF IInv, UsageCleared, UsageCurrent, Changing, Free
<1>. QED
  BY <1>1, Invariant, PTL

\* What the caches answer is current, the instances and the usage alike, but in the
\* races the two properties name.
THEOREM CachesAreCurrent == Spec => []CachesCurrent
BY InstancesCurrent, UsagesCurrent, PTL DEF CachesCurrent

\* A usable adapter is found however often the registry is cleared: no request is
\* answered 404 for a row that can be built and has not changed.
THEOREM NoMiss == Spec => NoSpurious404
<1>1. IInv /\ [Next]_vars =>
        [\A i \in Requests :
            request[i].pc \in {"look", "fill"} /\ request[i].kind = "resolve"
                /\ Builds(request[i].seen) /\ row[request[i].id] = request[i].seen
            => request'[i].pc # "missing"]_vars
  BY NeverMissed DEF IInv
<1>. QED
  BY <1>1, Invariant, PTL DEF Spec, NoSpurious404
===============================================================================
