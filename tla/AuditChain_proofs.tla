------------------------- MODULE AuditChain_proofs -------------------------
(***************************************************************************)
(* Proofs about AuditChain, for every value of its constants: any number   *)
(* of writers on either backend.                                           *)
(***************************************************************************)
EXTENDS AuditChain, TLAPS

LEMMA Types ==
  ASSUME TypeOK, [Next]_vars
  PROVE  TypeOK'
<1>1. CASE UNCHANGED vars
  BY <1>1 DEF vars, TypeOK
<1>2. ASSUME NEW w \in Writers, NEW x \in Tenants, NEW r \in Resources, ChangeFirst(w, x, r)
      PROVE  TypeOK'
  BY <1>2 DEF ChangeFirst, TypeOK
<1>3. ASSUME NEW w \in Writers, NEW x \in Tenants, NEW r \in Resources \cup {NoChange}, Read(w, x, r)
      PROVE  TypeOK'
  <2>1. Of(log, x) \in SUBSET Row
    BY DEF Of, TypeOK
  <2>2. QED
    BY <1>3, <2>1 DEF Read, TypeOK
<1>4. ASSUME NEW w \in Writers, Add(w)
      PROVE  TypeOK'
  <2>1. PICK id \in Events, previous \in Previous(seen[w]) :
          added' = [added EXCEPT ![w] =
                      {[id |-> id, tenant |-> tenant[w], previous |-> previous,
                        at |-> clock', held |-> Holds(w)]}]
    BY <1>4 DEF Add
  <2>2. previous \in Events \cup {Genesis}
    BY DEF TypeOK, Previous, Newest, Row
  <2>3. clock' \in Nat
    BY <1>4 DEF Add, TypeOK
  <2>4. Holds(w) \in BOOLEAN
    BY DEF Holds
  <2>5. [id |-> id, tenant |-> tenant[w], previous |-> previous,
         at |-> clock', held |-> Holds(w)] \in Row
    BY <2>2, <2>3, <2>4, Zenon DEF Row, TypeOK
  <2>6. added' \in [Writers -> SUBSET Row]
    BY <2>1, <2>5 DEF TypeOK
  <2>7. QED
    BY <1>4, <2>3, <2>6 DEF Add, TypeOK
<1>5. ASSUME NEW w \in Writers, Commit(w)
      PROVE  TypeOK'
  BY <1>5 DEF Commit, Close, TypeOK
<1>6. ASSUME NEW w \in Writers, Rollback(w)
      PROVE  TypeOK'
  BY <1>6 DEF Rollback, Close, TypeOK
<1>7. CASE SetBack
  <2>1. clock' \in Nat /\ stepsBack' \in Nat
    BY <1>7 DEF SetBack, TypeOK
  <2>2. QED
    BY <1>7, <2>1 DEF SetBack, TypeOK
<1>8. QED
  BY <1>1, <1>2, <1>3, <1>4, <1>5, <1>6, <1>7 DEF Next

\* Rows, snapshots and transactions keep their types.
THEOREM TypeCorrect == Spec => []TypeOK
<1>1. Init => TypeOK
  BY DEF Init, TypeOK
<1>2. QED
  BY <1>1, Types, PTL DEF Spec

-----------------------------------------------------------------------------
(***************************************************************************)
(* The parts of the invariant, one by one.                                 *)
(***************************************************************************)
\* A writer that has not added its row yet has none.
LEMMA NothingAdded ==
  ASSUME Adds, NEW w \in Writers, stage[w] # "adding"
  PROVE  added[w] = {}
BY DEF Adds, Fits

\* A writer that holds the log keeps the others from committing.
LEMMA HoldersExclude ==
  ASSUME NEW v \in Writers, NEW w \in Writers, v # w,
         Open(v), Holds(v), NEW r, MayWrite(w, r)
  PROVE  FALSE
<1>1. Backend = "sqlite" /\ Locks(v)
  BY DEF Holds, Locks
<1>2. QED
  BY <1>1 DEF MayWrite

LEMMA KeepsOneHolds ==
  ASSUME IInv, [Next]_vars
  PROVE  OneHolds'
<1>1. CASE UNCHANGED vars
  BY <1>1 DEF vars, IInv, OneHolds, Open, Holds
<1>2. ASSUME NEW w \in Writers, NEW x \in Tenants, NEW r \in Resources \cup {NoChange}, Read(w, x, r)
      PROVE  OneHolds'
  <2>1. \A v \in Writers \ {w} : stage'[v] = stage[v] /\ resource'[v] = resource[v]
    BY <1>2 DEF Read, IInv, TypeOK
  <2>2. resource'[w] = r
    BY <1>2 DEF Read, IInv, TypeOK
  <2>3. ASSUME NEW v \in Writers, v # w, Open(v), Holds(v), Holds(w)'
        PROVE  FALSE
    <3>1. r # NoChange
      BY <2>2, <2>3 DEF Holds
    <3>2. MayWrite(w, r)
      BY <1>2, <3>1 DEF Read
    <3>3. QED
      BY <2>3, <3>2, HoldersExclude
  <2>4. \A v \in Writers \ {w} : (Open(v)' => Open(v)) /\ (Holds(v)' => Holds(v))
    BY <2>1 DEF Open, Holds
  <2>5. QED
    BY <2>3, <2>4 DEF IInv, OneHolds
<1>3. ASSUME NEW w \in Writers, \/ \E x \in Tenants, r \in Resources : ChangeFirst(w, x, r)
                                \/ Add(w) \/ Commit(w) \/ Rollback(w)
      PROVE  OneHolds'
  <2>1. \A v \in Writers : (Open(v)' => Open(v)) /\ (Open(v)' => resource'[v] = resource[v])
    BY <1>3 DEF ChangeFirst, Add, Commit, Rollback, Close, Open, IInv, TypeOK
  <2>2. QED
    BY <2>1 DEF IInv, OneHolds, Holds
<1>4. CASE SetBack
  BY <1>4 DEF SetBack, IInv, OneHolds, Open, Holds
<1>5. QED
  BY <1>1, <1>2, <1>3, <1>4 DEF Next

LEMMA KeepsReads ==
  ASSUME IInv, [Next]_vars
  PROVE  Reads'
<1>1. CASE UNCHANGED vars
  BY <1>1 DEF vars, IInv, Reads, Open, Holds, Of
<1>2. ASSUME NEW w \in Writers, NEW x \in Tenants, NEW r \in Resources, ChangeFirst(w, x, r)
      PROVE  Reads'
  <2>1. seen[w] = {} /\ ~ Open(w)'
    BY <1>2 DEF ChangeFirst, IInv, Reads, Open, TypeOK
  <2>2. QED
    BY <1>2, <2>1 DEF ChangeFirst, IInv, Reads, Open, Holds, Of, TypeOK
<1>3. ASSUME NEW w \in Writers, NEW x \in Tenants, NEW r \in Resources \cup {NoChange}, Read(w, x, r)
      PROVE  Reads'
  BY <1>3 DEF Read, IInv, Reads, Open, Holds, Of, TypeOK
<1>4. ASSUME NEW w \in Writers, Add(w)
      PROVE  Reads'
  BY <1>4 DEF Add, IInv, Reads, Open, Holds, Of, TypeOK
<1>5. ASSUME NEW w \in Writers, Commit(w)
      PROVE  Reads'
  <2>1. \A v \in Writers \ {w} : ~ (Open(v) /\ Holds(v))
    BY <1>5, HoldersExclude DEF Commit
  <2>2. QED
    BY <1>5, <2>1 DEF Commit, Close, IInv, Reads, Open, Holds, Of, TypeOK
<1>6. ASSUME NEW w \in Writers, Rollback(w)
      PROVE  Reads'
  BY <1>6 DEF Rollback, Close, IInv, Reads, Open, Holds, Of, TypeOK
<1>7. CASE SetBack
  BY <1>7 DEF SetBack, IInv, Reads, Open, Holds, Of
<1>8. QED
  BY <1>1, <1>2, <1>3, <1>4, <1>5, <1>6, <1>7 DEF Next

LEMMA AddsRow ==
  ASSUME TypeOK, NEW w \in Writers, Add(w)
  PROVE  \E n \in Row :
           /\ added' = [added EXCEPT ![w] = {n}]
           /\ n.tenant = tenant[w] /\ n.previous \in Previous(seen[w])
           /\ n.at = clock + 1 /\ (n.held <=> Holds(w))
           /\ \A r \in Rows : r.id # n.id
<1>1. PICK id \in Events \ {r.id : r \in Rows}, previous \in Previous(seen[w]) :
        added' = [added EXCEPT ![w] =
                    {[id |-> id, tenant |-> tenant[w], previous |-> previous,
                      at |-> clock', held |-> Holds(w)]}]
  BY DEF Add
<1> DEFINE n == [id |-> id, tenant |-> tenant[w], previous |-> previous,
                 at |-> clock', held |-> Holds(w)]
<1>2. previous \in Events \cup {Genesis}
  BY DEF TypeOK, Previous, Newest, Row
<1>3. clock' = clock + 1 /\ clock' \in Nat
  BY DEF Add, TypeOK
<1>4. Holds(w) \in BOOLEAN
  BY DEF Holds
<1>5. n \in Row
  BY <1>2, <1>3, <1>4, Zenon DEF Row, TypeOK
<1>6. \A r \in Rows : r.id # n.id
  BY DEF Rows
<1>7. n.tenant = tenant[w] /\ n.previous = previous /\ n.at = clock + 1 /\ n.held = Holds(w)
  BY <1>3, Zenon
<1>8. QED
  BY <1>1, <1>5, <1>6, <1>7

\* What another writer does leaves a row about to be stored as it is.
LEMMA StaysFit ==
  ASSUME NEW v \in Writers, Fits(v),
         stage'[v] = stage[v], tenant'[v] = tenant[v], resource'[v] = resource[v],
         seen'[v] = seen[v], added'[v] = added[v], stepsBack' = 0 => stepsBack = 0
  PROVE  Fits(v)'
<1>1. Holds(v)' <=> Holds(v)
  BY DEF Holds
<1>2. Previous(seen[v])' = Previous(seen[v])
  BY DEF Previous, Newest
<1>3. QED
  BY <1>1, <1>2 DEF Fits

LEMMA KeepsAdds ==
  ASSUME IInv, [Next]_vars
  PROVE  Adds'
<1>1. CASE UNCHANGED vars
  BY <1>1, StaysFit DEF vars, IInv, Adds
<1>2. ASSUME NEW w \in Writers,
             \/ \E x \in Tenants, r \in Resources : ChangeFirst(w, x, r)
             \/ \E x \in Tenants, r \in Resources \cup {NoChange} : Read(w, x, r)
      PROVE  Adds'
  <2>1. added[w] = {} /\ added' = added /\ stepsBack' = stepsBack
    BY <1>2, NothingAdded DEF IInv, ChangeFirst, Read
  <2>2. \A v \in Writers \ {w} :
          /\ stage'[v] = stage[v] /\ tenant'[v] = tenant[v]
          /\ resource'[v] = resource[v] /\ seen'[v] = seen[v]
    BY <1>2 DEF ChangeFirst, Read, IInv, TypeOK
  <2>3. Fits(w)'
    BY <2>1 DEF Fits
  <2>4. QED
    BY <2>1, <2>2, <2>3, StaysFit DEF IInv, Adds
<1>3. ASSUME NEW w \in Writers, Add(w)
      PROVE  Adds'
  <2>1. PICK n \in Row :
          /\ added' = [added EXCEPT ![w] = {n}]
          /\ n.tenant = tenant[w] /\ n.previous \in Previous(seen[w])
          /\ n.at = clock + 1 /\ (n.held <=> Holds(w))
    BY <1>3, AddsRow DEF IInv
  <2>2. stepsBack = 0 => \A r \in seen[w] : r.at < n.at
    <3>1. seen[w] \subseteq log /\ log \subseteq Row /\ clock \in Nat
      BY DEF IInv, Reads, Of, TypeOK
    <3>2. \A r \in seen[w] : r.at \in Nat /\ (stepsBack = 0 => r.at <= clock)
      BY <3>1 DEF IInv, Distinct, Rows, Row
    <3>3. QED
      BY <2>1, <3>1, <3>2
  <2>3. /\ stage' = [stage EXCEPT ![w] = "adding"] /\ tenant' = tenant /\ resource' = resource
        /\ seen' = seen /\ stepsBack' = stepsBack
    BY <1>3 DEF Add
  <2>4. added'[w] = {n} /\ stage'[w] = "adding"
    BY <2>1, <2>3 DEF IInv, TypeOK
  <2>5. \A v \in Writers \ {w} : added'[v] = added[v] /\ stage'[v] = stage[v]
    BY <2>1, <2>3 DEF IInv, TypeOK
  <2>6. Fits(w)'
    <3>1. (Holds(w)' <=> Holds(w)) /\ Previous(seen[w])' = Previous(seen[w])
      BY <2>3 DEF Holds, Previous, Newest
    <3>2. QED
      BY <2>1, <2>2, <2>3, <2>4, <3>1 DEF Fits
  <2>7. QED
    BY <2>3, <2>5, <2>6, StaysFit DEF IInv, Adds
<1>4. ASSUME NEW w \in Writers, Commit(w) \/ Rollback(w)
      PROVE  Adds'
  <2>1. added'[w] = {} /\ stepsBack' = stepsBack /\ tenant' = tenant
    BY <1>4 DEF Commit, Rollback, Close, IInv, TypeOK
  <2>2. \A v \in Writers \ {w} :
          /\ stage'[v] = stage[v] /\ added'[v] = added[v]
          /\ resource'[v] = resource[v] /\ seen'[v] = seen[v]
    BY <1>4 DEF Commit, Rollback, Close, IInv, TypeOK
  <2>3. Fits(w)'
    BY <2>1 DEF Fits
  <2>4. QED
    BY <2>1, <2>2, <2>3, StaysFit DEF IInv, Adds
<1>5. CASE SetBack
  <2>1. stepsBack' # 0
    BY <1>5 DEF SetBack, IInv, TypeOK
  <2>2. QED
    BY <1>5, <2>1, StaysFit DEF SetBack, IInv, Adds
<1>6. QED
  BY <1>1, <1>2, <1>3, <1>4, <1>5 DEF Next

LEMMA KeepsDistinct ==
  ASSUME IInv, [Next]_vars
  PROVE  Distinct'
<1>1. ASSUME log' = log, added' = added, stepsBack' = 0 => stepsBack = 0 /\ clock' = clock
      PROVE  Distinct'
  BY <1>1 DEF IInv, Distinct, Rows
<1>2. ASSUME NEW w \in Writers, Add(w)
      PROVE  Distinct'
  <2>1. PICK n \in Row : /\ added' = [added EXCEPT ![w] = {n}]
                         /\ n.at = clock + 1
                         /\ \A r \in Rows : r.id # n.id
    BY <1>2, AddsRow DEF IInv
  <2>2. added[w] = {}
    BY <1>2, NothingAdded DEF IInv, Add
  <2>3. Rows' = Rows \cup {n} /\ log' = log
    BY <1>2, <2>1, <2>2 DEF Add, Rows, IInv, TypeOK
  <2>4. n \notin Rows
    BY <2>1
  <2>5. clock \in Nat /\ clock' = clock + 1 /\ stepsBack' = stepsBack
    BY <1>2 DEF Add, IInv, TypeOK
  <2>6. stepsBack = 0 => \A r \in Rows : r.at \in Nat /\ r.at <= clock
    BY DEF IInv, Distinct, Rows, Row, TypeOK
  <2>7. /\ \A r, s \in Rows' : r.id = s.id => r = s
        /\ stepsBack' = 0 => /\ \A r, s \in Rows' : r.at = s.at => r = s
                             /\ \A r \in Rows' : r.at <= clock'
    BY <2>1, <2>3, <2>5, <2>6 DEF IInv, Distinct
  <2>8. \A v \in Writers : added'[v] \cap log' = {}
    BY <2>1, <2>3, <2>4 DEF IInv, Distinct, Rows, TypeOK
  <2>9. \A u, v \in Writers : u # v => added'[u] \cap added'[v] = {}
    BY <2>1, <2>4 DEF IInv, Distinct, Rows, TypeOK
  <2>10. QED
    BY <2>7, <2>8, <2>9 DEF Distinct
<1>3. ASSUME NEW w \in Writers, Commit(w) \/ Rollback(w)
      PROVE  Distinct'
  <2>1. added' = [added EXCEPT ![w] = {}] /\ log' \in {log, log \cup added[w]}
    BY <1>3 DEF Commit, Rollback, Close
  <2>2. Rows' \subseteq Rows
    BY <2>1 DEF Rows, IInv, TypeOK
  <2>3. stepsBack' = stepsBack /\ clock' = clock
    BY <1>3 DEF Commit, Rollback
  <2>4. \A v \in Writers : added'[v] \cap log' = {}
    BY <2>1 DEF IInv, Distinct, TypeOK
  <2>5. \A u, v \in Writers : u # v => added'[u] \cap added'[v] = {}
    BY <2>1 DEF IInv, Distinct, TypeOK
  <2>6. QED
    BY <2>2, <2>3, <2>4, <2>5 DEF IInv, Distinct
<1>4. CASE SetBack
  <2>1. stepsBack' # 0
    BY <1>4 DEF SetBack, IInv, TypeOK
  <2>2. QED
    BY <1>1, <1>4, <2>1 DEF SetBack
<1>5. CASE \E w \in Writers :
             \/ \E x \in Tenants, r \in Resources : ChangeFirst(w, x, r)
             \/ \E x \in Tenants, r \in Resources \cup {NoChange} : Read(w, x, r)
  BY <1>1, <1>5 DEF ChangeFirst, Read
<1>6. CASE UNCHANGED vars
  BY <1>1, <1>6 DEF vars
<1>7. QED
  BY <1>2, <1>3, <1>4, <1>5, <1>6 DEF Next

-----------------------------------------------------------------------------
(***************************************************************************)
(* What a commit stores.                                                   *)
(***************************************************************************)
\* The row n that writer w is about to store, as the properties need it.
Stores(w, n) ==
  /\ n \in Row /\ n \notin log
  /\ log' = log \cup {n}
  /\ seen[w] \subseteq Of(log, n.tenant)
  /\ n.held => Holds(w) /\ seen[w] = Of(log, n.tenant)
  /\ stepsBack = 0 => \A r \in seen[w] : r.at < n.at
  /\ \/ n.previous = Genesis /\ seen[w] = {}
     \/ /\ n.previous \in Events
        /\ \E p \in seen[w] : p.id = n.previous /\ \A s \in seen[w] : s.at <= p.at

LEMMA CommitStores ==
  ASSUME IInv, NEW w \in Writers, Commit(w)
  PROVE  log' = log \/ \E n \in added[w] : Stores(w, n)
<1>1. CASE added[w] = {}
  BY <1>1 DEF Commit
<1>2. ASSUME NEW n \in added[w]
      PROVE  Stores(w, n)
  <2>1. Fits(w) /\ n \in Row /\ log \subseteq Row /\ Open(w)
    BY <1>2 DEF IInv, Adds, TypeOK, Commit, Open
  <2>2. n \notin log /\ log' = log \cup {n}
    BY <1>2, <2>1 DEF IInv, Distinct, Fits, Commit
  <2>3. /\ seen[w] \subseteq Of(log, n.tenant)
        /\ n.held => Holds(w) /\ seen[w] = Of(log, n.tenant)
    BY <1>2, <2>1 DEF IInv, Reads, Fits
  <2>4. CASE seen[w] = {}
    BY <1>2, <2>1, <2>2, <2>3, <2>4 DEF Fits, Previous, Stores
  <2>5. CASE seen[w] # {}
    <3>1. PICK p \in seen[w] : p.id = n.previous /\ \A s \in seen[w] : s.at <= p.at
      BY <1>2, <2>1, <2>5 DEF Fits, Previous, Newest
    <3>2. p.id \in Events
      BY <2>1, <2>3, <3>1 DEF Of, Row
    <3>3. QED
      BY <1>2, <2>1, <2>2, <2>3, <3>1, <3>2 DEF Fits, Stores
  <2>6. QED
    BY <2>4, <2>5
<1>3. QED
  BY <1>1, <1>2

\* Held rows keep following each other.
LEMMA KeepsOrder ==
  ASSUME IInv, TypeOK', NEW w \in Writers, NEW n \in added[w], Stores(w, n),
         stepsBack = 0, NEW r \in log', r.held
  PROVE  Follows(r, Of(log', r.tenant))
<1>1. /\ Of(log', n.tenant) = Of(log, n.tenant) \cup {n}
      /\ \A x : x # n.tenant => Of(log', x) = Of(log, x)
      /\ \A x : Of(log, x) \subseteq Of(log', x)
  BY DEF Stores, Of
<1>2. \A s \in log' : s.at \in Nat
  BY DEF TypeOK, Row
<1>3. n.held => \A s \in Of(log, n.tenant) : s.at < n.at
  BY DEF Stores
<1>4. CASE r \in log
  <2>1. Follows(r, Of(log, r.tenant)) /\ r \in Of(log, r.tenant)
    BY <1>4 DEF IInv, InTimeOrder, Of
  <2>2. \A s \in Of(log', r.tenant) : s.held => s \in Of(log, r.tenant) \/ r.at <= s.at
    BY <1>1, <1>2, <1>3, <2>1 DEF Of
  <2>3. QED
    BY <1>1, <2>1, <2>2 DEF Follows
<1>5. CASE r = n
  <2>1. seen[w] = Of(log, n.tenant)
    BY <1>5 DEF Stores
  <2>2. CASE n.previous = Genesis /\ seen[w] = {}
    BY <1>1, <1>2, <1>5, <2>1, <2>2 DEF Follows
  <2>3. CASE /\ n.previous \in Events
             /\ \E p \in seen[w] : p.id = n.previous /\ \A s \in seen[w] : s.at <= p.at
    <3>1. PICK p \in Of(log, n.tenant) :
            p.id = n.previous /\ \A s \in Of(log, n.tenant) : s.at <= p.at
      BY <2>1, <2>3
    <3>2. p \in Of(log', n.tenant) /\ p.at < n.at
      BY <1>1, <1>3, <1>5, <3>1
    <3>3. \A s \in Of(log', n.tenant) : s.at <= p.at \/ n.at <= s.at
      <4>1. n.at \in Nat
        BY DEF Stores, Row
      <4>2. QED
        BY <1>1, <3>1, <4>1
    <3>4. QED
      BY <1>5, <2>3, <3>1, <3>2, <3>3, GenesisAssumption DEF Follows
  <2>4. QED
    BY <2>2, <2>3 DEF Stores
<1>6. QED
  BY <1>4, <1>5 DEF Stores

LEMMA KeepsRooted ==
  ASSUME IInv, NEW w \in Writers, NEW n \in added[w], Stores(w, n), stepsBack' = stepsBack
  PROVE  Rooted'
<1>1. SUFFICES ASSUME NEW r \in log'
               PROVE  IF r.previous = Genesis
                      THEN \A s \in log' :
                             r.held /\ s.held /\ s.tenant = r.tenant /\ s.previous = Genesis => s = r
                      ELSE \E p \in log' : /\ p.tenant = r.tenant
                                           /\ p.id = r.previous
                                           /\ stepsBack = 0 => p.at < r.at
  BY DEF Rooted
<1>2. ASSUME NEW s \in log, s.tenant = n.tenant, n.held
      PROVE  n.previous # Genesis
  <2>1. s \in seen[w]
    BY <1>2 DEF Stores, Of
  <2>2. QED
    BY <2>1, GenesisAssumption DEF Stores
<1>3. CASE r \in log
  <2>1. CASE r.previous = Genesis
    BY <1>2, <1>3, <2>1 DEF IInv, Rooted, Stores
  <2>2. CASE r.previous # Genesis
    BY <1>3, <2>2 DEF IInv, Rooted, Stores
  <2>3. QED
    BY <2>1, <2>2
<1>4. CASE r = n
  <2>1. CASE n.previous = Genesis
    BY <1>2, <1>4, <2>1 DEF Stores
  <2>2. CASE n.previous # Genesis
    BY <1>4, <2>2 DEF Stores, Of
  <2>3. QED
    BY <1>4, <2>1, <2>2
<1>5. QED
  BY <1>3, <1>4 DEF Stores

\* The invariant: of the writers that hold the log only one is at work, and it
\* has read the whole log of its tenant, so the row it stores is the newest and
\* names the one before it; any other row names one that it has read.
THEOREM Invariance == Spec => []IInv
<1>1. Init => IInv
  <2>1. Init => TypeOK
    BY DEF Init, TypeOK
  <2>2. Init => OneHolds /\ Reads /\ Adds /\ Marks
    BY DEF Init, OneHolds, Reads, Adds, Fits, Marks, Open, Of
  <2>3. Init => Distinct /\ InTimeOrder /\ Rooted
    BY DEF Init, Distinct, Rows, InTimeOrder, Rooted
  <2>4. QED
    BY <2>1, <2>2, <2>3 DEF IInv
<1>2. IInv /\ [Next]_vars => IInv'
  <2>1. SUFFICES ASSUME IInv, [Next]_vars PROVE IInv'
    OBVIOUS
  <2>2. TypeOK'
    BY <2>1, Types DEF IInv
  <2>3. OneHolds' /\ Reads' /\ Adds' /\ Distinct'
    BY <2>1, KeepsOneHolds, KeepsReads, KeepsAdds, KeepsDistinct
  <2>4. (Marks /\ InTimeOrder /\ Rooted)'
    <3>1. ASSUME log' = log, stepsBack' = 0 => stepsBack = 0
          PROVE  (Marks /\ InTimeOrder /\ Rooted)'
      <4>1. \A x : Of(log', x) = Of(log, x)
        BY <3>1 DEF Of
      <4>2. QED
        BY <2>1, <3>1, <4>1 DEF IInv, Marks, InTimeOrder, Rooted
    <3>2. ASSUME NEW w \in Writers, Commit(w)
          PROVE  (Marks /\ InTimeOrder /\ Rooted)'
      <4>1. stepsBack' = stepsBack
        BY <3>2 DEF Commit
      <4>2. CASE log' = log
        BY <3>1, <4>1, <4>2
      <4>3. ASSUME NEW n \in added[w], Stores(w, n)
            PROVE  (Marks /\ InTimeOrder /\ Rooted)'
        <5>1. InTimeOrder'
          BY <2>1, <2>2, <4>1, <4>3, KeepsOrder DEF InTimeOrder
        <5>2. Rooted'
          BY <2>1, <4>1, <4>3, KeepsRooted
        <5>3. ASSUME OneProcess PROVE n.held
          <6>1. Holds(w) /\ Fits(w)
            BY <2>1, <5>3 DEF OneProcess, Holds, IInv, Adds
          <6>2. QED
            BY <4>3, <6>1 DEF Fits
        <5>4. Marks'
          BY <2>1, <4>3, <5>3 DEF IInv, Marks, Stores
        <5>5. QED
          BY <5>1, <5>2, <5>4
      <4>4. QED
        BY <2>1, <3>2, <4>2, <4>3, CommitStores
    <3>3. CASE SetBack
      <4>1. log' = log /\ stepsBack' # 0
        BY <2>1, <3>3 DEF SetBack, IInv, TypeOK
      <4>2. QED
        BY <3>1, <4>1
    <3>4. CASE \E w \in Writers :
                 \/ \E x \in Tenants, r \in Resources : ChangeFirst(w, x, r)
                 \/ \E x \in Tenants, r \in Resources \cup {NoChange} : Read(w, x, r)
                 \/ Add(w) \/ Rollback(w)
      BY <3>1, <3>4 DEF ChangeFirst, Read, Add, Rollback
    <3>5. CASE UNCHANGED vars
      BY <3>1, <3>5 DEF vars
    <3>6. QED
      BY <2>1, <3>2, <3>3, <3>4, <3>5 DEF Next
  <2>5. QED
    BY <2>2, <2>3, <2>4 DEF IInv
<1>3. QED
  BY <1>1, <1>2, PTL DEF Spec

\* Sorting a tenant's rows by time puts each held row behind the one it names,
\* unless the clock was set back.
THEOREM ExportIsChain == Spec => []InTimeOrder
<1>1. IInv => InTimeOrder
  BY DEF IInv
<1>2. QED
  BY <1>1, Invariance, PTL

\* A tenant's rows hang together, whatever forks or happens to the clock.
THEOREM AlwaysRooted == Spec => []Rooted
<1>1. IInv => Rooted
  BY DEF IInv
<1>2. QED
  BY <1>1, Invariance, PTL

LEMMA NoFork ==
  ASSUME IInv
  PROVE  HeldNeverFork
<1>1. SUFFICES ASSUME stepsBack = 0, NEW r \in log, NEW s \in log, r.held, s.held,
                      r.tenant = s.tenant, r.previous = s.previous
               PROVE  r = s
  BY DEF HeldNeverFork
<1>2. r.at \in Nat /\ s.at \in Nat
  BY DEF IInv, TypeOK, Row
<1>3. r \in Of(log, r.tenant) /\ s \in Of(log, r.tenant)
  BY <1>1 DEF Of
<1>4. Follows(r, Of(log, r.tenant)) /\ Follows(s, Of(log, r.tenant))
  BY <1>1 DEF IInv, InTimeOrder
<1>5. r.at = s.at
  <2>1. CASE r.previous = Genesis
    <3>1. r.at <= s.at
      BY <1>1, <1>3, <1>4, <2>1 DEF Follows
    <3>2. s.at <= r.at
      BY <1>1, <1>3, <1>4, <2>1 DEF Follows
    <3>3. QED
      BY <1>2, <3>1, <3>2
  <2>2. CASE r.previous # Genesis
    <3>1. PICK p \in Of(log, r.tenant) :
            /\ p.id = r.previous /\ p.at < r.at
            /\ \A q \in Of(log, r.tenant) : q.held => q.at <= p.at \/ r.at <= q.at
      BY <1>4, <2>2 DEF Follows
    <3>2. PICK q \in Of(log, r.tenant) :
            /\ q.id = r.previous /\ q.at < s.at
            /\ \A u \in Of(log, r.tenant) : u.held => u.at <= q.at \/ s.at <= u.at
      BY <1>1, <1>4, <2>2 DEF Follows
    <3>3. p = q /\ p.at \in Nat
      BY <3>1, <3>2 DEF IInv, Distinct, Rows, Of, TypeOK, Row
    <3>4. QED
      BY <1>1, <1>2, <1>3, <3>1, <3>2, <3>3
  <2>3. QED
    BY <2>1, <2>2
<1>6. QED
  BY <1>1, <1>5 DEF IInv, Distinct, Rows

\* No two held rows of a tenant name the same row, unless the clock was set
\* back: a fork takes a handler that read the log with nothing flushed, or
\* PostgreSQL.
THEOREM HeldNeverForks == Spec => []HeldNeverFork
BY Invariance, NoFork, PTL

\* With one process every row is held, and the log never forks, on either
\* backend, unless the clock was set back.
THEOREM OneProcessNeverForks ==
  ASSUME OneProcess
  PROVE  Spec => []OneChain
<1>1. IInv => OneChain
  BY NoFork DEF IInv, Marks, HeldNeverFork, OneChain
<1>2. QED
  BY <1>1, Invariance, PTL

-----------------------------------------------------------------------------
(***************************************************************************)
(* A held row implements TenantChain: when it is stored it is the end of   *)
(* its tenant's chain, and names the end that the chain had.               *)
(***************************************************************************)
\* A row that is later than the others of its tenant is the last.
LEMMA LatestIsLast ==
  ASSUME NEW rows, NEW r \in rows, r.at \in Nat,
         \A s \in rows : s.at \in Nat /\ (s # r => s.at < r.at)
  PROVE  Last(rows) = r.id
<1>1. Newest(rows) = {r}
  BY DEF Newest
<1>2. QED
  BY <1>1 DEF Last

LEMMA CommitExtends ==
  ASSUME IInv, NEW w \in Writers, NEW n \in added[w], Stores(w, n), n.held, stepsBack = 0
  PROVE  Chain!Next
<1>. DEFINE x == n.tenant
            links == {<<r.tenant, r.id, r.previous>> : r \in log}
            last == [y \in Tenants |-> Last(Of(log, y))]
<1>1. n \in Row /\ x \in Tenants /\ n.id \in Events /\ n.at \in Nat
  BY DEF Stores, Row
<1>2. \A r \in Of(log, x) : r.at \in Nat /\ r.at < n.at
  BY DEF Stores, Of, IInv, TypeOK, Row
<1>3. n.previous = Last(Of(log, x))
  <2>1. CASE Of(log, x) = {}
    BY <2>1 DEF Stores, Last
  <2>2. CASE Of(log, x) # {}
    <3>1. PICK p \in Of(log, x) : p.id = n.previous /\ \A s \in Of(log, x) : s.at <= p.at
      BY <2>2 DEF Stores
    <3>2. \A s \in Of(log, x) : s.at \in Nat /\ (s # p => s.at < p.at)
      BY <1>2, <3>1 DEF Of, IInv, Distinct, Rows
    <3>3. QED
      BY <3>1, <3>2, LatestIsLast
  <2>3. QED
    BY <2>1, <2>2
<1>4. /\ Of(log', x) = Of(log, x) \cup {n}
      /\ \A y \in Tenants : y # x => Of(log', y) = Of(log, y)
  BY DEF Stores, Of
<1>5. Last(Of(log', x)) = n.id
  BY <1>1, <1>2, <1>4, LatestIsLast
<1>6. [y \in Tenants |-> Last(Of(log', y))] = [last EXCEPT ![x] = n.id]
  BY <1>1, <1>4, <1>5
<1>7. {<<r.tenant, r.id, r.previous>> : r \in log'} = links \cup {<<x, n.id, last[x]>>}
  BY <1>1, <1>3 DEF Stores
<1>8. \A link \in links : link[2] # n.id
  <2>1. \A r \in log : r.id # n.id
    BY DEF Stores, IInv, Distinct, Rows
  <2>2. QED
    BY <2>1
<1>9. Chain!Extend(x, n.id)
  BY <1>6, <1>7, <1>8 DEF Chain!Extend
<1>10. QED
  BY <1>1, <1>9 DEF Chain!Next

\* Until the clock is set back, a held row extends its tenant's chain by one
\* event at its end that names the one before (write_audit_event).
THEOREM ChainImplemented == Spec => ImplementsChain
<1>1. Init => Chain!Init
  BY DEF Init, Chain!Init, Of, Last
<1>2. IInv /\ [Next]_vars =>
        (stepsBack' = 0 /\ (\A r \in log' \ log : r.held) => [Chain!Next]_(Chain!chainVars))
  <2>1. SUFFICES ASSUME IInv, [Next]_vars, stepsBack' = 0, \A r \in log' \ log : r.held
                 PROVE  [Chain!Next]_(Chain!chainVars)
    OBVIOUS
  <2>2. ASSUME log' = log
        PROVE  UNCHANGED Chain!chainVars
    BY <2>2 DEF Chain!chainVars, Of
  <2>3. ASSUME NEW w \in Writers, Commit(w)
        PROVE  [Chain!Next]_(Chain!chainVars)
    <3>1. stepsBack = 0
      BY <2>1, <2>3 DEF Commit
    <3>2. ASSUME NEW n \in added[w], Stores(w, n)
          PROVE  Chain!Next
      <4>1. n.held
        BY <2>1, <3>2 DEF Stores
      <4>2. QED
        BY <2>1, <3>1, <3>2, <4>1, CommitExtends
    <3>3. QED
      BY <2>1, <2>2, <2>3, <3>2, CommitStores
  <2>4. ~ SetBack
    BY <2>1 DEF SetBack, IInv, TypeOK
  <2>5. CASE \E w \in Writers :
               \/ \E x \in Tenants, r \in Resources : ChangeFirst(w, x, r)
               \/ \E x \in Tenants, r \in Resources \cup {NoChange} : Read(w, x, r)
               \/ Add(w) \/ Rollback(w)
    BY <2>2, <2>5 DEF ChangeFirst, Read, Add, Rollback
  <2>6. CASE UNCHANGED vars
    BY <2>2, <2>6 DEF vars
  <2>7. QED
    BY <2>1, <2>3, <2>4, <2>5, <2>6 DEF Next
<1>3. QED
  BY <1>1, <1>2, Invariance, PTL DEF Spec, ImplementsChain
=============================================================================
