------------------------- MODULE CacheRegister_proofs -------------------------
(***************************************************************************)
(* MarketCacheStore implements CacheRegister, for any keys, payloads,      *)
(* agents and bounds.                                                      *)
(***************************************************************************)
EXTENDS MarketCacheStore_proofs

\* What a readable pointer serves, and what an unreadable one does.
LEMMA ServedCases ==
  ASSUME TypeOK, PointerIntegrity, NEW k \in Keys
  PROVE  /\ Readable(k) =>
              /\ current[k].version \in DOMAIN versions
              /\ versions[current[k].version] \in Version
              /\ Served[k] = [kind |-> versions[current[k].version].kind,
                              payload |-> current[k].checksum,
                              fetched |-> versions[current[k].version].fetched]
              /\ Served[k].payload = current[k].checksum
              /\ Served[k] # NoEntry
         /\ ~Readable(k) => Served[k] = NoEntry
<1>1. ASSUME Readable(k)
      PROVE  /\ current[k].version \in DOMAIN versions
             /\ versions[current[k].version] \in Version
             /\ Served[k] = [kind |-> versions[current[k].version].kind,
                             payload |-> current[k].checksum,
                             fetched |-> versions[current[k].version].fetched]
             /\ Served[k].payload = current[k].checksum
             /\ Served[k] # NoEntry
  <2> DEFINE v == versions[current[k].version]
  <2>1. current[k].version \in DOMAIN versions /\ v.checksum = current[k].checksum
    BY <1>1 DEF Readable, PointerIntegrity
  <2>2. v \in Version BY <2>1 DEF TypeOK
  <2>3. [kind |-> v.kind, payload |-> v.checksum, fetched |-> v.fetched] \in Value
    BY <2>2 DEF Version, Value
  <2>4. Served[k] = [kind |-> v.kind, payload |-> v.checksum, fetched |-> v.fetched]
    BY <1>1 DEF Served
  <2> QED BY <2>1, <2>2, <2>3, <2>4, StoreAssumption DEF StoreAssumption
<1> QED BY <1>1 DEF Served

\* A key is served as before if its pointer and, as far as it is the key's own,
\* the version it names have not changed.
LEMMA SameServed ==
  ASSUME NEW k \in Keys, current'[k] = current[k],
         current[k] # NoEntry =>
           LET u == versions[current[k].version]
               v == versions'[current[k].version]
           IN  /\ v.key = u.key
               /\ u.key = k => /\ v.kind = u.kind
                               /\ v.checksum = u.checksum
                               /\ v.fetched = u.fetched
                               /\ v.intact = u.intact
                               /\ v.kindKnown = u.kindKnown
  PROVE  Served'[k] = Served[k]
BY DEF Served, Readable

\* PointTo changes what is served for the key of the write alone.
LEMMA OthersServed ==
  ASSUME TypeOK, PointerIntegrity, NEW w, NEW i, w.key \in Keys, PointTo(w, i),
         \A v \in DOMAIN versions :
           /\ versions'[v].key = versions[v].key
           /\ versions[v].key # w.key =>
                /\ versions'[v].kind = versions[v].kind
                /\ versions'[v].checksum = versions[v].checksum
                /\ versions'[v].fetched = versions[v].fetched
                /\ versions'[v].intact = versions[v].intact
                /\ versions'[v].kindKnown = versions[v].kindKnown
  PROVE  \A k \in Keys \ {w.key} : Served'[k] = Served[k]
<1> SUFFICES ASSUME NEW k \in Keys \ {w.key} PROVE Served'[k] = Served[k] OBVIOUS
<1>1. current'[k] = current[k] BY DEF PointTo, TypeOK
<1>2. current[k] # NoEntry => current[k].version \in DOMAIN versions BY DEF PointerIntegrity
<1> QED BY <1>1, <1>2, SameServed

\* A key that points to an intact version with the contents of a write serves them.
LEMMA ServedAfterPointTo ==
  ASSUME TypeOK, NEW w, NEW i, w.key \in Keys, PointTo(w, i),
         [version |-> i, checksum |-> w.payload, fetched |-> w.fetched] # NoEntry,
         versions'[i].key = w.key, versions'[i].kind = w.kind,
         versions'[i].checksum = w.payload, versions'[i].fetched = w.fetched
  PROVE  Served'[w.key] = IF versions'[i].intact /\ versions'[i].kindKnown
                          THEN Register!ValueOf(w) ELSE NoEntry
<1>1. current'[w.key] = [version |-> i, checksum |-> w.payload, fetched |-> w.fetched]
  BY DEF PointTo, TypeOK
<1> QED BY <1>1 DEF Served, Readable, Register!ValueOf

\* When an upsert ends, so does the request it stands for.
LEMMA RequestDone ==
  ASSUME NEW a \in Agents, op \in [Agents -> Upsert \cup {NoOp}],
         op' = [op EXCEPT ![a] = NoOp]
  PROVE  Requested' = [Requested EXCEPT ![a] = NoOp]
BY DEF Requested

\* An upsert in progress is a request of the register that found what the upsert did.
LEMMA RequestInProgress ==
  ASSUME TypeOK, NEW a \in Agents, op[a] # NoOp
  PROVE  /\ Requested[a] # NoOp
         /\ Requested[a].write = op[a].write
         /\ Requested[a].allow = op[a].allow
         /\ Requested[a].found =
              IF op[a].row # NoEntry /\ op[a].valid THEN op[a].row.checksum ELSE NoEntry
<1> DEFINE f == IF op[a].row # NoEntry /\ op[a].valid THEN op[a].row.checksum ELSE NoEntry
<1>1. Requested[a] = [write |-> op[a].write, allow |-> op[a].allow, found |-> f]
  BY DEF Requested
<1>2. f \in Payloads \cup {NoData, NoEntry} BY CarriedUpsert
<1>3. op[a].write \in Write /\ op[a].allow \in BOOLEAN BY CarriedUpsert DEF Upsert
<1> HIDE DEF f
<1>4. [write |-> op[a].write, allow |-> op[a].allow, found |-> f] \in Request
  BY <1>2, <1>3 DEF Request
<1>5. NoOp \notin Request BY StoreAssumption DEF StoreAssumption
<1>6. Requested[a] # NoOp BY <1>1, <1>4, <1>5
<1> QED BY <1>1, <1>6 DEF f

-----------------------------------------------------------------------------
(* Every step of the store is a step of the register, or none *)

\* An upsert that moves the pointer to an intact version with its own contents,
\* and touches no version of another key, is a Put.
LEMMA PutStep ==
  ASSUME TypeOK, PointerIntegrity, NEW a \in Agents, op[a] # NoOp, NEW i,
         [version |-> i, checksum |-> op[a].write.payload,
          fetched |-> op[a].write.fetched] # NoEntry,
         PointTo(op[a].write, i), op' = [op EXCEPT ![a] = NoOp], UNCHANGED now,
         versions'[i].key = op[a].write.key, versions'[i].kind = op[a].write.kind,
         versions'[i].checksum = op[a].write.payload,
         versions'[i].fetched = op[a].write.fetched, versions'[i].intact, versions'[i].kindKnown,
         \A v \in DOMAIN versions :
           /\ versions'[v].key = versions[v].key
           /\ versions[v].key # op[a].write.key =>
                /\ versions'[v].kind = versions[v].kind
                /\ versions'[v].checksum = versions[v].checksum
                /\ versions'[v].fetched = versions[v].fetched
                /\ versions'[v].intact = versions[v].intact
                /\ versions'[v].kindKnown = versions[v].kindKnown,
         Register!Accepts(Requested[a])
  PROVE  Register!Put(a)
<1> DEFINE w == op[a].write
<1>1. w.key \in Keys BY CarriedUpsert
<1>2. Served'[w.key] = Register!ValueOf(w) BY <1>1, ServedAfterPointTo
<1>3. \A k \in Keys \ {w.key} : Served'[k] = Served[k] BY <1>1, OthersServed
<1>4. Served' = [Served EXCEPT ![w.key] = Register!ValueOf(w)]
  BY <1>1, <1>2, <1>3 DEF Served
<1>5. Requested' = [Requested EXCEPT ![a] = NoOp] BY RequestDone DEF TypeOK
<1>6. Requested[a] # NoOp /\ Requested[a].write = w BY RequestInProgress
<1> QED BY <1>4, <1>5, <1>6 DEF Register!Put, Register!Done

\* A pointer row is not the absence of one.
LEMMA PointerRow ==
  ASSUME TypeOK, NEW a \in Agents, op[a] # NoOp, NEW i \in Nat \ {0}
  PROVE  [version |-> i, checksum |-> op[a].write.payload,
          fetched |-> op[a].write.fetched] # NoEntry
<1>1. [version |-> i, checksum |-> op[a].write.payload, fetched |-> op[a].write.fetched] \in Pointer
  BY CarriedUpsert DEF Pointer
<1> QED BY <1>1, StoreAssumption DEF StoreAssumption

\* A row just inserted carries the write, and the rows before it are unchanged
\* in all that is served.
LEMMA PutNewVersion ==
  ASSUME TypeOK, PointerIntegrity, NEW a \in Agents, op[a] # NoOp, NEW p,
         PointTo(op[a].write, Len(versions) + 1), op' = [op EXCEPT ![a] = NoOp],
         UNCHANGED now,
         versions'[Len(versions) + 1] = NewVersion(op[a].write, p),
         \A v \in DOMAIN versions :
           /\ versions'[v].key = versions[v].key
           /\ versions'[v].kind = versions[v].kind
           /\ versions'[v].checksum = versions[v].checksum
           /\ versions'[v].fetched = versions[v].fetched
           /\ versions'[v].intact = versions[v].intact
           /\ versions'[v].kindKnown = versions[v].kindKnown,
         Register!Accepts(Requested[a])
  PROVE  Register!Put(a)
<1> DEFINE w == op[a].write
           i == Len(versions) + 1
<1>1. /\ versions'[i].key = w.key
      /\ versions'[i].kind = w.kind
      /\ versions'[i].checksum = w.payload
      /\ versions'[i].fetched = w.fetched
      /\ versions'[i].intact
      /\ versions'[i].kindKnown
  BY DEF NewVersion
<1>2. i \in Nat \ {0} BY DEF TypeOK
<1>3. [version |-> i, checksum |-> w.payload, fetched |-> w.fetched] # NoEntry
  BY <1>2, PointerRow
<1> HIDE DEF i
<1>4. PointTo(w, i) BY DEF i
<1> QED BY <1>1, <1>3, <1>4, PutStep

\* A commit of upsert is the end of a request.
LEMMA CommitStep ==
  ASSUME IInv, NEW a \in Agents, CommitUpsert(a)
  PROVE  Register!Put(a) \/ Register!Keep(a) \/ Register!RenewDamaged(a)
<1> DEFINE o == op[a]
           w == op[a].write
<1>1. o # NoOp /\ op' = [op EXCEPT ![a] = NoOp] /\ UNCHANGED now BY DEF CommitUpsert
<1>2. /\ TypeOK /\ PointerIntegrity /\ OpSound BY DEF IInv
<1>3. /\ Requested[a] # NoOp
      /\ Requested[a].write = w
      /\ Requested[a].allow = o.allow
      /\ Requested[a].found = IF o.row # NoEntry /\ o.valid THEN o.row.checksum ELSE NoEntry
  BY <1>1, <1>2, RequestInProgress
<1>4. Requested' = [Requested EXCEPT ![a] = NoOp] BY <1>1, <1>2, RequestDone DEF TypeOK
<1>5. CASE InsertFirst(o)
  <2>1. Register!Accepts(Requested[a]) BY <1>3, <1>5, StatusNeedsRow
    DEF InsertFirst, Register!Accepts
  <2>2. /\ versions'[Len(versions) + 1] = NewVersion(w, 0)
        /\ \A v \in DOMAIN versions : versions'[v] = versions[v]
    BY <1>1, <1>2, <1>5, AppendShape DEF InsertFirst
  <2>3. PointTo(w, Len(versions) + 1) BY <1>5 DEF InsertFirst
  <2> QED BY <1>1, <1>2, <2>1, <2>2, <2>3, PutNewVersion
<1>6. CASE Repair(o)
  <2>1. Register!Accepts(Requested[a]) BY <1>3, <1>6, StatusNeedsRow
    DEF Repair, Register!Accepts
  <2>2. o.row.version \in Nat BY <1>1, <1>2, <1>6, StatusNeedsRow, CarriedUpsert DEF Repair
  <2>3. /\ versions'[Len(versions) + 1] = NewVersion(w, o.row.version)
        /\ \A v \in DOMAIN versions : versions'[v] = versions[v]
    BY <1>1, <1>2, <1>6, <2>2, AppendShape DEF Repair
  <2>4. PointTo(w, Len(versions) + 1) BY <1>6 DEF Repair
  <2> QED BY <1>1, <1>2, <2>1, <2>3, <2>4, PutNewVersion
<1>7. CASE Supersede(o)
  <2>1. o.row # NoEntry /\ o.valid /\ o.row.checksum # w.payload /\ o.allow
    BY <1>7 DEF Supersede, UpsertStatus
  <2>2. Register!Accepts(Requested[a]) BY <1>3, <2>1 DEF Register!Accepts
  <2>3. \A v \in DOMAIN versions :
          /\ versions'[v].key = versions[v].key
          /\ versions'[v].kind = versions[v].kind
          /\ versions'[v].checksum = versions[v].checksum
          /\ versions'[v].fetched = versions[v].fetched
          /\ versions'[v].intact = versions[v].intact
          /\ versions'[v].kindKnown = versions[v].kindKnown
    BY <1>1, <1>2, <1>7, SupersedeShape DEF SameContent
  <2>4. versions'[Len(versions) + 1] = NewVersion(w, o.row.version)
    BY <1>1, <1>2, <1>7, SupersedeShape
  <2>5. PointTo(w, Len(versions) + 1) BY <1>7 DEF Supersede
  <2> QED BY <1>1, <1>2, <2>2, <2>3, <2>4, <2>5, PutNewVersion
<1>8. CASE Idempotent(o) \/ RejectConflict(o)
  <2>1. /\ o.row # NoEntry /\ o.valid
        /\ \/ o.row.checksum = w.payload /\ w.kind # "PROVISIONAL_NO_DATA"
           \/ o.row.checksum # w.payload /\ ~o.allow
    BY <1>8 DEF Idempotent, RejectConflict, UpsertStatus
  <2>2. w.kind \in {"ROWS", "PROVISIONAL_NO_DATA"} BY <1>1, <1>2, CarriedUpsert DEF Write
  <2>3. o.row.checksum # NoEntry
    BY <1>1, <1>2, <2>1, CarriedUpsert, StoreAssumption DEF StoreAssumption
  <2>4. ~Register!Accepts(Requested[a]) BY <1>3, <2>1, <2>2, <2>3 DEF Register!Accepts
  <2>5. Served' = Served BY <1>8 DEF Idempotent, RejectConflict, Served, Readable
  <2> QED BY <1>1, <1>3, <1>4, <2>4, <2>5 DEF Register!Keep, Register!Done
<1>9. CASE Refresh(o)
  <2> DEFINE i == o.row.version
  <2>1. /\ i \in DOMAIN versions
        /\ versions[i].key = w.key
        /\ versions[i].checksum = NoData
        /\ w.payload = NoData
        /\ \A j \in DOMAIN versions \ {i} : versions'[j] = versions[j]
        /\ versions'[i].fetched = w.fetched
        /\ SameContent(versions'[i], versions[i])
        /\ versions'[i].intact = versions[i].intact
        /\ versions'[i].kindKnown = versions[i].kindKnown
    BY <1>1, <1>2, <1>9, RefreshShape
  <2>2. /\ o.row # NoEntry /\ o.valid /\ o.row.checksum = w.payload
        /\ w.kind = "PROVISIONAL_NO_DATA"
    BY <1>9, StatusNeedsRow DEF Refresh
  <2>3. versions[i] \in Version /\ i \in Nat \ {0}
    BY <1>1, <1>2, <2>1, <2>2, CarriedUpsert DEF TypeOK
  <2>4. versions[i].kind = w.kind
    BY <2>1, <2>2, <2>3, StoreAssumption DEF Version, StoreAssumption
  <2>5. \A v \in DOMAIN versions :
          /\ versions'[v].key = versions[v].key
          /\ versions[v].key # w.key =>
               /\ versions'[v].kind = versions[v].kind
               /\ versions'[v].checksum = versions[v].checksum
               /\ versions'[v].fetched = versions[v].fetched
               /\ versions'[v].intact = versions[v].intact
               /\ versions'[v].kindKnown = versions[v].kindKnown
    BY <2>1 DEF SameContent
  <2>6. /\ versions'[i].key = w.key
        /\ versions'[i].kind = w.kind
        /\ versions'[i].checksum = w.payload
        /\ versions'[i].fetched = w.fetched
    BY <2>1, <2>4 DEF SameContent
  <2>7. PointTo(w, i) BY <1>9 DEF Refresh
  <2>8. [version |-> i, checksum |-> w.payload, fetched |-> w.fetched] # NoEntry
    BY <1>1, <1>2, <2>3, PointerRow
  <2>9. CASE versions'[i].intact /\ versions'[i].kindKnown
    <3>1. Register!Accepts(Requested[a]) BY <1>3, <2>2 DEF Register!Accepts
    <3> QED BY <1>1, <1>2, <2>5, <2>6, <2>7, <2>8, <2>9, <3>1, PutStep
  <2>10. CASE ~(versions'[i].intact /\ versions'[i].kindKnown)
    <3>1. w.key \in Keys BY <1>1, <1>2, CarriedUpsert
    <3>2. Served'[w.key] = NoEntry
      BY <1>2, <2>6, <2>7, <2>8, <2>10, <3>1, ServedAfterPointTo
    <3>3. \A k \in Keys \ {w.key} : Served'[k] = Served[k]
      BY <1>2, <2>5, <2>7, <3>1, OthersServed
    <3>4. Served' = [Served EXCEPT ![w.key] = NoEntry] BY <3>1, <3>2, <3>3 DEF Served
    <3> QED BY <1>1, <1>3, <1>4, <2>2, <3>4 DEF Register!RenewDamaged, Register!Done
  <2> QED BY <2>9, <2>10
<1> QED BY <1>5, <1>6, <1>7, <1>8, <1>9 DEF CommitUpsert

\* Reading the rows an upsert starts from is the beginning of a request.
LEMMA BeginStep ==
  ASSUME IInv, NEW a \in Agents, NEW w, NEW allow \in BOOLEAN, w.key \in Keys,
         ValidCacheWrite(w) => w \in Write, BeginUpsert(a, w, allow)
  PROVE  Register!Begin(a, w, allow) \/ Register!BeginUnserved(a, w, allow)
<1> DEFINE k == w.key
           o == [write |-> w, allow |-> allow, row |-> current[k],
                 valid |-> CurrentVersionIsValid(k)]
           f == IF current[k] # NoEntry /\ CurrentVersionIsValid(k)
                THEN current[k].checksum ELSE NoEntry
<1>1. TypeOK /\ PointerIntegrity BY DEF IInv
<1>2. Readable(k) => (current[k] # NoEntry /\ CurrentVersionIsValid(k))
  BY <1>1 DEF Readable, CurrentVersionIsValid, PointerIntegrity
<1>3. f = Register!Found(w) \/ (Served[k] = NoEntry /\ f \in Payloads \cup {NoData})
  <2>1. CASE Readable(k)
    <3>1. Served[k] # NoEntry /\ Served[k].payload = current[k].checksum
      BY <1>1, <2>1, ServedCases
    <3> QED BY <1>2, <2>1, <3>1 DEF Register!Found
  <2>2. CASE ~Readable(k)
    <3>1. Served[k] = NoEntry BY <1>1, <2>2, ServedCases
    <3>2. current[k] # NoEntry => current[k] \in Pointer BY <1>1 DEF TypeOK
    <3>3. f = NoEntry \/ f \in Payloads \cup {NoData} BY <3>2 DEF Pointer
    <3> QED BY <3>1, <3>3 DEF Register!Found
  <2> QED BY <2>1, <2>2
<1>4. Requested[a] = NoOp BY DEF BeginUpsert, Requested
<1>5. op' = [op EXCEPT ![a] = o] BY DEF BeginUpsert
<1>6. o # NoOp
  <2>1. current[k] \in Pointer \cup {NoEntry} BY <1>1 DEF TypeOK
  <2>2. CurrentVersionIsValid(k) \in BOOLEAN BY DEF CurrentVersionIsValid
  <2>3. w \in Write BY DEF BeginUpsert
  <2>4. o \in Upsert BY <2>1, <2>2, <2>3 DEF Upsert
  <2> QED BY <2>4, StoreAssumption DEF StoreAssumption
<1>7. Requested' = [Requested EXCEPT ![a] = [write |-> w, allow |-> allow, found |-> f]]
  BY <1>1, <1>5, <1>6 DEF Requested, TypeOK
<1>8. Served' = Served /\ UNCHANGED now BY DEF BeginUpsert, Served, Readable
<1>9. w.kind # "ROWS" => w.key \in NoDataKeys BY DEF BeginUpsert, ValidCacheWrite
<1>10. Register!BeginFrom(a, w, allow, f) BY <1>4, <1>7, <1>8, <1>9 DEF Register!BeginFrom
<1> HIDE DEF f
<1> QED BY <1>3, <1>10 DEF Register!Begin, Register!BeginUnserved

\* A damaged row takes at most its own key out of service.
LEMMA DamageStep ==
  ASSUME IInv, NEW i \in DOMAIN versions, Damage(i)
  PROVE  Register!Lose(versions[i].key) \/ UNCHANGED <<Served, Requested, now>>
<1> DEFINE k == versions[i].key
<1>1. TypeOK /\ PointerIntegrity BY DEF IInv
<1>2. /\ \A j \in DOMAIN versions \ {i} : versions'[j] = versions[j]
      /\ ~versions'[i].intact \/ ~versions'[i].kindKnown
      /\ SameContent(versions'[i], versions[i])
  BY <1>1, DamageShape DEF OnlyDamaged
<1>3. UNCHANGED current /\ Requested' = Requested /\ UNCHANGED now BY DEF Damage, Requested
<1>4. \A j \in Keys : (current[j] # NoEntry => current[j].version \in DOMAIN versions)
  BY <1>1 DEF PointerIntegrity
<1>5. \A j \in Keys \ {k} : Served'[j] = Served[j]
  BY <1>2, <1>3, <1>4, SameServed DEF SameContent
<1>6. k \in Keys
  <2>1. versions[i] \in Version BY <1>1 DEF TypeOK
  <2> QED BY <2>1, StoreAssumption DEF Version, StoreAssumption
<1>7. CASE current[k] # NoEntry /\ current[k].version = i
  <2>1. Served'[k] = NoEntry BY <1>2, <1>3, <1>6, <1>7 DEF Served, Readable
  <2>2. Served' = [Served EXCEPT ![k] = NoEntry] BY <1>5, <1>6, <2>1 DEF Served
  <2> QED BY <1>3, <2>2 DEF Register!Lose
<1>8. CASE ~(current[k] # NoEntry /\ current[k].version = i)
  <2>1. Served'[k] = Served[k] BY <1>2, <1>3, <1>4, <1>6, <1>8, SameServed
  <2>2. Served' = Served BY <1>5, <1>6, <2>1 DEF Served
  <2> QED BY <1>3, <2>2
<1> QED BY <1>7, <1>8

\* A misdirected pointer takes its key out of service.
LEMMA MisdirectStep ==
  ASSUME IInv, NEW k \in Keys, NEW i \in DOMAIN versions, Misdirect(k, i)
  PROVE  Register!Lose(k)
<1>1. TypeOK BY DEF IInv
<1>2. current[k] \in Pointer BY <1>1 DEF Misdirect, TypeOK
<1>3. current' = [current EXCEPT ![k].version = i] /\ versions[i].key # k
      /\ UNCHANGED <<versions, op, now>>
  BY DEF Misdirect
<1>4. current'[k].version = i BY <1>1, <1>2, <1>3 DEF TypeOK, Pointer
<1>5. \A j \in Keys \ {k} : current'[j] = current[j] BY <1>1, <1>3 DEF TypeOK
<1>6. Served'[k] = NoEntry BY <1>3, <1>4 DEF Served, Readable
<1>7. \A j \in Keys \ {k} : Served'[j] = Served[j] BY <1>3, <1>5 DEF Served, Readable
<1>8. Served' = [Served EXCEPT ![k] = NoEntry] BY <1>6, <1>7 DEF Served
<1> QED BY <1>3, <1>8 DEF Register!Lose, Requested

\* An empty database is an empty register.
LEMMA InitRegister == Init => Register!Init
BY DEF Init, Register!Init, Served, Requested, Readable

\* Every step of the store maps to a step of the register or to a stutter.
LEMMA StepRegister ==
  ASSUME IInv, [Next]_storeVars
  PROVE  [Register!Next]_(Register!registerVars)
<1>1. TypeOK /\ now \in Nat BY DEF IInv, TypeOK
<1>2. ASSUME NEW a \in Agents, NEW allow \in BOOLEAN, NEW k \in Keys, NEW p \in Payloads,
             BeginUpsert(a, [key |-> k, kind |-> "ROWS", payload |-> p, fetched |-> now], allow)
      PROVE  Register!Next
  <2> DEFINE w == [key |-> k, kind |-> "ROWS", payload |-> p, fetched |-> now]
  <2>1. w \in Write /\ w.key \in Keys BY <1>1 DEF Write
  <2>2. w \in Register!FetchedNow BY DEF Register!FetchedNow
  <2>3. BeginUpsert(a, w, allow) BY <1>2
  <2> HIDE DEF w
  <2>4. Register!Begin(a, w, allow) \/ Register!BeginUnserved(a, w, allow) BY <2>1, <2>3, BeginStep
  <2> QED BY <2>2, <2>4 DEF Register!Next
<1>3. ASSUME NEW a \in Agents, NEW allow \in BOOLEAN, NEW k \in Keys,
             BeginUpsert(a, [key |-> k, kind |-> "PROVISIONAL_NO_DATA", payload |-> NoData,
                             fetched |-> now], allow)
      PROVE  Register!Next
  <2> DEFINE w == [key |-> k, kind |-> "PROVISIONAL_NO_DATA", payload |-> NoData, fetched |-> now]
  <2>1. w.key \in Keys /\ (ValidCacheWrite(w) => w \in Write)
    BY <1>1 DEF Write, ValidCacheWrite
  <2>2. w \in Register!FetchedNow BY DEF Register!FetchedNow
  <2>3. BeginUpsert(a, w, allow) BY <1>3
  <2> HIDE DEF w
  <2>4. Register!Begin(a, w, allow) \/ Register!BeginUnserved(a, w, allow) BY <2>1, <2>3, BeginStep
  <2> QED BY <2>2, <2>4 DEF Register!Next
<1>4. ASSUME NEW a \in Agents, CommitUpsert(a) PROVE Register!Next
  BY <1>4, CommitStep DEF Register!Next
<1>5. ASSUME NEW a \in Agents, AbortUpsert(a) PROVE Register!Next
  <2>1. op[a] # NoOp /\ op' = [op EXCEPT ![a] = NoOp] /\ UNCHANGED <<versions, current, now>>
    BY <1>5 DEF AbortUpsert
  <2>2. Requested' = [Requested EXCEPT ![a] = NoOp] BY <1>1, <2>1, RequestDone DEF TypeOK
  <2>3. Requested[a] # NoOp BY <1>1, <2>1, RequestInProgress
  <2>4. Served' = Served BY <2>1 DEF Served, Readable
  <2>5. Register!Fail(a) BY <2>1, <2>2, <2>3, <2>4 DEF Register!Fail, Register!Done
  <2> QED BY <2>5 DEF Register!Next
<1>6. ASSUME NEW i \in DOMAIN versions, Damage(i) PROVE [Register!Next]_(Register!registerVars)
  <2>1. versions[i] \in Version BY <1>1 DEF TypeOK
  <2>2. versions[i].key \in Keys BY <2>1, StoreAssumption DEF Version, StoreAssumption
  <2> QED BY <1>6, <2>2, DamageStep DEF Register!Next, Register!registerVars
<1>7. ASSUME NEW k \in Keys, NEW i \in DOMAIN versions, Misdirect(k, i) PROVE Register!Next
  BY <1>7, MisdirectStep DEF Register!Next
<1>8. CASE Tick
  BY <1>8 DEF Tick, Served, Readable, Requested, Register!Pass, Register!Next
<1>9. CASE UNCHANGED storeVars
  BY <1>9 DEF storeVars, Served, Readable, Requested, Register!registerVars
<1> QED BY <1>2, <1>3, <1>4, <1>5, <1>6, <1>7, <1>8, <1>9 DEF Next

\* Whatever the number of connections and however their upserts overlap, the
\* tables of market_cache.py behave as one register per key.
THEOREM StoreImplementsRegister == Spec => ImplementsRegister
<1>1. IInv /\ [Next]_storeVars => [Register!Next]_(Register!registerVars) BY StepRegister
<1> QED BY <1>1, InitRegister, Invariant, PTL DEF Spec, ImplementsRegister, Register!Spec
=============================================================================
