----------------------- MODULE MarketCacheStore_proofs -----------------------
(***************************************************************************)
(* Proofs about MarketCacheStore, for any keys, payloads, agents and       *)
(* bounds.                                                                 *)
(*                                                                         *)
(* An upsert acts on rows it read before its transaction, so no invariant  *)
(* of the tables is inductive alone: OpSound says what stays true of the   *)
(* rows an agent has read, whatever the other agents commit meanwhile.     *)
(***************************************************************************)
EXTENDS MarketCacheStore, SequenceTheorems, TLAPS

\* The version an agent has read is still there.  If it was valid, it still has
\* the key and the checksum it was read with; if it was not, it never will be.
OpSound ==
  \A a \in Agents : (op[a] # NoOp /\ op[a].row # NoEntry) =>
    /\ op[a].row.version \in DOMAIN versions
    /\ LET v == versions[op[a].row.version]
       IN  IF op[a].valid
           THEN v.key = op[a].write.key /\ v.checksum = op[a].row.checksum
           ELSE ~v.intact \/ v.key # op[a].write.key

\* Conflict rows are about stored versions.
ConflictsSound == \A c \in conflicts : c.previous \in DOMAIN versions

\* The version a row supersedes is a version.
SupersedesStored ==
  \A v \in DOMAIN versions :
    versions[v].supersedes # 0 => versions[v].supersedes \in DOMAIN versions

IInv ==
  /\ TypeOK
  /\ PointerIntegrity
  /\ OpSound
  /\ ConflictsSound
  /\ SupersededIffRecorded
  /\ SupersedesStored
  /\ CorrectionsAreExplained

\* What a step may do to the versions that exist: the body of PayloadsImmutable,
\* and no damaged version is ever mended.
VersionsKept ==
  \A v \in DOMAIN versions :
    /\ v \in DOMAIN versions'
    /\ versions'[v].key = versions[v].key
    /\ versions'[v].checksum = versions[v].checksum
    /\ versions'[v].supersedes = versions[v].supersedes
    /\ versions[v].superseded => versions'[v].superseded
    /\ versions'[v].intact => versions[v].intact
    /\ versions'[v].kindKnown => versions[v].kindKnown
    /\ versions[v].kind = "ROWS" => versions'[v].fetched = versions[v].fetched

-----------------------------------------------------------------------------
(* Rows *)

SameContent(v, u) ==
  v.key = u.key /\ v.kind = u.kind /\ v.checksum = u.checksum /\ v.supersedes = u.supersedes

\* A row marked superseded.
LEMMA MarkedVersion ==
  ASSUME NEW v \in Version
  PROVE  /\ [v EXCEPT !.superseded = TRUE] \in Version
         /\ [v EXCEPT !.superseded = TRUE].superseded
         /\ SameContent([v EXCEPT !.superseded = TRUE], v)
         /\ [v EXCEPT !.superseded = TRUE].intact = v.intact
         /\ [v EXCEPT !.superseded = TRUE].kindKnown = v.kindKnown
         /\ [v EXCEPT !.superseded = TRUE].fetched = v.fetched
BY DEF Version, SameContent

\* Damage leaves the rest of a row alone and takes the row from the reader.
OnlyDamaged(u, v) ==
  /\ SameContent(u, v)
  /\ u.superseded = v.superseded
  /\ u.fetched = v.fetched
  /\ u.intact => v.intact
  /\ u.kindKnown => v.kindKnown
  /\ ~u.intact \/ ~u.kindKnown

\* A row that stops matching its checksum, and one whose kind is no longer known.
LEMMA DamagedVersion ==
  ASSUME NEW v \in Version
  PROVE  /\ [v EXCEPT !.intact = FALSE] \in Version
         /\ OnlyDamaged([v EXCEPT !.intact = FALSE], v)
         /\ [v EXCEPT !.kindKnown = FALSE] \in Version
         /\ OnlyDamaged([v EXCEPT !.kindKnown = FALSE], v)
BY DEF Version, SameContent, OnlyDamaged

\* Only a no-data marker carries the no-data checksum.
LEMMA RefreshedVersion ==
  ASSUME NEW v \in Version, v.checksum = NoData, NEW t \in Nat
  PROVE  /\ v.kind # "ROWS"
         /\ [v EXCEPT !.fetched = t] \in Version
         /\ [v EXCEPT !.fetched = t].fetched = t
         /\ SameContent([v EXCEPT !.fetched = t], v)
         /\ [v EXCEPT !.fetched = t].intact = v.intact
         /\ [v EXCEPT !.fetched = t].kindKnown = v.kindKnown
         /\ [v EXCEPT !.fetched = t].superseded = v.superseded
BY StoreAssumption DEF Version, StoreAssumption, SameContent

\* A row as _insert_version writes it.
LEMMA NewVersionType ==
  ASSUME NEW w \in Write, NEW p \in Nat
  PROVE  NewVersion(w, p) \in Version
BY DEF Write, Version, NewVersion

\* What _insert_version stores of the write, column by column.
LEMMA NewVersionFields ==
  ASSUME NEW w, NEW p
  PROVE  /\ NewVersion(w, p).key = w.key
         /\ NewVersion(w, p).checksum = w.payload
         /\ NewVersion(w, p).fetched = w.fetched
         /\ NewVersion(w, p).supersedes = p
         /\ NewVersion(w, p).intact
         /\ NewVersion(w, p).kindKnown
         /\ ~NewVersion(w, p).superseded
BY DEF NewVersion

-----------------------------------------------------------------------------
(* Upserts in progress *)

\* What an agent carries between its two steps.
LEMMA CarriedUpsert ==
  ASSUME TypeOK, NEW a \in Agents, op[a] # NoOp
  PROVE  /\ op[a] \in Upsert
         /\ op[a].write \in Write
         /\ op[a].write.key \in Keys
         /\ op[a].write.fetched \in Nat
         /\ op[a].write.payload \in Payloads \cup {NoData}
         /\ op[a].row # NoEntry => /\ op[a].row \in Pointer
                                   /\ op[a].row.version \in Nat \ {0}
                                   /\ op[a].row.checksum \in Payloads \cup {NoData}
<1>1. op[a] \in Upsert BY DEF TypeOK
<1>2. op[a].write \in Write BY <1>1 DEF Upsert
<1>3. op[a].row # NoEntry => op[a].row \in Pointer BY <1>1 DEF Upsert
<1> QED BY <1>1, <1>2, <1>3, StoreAssumption DEF Write, Pointer, StoreAssumption

\* Every status but "inserted" is decided on a row, and all but "repaired" on a
\* valid one.
LEMMA StatusNeedsRow ==
  ASSUME NEW o
  PROVE  /\ UpsertStatus(o) = "inserted" => o.row = NoEntry
         /\ UpsertStatus(o) # "inserted" => o.row # NoEntry
         /\ UpsertStatus(o) = "repaired" => ~o.valid
         /\ UpsertStatus(o) \in {"refreshed", "superseded", "conflict_rejected"} => o.valid
         /\ UpsertStatus(o) = "refreshed" =>
              /\ o.row.checksum = o.write.payload
              /\ o.write.kind = "PROVISIONAL_NO_DATA"
BY DEF UpsertStatus

\* A refresh rewrites the fetch time of a no-data marker of its own key.
LEMMA RefreshesMarker ==
  ASSUME TypeOK, OpSound, NEW a \in Agents, op[a] # NoOp, Refresh(op[a])
  PROVE  /\ op[a].row.version \in DOMAIN versions
         /\ versions[op[a].row.version] \in Version
         /\ versions[op[a].row.version].key = op[a].write.key
         /\ versions[op[a].row.version].checksum = NoData
         /\ op[a].write.payload = NoData
<1>1. /\ op[a].row # NoEntry
      /\ op[a].valid
      /\ op[a].row.checksum = op[a].write.payload
      /\ op[a].write.kind = "PROVISIONAL_NO_DATA"
  BY StatusNeedsRow DEF Refresh
<1>2. op[a].write.payload = NoData BY <1>1, CarriedUpsert DEF Write
<1>3. /\ op[a].row.version \in DOMAIN versions
      /\ versions[op[a].row.version].key = op[a].write.key
      /\ versions[op[a].row.version].checksum = op[a].row.checksum
  BY <1>1 DEF OpSound
<1>4. versions[op[a].row.version] \in Version BY <1>3 DEF TypeOK
<1> QED BY <1>1, <1>2, <1>3, <1>4

-----------------------------------------------------------------------------
(* The shape of versions after a step *)

\* Appending a version.
LEMMA Appended ==
  ASSUME NEW s \in Seq(Version), NEW v \in Version
  PROVE  /\ Append(s, v) \in Seq(Version)
         /\ DOMAIN Append(s, v) = DOMAIN s \cup {Len(s) + 1}
         /\ \A i \in DOMAIN s : Append(s, v)[i] = s[i]
         /\ Append(s, v)[Len(s) + 1] = v
         /\ Len(s) + 1 \notin DOMAIN s
         /\ Len(s) + 1 \in Nat \ {0}
         /\ DOMAIN s \subseteq Nat \ {0}
OBVIOUS

\* Replacing one.
LEMMA Replaced ==
  ASSUME NEW s \in Seq(Version), NEW i \in DOMAIN s, NEW v \in Version
  PROVE  /\ [s EXCEPT ![i] = v] \in Seq(Version)
         /\ DOMAIN [s EXCEPT ![i] = v] = DOMAIN s
         /\ Len([s EXCEPT ![i] = v]) = Len(s)
         /\ \A j \in DOMAIN s : [s EXCEPT ![i] = v][j] = IF j = i THEN v ELSE s[j]
BY ExceptSeq

\* The pointer row that PointTo writes.
LEMMA PointToType ==
  ASSUME TypeOK, NEW w \in Write, NEW v \in Nat \ {0}, PointTo(w, v)
  PROVE  current' \in [Keys -> Pointer \cup {NoEntry}]
<1>1. [version |-> v, checksum |-> w.payload, fetched |-> w.fetched] \in Pointer
  BY DEF Write, Pointer
<1> QED BY <1>1 DEF TypeOK, PointTo

\* What UpsertStatus "superseded" does to versions.
LEMMA SupersedeShape ==
  ASSUME TypeOK, OpSound, NEW a \in Agents, op[a] # NoOp, Supersede(op[a])
  PROVE  LET old == op[a].row.version
             new == NewVersion(op[a].write, old)
         IN  /\ op[a].row # NoEntry
             /\ op[a].valid
             /\ old \in DOMAIN versions
             /\ old < Len(versions) + 1
             /\ versions[old].key = op[a].write.key
             /\ versions[old].checksum = op[a].row.checksum
             /\ new \in Version
             /\ versions' \in Seq(Version)
             /\ DOMAIN versions' = DOMAIN versions \cup {Len(versions) + 1}
             /\ Len(versions) + 1 \notin DOMAIN versions
             /\ \A i \in DOMAIN versions \ {old} : versions'[i] = versions[i]
             /\ versions'[old].superseded
             /\ SameContent(versions'[old], versions[old])
             /\ versions'[old].intact = versions[old].intact
             /\ versions'[old].kindKnown = versions[old].kindKnown
             /\ versions'[old].fetched = versions[old].fetched
             /\ versions'[Len(versions) + 1] = new
<1> DEFINE old == op[a].row.version
           new == NewVersion(op[a].write, old)
           marked == [versions EXCEPT ![old] = [versions[old] EXCEPT !.superseded = TRUE]]
<1>1. op[a].row # NoEntry /\ op[a].valid BY StatusNeedsRow DEF Supersede
<1>2. /\ old \in DOMAIN versions
      /\ versions[old].key = op[a].write.key
      /\ versions[old].checksum = op[a].row.checksum
  BY <1>1 DEF OpSound
<1>3. versions \in Seq(Version) /\ versions[old] \in Version BY <1>2 DEF TypeOK
<1>4. new \in Version BY <1>1, CarriedUpsert, NewVersionType
<1>5. /\ marked \in Seq(Version)
      /\ DOMAIN marked = DOMAIN versions
      /\ Len(marked) = Len(versions)
      /\ \A j \in DOMAIN versions :
           marked[j] = IF j = old THEN [versions[old] EXCEPT !.superseded = TRUE] ELSE versions[j]
  BY <1>2, <1>3, MarkedVersion, Replaced
<1>6. versions' = Append(marked, new) BY DEF Supersede
<1>7. old < Len(versions) + 1 BY <1>2, <1>3
<1>9. /\ marked[old].superseded
      /\ SameContent(marked[old], versions[old])
      /\ marked[old].intact = versions[old].intact
      /\ marked[old].kindKnown = versions[old].kindKnown
      /\ marked[old].fetched = versions[old].fetched
  BY <1>2, <1>3, <1>5, MarkedVersion
<1> HIDE DEF new, marked
<1>8. /\ Append(marked, new) \in Seq(Version)
      /\ DOMAIN Append(marked, new) = DOMAIN marked \cup {Len(marked) + 1}
      /\ \A i \in DOMAIN marked : Append(marked, new)[i] = marked[i]
      /\ Append(marked, new)[Len(marked) + 1] = new
      /\ Len(marked) + 1 \notin DOMAIN marked
  BY <1>4, <1>5, Appended
<1> QED BY <1>1, <1>2, <1>3, <1>4, <1>5, <1>6, <1>7, <1>8, <1>9 DEF new

\* What appending the version of a first write or of a repair does.
LEMMA AppendShape ==
  ASSUME TypeOK, NEW a \in Agents, op[a] # NoOp,
         NEW p \in Nat, versions' = Append(versions, NewVersion(op[a].write, p))
  PROVE  /\ NewVersion(op[a].write, p) \in Version
         /\ versions' \in Seq(Version)
         /\ DOMAIN versions' = DOMAIN versions \cup {Len(versions) + 1}
         /\ Len(versions) + 1 \notin DOMAIN versions
         /\ \A i \in DOMAIN versions : versions'[i] = versions[i]
         /\ versions'[Len(versions) + 1] = NewVersion(op[a].write, p)
<1>1. versions \in Seq(Version) BY DEF TypeOK
<1>2. NewVersion(op[a].write, p) \in Version BY CarriedUpsert, NewVersionType
<1> HIDE DEF NewVersion
<1> QED BY <1>1, <1>2, Appended

\* What a refresh does.
LEMMA RefreshShape ==
  ASSUME TypeOK, OpSound, NEW a \in Agents, op[a] # NoOp, Refresh(op[a])
  PROVE  LET i == op[a].row.version
         IN  /\ i \in DOMAIN versions
             /\ versions[i].key = op[a].write.key
             /\ versions[i].checksum = NoData
             /\ versions[i].kind # "ROWS"
             /\ op[a].write.payload = NoData
             /\ versions' \in Seq(Version)
             /\ DOMAIN versions' = DOMAIN versions
             /\ \A j \in DOMAIN versions \ {i} : versions'[j] = versions[j]
             /\ versions'[i].fetched = op[a].write.fetched
             /\ SameContent(versions'[i], versions[i])
             /\ versions'[i].intact = versions[i].intact
             /\ versions'[i].kindKnown = versions[i].kindKnown
             /\ versions'[i].superseded = versions[i].superseded
<1> DEFINE i == op[a].row.version
           fresh == [versions[i] EXCEPT !.fetched = op[a].write.fetched]
<1>1. /\ i \in DOMAIN versions
      /\ versions[i] \in Version
      /\ versions[i].key = op[a].write.key
      /\ versions[i].checksum = NoData
      /\ op[a].write.payload = NoData
  BY RefreshesMarker
<1>2. op[a].write.fetched \in Nat BY CarriedUpsert
<1>3. /\ versions[i].kind # "ROWS"
      /\ fresh \in Version
      /\ fresh.fetched = op[a].write.fetched
      /\ SameContent(fresh, versions[i])
      /\ fresh.intact = versions[i].intact
      /\ fresh.kindKnown = versions[i].kindKnown
      /\ fresh.superseded = versions[i].superseded
  BY <1>1, <1>2, RefreshedVersion
<1>4. versions' = [versions EXCEPT ![i] = fresh] BY DEF Refresh
<1>5. versions \in Seq(Version) BY DEF TypeOK
<1> HIDE DEF fresh
<1>6. /\ [versions EXCEPT ![i] = fresh] \in Seq(Version)
      /\ DOMAIN [versions EXCEPT ![i] = fresh] = DOMAIN versions
      /\ \A j \in DOMAIN versions :
           [versions EXCEPT ![i] = fresh][j] = IF j = i THEN fresh ELSE versions[j]
  BY <1>1, <1>3, <1>5, Replaced
<1> QED BY <1>1, <1>3, <1>4, <1>6

\* What damage does.
LEMMA DamageShape ==
  ASSUME TypeOK, NEW i \in DOMAIN versions, Damage(i)
  PROVE  /\ versions' \in Seq(Version)
         /\ DOMAIN versions' = DOMAIN versions
         /\ \A j \in DOMAIN versions \ {i} : versions'[j] = versions[j]
         /\ OnlyDamaged(versions'[i], versions[i])
<1>1. versions \in Seq(Version) /\ versions[i] \in Version BY DEF TypeOK
<1>2. PICK broken \in Version :
        OnlyDamaged(broken, versions[i]) /\ versions' = [versions EXCEPT ![i] = broken]
  <2>1. CASE versions' = [versions EXCEPT ![i].intact = FALSE]
    <3> DEFINE b == [versions[i] EXCEPT !.intact = FALSE]
    <3>1. b \in Version /\ OnlyDamaged(b, versions[i]) BY <1>1, DamagedVersion
    <3>2. versions' = [versions EXCEPT ![i] = b] BY <2>1
    <3> QED BY <3>1, <3>2
  <2>2. CASE versions' = [versions EXCEPT ![i].kindKnown = FALSE]
    <3> DEFINE b == [versions[i] EXCEPT !.kindKnown = FALSE]
    <3>1. b \in Version /\ OnlyDamaged(b, versions[i]) BY <1>1, DamagedVersion
    <3>2. versions' = [versions EXCEPT ![i] = b] BY <2>2
    <3> QED BY <3>1, <3>2
  <2> QED BY <2>1, <2>2 DEF Damage
<1>4. /\ [versions EXCEPT ![i] = broken] \in Seq(Version)
      /\ DOMAIN [versions EXCEPT ![i] = broken] = DOMAIN versions
      /\ \A j \in DOMAIN versions :
           [versions EXCEPT ![i] = broken][j] = IF j = i THEN broken ELSE versions[j]
  BY <1>1, <1>2, Replaced
<1> QED BY <1>1, <1>2, <1>4

-----------------------------------------------------------------------------
(* The type invariant *)

\* The conflict row a commit writes.
LEMMA RecordedConflictType ==
  ASSUME TypeOK, NEW a \in Agents, op[a] # NoOp, op[a].row # NoEntry,
         NEW incoming \in Nat, NEW resolution \in {"SUPERSEDED", "REJECTED"}
  PROVE  RecordedConflict(op[a], incoming, resolution) \in Conflict
BY CarriedUpsert DEF RecordedConflict, Conflict

\* A freshly initialised database is well typed.
LEMMA InitTypeOK == Init => TypeOK
<1> SUFFICES ASSUME Init PROVE TypeOK OBVIOUS
<1>1. versions \in Seq(Version) BY DEF Init
<1>2. current \in [Keys -> Pointer \cup {NoEntry}] BY DEF Init
<1>3. op \in [Agents -> Upsert \cup {NoOp}] BY DEF Init
<1> QED BY <1>1, <1>2, <1>3 DEF Init, TypeOK

\* A commit keeps the types of the three tables.
LEMMA CommitTypeOK ==
  ASSUME TypeOK, OpSound, NEW a \in Agents, CommitUpsert(a)
  PROVE  TypeOK'
<1> DEFINE o == op[a]
<1>1. o # NoOp BY DEF CommitUpsert
<1>2. /\ o \in Upsert
      /\ o.write \in Write
      /\ o.row # NoEntry => o.row.version \in Nat \ {0}
  BY <1>1, CarriedUpsert
<1>3. op' \in [Agents -> Upsert \cup {NoOp}] BY DEF TypeOK, CommitUpsert
<1>4. now' \in Nat BY DEF TypeOK, CommitUpsert
<1>5. Len(versions) + 1 \in Nat \ {0} BY DEF TypeOK
<1>6. SUFFICES /\ versions' \in Seq(Version)
               /\ current' \in [Keys -> Pointer \cup {NoEntry}]
               /\ conflicts' \in SUBSET Conflict
  BY <1>3, <1>4 DEF TypeOK
<1>7. CASE InsertFirst(o)
  <2>1. versions' \in Seq(Version) BY <1>1, <1>7, AppendShape DEF InsertFirst
  <2>2. current' \in [Keys -> Pointer \cup {NoEntry}]
    BY <1>2, <1>5, <1>7, PointToType DEF InsertFirst
  <2> QED BY <1>7, <2>1, <2>2 DEF InsertFirst, TypeOK
<1>8. CASE Repair(o)
  <2>1. o.row # NoEntry BY <1>8, StatusNeedsRow DEF Repair
  <2>2. versions' \in Seq(Version) BY <1>1, <1>2, <1>8, <2>1, AppendShape DEF Repair
  <2>3. current' \in [Keys -> Pointer \cup {NoEntry}]
    BY <1>2, <1>5, <1>8, PointToType DEF Repair
  <2> QED BY <1>8, <2>2, <2>3 DEF Repair, TypeOK
<1>9. CASE Refresh(o)
  <2>1. o.row # NoEntry BY <1>9, StatusNeedsRow DEF Refresh
  <2>2. versions' \in Seq(Version) BY <1>1, <1>9, RefreshShape
  <2>3. current' \in [Keys -> Pointer \cup {NoEntry}]
    BY <1>2, <1>9, <2>1, PointToType DEF Refresh
  <2> QED BY <1>9, <2>2, <2>3 DEF Refresh, TypeOK
<1>10. CASE Idempotent(o) BY <1>10 DEF Idempotent, TypeOK
<1>11. CASE RejectConflict(o)
  <2>1. o.row # NoEntry BY <1>11, StatusNeedsRow DEF RejectConflict
  <2>2. RecordedConflict(o, 0, "REJECTED") \in Conflict
    BY <1>1, <2>1, RecordedConflictType
  <2> QED BY <1>11, <2>2 DEF RejectConflict, TypeOK
<1>12. CASE Supersede(o)
  <2>1. o.row # NoEntry /\ versions' \in Seq(Version) BY <1>1, <1>12, SupersedeShape
  <2>2. current' \in [Keys -> Pointer \cup {NoEntry}]
    BY <1>2, <1>5, <1>12, PointToType DEF Supersede
  <2>3. RecordedConflict(o, Len(versions) + 1, "SUPERSEDED") \in Conflict
    BY <1>1, <1>5, <2>1, RecordedConflictType
  <2> QED BY <1>12, <2>1, <2>2, <2>3 DEF Supersede, TypeOK
<1> QED BY <1>7, <1>8, <1>9, <1>10, <1>11, <1>12 DEF CommitUpsert

\* Reading the rows an upsert starts from keeps the state well typed.
LEMMA BeginTypeOK ==
  ASSUME TypeOK, NEW a \in Agents, NEW allow \in BOOLEAN, NEW w,
         w.key \in Keys, BeginUpsert(a, w, allow), ValidCacheWrite(w) => w \in Write
  PROVE  TypeOK'
<1>1. w \in Write BY DEF BeginUpsert
<1>2. current[w.key] \in Pointer \cup {NoEntry} BY DEF TypeOK
<1>3. CurrentVersionIsValid(w.key) \in BOOLEAN BY DEF CurrentVersionIsValid
<1>4. [write |-> w, allow |-> allow, row |-> current[w.key],
       valid |-> CurrentVersionIsValid(w.key)] \in Upsert
  BY <1>1, <1>2, <1>3 DEF Upsert
<1> QED BY <1>4 DEF BeginUpsert, TypeOK

\* The ways a step can change the state.
LEMMA NextCases ==
  ASSUME Next
  PROVE  \/ \E a \in Agents, allow \in BOOLEAN : \E w :
              /\ w.key \in Keys /\ w.fetched = now
              /\ ValidCacheWrite(w) => w \in Write \/ now \notin Nat
              /\ BeginUpsert(a, w, allow)
         \/ \E a \in Agents : CommitUpsert(a)
         \/ \E a \in Agents : AbortUpsert(a)
         \/ \E v \in DOMAIN versions : Damage(v)
         \/ \E k \in Keys, v \in DOMAIN versions : Misdirect(k, v)
         \/ Tick
<1>1. ASSUME NEW a \in Agents, NEW allow \in BOOLEAN, NEW k \in Keys, NEW p \in Payloads,
             BeginUpsert(a, [key |-> k, kind |-> "ROWS", payload |-> p, fetched |-> now], allow)
      PROVE  \E w : /\ w.key \in Keys /\ w.fetched = now
                    /\ ValidCacheWrite(w) => w \in Write \/ now \notin Nat
                    /\ BeginUpsert(a, w, allow)
  <2> DEFINE w == [key |-> k, kind |-> "ROWS", payload |-> p, fetched |-> now]
  <2>1. w.key \in Keys /\ w.fetched = now /\ (ValidCacheWrite(w) => w \in Write \/ now \notin Nat)
    BY DEF Write
  <2>2. BeginUpsert(a, w, allow) BY <1>1
  <2> HIDE DEF w
  <2> QED BY <2>1, <2>2
<1>2. ASSUME NEW a \in Agents, NEW allow \in BOOLEAN, NEW k \in Keys,
             BeginUpsert(a, [key |-> k, kind |-> "PROVISIONAL_NO_DATA", payload |-> NoData,
                             fetched |-> now], allow)
      PROVE  \E w : /\ w.key \in Keys /\ w.fetched = now
                    /\ ValidCacheWrite(w) => w \in Write \/ now \notin Nat
                    /\ BeginUpsert(a, w, allow)
  <2> DEFINE w == [key |-> k, kind |-> "PROVISIONAL_NO_DATA", payload |-> NoData, fetched |-> now]
  <2>1. w.key \in Keys /\ w.fetched = now /\ (ValidCacheWrite(w) => w \in Write \/ now \notin Nat)
    BY DEF Write, ValidCacheWrite
  <2>2. BeginUpsert(a, w, allow) BY <1>2
  <2> HIDE DEF w
  <2> QED BY <2>1, <2>2
<1> QED BY <1>1, <1>2 DEF Next

\* A misdirected pointer row keeps its other columns.
LEMMA MisdirectShape ==
  ASSUME TypeOK, NEW j \in Keys, NEW v, Misdirect(j, v), NEW k \in Keys
  PROVE  /\ current'[k].fetched = current[k].fetched
         /\ current'[k].checksum = current[k].checksum
         /\ current'[k] # NoEntry => current[k] # NoEntry
<1>1. current' = [current EXCEPT ![j] = [current[j] EXCEPT !.version = v]] /\ current[j] # NoEntry
  BY DEF Misdirect
<1>2. current[j] \in Pointer /\ DOMAIN current = Keys BY <1>1 DEF TypeOK
<1> DEFINE moved == [current[j] EXCEPT !.version = v]
<1>3. moved.fetched = current[j].fetched /\ moved.checksum = current[j].checksum
  BY <1>2 DEF Pointer
<1> HIDE DEF moved
<1>4. current'[k] = IF k = j THEN moved ELSE current[k] BY <1>1, <1>2 DEF moved
<1> QED BY <1>1, <1>3, <1>4

\* Every step of the store and of its environment keeps the state well typed.
LEMMA StepTypeOK ==
  ASSUME TypeOK, OpSound, [Next]_storeVars
  PROVE  TypeOK'
<1>1. ASSUME NEW a \in Agents, NEW allow \in BOOLEAN, NEW w,
             w.key \in Keys, ValidCacheWrite(w) => w \in Write \/ now \notin Nat,
             BeginUpsert(a, w, allow)
      PROVE  TypeOK'
  <2>1. ValidCacheWrite(w) => w \in Write BY <1>1 DEF TypeOK
  <2> QED BY <1>1, <2>1, BeginTypeOK
<1>2. ASSUME NEW a \in Agents, CommitUpsert(a) PROVE TypeOK' BY <1>2, CommitTypeOK
<1>3. ASSUME NEW a \in Agents, AbortUpsert(a) PROVE TypeOK' BY <1>3 DEF AbortUpsert, TypeOK
<1>4. ASSUME NEW v \in DOMAIN versions, Damage(v) PROVE TypeOK'
  <2>1. versions' \in Seq(Version) BY <1>4, DamageShape
  <2> QED BY <1>4, <2>1 DEF Damage, TypeOK
<1>5. ASSUME NEW k \in Keys, NEW v \in DOMAIN versions, Misdirect(k, v) PROVE TypeOK'
  <2>1. current[k] \in Pointer /\ v \in Nat \ {0} BY <1>5 DEF Misdirect, TypeOK
  <2>2. [current[k] EXCEPT !.version = v] \in Pointer BY <2>1 DEF Pointer
  <2> QED BY <1>5, <2>2 DEF Misdirect, TypeOK
<1>6. CASE Tick BY <1>6 DEF Tick, TypeOK
<1>7. CASE UNCHANGED storeVars BY <1>7 DEF storeVars, TypeOK
<1> QED BY <1>1, <1>2, <1>3, <1>4, <1>5, <1>6, <1>7, NextCases

-----------------------------------------------------------------------------
(* Versions are kept *)

\* A commit of upsert removes no version and changes no payload.
LEMMA CommitKeepsVersions ==
  ASSUME TypeOK, OpSound, NEW a \in Agents, CommitUpsert(a)
  PROVE  VersionsKept
<1> DEFINE o == op[a]
<1>1. o # NoOp BY DEF CommitUpsert
<1>2. CASE InsertFirst(o) BY <1>1, <1>2, AppendShape DEF InsertFirst, VersionsKept
<1>3. CASE Repair(o)
  <2>1. o.row.version \in Nat
    BY <1>1, <1>3, StatusNeedsRow, CarriedUpsert DEF Repair
  <2> QED BY <1>1, <1>3, <2>1, AppendShape DEF Repair, VersionsKept
<1>4. CASE Refresh(o) BY <1>1, <1>4, RefreshShape DEF SameContent, VersionsKept
<1>5. CASE Idempotent(o) BY <1>5 DEF Idempotent, VersionsKept
<1>6. CASE RejectConflict(o) BY <1>6 DEF RejectConflict, VersionsKept
<1>7. CASE Supersede(o) BY <1>1, <1>7, SupersedeShape DEF SameContent, VersionsKept
<1> QED BY <1>2, <1>3, <1>4, <1>5, <1>6, <1>7 DEF CommitUpsert

\* No step removes a version or changes a payload.
LEMMA StepKeepsVersions ==
  ASSUME TypeOK, OpSound, [Next]_storeVars
  PROVE  VersionsKept
<1>1. CASE UNCHANGED versions BY <1>1 DEF VersionsKept
<1>2. ASSUME NEW a \in Agents, CommitUpsert(a) PROVE VersionsKept BY <1>2, CommitKeepsVersions
<1>3. ASSUME NEW v \in DOMAIN versions, Damage(v) PROVE VersionsKept
  BY <1>3, DamageShape DEF SameContent, OnlyDamaged, VersionsKept
<1> QED BY <1>1, <1>2, <1>3, NextCases
     DEF BeginUpsert, AbortUpsert, Misdirect, Tick, storeVars

\* What a commit leaves behind: the refused payload among the conflicts, or the written one
\* among the versions of its key, be it stored now or by whom the agent read it from.
LEMMA CommitOutcome ==
  ASSUME TypeOK, OpSound, NEW a \in Agents, CommitUpsert(a)
  PROVE  /\ conflicts \subseteq conflicts'
         /\ IF UpsertStatus(op[a]) = "conflict_rejected"
            THEN \E c \in conflicts' :
                   /\ c.resolution = "REJECTED"
                   /\ c.key = op[a].write.key
                   /\ c.incomingChecksum = op[a].write.payload
            ELSE \E v \in DOMAIN versions' :
                   /\ versions'[v].key = op[a].write.key
                   /\ versions'[v].checksum = op[a].write.payload
<1> DEFINE o == op[a]
           Stored == \E v \in DOMAIN versions' :
                       versions'[v].key = o.write.key /\ versions'[v].checksum = o.write.payload
<1>1. o # NoOp BY DEF CommitUpsert
<1>2. CASE InsertFirst(o)
  <2>1. Stored BY <1>1, <1>2, AppendShape, NewVersionFields DEF InsertFirst
  <2> QED BY <1>2, <2>1 DEF InsertFirst
<1>3. CASE Repair(o)
  <2>1. o.row.version \in Nat BY <1>1, <1>3, StatusNeedsRow, CarriedUpsert DEF Repair
  <2>2. Stored BY <1>1, <1>3, <2>1, AppendShape, NewVersionFields DEF Repair
  <2> QED BY <1>3, <2>2 DEF Repair
<1>4. CASE Refresh(o)
  <2>1. Stored BY <1>1, <1>4, RefreshShape DEF SameContent
  <2> QED BY <1>4, <2>1 DEF Refresh
<1>5. CASE Idempotent(o)
  <2>1. o.row # NoEntry /\ o.valid /\ o.row.checksum = o.write.payload
    BY <1>5 DEF Idempotent, UpsertStatus
  <2>2. Stored BY <1>1, <1>5, <2>1 DEF Idempotent, OpSound
  <2> QED BY <1>5, <2>2 DEF Idempotent
<1>6. CASE RejectConflict(o)
  <2> DEFINE row == RecordedConflict(o, 0, "REJECTED")
  <2>1. row \in conflicts' /\ conflicts \subseteq conflicts' BY <1>6 DEF RejectConflict
  <2>2. /\ row.resolution = "REJECTED"
        /\ row.key = o.write.key
        /\ row.incomingChecksum = o.write.payload
    BY DEF RecordedConflict
  <2> QED BY <1>6, <2>1, <2>2 DEF RejectConflict
<1>7. CASE Supersede(o)
  <2>1. Stored BY <1>1, <1>7, SupersedeShape, NewVersionFields
  <2>2. conflicts \subseteq conflicts' BY <1>7 DEF Supersede
  <2> QED BY <1>7, <2>1, <2>2 DEF Supersede
<1> QED BY <1>2, <1>3, <1>4, <1>5, <1>6, <1>7 DEF CommitUpsert

-----------------------------------------------------------------------------
(* The rest of the inductive invariant *)

\* What an agent has read stays sound as long as it stands.
LEMMA CarriedStaysSound ==
  ASSUME OpSound, VersionsKept, NEW b \in Agents, op'[b] = op[b], op'[b] # NoOp,
         op'[b].row # NoEntry
  PROVE  /\ op'[b].row.version \in DOMAIN versions'
         /\ IF op'[b].valid
            THEN /\ versions'[op'[b].row.version].key = op'[b].write.key
                 /\ versions'[op'[b].row.version].checksum = op'[b].row.checksum
            ELSE \/ ~versions'[op'[b].row.version].intact
                 \/ versions'[op'[b].row.version].key # op'[b].write.key
BY DEF OpSound, VersionsKept

\* What an agent reads is sound when it reads it.
LEMMA BeginOpSound ==
  ASSUME TypeOK, PointerIntegrity, OpSound, NEW a, NEW allow, NEW w, w.key \in Keys,
         BeginUpsert(a, w, allow)
  PROVE  OpSound'
<1>1. VersionsKept BY DEF BeginUpsert, VersionsKept
<1> SUFFICES ASSUME NEW b \in Agents, op'[b] # NoOp, op'[b].row # NoEntry
             PROVE  /\ op'[b].row.version \in DOMAIN versions'
                    /\ IF op'[b].valid
                       THEN /\ versions'[op'[b].row.version].key = op'[b].write.key
                            /\ versions'[op'[b].row.version].checksum = op'[b].row.checksum
                       ELSE \/ ~versions'[op'[b].row.version].intact
                            \/ versions'[op'[b].row.version].key # op'[b].write.key
  BY DEF OpSound
<1>2. CASE op'[b] = op[b] BY <1>1, <1>2, CarriedStaysSound
<1>3. CASE op'[b] # op[b]
  <2>1. /\ op'[b].row = current[w.key]
        /\ op'[b].write = w
        /\ op'[b].valid = CurrentVersionIsValid(w.key)
        /\ versions' = versions
    BY <1>3 DEF BeginUpsert, TypeOK
  <2>2. /\ current[w.key] # NoEntry
        /\ current[w.key].version \in DOMAIN versions
        /\ versions[current[w.key].version].key = w.key =>
             versions[current[w.key].version].checksum = current[w.key].checksum
    BY <2>1 DEF PointerIntegrity
  <2>3. CASE CurrentVersionIsValid(w.key)
    BY <2>1, <2>2, <2>3 DEF CurrentVersionIsValid
  <2>4. CASE ~CurrentVersionIsValid(w.key)
    <3>1. \/ ~versions[current[w.key].version].intact
          \/ versions[current[w.key].version].key # w.key
      BY <2>2, <2>4 DEF CurrentVersionIsValid
    <3> QED BY <2>1, <2>2, <2>4, <3>1
  <2> QED BY <2>3, <2>4
<1> QED BY <1>2, <1>3

\* What an agent has read stays sound, whatever the others commit.
LEMMA StepOpSound ==
  ASSUME TypeOK, PointerIntegrity, OpSound, [Next]_storeVars
  PROVE  OpSound'
<1>1. VersionsKept BY StepKeepsVersions
<1>2. ASSUME NEW a \in Agents, NEW allow \in BOOLEAN, NEW w,
             w.key \in Keys, BeginUpsert(a, w, allow)
      PROVE  OpSound'
  BY <1>2, BeginOpSound
<1>3. ASSUME \A b \in Agents : op'[b] # NoOp => op'[b] = op[b]
      PROVE  OpSound'
  BY <1>1, <1>3, CarriedStaysSound DEF OpSound
<1>4. ASSUME NEW a \in Agents, CommitUpsert(a) \/ AbortUpsert(a)
      PROVE  OpSound'
  BY <1>3, <1>4 DEF CommitUpsert, AbortUpsert, TypeOK
<1> QED BY <1>2, <1>3, <1>4, NextCases DEF Damage, Misdirect, Tick, storeVars

\* A write that points to a version of its own key leaves the pointers sound.
LEMMA PointToSound ==
  ASSUME TypeOK, PointerIntegrity, VersionsKept, NEW w \in Write, NEW v \in DOMAIN versions',
         PointTo(w, v), versions'[v].key = w.key, versions'[v].checksum = w.payload,
         versions'[v].fetched = w.fetched,
         \A i \in DOMAIN versions \ {v} : versions'[i].fetched = versions[i].fetched
  PROVE  PointerIntegrity'
<1> SUFFICES ASSUME NEW k \in Keys, current'[k] # NoEntry
             PROVE  /\ current'[k].version \in DOMAIN versions'
                    /\ versions'[current'[k].version].key = k =>
                         /\ versions'[current'[k].version].checksum = current'[k].checksum
                         /\ versions'[current'[k].version].fetched = current'[k].fetched
  BY DEF PointerIntegrity
<1>1. CASE k = w.key
  <2>1. current'[k] = [version |-> v, checksum |-> w.payload, fetched |-> w.fetched]
    BY <1>1 DEF PointTo, TypeOK
  <2> QED BY <2>1
<1>2. CASE k # w.key
  <2>1. current'[k] = current[k] BY <1>2 DEF PointTo, TypeOK
  <2> QED BY <1>2, <2>1 DEF PointerIntegrity, VersionsKept
<1> QED BY <1>1, <1>2

\* Pointers and the versions they name stay in agreement, whatever the upsert
\* in progress read before another connection committed.
LEMMA StepPointerIntegrity ==
  ASSUME TypeOK, PointerIntegrity, OpSound, [Next]_storeVars
  PROVE  PointerIntegrity'
<1>1. VersionsKept BY StepKeepsVersions
<1>2. ASSUME NEW a \in Agents, CommitUpsert(a) PROVE PointerIntegrity'
  <2> DEFINE o == op[a]
  <2>1. o # NoOp /\ o.write \in Write BY <1>2, CarriedUpsert DEF CommitUpsert
  <2>2. CASE InsertFirst(o)
    BY <1>1, <2>1, <2>2, AppendShape, PointToSound DEF InsertFirst, NewVersion
  <2>3. CASE Repair(o)
    <3>1. o.row.version \in Nat BY <2>1, <2>3, StatusNeedsRow, CarriedUpsert DEF Repair
    <3> QED BY <1>1, <2>1, <2>3, <3>1, AppendShape, PointToSound DEF Repair, NewVersion
  <2>4. CASE Refresh(o)
    <3>1. /\ o.row.version \in DOMAIN versions'
          /\ versions'[o.row.version].key = o.write.key
          /\ versions'[o.row.version].checksum = o.write.payload
          /\ versions'[o.row.version].fetched = o.write.fetched
          /\ \A i \in DOMAIN versions \ {o.row.version} : versions'[i] = versions[i]
      BY <2>1, <2>4, RefreshShape DEF SameContent
    <3>2. PointTo(o.write, o.row.version) BY <2>4 DEF Refresh
    <3> QED BY <1>1, <2>1, <3>1, <3>2, PointToSound
  <2>5. CASE Idempotent(o) \/ RejectConflict(o)
    BY <2>5 DEF Idempotent, RejectConflict, PointerIntegrity
  <2>6. CASE Supersede(o)
    <3>1. \A i \in DOMAIN versions : versions'[i].fetched = versions[i].fetched
      BY <2>1, <2>6, SupersedeShape
    <3> QED BY <1>1, <2>1, <2>6, <3>1, SupersedeShape, PointToSound DEF Supersede, NewVersion
  <2> QED BY <1>2, <2>2, <2>3, <2>4, <2>5, <2>6 DEF CommitUpsert
<1>3. ASSUME NEW v \in DOMAIN versions, Damage(v) PROVE PointerIntegrity'
  <2>1. \A i \in DOMAIN versions : versions'[i].fetched = versions[i].fetched
    BY <1>3, DamageShape DEF OnlyDamaged
  <2> QED BY <1>1, <1>3, <2>1 DEF Damage, PointerIntegrity, VersionsKept
<1>4. ASSUME NEW k \in Keys, NEW v \in DOMAIN versions, Misdirect(k, v) PROVE PointerIntegrity'
  <2>1. current[k] \in Pointer BY <1>4 DEF Misdirect, TypeOK
  <2>2. current'[k].version = v BY <1>4, <2>1 DEF Misdirect, TypeOK, Pointer
  <2>3. \A j \in Keys \ {k} : current'[j] = current[j] BY <1>4 DEF Misdirect, TypeOK
  <2> QED BY <1>4, <2>2, <2>3 DEF Misdirect, PointerIntegrity
<1> QED BY <1>2, <1>3, <1>4, NextCases
     DEF BeginUpsert, AbortUpsert, Tick, storeVars, PointerIntegrity

\* No step changes the conflict rows but a commit, which at most adds one.
LEMMA ConflictsStep ==
  ASSUME [Next]_storeVars
  PROVE  \/ UNCHANGED conflicts
         \/ \E a \in Agents :
              /\ op[a] # NoOp
              /\ \/ RejectConflict(op[a])
                 \/ Supersede(op[a])
BY NextCases
   DEF BeginUpsert, CommitUpsert, AbortUpsert, Damage, Misdirect, Tick, storeVars,
       InsertFirst, Repair, Refresh, Idempotent

\* Every conflict row goes on naming existing versions of its key.
LEMMA StepConflictsSound ==
  ASSUME TypeOK, OpSound, ConflictsSound, [Next]_storeVars
  PROVE  ConflictsSound'
<1>1. VersionsKept BY StepKeepsVersions
<1>2. CASE UNCHANGED conflicts BY <1>1, <1>2 DEF ConflictsSound, VersionsKept
<1>3. ASSUME NEW a \in Agents, op[a] # NoOp, RejectConflict(op[a]) \/ Supersede(op[a])
      PROVE  ConflictsSound'
  <2>1. op[a].row # NoEntry BY <1>3, StatusNeedsRow DEF RejectConflict, Supersede
  <2>2. op[a].row.version \in DOMAIN versions BY <1>3, <2>1 DEF OpSound
  <2>3. \E i, r : conflicts' = conflicts \cup {RecordedConflict(op[a], i, r)}
    BY <1>3 DEF RejectConflict, Supersede
  <2> QED BY <1>1, <2>2, <2>3 DEF ConflictsSound, VersionsKept, RecordedConflict
<1> QED BY <1>2, <1>3, ConflictsStep

\* Only a correction marks a version or adds a SUPERSEDED row, and it does both.
LEMMA StepSupersededIffRecorded ==
  ASSUME TypeOK, OpSound, ConflictsSound, SupersededIffRecorded, [Next]_storeVars
  PROVE  SupersededIffRecorded'
<1> DEFINE Recorded(c, v) == c.resolution = "SUPERSEDED" /\ c.previous = v
<1>1. \A v \in DOMAIN versions :
        versions[v].superseded <=> \E c \in conflicts : Recorded(c, v)
  BY DEF SupersededIffRecorded
<1>2. SUFFICES \A v \in DOMAIN versions' :
        versions'[v].superseded <=> \E c \in conflicts' : Recorded(c, v)
  BY DEF SupersededIffRecorded
<1>3. Len(versions) + 1 \notin DOMAIN versions =>
        \A c \in conflicts : ~Recorded(c, Len(versions) + 1)
  BY DEF ConflictsSound
\* Steps that add no SUPERSEDED row and mark no version.
<1>4. ASSUME \A c \in conflicts' \ conflicts : c.resolution # "SUPERSEDED",
             conflicts \subseteq conflicts',
             \A v \in DOMAIN versions : versions'[v].superseded = versions[v].superseded,
             \/ DOMAIN versions' = DOMAIN versions
             \/ /\ DOMAIN versions' = DOMAIN versions \cup {Len(versions) + 1}
                /\ Len(versions) + 1 \notin DOMAIN versions
                /\ ~versions'[Len(versions) + 1].superseded
      PROVE  \A v \in DOMAIN versions' :
               versions'[v].superseded <=> \E c \in conflicts' : Recorded(c, v)
  <2>1. \A v : (\E c \in conflicts' : Recorded(c, v)) <=> (\E c \in conflicts : Recorded(c, v))
    BY <1>4
  <2> HIDE DEF Recorded
  <2> QED BY <1>1, <1>3, <1>4, <2>1
<1>5. ASSUME NEW a \in Agents, op[a] # NoOp, Supersede(op[a])
      PROVE  \A v \in DOMAIN versions' :
               versions'[v].superseded <=> \E c \in conflicts' : Recorded(c, v)
  <2> DEFINE old == op[a].row.version
             row == RecordedConflict(op[a], Len(versions) + 1, "SUPERSEDED")
  <2>1. /\ old \in DOMAIN versions
        /\ versions'[old].superseded
        /\ \A i \in DOMAIN versions \ {old} : versions'[i] = versions[i]
        /\ DOMAIN versions' = DOMAIN versions \cup {Len(versions) + 1}
        /\ Len(versions) + 1 \notin DOMAIN versions
        /\ versions'[Len(versions) + 1] = NewVersion(op[a].write, old)
    BY <1>5, SupersedeShape
  <2>5. ~versions'[Len(versions) + 1].superseded BY <2>1, NewVersionFields
  <2>2. conflicts' = conflicts \cup {row} BY <1>5 DEF Supersede
  <2>3. \A v : Recorded(row, v) <=> v = old BY DEF RecordedConflict
  <2>4. \A v : (\E c \in conflicts' : Recorded(c, v)) <=>
               (v = old \/ \E c \in conflicts : Recorded(c, v))
    BY <2>2, <2>3
  <2> HIDE DEF Recorded, row
  <2> QED BY <1>1, <1>3, <2>1, <2>4, <2>5
<1>6. ASSUME NEW a \in Agents, CommitUpsert(a)
      PROVE  \A v \in DOMAIN versions' :
               versions'[v].superseded <=> \E c \in conflicts' : Recorded(c, v)
  <2> DEFINE o == op[a]
  <2>1. o # NoOp BY <1>6 DEF CommitUpsert
  <2>2. CASE InsertFirst(o)
    BY <1>4, <2>1, <2>2, AppendShape, NewVersionFields DEF InsertFirst
  <2>3. CASE Repair(o)
    <3>1. o.row.version \in Nat BY <2>1, <2>3, StatusNeedsRow, CarriedUpsert DEF Repair
    <3> QED BY <1>4, <2>1, <2>3, <3>1, AppendShape, NewVersionFields DEF Repair
  <2>4. CASE Refresh(o)
    <3>1. /\ DOMAIN versions' = DOMAIN versions
          /\ \A v \in DOMAIN versions : versions'[v].superseded = versions[v].superseded
      BY <2>1, <2>4, RefreshShape
    <3>2. conflicts' = conflicts BY <2>4 DEF Refresh
    <3> QED BY <1>4, <3>1, <3>2
  <2>5. CASE Idempotent(o) BY <1>4, <2>5 DEF Idempotent
  <2>6. CASE RejectConflict(o)
    BY <1>4, <2>6 DEF RejectConflict, RecordedConflict
  <2>7. CASE Supersede(o) BY <1>5, <2>1, <2>7
  <2> QED BY <1>6, <2>2, <2>3, <2>4, <2>5, <2>6, <2>7 DEF CommitUpsert
<1>7. ASSUME NEW i \in DOMAIN versions, Damage(i)
      PROVE  \A v \in DOMAIN versions' :
               versions'[v].superseded <=> \E c \in conflicts' : Recorded(c, v)
  <2>1. /\ DOMAIN versions' = DOMAIN versions
        /\ \A v \in DOMAIN versions : versions'[v].superseded = versions[v].superseded
    BY <1>7, DamageShape DEF OnlyDamaged
  <2>2. conflicts' = conflicts BY <1>7 DEF Damage
  <2> QED BY <1>4, <2>1, <2>2
<1>8. ASSUME UNCHANGED <<versions, conflicts>>
      PROVE  \A v \in DOMAIN versions' :
               versions'[v].superseded <=> \E c \in conflicts' : Recorded(c, v)
  BY <1>4, <1>8
<1> QED BY <1>6, <1>7, <1>8, NextCases
     DEF BeginUpsert, AbortUpsert, Misdirect, Tick, storeVars

\* Every version that replaces another one keeps its explanation: the replaced
\* version stays unusable, or the conflict row stays.
Explained(v, p) ==
  /\ p < v
  /\ \/ ~versions[p].intact
     \/ versions[p].key # versions[v].key
     \/ \E c \in conflicts :
          /\ c.resolution = "SUPERSEDED" /\ c.previous = p /\ c.incoming = v
          /\ c.previousChecksum = versions[p].checksum
          /\ c.incomingChecksum = versions[v].checksum

\* A version that replaces another one does so with the conflict row or over an
\* unusable version, and later steps keep that explanation.
LEMMA StepCorrectionsAreExplained ==
  ASSUME TypeOK, OpSound, SupersedesStored, CorrectionsAreExplained, [Next]_storeVars
  PROVE  SupersedesStored' /\ CorrectionsAreExplained'
<1>1. VersionsKept BY StepKeepsVersions
<1>2. conflicts \subseteq conflicts' BY ConflictsStep DEF RejectConflict, Supersede
<1>3. \A v \in DOMAIN versions : versions[v].supersedes # 0 =>
        versions[v].supersedes \in DOMAIN versions /\ Explained(v, versions[v].supersedes)
  BY DEF SupersedesStored, CorrectionsAreExplained, Explained
<1>4. SUFFICES \A v \in DOMAIN versions' : versions'[v].supersedes # 0 =>
        /\ versions'[v].supersedes \in DOMAIN versions'
        /\ Explained(v, versions[v].supersedes)'
  BY DEF SupersedesStored, CorrectionsAreExplained, Explained
<1>5. \A v \in DOMAIN versions : versions'[v].supersedes # 0 =>
        /\ versions'[v].supersedes \in DOMAIN versions'
        /\ Explained(v, versions[v].supersedes)'
  <2> TAKE v \in DOMAIN versions
  <2> HAVE versions'[v].supersedes # 0
  <2>1. versions'[v].supersedes = versions[v].supersedes BY <1>1 DEF VersionsKept
  <2> DEFINE p == versions[v].supersedes
  <2>2. p \in DOMAIN versions /\ Explained(v, p) BY <1>3, <2>1
  <2>3. p \in DOMAIN versions' BY <1>1, <2>2 DEF VersionsKept
  <2>4. Explained(v, p)' BY <1>1, <1>2, <2>1, <2>2 DEF Explained, VersionsKept
  <2> QED BY <2>1, <2>3, <2>4
<1>6. ASSUME NEW a \in Agents, CommitUpsert(a), NEW v \in DOMAIN versions' \ DOMAIN versions,
             versions'[v].supersedes # 0
      PROVE  /\ versions'[v].supersedes \in DOMAIN versions'
             /\ Explained(v, versions[v].supersedes)'
  <2> DEFINE o == op[a]
             p == op[a].row.version
  <2>1. o # NoOp BY <1>6 DEF CommitUpsert
  <2>2. CASE InsertFirst(o)
    <3>1. versions'[v] = NewVersion(o.write, 0)
      BY <1>6, <2>1, <2>2, AppendShape DEF InsertFirst
    <3> QED BY <1>6, <3>1, NewVersionFields
  <2>3. CASE Repair(o)
    <3>1. o.row # NoEntry /\ ~o.valid BY <2>3, StatusNeedsRow DEF Repair
    <3>2. p \in Nat BY <2>1, <3>1, CarriedUpsert
    <3>3. /\ versions'[v] = NewVersion(o.write, p)
          /\ v = Len(versions) + 1
          /\ \A j \in DOMAIN versions : versions'[j] = versions[j]
          /\ DOMAIN versions' = DOMAIN versions \cup {Len(versions) + 1}
      BY <1>6, <2>1, <2>3, <3>2, AppendShape DEF Repair
    <3>4. /\ p \in DOMAIN versions
          /\ ~versions[p].intact \/ versions[p].key # o.write.key
      BY <2>1, <3>1 DEF OpSound
    <3>5. p < v BY <3>3, <3>4 DEF TypeOK
    <3>6. versions'[v].supersedes = p /\ versions'[v].key = o.write.key
      BY <3>3, NewVersionFields
    <3> QED BY <3>3, <3>4, <3>5, <3>6 DEF Explained
  <2>4. CASE Refresh(o) BY <1>6, <2>1, <2>4, RefreshShape
  <2>5. CASE Idempotent(o) \/ RejectConflict(o)
    BY <1>6, <2>5 DEF Idempotent, RejectConflict
  <2>6. CASE Supersede(o)
    <3>1. /\ versions'[v] = NewVersion(o.write, p)
          /\ v = Len(versions) + 1
          /\ p \in DOMAIN versions /\ p < v
          /\ versions[p].checksum = o.row.checksum
          /\ SameContent(versions'[p], versions[p])
          /\ DOMAIN versions' = DOMAIN versions \cup {Len(versions) + 1}
      BY <1>6, <2>1, <2>6, SupersedeShape
    <3>2. versions'[v].supersedes = p /\ versions'[v].checksum = o.write.payload
      BY <3>1, NewVersionFields
    <3>3. RecordedConflict(o, v, "SUPERSEDED") \in conflicts' BY <2>6, <3>1 DEF Supersede
    <3>4. versions'[p].checksum = o.row.checksum BY <3>1 DEF SameContent
    <3>5. \E c \in conflicts' :
            /\ c.resolution = "SUPERSEDED" /\ c.previous = p /\ c.incoming = v
            /\ c.previousChecksum = versions'[p].checksum
            /\ c.incomingChecksum = versions'[v].checksum
      BY <3>2, <3>3, <3>4 DEF RecordedConflict
    <3> QED BY <3>1, <3>2, <3>5 DEF Explained
  <2> QED BY <1>6, <2>2, <2>3, <2>4, <2>5, <2>6 DEF CommitUpsert
<1>7. (\E i \in DOMAIN versions : Damage(i)) \/ UNCHANGED versions =>
        DOMAIN versions' = DOMAIN versions
  BY DamageShape
<1>8. (\E a \in Agents : CommitUpsert(a))
        \/ (\E i \in DOMAIN versions : Damage(i)) \/ UNCHANGED versions
  BY NextCases DEF BeginUpsert, AbortUpsert, Misdirect, Tick, storeVars
<1> QED BY <1>5, <1>6, <1>7, <1>8

-----------------------------------------------------------------------------
(* Theorems *)

\* The inductive invariant holds of an empty database.
LEMMA InitIInv == Init => IInv
<1> SUFFICES ASSUME Init PROVE IInv OBVIOUS
<1>1. versions = << >> /\ conflicts = {} /\ DOMAIN versions = {} BY DEF Init
<1>2. PointerIntegrity BY DEF Init, PointerIntegrity
<1>3. OpSound BY DEF Init, OpSound
<1> QED BY <1>1, <1>2, <1>3, InitTypeOK
     DEF IInv, ConflictsSound, SupersededIffRecorded, SupersedesStored, CorrectionsAreExplained

\* The inductive invariant is preserved by every step.
LEMMA StepIInv == IInv /\ [Next]_storeVars => IInv'
BY StepTypeOK, StepPointerIntegrity, StepOpSound, StepConflictsSound,
   StepSupersededIffRecorded, StepCorrectionsAreExplained DEF IInv

\* The inductive invariant holds in every reachable state.
LEMMA Invariant == Spec => []IInv
BY InitIInv, StepIInv, PTL DEF Spec

\* The tables and the upserts in progress always have the types of the schema;
\* no key whose contract forbids it holds a no-data marker.
THEOREM TypeCorrect == Spec => []TypeOK
<1>1. IInv => TypeOK BY DEF IInv
<1> QED BY <1>1, Invariant, PTL

\* Pointer and version rows agree however many upserts overlap.
THEOREM PointersSound == Spec => []PointerIntegrity
<1>1. IInv => PointerIntegrity BY DEF IInv
<1> QED BY <1>1, Invariant, PTL

\* upsert repairs nothing that read_many serves, and an entry that read_many refuses
\* and upsert would not repair has a kind that is not known.
THEOREM OthersAreRepaired == Spec => []OnlyUnknownKindsAreStuck
<1>1. IInv => OnlyUnknownKindsAreStuck
  BY DEF IInv, PointerIntegrity, OnlyUnknownKindsAreStuck, Readable, CurrentVersionIsValid
<1> QED BY <1>1, Invariant, PTL

\* superseded_at and the conflict table tell the same story.
THEOREM SupersededRecorded == Spec => []SupersededIffRecorded
<1>1. IInv => SupersededIffRecorded BY DEF IInv
<1> QED BY <1>1, Invariant, PTL

\* Every supersedes link is a recorded correction or the repair of a version that
\* could not be used.
THEOREM CorrectionsExplained == Spec => []CorrectionsAreExplained
<1>1. IInv => CorrectionsAreExplained BY DEF IInv
<1> QED BY <1>1, Invariant, PTL

\* Marks, supersedes links and conflict rows agree in both directions.
THEOREM LedgerIsConsistent == Spec => []LedgerConsistent
<1>1. IInv => LedgerConsistent BY DEF IInv, LedgerConsistent
<1> QED BY <1>1, Invariant, PTL

\* No step of any number of connections rewrites or removes a stored payload.
THEOREM PayloadsKept == Spec => PayloadsImmutable
<1>1. IInv /\ [Next]_storeVars =>
        [\A v \in DOMAIN versions :
           /\ v \in DOMAIN versions'
           /\ versions'[v].key = versions[v].key
           /\ versions'[v].checksum = versions[v].checksum
           /\ versions'[v].supersedes = versions[v].supersedes
           /\ versions[v].superseded => versions'[v].superseded
           /\ versions[v].kind = "ROWS" => versions'[v].fetched = versions[v].fetched]_storeVars
  BY StepKeepsVersions DEF IInv, VersionsKept
<1> QED BY <1>1, Invariant, PTL DEF Spec, PayloadsImmutable

-----------------------------------------------------------------------------
(* Freshness *)

\* Days do not go back with the clock.
LEMMA DayIsMonotone ==
  ASSUME NEW t \in Nat, NEW u \in Nat, t <= u
  PROVE  Day(t) \in Nat /\ Day(u) \in Nat /\ Day(t) <= Day(u)
<1>1. TicksPerDay \in Nat \ {0} BY FreshnessAssumption DEF FreshnessAssumption
<1> QED BY <1>1, SMTT(30) DEF Day

\* What was fetched in the past and is stale stays so, but for rows that leave the window.
LEMMA StaleStays ==
  ASSUME NEW kind, NEW day \in Nat, NEW fetched \in Nat, NEW t \in Nat, NEW u \in Nat,
         fetched <= t, t <= u, IsStale(kind, day, fetched, t), Day(u) - day <= RecentDays
  PROVE  IsStale(kind, day, fetched, u)
<1>1. /\ Day(t) \in Nat /\ Day(u) \in Nat /\ Day(fetched) \in Nat
      /\ Day(t) <= Day(u) /\ Day(fetched) <= Day(t)
  BY DayIsMonotone
<1>2. NoDataTTL \in Nat /\ RecentDays \in Nat BY FreshnessAssumption DEF FreshnessAssumption
<1> QED BY <1>1, <1>2 DEF IsStale, RowsStale, InRefreshWindow

\* Nothing was fetched in the future.
FetchedBefore ==
  /\ \A k \in Keys : current[k] # NoEntry => current[k].fetched <= now
  /\ \A a \in Agents : op[a] # NoOp => op[a].write.fetched <= now

LEMMA PointToFetched ==
  ASSUME TypeOK, NEW a \in Agents, op[a] # NoOp, FetchedBefore, NEW v, PointTo(op[a].write, v)
  PROVE  \A k \in Keys : current'[k] # NoEntry => current'[k].fetched <= now
<1> SUFFICES ASSUME NEW k \in Keys, current'[k] # NoEntry PROVE current'[k].fetched <= now
  OBVIOUS
<1>1. CASE k = op[a].write.key
  <2>1. current'[k] = [version |-> v, checksum |-> op[a].write.payload, fetched |-> op[a].write.fetched]
    BY <1>1 DEF PointTo, TypeOK
  <2> QED BY <2>1 DEF FetchedBefore
<1>2. CASE k # op[a].write.key
  BY <1>2 DEF PointTo, TypeOK, FetchedBefore
<1> QED BY <1>1, <1>2

LEMMA StepFetchedBefore ==
  ASSUME IInv, FetchedBefore, [Next]_storeVars
  PROVE  FetchedBefore'
<1>0. TypeOK /\ now \in Nat BY DEF IInv, TypeOK
<1>1. ASSUME NEW a \in Agents, NEW allow \in BOOLEAN, NEW w, w.fetched = now, BeginUpsert(a, w, allow)
      PROVE  FetchedBefore'
  <2>1. op' = [op EXCEPT ![a] = [write |-> w, allow |-> allow, row |-> current[w.key],
                                 valid |-> CurrentVersionIsValid(w.key)]]
    BY <1>1 DEF BeginUpsert
  <2>2. \A b \in Agents : op'[b] # op[b] => op'[b].write = w BY <1>0, <2>1 DEF TypeOK
  <2>3. UNCHANGED <<current, now>> BY <1>1 DEF BeginUpsert
  <2> QED BY <1>0, <1>1, <2>2, <2>3 DEF FetchedBefore
<1>2. ASSUME NEW a \in Agents, CommitUpsert(a) PROVE FetchedBefore'
  <2>1. op[a] # NoOp /\ now' = now /\ \A b \in Agents : op'[b] # NoOp => op'[b] = op[b]
    BY <1>0, <1>2 DEF CommitUpsert, TypeOK
  <2>2. (\E v : PointTo(op[a].write, v)) \/ UNCHANGED current
    BY <1>2 DEF CommitUpsert, InsertFirst, Repair, Refresh, Supersede, Idempotent, RejectConflict
  <2> QED BY <1>0, <2>1, <2>2, PointToFetched DEF FetchedBefore
<1>3. ASSUME NEW a \in Agents, AbortUpsert(a) PROVE FetchedBefore'
  BY <1>0, <1>3 DEF AbortUpsert, TypeOK, FetchedBefore
<1>4. ASSUME NEW j \in Keys, NEW v \in DOMAIN versions, Misdirect(j, v) PROVE FetchedBefore'
  <2>1. \A k \in Keys : current'[k].fetched = current[k].fetched /\ (current'[k] # NoEntry => current[k] # NoEntry)
    BY <1>0, <1>4, MisdirectShape
  <2>2. UNCHANGED <<op, now>> BY <1>4 DEF Misdirect
  <2> QED BY <2>1, <2>2 DEF FetchedBefore
<1>5. CASE (\E v \in DOMAIN versions : Damage(v)) \/ UNCHANGED storeVars
  BY <1>5 DEF Damage, storeVars, FetchedBefore
<1>6. CASE Tick
  <2>1. \A k \in Keys : current[k] # NoEntry => current[k].fetched \in Nat BY <1>0 DEF TypeOK, Pointer
  <2>2. \A a \in Agents : op[a] # NoOp => op[a].write.fetched \in Nat BY <1>0, CarriedUpsert
  <2> QED BY <1>0, <1>6, <2>1, <2>2 DEF Tick, FetchedBefore
<1> QED BY <1>1, <1>2, <1>3, <1>4, <1>5, <1>6, NextCases

LEMMA FetchedInvariant == Spec => [](IInv /\ FetchedBefore)
<1>1. Init => IInv /\ FetchedBefore BY InitIInv DEF Init, FetchedBefore
<1>2. IInv /\ FetchedBefore /\ [Next]_storeVars => (IInv /\ FetchedBefore)'
  BY StepIInv, StepFetchedBefore
<1> QED BY <1>1, <1>2, PTL DEF Spec

\* The kind of a version can be told from its checksum.
LEMMA KindIsKept ==
  ASSUME TypeOK, TypeOK', VersionsKept, NEW v \in DOMAIN versions
  PROVE  versions'[v].kind = versions[v].kind /\ versions[v].fetched \in Nat
<1>1. versions[v] \in Version BY DEF TypeOK
<1>2. versions'[v] \in Version BY DEF TypeOK, VersionsKept
<1>3. versions'[v].checksum = versions[v].checksum BY DEF VersionsKept
<1>4. NoData \notin Payloads BY StoreAssumption DEF StoreAssumption
<1> QED BY <1>1, <1>2, <1>3, <1>4 DEF Version

\* However many upserts overlap, a stale entry is served again only after a write moved its
\* pointer, or when its rows have left the refresh window.
THEOREM StaleIsCured == Spec => StaleOnlyCuredByWriteOrAge
<1> DEFINE Cured ==
             \A k \in Keys :
               (Lookup(k) = "stale" /\ Lookup(k)' = "hit") =>
                 \/ current'[k] # current[k]
                 \/ Day(now') - EntryDay[k] > RecentDays
<1>1. IInv /\ FetchedBefore /\ [Next]_storeVars => [Cured]_storeVars
  <2> SUFFICES ASSUME IInv, FetchedBefore, Next, NEW k \in Keys, Lookup(k) = "stale", Lookup(k)' = "hit",
                      current'[k] = current[k], ~(Day(now') - EntryDay[k] > RecentDays)
               PROVE  FALSE
    OBVIOUS
  <2> DEFINE v == current[k].version
  <2>1. IInv' /\ VersionsKept BY StepIInv, StepKeepsVersions DEF IInv
  <2>2. /\ Readable(k) /\ Readable(k)'
        /\ IsStale(versions[v].kind, EntryDay[k], versions[v].fetched, now)
        /\ ~IsStale(versions'[v].kind, EntryDay[k], versions'[v].fetched, now')
    BY DEF Lookup
  <2>3. current[k] # NoEntry /\ v \in DOMAIN versions /\ versions[v].key = k /\ versions'[v].key = k
    BY <2>2 DEF Readable, IInv, PointerIntegrity
  <2>4. versions[v].fetched = current[k].fetched /\ versions'[v].fetched = current[k].fetched
    BY <2>1, <2>3 DEF IInv, PointerIntegrity
  <2>5. versions'[v].kind = versions[v].kind /\ current[k].fetched \in Nat
    BY <2>1, <2>3, <2>4, KindIsKept DEF IInv
  <2>6. current[k].fetched <= now BY <2>3 DEF FetchedBefore
  <2>7. now \in Nat /\ now' \in Nat /\ now <= now'
    BY <2>1, NextCases DEF IInv, TypeOK, BeginUpsert, CommitUpsert, AbortUpsert, Damage, Misdirect, Tick
  <2>8. EntryDay[k] \in Nat /\ RecentDays \in Nat
    BY StoreAssumption, FreshnessAssumption DEF StoreAssumption, FreshnessAssumption
  <2>9. Day(now') - EntryDay[k] <= RecentDays BY <2>7, <2>8, DayIsMonotone
  <2>10. IsStale(versions[v].kind, EntryDay[k], current[k].fetched, now')
    BY <2>2, <2>4, <2>5, <2>6, <2>7, <2>8, <2>9, StaleStays
  <2> QED BY <2>2, <2>4, <2>5, <2>10
<1> QED BY <1>1, FetchedInvariant, PTL DEF Spec, StaleOnlyCuredByWriteOrAge

-----------------------------------------------------------------------------
(* What holds when upserts do not overlap: there is one connection *)

OneAgent == \A a, b \in Agents : a = b

\* What the only agent has read is what the tables say until it commits: the pointer row, but
\* for a misdirected version, and a valid version is the newest of its key.
ReadIsCurrent ==
  \A a \in Agents : op[a] # NoOp =>
    LET k == op[a].write.key
    IN  /\ op[a].row = NoEntry => current[k] = NoEntry
        /\ op[a].row # NoEntry =>
             /\ current[k] # NoEntry
             /\ current[k].checksum = op[a].row.checksum
             /\ \/ current[k].version = op[a].row.version
                \/ versions[current[k].version].key # k
             /\ op[a].valid =>
                  \A v \in DOMAIN versions : versions[v].key = k => v <= op[a].row.version

\* An entry whose version is the key's own and has its checksum, be its kind known or not: the
\* writer builds on it although it may not be served, so its pointer too must name the newest.
Intact(k) ==
  /\ current[k] # NoEntry
  /\ versions[current[k].version].key = k
  /\ versions[current[k].version].intact

IntactIsNewest ==
  \A k \in Keys : Intact(k) =>
    \A v \in DOMAIN versions : versions[v].key = k => v <= current[k].version

SerialIInv == IInv /\ ReadIsCurrent /\ IntactIsNewest

\* Steps that touch neither an upsert in progress nor the pointers.
LEMMA ReadStays ==
  ASSUME IInv, ReadIsCurrent, VersionsKept, DOMAIN versions' = DOMAIN versions,
         UNCHANGED <<current, op>>
  PROVE  ReadIsCurrent'
<1> SUFFICES ASSUME NEW a \in Agents, op[a] # NoOp
             PROVE  LET k == op[a].write.key
                    IN  /\ op[a].row = NoEntry => current[k] = NoEntry
                        /\ op[a].row # NoEntry =>
                             /\ current[k] # NoEntry
                             /\ current[k].checksum = op[a].row.checksum
                             /\ \/ current[k].version = op[a].row.version
                                \/ versions'[current[k].version].key # k
                             /\ op[a].valid =>
                                  \A v \in DOMAIN versions' :
                                    versions'[v].key = k => v <= op[a].row.version
  BY DEF ReadIsCurrent
<1>1. op[a].write.key \in Keys BY CarriedUpsert DEF IInv
<1>2. current[op[a].write.key] # NoEntry => current[op[a].write.key].version \in DOMAIN versions
  BY <1>1 DEF IInv, PointerIntegrity
<1> QED BY <1>2 DEF ReadIsCurrent, VersionsKept

\* A read step reads the pointer row; if its version is valid, it is the newest.
LEMMA BeginReadIsCurrent ==
  ASSUME IInv, OneAgent, IntactIsNewest, NEW a \in Agents, NEW allow, NEW w, w.key \in Keys,
         BeginUpsert(a, w, allow)
  PROVE  ReadIsCurrent'
<1>1. /\ op'[a].write = w /\ op'[a].row = current[w.key]
      /\ op'[a].valid = CurrentVersionIsValid(w.key)
      /\ UNCHANGED <<versions, current>>
  BY DEF BeginUpsert, IInv, TypeOK
<1>2. CurrentVersionIsValid(w.key) => Intact(w.key)
  BY DEF CurrentVersionIsValid, Intact
<1>3. \A b \in Agents : b = a BY DEF OneAgent
<1> QED BY <1>1, <1>2, <1>3 DEF ReadIsCurrent, IntactIsNewest

\* A pointer to a new version, later than all, is the newest.
LEMMA AppendIsNewest ==
  ASSUME TypeOK, IntactIsNewest, PointerIntegrity, VersionsKept, NEW w \in Write, PointTo(w, Len(versions) + 1),
         DOMAIN versions' = DOMAIN versions \cup {Len(versions) + 1},
         versions'[Len(versions) + 1].key = w.key
  PROVE  IntactIsNewest'
<1>1. DOMAIN versions \subseteq 1..Len(versions) /\ Len(versions) \in Nat BY DEF TypeOK
<1> SUFFICES ASSUME NEW k \in Keys, Intact(k)', NEW v \in DOMAIN versions', versions'[v].key = k
             PROVE  v <= current'[k].version
  BY DEF IntactIsNewest
<1>2. CASE k = w.key
  <2>1. current'[k].version = Len(versions) + 1 BY <1>2 DEF PointTo, TypeOK
  <2> QED BY <1>1, <2>1
<1>3. CASE k # w.key
  <2>1. current'[k] = current[k] BY <1>3 DEF PointTo, TypeOK
  <2>2. v \in DOMAIN versions BY <1>3
  <2>3. current[k] # NoEntry /\ current[k].version \in DOMAIN versions
    BY <2>1 DEF Intact, PointerIntegrity
  <2>4. Intact(k) /\ versions[v].key = k BY <2>1, <2>2, <2>3 DEF Intact, VersionsKept
  <2> QED BY <2>1, <2>2, <2>4 DEF IntactIsNewest
<1> QED BY <1>2, <1>3

\* A commit of the only agent points to the newest version of its key.
LEMMA CommitIsNewest ==
  ASSUME SerialIInv, NEW a \in Agents, CommitUpsert(a)
  PROVE  IntactIsNewest'
<1> DEFINE o == op[a]
<1>0. TypeOK /\ PointerIntegrity /\ OpSound /\ IntactIsNewest BY DEF SerialIInv, IInv
<1>1. o # NoOp /\ o.write \in Write /\ o.write.key \in Keys
  BY <1>0, CarriedUpsert DEF CommitUpsert
<1>2. VersionsKept BY <1>0, CommitKeepsVersions
<1>3. CASE InsertFirst(o) \/ Repair(o)
  <2>1. PICK p \in Nat : versions' = Append(versions, NewVersion(o.write, p))
    BY <1>0, <1>1, <1>3, StatusNeedsRow, CarriedUpsert DEF InsertFirst, Repair
  <2>2. PointTo(o.write, Len(versions) + 1) BY <1>3 DEF InsertFirst, Repair
  <2> QED BY <1>0, <1>1, <1>2, <2>1, <2>2, AppendShape, NewVersionFields, AppendIsNewest
<1>4. CASE Supersede(o)
  <2>1. /\ DOMAIN versions' = DOMAIN versions \cup {Len(versions) + 1}
        /\ versions'[Len(versions) + 1].key = o.write.key
    <3>1. /\ DOMAIN versions' = DOMAIN versions \cup {Len(versions) + 1}
          /\ versions'[Len(versions) + 1] = NewVersion(o.write, o.row.version)
      BY <1>0, <1>1, <1>4, SupersedeShape
    <3> QED BY <3>1, NewVersionFields
  <2>2. PointTo(o.write, Len(versions) + 1) BY <1>4 DEF Supersede
  <2> QED BY <1>0, <1>1, <1>2, <2>1, <2>2, AppendIsNewest
<1>5. CASE Refresh(o)
  <2> DEFINE n == o.row.version
  <2>1. o.row # NoEntry /\ o.valid BY <1>5, StatusNeedsRow DEF Refresh
  <2>2. \A v \in DOMAIN versions : versions[v].key = o.write.key => v <= n
    BY <1>1, <2>1 DEF SerialIInv, ReadIsCurrent
  <2>3. DOMAIN versions' = DOMAIN versions BY <1>0, <1>1, <1>5, RefreshShape
  <2>4. PointTo(o.write, n) BY <1>5 DEF Refresh
  <2> SUFFICES ASSUME NEW k \in Keys, Intact(k)', NEW v \in DOMAIN versions, versions'[v].key = k
               PROVE  v <= current'[k].version
    BY <2>3 DEF IntactIsNewest
  <2>5. versions[v].key = k BY <1>2 DEF VersionsKept
  <2>6. CASE k = o.write.key
    <3>1. current'[k].version = n BY <1>0, <2>4, <2>6 DEF PointTo, TypeOK
    <3> QED BY <2>2, <2>5, <2>6, <3>1
  <2>7. CASE k # o.write.key
    <3>1. current'[k] = current[k] BY <1>0, <2>4, <2>7 DEF PointTo, TypeOK
    <3>2. current[k].version \in DOMAIN versions BY <1>0, <3>1 DEF Intact, PointerIntegrity
    <3>3. Intact(k) BY <1>2, <3>1, <3>2 DEF Intact, VersionsKept
    <3> QED BY <1>0, <2>5, <3>1, <3>3 DEF IntactIsNewest
  <2> QED BY <2>6, <2>7
<1>6. CASE Idempotent(o) \/ RejectConflict(o)
  BY <1>0, <1>6 DEF Idempotent, RejectConflict, IntactIsNewest, Intact
<1> QED BY <1>3, <1>4, <1>5, <1>6 DEF CommitUpsert

\* The invariant of the only agent is preserved.
LEMMA StepSerial ==
  ASSUME OneAgent, SerialIInv, [Next]_storeVars
  PROVE  ReadIsCurrent' /\ IntactIsNewest'
<1>0. IInv /\ TypeOK /\ PointerIntegrity /\ OpSound /\ ReadIsCurrent /\ IntactIsNewest
  BY DEF SerialIInv, IInv
<1>1. VersionsKept BY <1>0, StepKeepsVersions
<1>2. ASSUME NEW a \in Agents, NEW allow \in BOOLEAN, NEW w, w.key \in Keys,
             BeginUpsert(a, w, allow)
      PROVE  ReadIsCurrent' /\ IntactIsNewest'
  <2>1. UNCHANGED <<versions, current>> BY <1>2 DEF BeginUpsert
  <2> QED BY <1>0, <1>2, <2>1, BeginReadIsCurrent DEF IntactIsNewest, Intact
<1>3. ASSUME NEW a \in Agents, CommitUpsert(a) PROVE ReadIsCurrent' /\ IntactIsNewest'
  <2>1. op'[a] = NoOp /\ \A b \in Agents : b = a
    BY <1>0, <1>3 DEF CommitUpsert, TypeOK, OneAgent
  <2> QED BY <1>3, <2>1, CommitIsNewest DEF ReadIsCurrent
<1>4. ASSUME NEW a \in Agents, AbortUpsert(a) PROVE ReadIsCurrent' /\ IntactIsNewest'
  <2>1. op'[a] = NoOp /\ \A b \in Agents : b = a
    BY <1>0, <1>4 DEF AbortUpsert, TypeOK, OneAgent
  <2> QED BY <1>0, <1>4, <2>1 DEF AbortUpsert, ReadIsCurrent, IntactIsNewest, Intact
<1>5. ASSUME NEW i \in DOMAIN versions, Damage(i) PROVE ReadIsCurrent' /\ IntactIsNewest'
  <2>1. DOMAIN versions' = DOMAIN versions /\ UNCHANGED <<current, op>>
    BY <1>0, <1>5, DamageShape DEF Damage
  <2>2. \A k \in Keys : Intact(k)' => Intact(k)
    BY <1>0, <1>1, <2>1 DEF Intact, PointerIntegrity, VersionsKept
  <2>3. IntactIsNewest' BY <1>0, <1>1, <2>1, <2>2 DEF IntactIsNewest, VersionsKept
  <2> QED BY <1>0, <1>1, <2>1, <2>3, ReadStays
<1>6. ASSUME NEW k \in Keys, NEW v \in DOMAIN versions, Misdirect(k, v)
      PROVE  ReadIsCurrent' /\ IntactIsNewest'
  <2>1. /\ current[k] \in Pointer /\ versions[v].key # k
        /\ UNCHANGED <<versions, op>>
        /\ \A j \in Keys \ {k} : current'[j] = current[j]
    BY <1>0, <1>6 DEF Misdirect, TypeOK
  <2>2. current'[k] # NoEntry /\ current'[k].version = v /\ current'[k].checksum = current[k].checksum
    <3> DEFINE moved == [current[k] EXCEPT !.version = v]
    <3>1. current' = [current EXCEPT ![k] = moved] BY <1>6 DEF Misdirect
    <3>2. moved.version = v /\ moved.checksum = current[k].checksum /\ moved \in Pointer
      BY <1>0, <2>1 DEF Pointer, TypeOK
    <3>3. moved # NoEntry BY <3>2, StoreAssumption DEF StoreAssumption
    <3>4. DOMAIN current = Keys BY <1>0 DEF TypeOK
    <3> HIDE DEF moved
    <3>5. current'[k] = moved BY <3>1, <3>4
    <3> QED BY <3>2, <3>3, <3>5
  <2>3. ReadIsCurrent'
    <3>1. \A a \in Agents : op[a] # NoOp => op[a].write.key \in Keys BY <1>0, CarriedUpsert
    <3>2. current[k] # NoEntry BY <1>6 DEF Misdirect
    <3> QED BY <1>0, <2>1, <2>2, <3>1, <3>2 DEF ReadIsCurrent
  <2>4. IntactIsNewest' BY <1>0, <2>1, <2>2 DEF IntactIsNewest, Intact
  <2> QED BY <2>3, <2>4
<1>7. CASE Tick \/ UNCHANGED storeVars
  <2>1. UNCHANGED <<versions, current, op>> BY <1>7 DEF Tick, storeVars
  <2> QED BY <1>0, <2>1 DEF ReadIsCurrent, IntactIsNewest, Intact
<1> QED BY <1>2, <1>3, <1>4, <1>5, <1>6, <1>7, NextCases

LEMMA SerialInvariant == ASSUME OneAgent PROVE Spec => []SerialIInv
<1>1. Init => SerialIInv
  BY InitIInv DEF Init, SerialIInv, ReadIsCurrent, IntactIsNewest, Intact
<1>2. SerialIInv /\ [Next]_storeVars => SerialIInv'
  BY StepIInv, StepSerial DEF SerialIInv
<1> QED BY <1>1, <1>2, PTL DEF Spec

\* When upserts do not overlap, the pointer of a usable entry names the newest version of its
\* key, also after damage, misdirected pointers and rollbacks.
THEOREM SerialCurrentIsNewest == ASSUME OneAgent PROVE Spec => []CurrentIsNewest
<1>1. SerialIInv => CurrentIsNewest
  BY DEF SerialIInv, IntactIsNewest, CurrentIsNewest, Intact, Readable
<1> QED BY <1>1, SerialInvariant, PTL

\* The correction a commit of the only agent makes is on record with both versions.
LEMMA SerialCorrection ==
  ASSUME SerialIInv, NEW a \in Agents, CommitUpsert(a), NEW k \in Keys,
         CurrentVersionIsValid(k), current'[k].checksum # current[k].checksum
  PROVE  \E c \in conflicts' : /\ c.resolution = "SUPERSEDED"
                              /\ c.previous = current[k].version
                              /\ c.incoming = current'[k].version
<1> DEFINE o == op[a]
<1>0. TypeOK /\ PointerIntegrity /\ OpSound /\ ReadIsCurrent BY DEF SerialIInv, IInv
<1>1. o # NoOp /\ o.write \in Write /\ o.write.key \in Keys
  BY <1>0, CarriedUpsert DEF CommitUpsert
<1>2. current[k] # NoEntry /\ versions[current[k].version].key = k /\ versions[current[k].version].intact
  BY DEF CurrentVersionIsValid
<1>3. \A v : PointTo(o.write, v) =>
        k = o.write.key /\ current'[k].version = v /\ current'[k].checksum = o.write.payload
  BY <1>0 DEF PointTo, TypeOK
<1>4. CASE InsertFirst(o)
  BY <1>0, <1>1, <1>2, <1>3, <1>4, StatusNeedsRow DEF InsertFirst, ReadIsCurrent
<1>5. CASE Repair(o)
  <2>1. o.row # NoEntry /\ ~o.valid /\ k = o.write.key
    BY <1>3, <1>5, StatusNeedsRow DEF Repair
  <2>2. current[k].version = o.row.version BY <1>0, <1>1, <1>2, <2>1 DEF ReadIsCurrent
  <2> QED BY <1>0, <1>1, <1>2, <2>1, <2>2 DEF OpSound
<1>6. CASE Refresh(o)
  <2>1. o.row # NoEntry /\ o.row.checksum = o.write.payload /\ k = o.write.key
    BY <1>3, <1>6, StatusNeedsRow DEF Refresh
  <2> QED BY <1>0, <1>1, <1>3, <1>6, <2>1 DEF Refresh, ReadIsCurrent
<1>7. CASE Idempotent(o) \/ RejectConflict(o)
  BY <1>7 DEF Idempotent, RejectConflict
<1>8. CASE Supersede(o)
  <2> DEFINE row == RecordedConflict(o, Len(versions) + 1, "SUPERSEDED")
  <2>1. o.row # NoEntry /\ k = o.write.key /\ current'[k].version = Len(versions) + 1
    BY <1>3, <1>8, StatusNeedsRow DEF Supersede
  <2>2. current[k].version = o.row.version BY <1>0, <1>1, <1>2, <2>1 DEF ReadIsCurrent
  <2>3. row \in conflicts' BY <1>8 DEF Supersede
  <2>4. row.resolution = "SUPERSEDED" /\ row.previous = o.row.version /\ row.incoming = Len(versions) + 1
    BY DEF RecordedConflict
  <2> QED BY <2>1, <2>2, <2>3, <2>4
<1> QED BY <1>4, <1>5, <1>6, <1>7, <1>8 DEF CommitUpsert

\* When upserts do not overlap, a usable payload gives way to a different one only with a
\* conflict row that names both versions.
THEOREM SerialCorrectionsRecorded == ASSUME OneAgent PROVE Spec => CorrectionsAreRecorded
<1> DEFINE Recorded ==
             \A k \in Keys :
               (/\ CurrentVersionIsValid(k)
                /\ current'[k].checksum # current[k].checksum) =>
                  \E c \in conflicts' :
                    /\ c.resolution = "SUPERSEDED"
                    /\ c.previous = current[k].version
                    /\ c.incoming = current'[k].version
<1>1. SerialIInv /\ [Next]_storeVars => [Recorded]_storeVars
  <2> SUFFICES ASSUME SerialIInv, Next, NEW k \in Keys, CurrentVersionIsValid(k),
                      current'[k].checksum # current[k].checksum
               PROVE  \E c \in conflicts' : /\ c.resolution = "SUPERSEDED"
                                           /\ c.previous = current[k].version
                                           /\ c.incoming = current'[k].version
    OBVIOUS
  <2>1. ASSUME NEW j \in Keys, NEW v \in DOMAIN versions, Misdirect(j, v)
        PROVE  current'[k].checksum = current[k].checksum
    <3>1. current' = [current EXCEPT ![j] = [current[j] EXCEPT !.version = v]] /\ current[j] # NoEntry
      BY <2>1 DEF Misdirect
    <3>2. current \in [Keys -> Pointer \cup {NoEntry}] BY DEF SerialIInv, IInv, TypeOK
    <3> QED BY <3>1, <3>2 DEF Pointer
  <2> QED BY <2>1, NextCases, SerialCorrection DEF BeginUpsert, AbortUpsert, Damage, Tick
<1> QED BY <1>1, SerialInvariant, PTL DEF Spec, CorrectionsAreRecorded
=============================================================================
