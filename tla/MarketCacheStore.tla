--------------------------- MODULE MarketCacheStore ---------------------------
(***************************************************************************)
(* The versioned market-data cache kept in SQLite by MarketCacheStore      *)
(* (backend/app/data/market_cache.py).                                     *)
(*                                                                         *)
(* Two tables matter: one row per version of a payload                     *)
(* (market_cache_entry_versions) and, per key, one row that points to the  *)
(* version to serve (market_cache_current_entries).  A third one,          *)
(* market_cache_conflicts, records every provider correction.              *)
(*                                                                         *)
(* upsert is not atomic between connections.  Python's sqlite3 opens a     *)
(* transaction at the first INSERT or UPDATE, so the two SELECTs that      *)
(* decide what to do run before it: an upsert is a read step followed by   *)
(* one atomic commit that may find the tables changed.  An agent is a      *)
(* thread of control with its own connection.                              *)
(*                                                                         *)
(* A payload stands for its checksum (SHA-256 of its canonical JSON).      *)
(***************************************************************************)
EXTENDS CacheFreshness, Sequences, FiniteSets

CONSTANTS
  Keys,          \* cache identities
  Payloads,      \* contents the provider may return for a key
  NoData,        \* the payload of a "provider returned no row" marker
  NoDataKeys,    \* keys whose endpoint contract allows no-data payloads
  EntryDay,      \* the day a key's date_key names
  Agents,        \* connections
  NoEntry, NoOp, \* "no current row" and "no upsert in progress"
  MaxVersions,   \* bound on the number of versions
  MaxDamage,     \* bound on the number of damaged columns
  MaxTime        \* bound on the clock

VARIABLES
  versions,      \* market_cache_entry_versions, in order of insertion
  current,       \* market_cache_current_entries
  conflicts,     \* market_cache_conflicts
  op,            \* the upsert each agent has read for and not yet committed
  now            \* the wall clock

storeVars == <<versions, current, conflicts, op, now>>

-----------------------------------------------------------------------------
(* Rows and requests *)

Write ==
  [key: Keys, kind: {"ROWS"}, payload: Payloads, fetched: Nat]
    \cup [key: NoDataKeys, kind: {"PROVISIONAL_NO_DATA"}, payload: {NoData}, fetched: Nat]

\* intact: payload_json still has the row's checksum and the schema version is
\* the current one.  kindKnown: the column payload_kind still holds kind, and not
\* a name that is no CachePayloadKind.  supersedes = 0: supersedes_version_id is
\* NULL.
Version ==
  [key: Keys, kind: {"ROWS"}, checksum: Payloads, intact: BOOLEAN, kindKnown: BOOLEAN,
   fetched: Nat, supersedes: Nat, superseded: BOOLEAN]
    \cup [key: NoDataKeys, kind: {"PROVISIONAL_NO_DATA"}, checksum: {NoData}, intact: BOOLEAN,
          kindKnown: BOOLEAN, fetched: Nat, supersedes: Nat, superseded: BOOLEAN]

Pointer == [version: Nat \ {0}, checksum: Payloads \cup {NoData}, fetched: Nat]

\* incoming = 0: incoming_version_id is NULL.
Conflict ==
  [key: Keys, previous: Nat \ {0}, incoming: Nat, resolution: {"SUPERSEDED", "REJECTED"},
   previousChecksum: Payloads \cup {NoData}, incomingChecksum: Payloads \cup {NoData}]

Upsert == [write: Write, allow: BOOLEAN, row: Pointer \cup {NoEntry}, valid: BOOLEAN]

\* What is seen of an entry and of an upsert from outside (see Register below).
Value == [kind: {"ROWS", "PROVISIONAL_NO_DATA"}, payload: Payloads \cup {NoData}, fetched: Nat]

Request == [write: Write, allow: BOOLEAN, found: Payloads \cup {NoData, NoEntry}]

ASSUME StoreAssumption ==
  /\ NoData \notin Payloads
  /\ NoDataKeys \subseteq Keys
  /\ EntryDay \in [Keys -> Nat]
  /\ NoEntry \notin Pointer \cup Value \cup Payloads \cup {NoData}
  /\ NoOp \notin Upsert \cup Request
  /\ MaxVersions \in Nat
  /\ MaxDamage \in Nat
  /\ MaxTime \in Nat

-----------------------------------------------------------------------------
(* Reading *)

\* read_many: the join takes a version only under the identity it was stored
\* for; a damaged row, or one whose kind is none it knows, is a miss.
Readable(k) ==
  /\ current[k] # NoEntry
  /\ versions[current[k].version].key = k
  /\ versions[current[k].version].intact
  /\ versions[current[k].version].kindKnown

Lookup(k) ==
  IF ~Readable(k) THEN "miss"
  ELSE LET v == versions[current[k].version]
       IN  IF IsStale(v.kind, EntryDay[k], v.fetched, now) THEN "stale" ELSE "hit"

\* Mutant: the writer does not test the payload against its checksum.
CurrentVersionIsValidUntested(k) ==
  /\ current[k] # NoEntry
  /\ versions[current[k].version].key = k
  /\ versions[current[k].version].checksum = current[k].checksum

\* _current_version_is_valid also compares the checksum kept in the pointer, and
\* it does not look at the kind.
CurrentVersionIsValid(k) ==
  /\ current[k] # NoEntry
  /\ versions[current[k].version].key = k
  /\ versions[current[k].version].checksum = current[k].checksum
  /\ versions[current[k].version].intact

-----------------------------------------------------------------------------
(* Upsert *)

\* Mutant: the endpoint contract is not consulted.
AnyCacheWrite(w) == TRUE

\* validate_cache_write
ValidCacheWrite(w) == w.kind # "ROWS" => w.key \in NoDataKeys

\* Mutant: equal checksums are not recognised.
UpsertStatusWithoutIdempotence(o) ==
  CASE o.row = NoEntry -> "inserted"
    [] o.row # NoEntry /\ ~o.valid -> "repaired"
    [] o.row # NoEntry /\ o.valid -> IF o.allow THEN "superseded" ELSE "conflict_rejected"

\* Mutant: allow_provider_correction is not consulted.
UpsertStatusAlwaysCorrects(o) ==
  CASE o.row = NoEntry -> "inserted"
    [] o.row # NoEntry /\ ~o.valid -> "repaired"
    [] o.row # NoEntry /\ o.valid /\ o.row.checksum = o.write.payload ->
         IF o.write.kind = "PROVISIONAL_NO_DATA" THEN "refreshed" ELSE "idempotent"
    [] o.row # NoEntry /\ o.valid /\ o.row.checksum # o.write.payload -> "superseded"

\* What upsert decides from the rows it has read.
UpsertStatus(o) ==
  CASE o.row = NoEntry -> "inserted"
    [] o.row # NoEntry /\ ~o.valid -> "repaired"
    [] o.row # NoEntry /\ o.valid /\ o.row.checksum = o.write.payload ->
         IF o.write.kind = "PROVISIONAL_NO_DATA" THEN "refreshed" ELSE "idempotent"
    [] o.row # NoEntry /\ o.valid /\ o.row.checksum # o.write.payload ->
         IF o.allow THEN "superseded" ELSE "conflict_rejected"

BeginUpsert(a, w, allow) ==
  /\ op[a] = NoOp
  /\ ValidCacheWrite(w)
  /\ op' = [op EXCEPT ![a] = [write |-> w, allow |-> allow, row |-> current[w.key],
                              valid |-> CurrentVersionIsValid(w.key)]]
  /\ UNCHANGED <<versions, current, conflicts, now>>

NewVersion(w, previous) ==
  [key |-> w.key, kind |-> w.kind, checksum |-> w.payload, intact |-> TRUE,
   kindKnown |-> TRUE, fetched |-> w.fetched, supersedes |-> previous, superseded |-> FALSE]

\* Mutant: the pointer keeps the checksum of the version it left.
PointToOldChecksum(w, v) ==
  current' = [current EXCEPT ![w.key] =
                [version |-> v, fetched |-> w.fetched,
                 checksum |-> IF @ = NoEntry THEN w.payload ELSE @.checksum]]

PointTo(w, v) ==
  current' = [current EXCEPT ![w.key] =
                [version |-> v, checksum |-> w.payload, fetched |-> w.fetched]]

\* Mutant: the two checksums change places.
RecordedConflictSwapped(o, incoming, resolution) ==
  [key |-> o.write.key, previous |-> o.row.version, incoming |-> incoming,
   resolution |-> resolution, previousChecksum |-> o.write.payload,
   incomingChecksum |-> o.row.checksum]

RecordedConflict(o, incoming, resolution) ==
  [key |-> o.write.key, previous |-> o.row.version, incoming |-> incoming,
   resolution |-> resolution, previousChecksum |-> o.row.checksum,
   incomingChecksum |-> o.write.payload]

InsertFirst(o) ==
  /\ UpsertStatus(o) = "inserted"
  /\ versions' = Append(versions, NewVersion(o.write, 0))
  /\ PointTo(o.write, Len(versions) + 1)
  /\ UNCHANGED conflicts

\* The unusable version keeps its row; it is neither marked superseded nor
\* recorded as a conflict.
Repair(o) ==
  /\ UpsertStatus(o) = "repaired"
  /\ versions' = Append(versions, NewVersion(o.write, o.row.version))
  /\ PointTo(o.write, Len(versions) + 1)
  /\ UNCHANGED conflicts

\* Mutant: the pointer row keeps its old fetch time.
RefreshVersionOnly(o) ==
  /\ UpsertStatus(o) = "refreshed"
  /\ versions' = [versions EXCEPT ![o.row.version].fetched = o.write.fetched]
  /\ UNCHANGED <<current, conflicts>>

\* A repeated no-data marker only moves the time it was fetched.
Refresh(o) ==
  /\ UpsertStatus(o) = "refreshed"
  /\ versions' = [versions EXCEPT ![o.row.version].fetched = o.write.fetched]
  /\ PointTo(o.write, o.row.version)
  /\ UNCHANGED conflicts

\* Rows that did not change leave every table as it is, fetched_at included.
Idempotent(o) ==
  /\ UpsertStatus(o) = "idempotent"
  /\ UNCHANGED <<versions, current, conflicts>>

RejectConflict(o) ==
  /\ UpsertStatus(o) = "conflict_rejected"
  /\ conflicts' = conflicts \cup {RecordedConflict(o, 0, "REJECTED")}
  /\ UNCHANGED <<versions, current>>

\* Mutant: the previous version is not marked.
SupersedeUnmarked(o) ==
  /\ UpsertStatus(o) = "superseded"
  /\ versions' = Append(versions, NewVersion(o.write, o.row.version))
  /\ conflicts' = conflicts \cup {RecordedConflict(o, Len(versions) + 1, "SUPERSEDED")}
  /\ PointTo(o.write, Len(versions) + 1)

\* Mutant: the correction leaves no conflict row.
SupersedeUnrecorded(o) ==
  /\ UpsertStatus(o) = "superseded"
  /\ versions' = Append([versions EXCEPT ![o.row.version].superseded = TRUE],
                        NewVersion(o.write, o.row.version))
  /\ PointTo(o.write, Len(versions) + 1)
  /\ UNCHANGED conflicts

\* Mutant: the correction overwrites the version instead of adding one.
SupersedeInPlace(o) ==
  /\ UpsertStatus(o) = "superseded"
  /\ versions' = [versions EXCEPT ![o.row.version].checksum = o.write.payload,
                                  ![o.row.version].fetched = o.write.fetched]
  /\ conflicts' = conflicts \cup {RecordedConflict(o, o.row.version, "SUPERSEDED")}
  /\ PointTo(o.write, o.row.version)

\* Mutant: the pointer stays on the version just superseded.
SupersedeKeepsPointer(o) ==
  /\ UpsertStatus(o) = "superseded"
  /\ versions' = Append([versions EXCEPT ![o.row.version].superseded = TRUE],
                        NewVersion(o.write, o.row.version))
  /\ conflicts' = conflicts \cup {RecordedConflict(o, Len(versions) + 1, "SUPERSEDED")}
  /\ UNCHANGED current

Supersede(o) ==
  /\ UpsertStatus(o) = "superseded"
  /\ versions' = Append([versions EXCEPT ![o.row.version].superseded = TRUE],
                        NewVersion(o.write, o.row.version))
  /\ conflicts' = conflicts \cup {RecordedConflict(o, Len(versions) + 1, "SUPERSEDED")}
  /\ PointTo(o.write, Len(versions) + 1)

CommitUpsert(a) ==
  /\ op[a] # NoOp
  /\ \/ InsertFirst(op[a])
     \/ Repair(op[a])
     \/ Refresh(op[a])
     \/ Idempotent(op[a])
     \/ RejectConflict(op[a])
     \/ Supersede(op[a])
  /\ op' = [op EXCEPT ![a] = NoOp]
  /\ UNCHANGED now

\* The transaction raises ("database is locked", disk full) and rolls back.
AbortUpsert(a) ==
  /\ op[a] # NoOp
  /\ op' = [op EXCEPT ![a] = NoOp]
  /\ UNCHANGED <<versions, current, conflicts, now>>

-----------------------------------------------------------------------------
(* The environment *)

\* How many columns of the stored rows are damaged.
DamagedColumns ==
  Cardinality({v \in DOMAIN versions : ~versions[v].intact})
    + Cardinality({v \in DOMAIN versions : ~versions[v].kindKnown})

\* A row's payload no longer has its checksum or its schema version is not the
\* current one; or its kind is a name this program does not know, as in a row of
\* a later release.
Damage(v) ==
  /\ DamagedColumns < MaxDamage
  /\ \/ /\ versions[v].intact
        /\ versions' = [versions EXCEPT ![v].intact = FALSE]
     \/ /\ versions[v].kindKnown
        /\ versions' = [versions EXCEPT ![v].kindKnown = FALSE]
  /\ UNCHANGED <<current, conflicts, op, now>>

\* A pointer row names a version of another key.
Misdirect(k, v) ==
  /\ current[k] # NoEntry
  /\ versions[v].key # k
  /\ current' = [current EXCEPT ![k].version = v]
  /\ UNCHANGED <<versions, conflicts, op, now>>

Tick ==
  /\ now < MaxTime
  /\ now' = now + 1
  /\ UNCHANGED <<versions, current, conflicts, op>>

-----------------------------------------------------------------------------

Init ==
  /\ versions = << >>
  /\ current = [k \in Keys |-> NoEntry]
  /\ conflicts = {}
  /\ op = [a \in Agents |-> NoOp]
  /\ now = 0

\* Leaves room for a version per upsert in progress (bounds the model).
HasRoom == Len(versions) + Cardinality({a \in Agents : op[a] # NoOp}) < MaxVersions

Next ==
  \/ /\ HasRoom
     /\ \E a \in Agents, allow \in BOOLEAN, k \in Keys :
          \/ \E p \in Payloads :
               BeginUpsert(a, [key |-> k, kind |-> "ROWS", payload |-> p, fetched |-> now], allow)
          \/ BeginUpsert(a, [key |-> k, kind |-> "PROVISIONAL_NO_DATA", payload |-> NoData,
                             fetched |-> now], allow)
  \/ \E a \in Agents : CommitUpsert(a) \/ AbortUpsert(a)
  \/ \E v \in DOMAIN versions : Damage(v)
  \/ \E k \in Keys, v \in DOMAIN versions : Misdirect(k, v)
  \/ Tick

Spec == Init /\ [][Next]_storeVars

-----------------------------------------------------------------------------
(* Properties *)

\* Every variable ranges over the rows and requests defined above; in particular
\* no endpoint that disallows them ever holds a no-data marker.
TypeOK ==
  /\ versions \in Seq(Version)
  /\ current \in [Keys -> Pointer \cup {NoEntry}]
  /\ conflicts \in SUBSET Conflict
  /\ op \in [Agents -> Upsert \cup {NoOp}]
  /\ now \in Nat

\* A pointer row names a stored version, and unless that version belongs to
\* another key it repeats the version's checksum and fetch time.  The two rows
\* are written by separate statements, and a commit may act on a row another
\* connection has replaced since.
PointerIntegrity ==
  \A k \in Keys : current[k] # NoEntry =>
    /\ current[k].version \in DOMAIN versions
    /\ LET v == versions[current[k].version]
       IN  v.key = k => /\ v.checksum = current[k].checksum
                        /\ v.fetched = current[k].fetched

\* read_many (market_cache.py:203) and _current_version_is_valid (529) test
\* different columns.  No entry that is served is ever replaced as unusable,
\* without a conflict row, although the writer goes by the checksum that another
\* statement put into the pointer row; and what the reader refuses the writer
\* repairs, with one exception: a row of a kind that is not known is refused by
\* every read and left as it is by every upsert of the same rows.
OnlyUnknownKindsAreStuck ==
  \A k \in Keys : current[k] # NoEntry =>
    /\ Readable(k) => CurrentVersionIsValid(k)
    /\ (CurrentVersionIsValid(k) /\ ~Readable(k)) => ~versions[current[k].version].kindKnown

\* A version is marked superseded if and only if a conflict row says by what.
SupersededIffRecorded ==
  \A v \in DOMAIN versions :
    versions[v].superseded <=>
      \E c \in conflicts : c.resolution = "SUPERSEDED" /\ c.previous = v

\* Where a version replaced another one, either the correction is on record with
\* the two checksums, or the replaced version was unusable for the key.
CorrectionsAreExplained ==
  \A v \in DOMAIN versions :
    LET p == versions[v].supersedes
    IN  p # 0 =>
          /\ p < v
          /\ \/ ~versions[p].intact
             \/ versions[p].key # versions[v].key
             \/ \E c \in conflicts :
                  /\ c.resolution = "SUPERSEDED" /\ c.previous = p /\ c.incoming = v
                  /\ c.previousChecksum = versions[p].checksum
                  /\ c.incomingChecksum = versions[v].checksum

\* The ledger of corrections is complete in both directions: what is marked is on
\* record, and what replaced something usable is too (docs/design/local-market-data-cache.md:181).
LedgerConsistent == SupersededIffRecorded /\ CorrectionsAreExplained

\* Versions are never removed and what they store never changes; only the fetch
\* time of a no-data marker may move (docs/design/local-market-data-cache.md:181).
PayloadsImmutable ==
  [][\A v \in DOMAIN versions :
       /\ v \in DOMAIN versions'
       /\ versions'[v].key = versions[v].key
       /\ versions'[v].checksum = versions[v].checksum
       /\ versions'[v].supersedes = versions[v].supersedes
       /\ versions[v].superseded => versions'[v].superseded
       /\ versions[v].kind = "ROWS" => versions'[v].fetched = versions[v].fetched]_storeVars

\* A stale entry is served again only after a write moved its version or fetch
\* time, or because its rows have left the refresh window.
StaleOnlyCuredByWriteOrAge ==
  [][\A k \in Keys :
       (Lookup(k) = "stale" /\ Lookup(k)' = "hit") =>
         \/ current'[k] # current[k]
         \/ Day(now') - EntryDay[k] > RecentDays]_storeVars

\* The pointer names the newest version of its key.  Holds when upserts do not
\* overlap.
CurrentIsNewest ==
  \A k \in Keys : Readable(k) =>
    \A v \in DOMAIN versions : versions[v].key = k => v <= current[k].version

\* A usable payload gives way to a different one only with a conflict row that
\* names both versions (docs/design/local-market-data-cache.md:388).  Holds when
\* upserts do not overlap.
CorrectionsAreRecorded ==
  [][\A k \in Keys :
       (/\ CurrentVersionIsValid(k)
        /\ current'[k].checksum # current[k].checksum) =>
          \E c \in conflicts' :
            /\ c.resolution = "SUPERSEDED"
            /\ c.previous = current[k].version
            /\ c.incoming = current'[k].version]_storeVars

-----------------------------------------------------------------------------
(* The promise *)

\* What read_many can serve for a key, whether or not it has grown stale.
Served ==
  [k \in Keys |->
     IF Readable(k)
     THEN LET v == versions[current[k].version]
          IN  [kind |-> v.kind, payload |-> v.checksum, fetched |-> v.fetched]
     ELSE NoEntry]

\* An upsert in progress, with the payload it found usable.
Requested ==
  [a \in Agents |->
     IF op[a] = NoOp THEN NoOp
     ELSE [write |-> op[a].write, allow |-> op[a].allow,
           found |-> IF op[a].row # NoEntry /\ op[a].valid THEN op[a].row.checksum ELSE NoEntry]]

Register == INSTANCE CacheRegister WITH entry <- Served, request <- Requested

\* The tables implement one register per key: behind overlapping upserts, damaged
\* rows and misdirected pointers, a key serves a payload with the fetch time of an
\* upsert that asked for both, or nothing; and an upsert that found usable rows
\* replaces them only by a correction it was allowed to make.
ImplementsRegister == Register!Spec
=============================================================================
