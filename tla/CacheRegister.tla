---------------------------- MODULE CacheRegister ----------------------------
(***************************************************************************)
(* What MarketCacheStore promises to those who use it: one register per    *)
(* key that holds the payload last accepted for it, or nothing.            *)
(*                                                                         *)
(* Versions, pointers and conflict rows are not visible here.  An upsert   *)
(* looks at the register when it begins and decides from what it found;    *)
(* others may write in between, and its decision stands all the same.      *)
(* Where a stored payload cannot be served an upsert may still find it.    *)
(***************************************************************************)
EXTENDS Naturals

CONSTANTS
  Keys, Payloads, NoData, NoDataKeys, Agents,
  NoEntry, NoOp   \* "nothing to serve" and "no upsert in progress"

VARIABLES
  entry,     \* what a read of the key may serve, or NoEntry
  request,   \* the upsert each agent has begun
  now        \* the wall clock

registerVars == <<entry, request, now>>

Value ==
  [kind: {"ROWS"}, payload: Payloads, fetched: Nat]
    \cup [kind: {"PROVISIONAL_NO_DATA"}, payload: {NoData}, fetched: Nat]

ValueOf(w) == [kind |-> w.kind, payload |-> w.payload, fetched |-> w.fetched]

\* What the register held for a write when its upsert began.
Found(w) == IF entry[w.key] = NoEntry THEN NoEntry ELSE entry[w.key].payload

BeginFrom(a, w, allow, found) ==
  /\ request[a] = NoOp
  /\ w.kind # "ROWS" => w.key \in NoDataKeys
  /\ request' = [request EXCEPT ![a] = [write |-> w, allow |-> allow, found |-> found]]
  /\ UNCHANGED <<entry, now>>

Begin(a, w, allow) == BeginFrom(a, w, allow, Found(w))

\* Nothing is served, but a payload is stored which the upsert holds to be usable.
BeginUnserved(a, w, allow) ==
  /\ entry[w.key] = NoEntry
  /\ \E stored \in Payloads \cup {NoData} : BeginFrom(a, w, allow, stored)

\* Nothing to serve was found, a marker is renewed, or a correction is allowed.
Accepts(r) ==
  \/ r.found = NoEntry
  \/ r.found = r.write.payload /\ r.write.kind # "ROWS"
  \/ r.found # r.write.payload /\ r.allow

Done(a) ==
  /\ request' = [request EXCEPT ![a] = NoOp]
  /\ UNCHANGED now

Put(a) ==
  /\ request[a] # NoOp
  /\ Accepts(request[a])
  /\ entry' = [entry EXCEPT ![request[a].write.key] = ValueOf(request[a].write)]
  /\ Done(a)

\* The payload found is kept: the new one is the same rows, or a correction that
\* is not allowed.
Keep(a) ==
  /\ request[a] # NoOp
  /\ ~Accepts(request[a])
  /\ UNCHANGED entry
  /\ Done(a)

\* The marker found was damaged before it could be renewed, or could not be served
\* from the start.
RenewDamaged(a) ==
  /\ request[a] # NoOp
  /\ request[a].write.kind # "ROWS"
  /\ request[a].found = request[a].write.payload
  /\ entry' = [entry EXCEPT ![request[a].write.key] = NoEntry]
  /\ Done(a)

\* The transaction is rolled back.
Fail(a) ==
  /\ request[a] # NoOp
  /\ UNCHANGED entry
  /\ Done(a)

\* What was stored for a key can no longer be read.
Lose(k) ==
  /\ entry' = [entry EXCEPT ![k] = NoEntry]
  /\ UNCHANGED <<request, now>>

Pass ==
  /\ now' = now + 1
  /\ UNCHANGED <<entry, request>>

Init ==
  /\ entry = [k \in Keys |-> NoEntry]
  /\ request = [a \in Agents |-> NoOp]
  /\ now = 0

FetchedNow ==
  [key: Keys, kind: {"ROWS"}, payload: Payloads, fetched: {now}]
    \cup [key: Keys, kind: {"PROVISIONAL_NO_DATA"}, payload: {NoData}, fetched: {now}]

Next ==
  \/ \E a \in Agents :
       \/ \E w \in FetchedNow, allow \in BOOLEAN : Begin(a, w, allow) \/ BeginUnserved(a, w, allow)
       \/ Put(a) \/ Keep(a) \/ RenewDamaged(a) \/ Fail(a)
  \/ \E k \in Keys : Lose(k)
  \/ Pass

Spec == Init /\ [][Next]_registerVars
=============================================================================
