------------------------------ MODULE GeoCache ------------------------------
(* GeoIP enrichment (internal/geoip/enricher.go) over the cache table of   *)
(* internal/storage/geo_store.go.  Callers run at the same time: each      *)
(* looks its addresses up one by one, asks the lookup service for those    *)
(* without a fresh entry, a batch at a time, and stores what comes back.   *)
(* The service is external: it answers for any part of a batch, or fails.  *)
(* Time counts half days; the table keeps the moment as text that sorts    *)
(* before any moment of the next day and after the cutoff of its own day.  *)
EXTENDS Naturals, Sequences

CONSTANTS AddressCount,  \* addresses in a call
          Callers,
          BatchSize,     \* addresses per request to the service
          FreshDays,     \* days an entry stays fresh
          MaxHalfDays    \* bound on the clock

ASSUME GeoAssumption == AddressCount \in Nat /\ BatchSize \in Nat \ {0} /\ FreshDays \in Nat \ {0} /\ MaxHalfDays \in Nat

Addresses == 1..AddressCount
Missing == 0

VARIABLES halfDay,   \* the clock, from 1
          entry,     \* per address, when it was stored
          asked,     \* per caller, the addresses still to look up in the cache
          toFetch,   \* per caller, the addresses to ask the service for
          answer,    \* per caller, the results of a batch still to store
          requests,  \* per caller and address, how often the service was asked
          verdicts   \* cache look-ups: caller, address, age of the entry, reused or not

geoVars == <<halfDay, entry, asked, toFetch, answer, requests, verdicts>>

GeoInit ==
    /\ halfDay = 1 /\ entry = [a \in Addresses |-> Missing]
    /\ asked = [c \in Callers |-> << >>] /\ toFetch = asked
    /\ answer = [c \in Callers |-> {}] /\ verdicts = {}
    /\ requests = [c \in Callers |-> [a \in Addresses |-> 0]]

Day(t) == t \div 2

FreshStrict(t) == t # Missing /\ Day(t) + FreshDays > Day(halfDay)
Fresh(t) == t # Missing /\ Day(t) + FreshDays >= Day(halfDay)

\* A call of EnrichIPs with the public addresses, each of them once.
Enrich(c) ==
    /\ asked[c] = << >> /\ \A v \in verdicts : v.who # c
    /\ asked' = [asked EXCEPT ![c] = [i \in Addresses |-> i]]
    /\ UNCHANGED <<halfDay, entry, toFetch, answer, requests, verdicts>>

\* A call of LookupOne, for one public address: the same steps, in a batch of one.
LookupOne(c, a) ==
    /\ asked[c] = << >> /\ \A v \in verdicts : v.who # c
    /\ asked' = [asked EXCEPT ![c] = <<a>>]
    /\ UNCHANGED <<halfDay, entry, toFetch, answer, requests, verdicts>>

\* GetIPEnrichment for the next address.
Lookup(c) ==
    /\ asked[c] # << >>
    /\ LET a == Head(asked[c])
       IN  /\ toFetch' = [toFetch EXCEPT ![c] = IF Fresh(entry[a]) THEN @ ELSE Append(@, a)]
           /\ verdicts' = verdicts \cup {[who |-> c, ip |-> a, age |-> halfDay - entry[a],
                                          known |-> entry[a] # Missing, reused |-> Fresh(entry[a])]}
    /\ asked' = [asked EXCEPT ![c] = Tail(@)]
    /\ UNCHANGED <<halfDay, entry, answer, requests>>

BatchEnd(c) == IF Len(toFetch[c]) < BatchSize THEN Len(toFetch[c]) ELSE BatchSize
RestSkipping(c) == SubSeq(toFetch[c], BatchSize + 2, Len(toFetch[c]))
Rest(c) == SubSeq(toFetch[c], BatchSize + 1, Len(toFetch[c]))

\* fetchGeo for the next batch; an error is logged and the next batch tried.
FetchBatch(c) ==
    /\ asked[c] = << >> /\ toFetch[c] # << >> /\ answer[c] = {}
    /\ LET sent == {toFetch[c][i] : i \in 1..BatchEnd(c)}
       IN  /\ \E good \in SUBSET sent : answer' = [answer EXCEPT ![c] = good]
           /\ requests' = [requests EXCEPT ![c] = [a \in Addresses |-> IF a \in sent THEN @[a] + 1 ELSE @[a]]]
    /\ toFetch' = [toFetch EXCEPT ![c] = Rest(c)]
    /\ UNCHANGED <<halfDay, entry, asked, verdicts>>

\* UpsertIPEnrichment of one result, stamped with the time of the store.
Upsert(c) ==
    /\ \E a \in answer[c] : /\ entry' = [entry EXCEPT ![a] = halfDay]
                            /\ answer' = [answer EXCEPT ![c] = @ \ {a}]
    /\ UNCHANGED <<halfDay, asked, toFetch, requests, verdicts>>

HalfDayPasses == /\ halfDay < MaxHalfDays /\ halfDay' = halfDay + 1
                 /\ UNCHANGED <<entry, asked, toFetch, answer, requests, verdicts>>

GeoNext == HalfDayPasses \/ \E c \in Callers : Enrich(c) \/ Lookup(c) \/ FetchBatch(c) \/ Upsert(c)
                                             \/ \E a \in Addresses : LookupOne(c, a)

GeoSpec == GeoInit /\ [][GeoNext]_geoVars

----------------------------------------------------------------------------

\* Caller c looked address a up and found no fresh entry.
Stale(c, a) == \E v \in verdicts : v.who = c /\ v.ip = a /\ ~v.reused

\* Every address that a caller found stale or missing is asked of the service
\* exactly once, and no other: batching loses none at its edges, and a batch
\* that fails stops neither the rest nor another caller.
FetchedOnce ==
    \A c \in Callers, a \in Addresses :
        (asked[c] = << >> /\ toFetch[c] = << >>) =>
            requests[c][a] = IF Stale(c, a) THEN 1 ELSE 0

\* An entry is reused for at least the days that it is fresh and never for
\* more than one day longer, although the table compares texts of unlike form.
ReusedWhileFresh ==
    \A v \in verdicts : v.known => /\ v.reused => v.age < 2 * FreshDays + 2
                                   /\ v.age < 2 * FreshDays => v.reused

\* A caller asks the service for exactly the addresses without a fresh entry, once each.
FetchedIfStale == FetchedOnce /\ ReusedWhileFresh
============================================================================
