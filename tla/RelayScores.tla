------------------------------ MODULE RelayScores ------------------------------
(***************************************************************************)
(* Which relays the two managers offer, and in which order: the counts     *)
(* that recordSuccess and recordFailure keep of each relay, the health and *)
(* the score made of them, and getHealthyRelays, getBestRelay,             *)
(* getMultiPathRelays, getHealthSummary and getAllRelayStatus, of          *)
(* src/src/network/enhanced-relay-manager.js, class "enhanced", and of     *)
(* src/src/network/relay-manager.js, class "plain".  A score is an integer *)
(* in thousandths, rounded down.                                           *)
(***************************************************************************)
EXTENDS Integers, Sequences, FiniteSets, TLC

CONSTANTS
  RelayOrder,        \* the relays, in the order of the map
  Latencies,         \* of a success, in ms
  BlacklistAfter,    \* blacklistThreshold: failures in a row
  RecoverySuccesses, \* successes in a row that end a blacklisting
  MultiPathCount,    \* multiPathCount
  MaxOperations      \* bound: successes and failures of a relay

ASSUME RelayScoresAssumption ==
  /\ RelayOrder \in Seq({RelayOrder[i] : i \in DOMAIN RelayOrder})
  /\ Latencies \subseteq Nat
  /\ {BlacklistAfter, RecoverySuccesses, MultiPathCount, MaxOperations} \subseteq Nat \ {0}

VARIABLES
  manager,  \* the class
  counts    \* the record of each relay

rsVars == <<manager, counts>>

ScoredRelays == {RelayOrder[i] : i \in DOMAIN RelayOrder}
Enhanced == manager = "enhanced"

RsTypeOK ==
  /\ manager \in {"enhanced", "plain"}
  /\ counts \in [ScoredRelays ->
       [success : 0..MaxOperations, failure : 0..MaxOperations, latency : Nat,
        inRowFailed : 0..MaxOperations, inRowDone : 0..MaxOperations,
        healthy : BOOLEAN, blacklisted : BOOLEAN]]

Uncounted == [success |-> 0, failure |-> 0, latency |-> 0, inRowFailed |-> 0, inRowDone |-> 0,
              healthy |-> TRUE, blacklisted |-> FALSE]

RsInit == manager \in {"enhanced", "plain"} /\ counts = [r \in ScoredRelays |-> Uncounted]

Total(s) == s.success + s.failure

----------------------------------------------------------------------------
(* The records. *)

Smaller(a, b) == IF a < b THEN a ELSE b

\* _getRecentFailureRate is over one half: of all operations, or, in the enhanced
\* class, 0.3 of that rate and 0.7 of the failures in a row by ten.
TooManyFailures(s) ==
  IF Enhanced THEN 30 * s.failure + 7 * Smaller(s.inRowFailed, 10) * Total(s) > 50 * Total(s)
  ELSE 2 * s.failure > Total(s)

CountSuccess(r, latency) ==
  LET s == counts[r]
      recovers == s.blacklisted /\ s.inRowDone + 1 >= RecoverySuccesses IN
  /\ Total(s) < MaxOperations
  /\ counts' = [counts EXCEPT ![r] =
       [s EXCEPT !.success = @ + 1, !.latency = @ + latency, !.inRowFailed = 0,
                 !.inRowDone = @ + 1, !.healthy = TRUE,
                 !.blacklisted = @ /\ ~recovers]]

\* A failure that blacklists the relay leaves its health as it is.
CountFailure(r) ==
  LET s == [counts[r] EXCEPT !.failure = @ + 1, !.inRowFailed = @ + 1, !.inRowDone = 0]
      blacklists == Enhanced /\ s.inRowFailed >= BlacklistAfter IN
  /\ Total(counts[r]) < MaxOperations
  /\ counts' = [counts EXCEPT ![r] =
       [s EXCEPT !.blacklisted = @ \/ blacklists,
                 !.healthy = @ /\ (blacklists \/ ~TooManyFailures(s))]]

SetBlacklisted(r) == counts' = [counts EXCEPT ![r].blacklisted = TRUE]
SetUnblacklisted(r) ==
  counts' = [counts EXCEPT ![r].blacklisted = FALSE, ![r].inRowFailed = 0]
Recount(r) == counts' = [counts EXCEPT ![r] = Uncounted]

RsNext ==
  /\ UNCHANGED manager
  /\ \E r \in ScoredRelays :
       \/ \E latency \in Latencies : CountSuccess(r, latency)
       \/ CountFailure(r) \/ Recount(r)
       \/ Enhanced /\ (SetBlacklisted(r) \/ SetUnblacklisted(r))

RsSpec == RsInit /\ [][RsNext]_rsVars

----------------------------------------------------------------------------
(* The scores. *)

SuccessRate(s) == (1000 * s.success) \div Total(s)

\* 5 s is the worst, 1 s what a relay without a success is given.
LatencyScore(s) ==
  IF s.success = 0 THEN 800
  ELSE LET late == s.latency \div (5 * s.success) IN 1000 - Smaller(late, 1000)

\* 0.9 to the power of n.
FailurePenalty[n \in 0..MaxOperations] ==
  IF n = 0 THEN 1000 ELSE (9 * FailurePenalty[n - 1]) \div 10

Weighed(s) ==
  LET score == (7 * SuccessRate(s) + 3 * LatencyScore(s)) \div 10 IN
  IF Enhanced THEN (score * FailurePenalty[s.inRowFailed]) \div 1000 ELSE score

\* Mutant: an unhealthy relay has the score of a healthy one.
ScoreOfHealthy(s) ==
  CASE s.blacklisted -> 0
    [] ~s.blacklisted /\ Total(s) = 0 -> 500
    [] OTHER -> Weighed(s)

\* getScore
Score(s) ==
  CASE s.blacklisted -> 0
    [] ~s.blacklisted /\ Total(s) = 0 -> 500
    [] OTHER -> IF s.healthy THEN Weighed(s) ELSE (3 * Weighed(s)) \div 10

MinScore == 300

\* What getHealthyRelays keeps.
Offered(s) == ~s.blacklisted /\ (s.healthy \/ Score(s) >= MinScore)

\* The places by falling score, those of one score in their order: sort is stable.
Ranked(places, score) ==
  LET Ahead(i) == {j \in places : score[j] > score[i] \/ (score[j] = score[i] /\ j < i)} IN
  [k \in 1..Cardinality(places) |-> CHOOSE i \in places : Cardinality(Ahead(i)) = k - 1]

GetHealthyRelays ==
  LET places == {i \in DOMAIN RelayOrder : Offered(counts[RelayOrder[i]])}
      order == Ranked(places, [i \in places |-> Score(counts[RelayOrder[i]])]) IN
  [k \in DOMAIN order |-> RelayOrder[order[k]]]

GetMultiPathRelays(count) ==
  LET healthy == GetHealthyRelays IN SubSeq(healthy, 1, Smaller(count, Len(healthy)))

\* getBestRelay, the empty sequence for null.
GetBestRelay == GetMultiPathRelays(1)

GetHealthSummary ==
  LET banned == {r \in ScoredRelays : counts[r].blacklisted}
      well == {r \in ScoredRelays \ banned : counts[r].healthy} IN
  [total |-> Len(RelayOrder), healthy |-> Cardinality(well), blacklisted |-> Cardinality(banned),
   unhealthy |-> Cardinality(ScoredRelays \ (banned \cup well))]

\* Rounded to a hundredth.
Percent(n) == (n + 5) \div 10

StatusOf(r) ==
  LET s == counts[r] IN
  [relay |-> r, healthy |-> s.healthy, blacklisted |-> s.blacklisted, score |-> Percent(Score(s)),
   successRate |-> IF Total(s) = 0 THEN 0 ELSE Percent(SuccessRate(s)),
   avgLatency |-> IF s.success = 0 THEN "null" ELSE ToString(s.latency \div s.success)]

GetAllRelayStatus ==
  LET all == [i \in DOMAIN RelayOrder |-> StatusOf(RelayOrder[i])]
      order == Ranked(DOMAIN RelayOrder, [i \in DOMAIN RelayOrder |-> all[i].score]) IN
  [k \in DOMAIN order |-> all[order[k]]]

----------------------------------------------------------------------------
(* Properties. *)

\* As many successes and as few failures, in all and in a row, and no slower.
AsGood(s, q) ==
  /\ s.success >= q.success /\ s.failure <= q.failure /\ s.inRowFailed <= q.inRowFailed
  /\ LatencyScore(s) >= LatencyScore(q)

\* However successes, failures and changes by hand follow each other, the score that
\* admits an unhealthy relay to the list never does: the relays that are offered are
\* those that the summary counts as healthy, although health is decided by one formula,
\* when an operation ends, and the score by another.  None of the relays that a message
\* goes to has taken the place of one that is as good in everything and scores higher,
\* and the best is the first healthy one of the status, up to rounding.
BestOffered ==
  LET list == GetHealthyRelays
      multiPath == GetMultiPathRelays(MultiPathCount)
      offered == {list[i] : i \in DOMAIN list}
      used == {multiPath[i] : i \in DOMAIN multiPath}
      best == GetBestRelay
      status == GetAllRelayStatus IN
  /\ Cardinality(offered) = GetHealthSummary.healthy
  /\ \A r \in ScoredRelays : r \in offered <=> counts[r].healthy /\ ~counts[r].blacklisted
  /\ \A r \in used, q \in offered \ used :
       AsGood(counts[q], counts[r]) => Score(counts[q]) = Score(counts[r])
  /\ \A i, j \in DOMAIN status :
       best = <<status[i].relay>> /\ j < i /\ status[j].relay \in offered =>
         status[j].score = status[i].score
=============================================================================
