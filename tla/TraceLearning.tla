--------------------------- MODULE TraceLearning ---------------------------
(***************************************************************************)
(* learning/__init__.py: what an attempt teaches (one collection).  An     *)
(* attempt is the learning record of a request:                            *)
(*   family  : query_fingerprint          target : selected_target         *)
(*   path    : plan_tools                 edges  : trace_edges             *)
(*   success, at : created_at                                              *)
(* and a suggestion is identified by its family, its type and its key.     *)
(* Scores are in thousandths.                                              *)
(***************************************************************************)
EXTENDS Integers, Sequences, FiniteSets, SequencesExt, Orderings

CONSTANTS
  MinSuccesses,     \* min_success_observations
  MaxFailurePercent,\* max_recent_failure_ratio
  MaxSuggestions    \* max_suggestions

ASSUME LimitAssumption == MaxSuggestions \in Nat

NoTarget == ""

IdOf(attempt, type, key) == <<attempt.family, type, key>>

PriorFailures(attempt, history) ==
  Len(SelectSeq(history, LAMBDA h : h.family = attempt.family /\ ~h.success))

Suggestion(attempt, history, type, key, target) ==
  [id |-> IdOf(attempt, type, key), type |-> type, family |-> attempt.family,
   target |-> target, status |-> "suggested", observations |-> 1,
   failures |-> PriorFailures(attempt, history), seen |-> attempt.at]

(* The suggestions of one successful attempt: the target, the path, and    *)
(* each data flow the run showed.                                          *)
Suggested(attempt, history) ==
  IF ~attempt.success THEN <<>>
  ELSE (IF attempt.target = NoTarget THEN <<>>
        ELSE <<Suggestion(attempt, history, "target_preference", <<attempt.target>>,
                          attempt.target)>>)
    \o (IF attempt.path = <<>> THEN <<>>
        ELSE <<Suggestion(attempt, history, "plan_path", attempt.path, Last(attempt.path))>>)
    \o [i \in DOMAIN attempt.edges |->
          Suggestion(attempt, history, "data_flow_edge",
                     <<attempt.edges[i].source, attempt.edges[i].target, attempt.edges[i].field>>,
                     attempt.edges[i].target)]

(* _record_matches_suggestion                                              *)
Matches(attempt, s) ==
  /\ attempt.family = s.family
  /\ \/ s.target \in {NoTarget, attempt.target}
     \/ s.target \in ToSet(attempt.path)

Successes(s, history) == Len(SelectSeq(history, LAMBDA h : h.success /\ Matches(h, s)))
Failures(s, history) == Len(SelectSeq(history, LAMBDA h : ~h.success /\ Matches(h, s)))

FailureRatioAllowed(s, history) ==
  100 * Failures(s, history)
    <= MaxFailurePercent * (Successes(s, history) + Failures(s, history))

(* _suggestion_status: enough observations are enough; the failures only   *)
(* count against what the history alone would promote.                     *)
StatusOf(s, history) ==
  IF \/ s.observations >= MinSuccesses
     \/ Successes(s, history) >= MinSuccesses /\ FailureRatioAllowed(s, history)
  THEN "promotable" ELSE "suggested"

(* Mutant of MergedStatus: the status is recomputed whatever it was.       *)
MergedStatusAfresh(previous, s, history) == StatusOf(s, history)

(* The operator's word stands; else the status is earned again.            *)
MergedStatus(previous, s, history) ==
  IF previous.status \in {"promoted", "rejected"} THEN previous.status
  ELSE StatusOf(s, history)

Unknown(s) == [s EXCEPT !.observations = 0, !.status = "suggested"]

(* Mutant of Merged: what the history shows is added at every merge.       *)
MergedWithHistory(previous, s, history) ==
  LET counted == [s EXCEPT !.observations = previous.observations + Successes(s, history)]
  IN  [counted EXCEPT !.status = MergedStatus(previous, counted, history)]

Merged(previous, s, history) ==
  LET counted == [s EXCEPT !.observations = previous.observations + s.observations]
  IN  [counted EXCEPT !.status = MergedStatus(previous, counted, history)]

Find(store, id) == SelectInSeq(store, LAMBDA s : s.id = id)

Put(store, s, history) ==
  LET i == Find(store, s.id) IN
  IF i = 0 THEN Append(store, Merged(Unknown(s), s, history))
  ELSE [store EXCEPT ![i] = Merged(store[i], s, history)]

(* The statuses in the order of their names.                               *)
StatusRank(status) ==
  CASE status = "suggested" -> 4 [] status = "rejected" -> 3
    [] status = "promoted" -> 2 [] OTHER -> 1

(* sorted(..., reverse=True): the greatest first, equals as they were.     *)
Ranked(store) ==
  LET key == [i \in DOMAIN store |-> <<0 - StatusRank(store[i].status), 0 - store[i].seen, i>>]
  IN  [k \in DOMAIN store |-> store[Sorted(DOMAIN store, key)[k]]]

(* merge_learning_suggestions                                              *)
Merge(existing, incoming, history) ==
  LET all == Ranked(FoldLeft(LAMBDA acc, s : Put(acc, s, history), existing, incoming))
  IN  SubSeq(all, 1, IF Len(all) < MaxSuggestions THEN Len(all) ELSE MaxSuggestions)

(* Those of merged that were just suggested.                               *)
OfIds(merged, suggested) ==
  Filtered(merged, {s \in ToSet(merged) : \E g \in ToSet(suggested) : g.id = s.id})

(* derive_learning_suggestions; existing is existing_suggestions, <<>> for *)
(* an adapter that leaves it out.                                          *)
Learned(attempt, history, existing) ==
  OfIds(Merge(existing, Suggested(attempt, history), Append(history, attempt)),
        Suggested(attempt, history))
-----------------------------------------------------------------------------
Accepted(mode) ==
  IF mode = "promoted" THEN {"promoted"} ELSE {"promoted", "promotable", "suggested"}

Smaller(x, y) == IF x < y THEN x ELSE y

MaxBoost == 60

Boost(s) == Smaller(MaxBoost, 25 + 10 * Smaller(s.observations - 1, 3))

(* learning_signal_map: the greatest boost of each target.                 *)
Signals(family, store, mode) ==
  LET used == {s \in ToSet(store) : s.status \in Accepted(mode) /\ s.family = family
                                     /\ s.target # NoTarget}
  IN  [t \in {s.target : s \in used} |->
         CHOOSE b \in {Boost(s) : s \in used} :
           /\ \E s \in used : s.target = t /\ Boost(s) = b
           /\ \A s \in used : s.target = t => Boost(s) <= b]

(* apply_learning_suggestions                                              *)
Boosted(scores, signals) ==
  [t \in DOMAIN scores |-> scores[t] + IF t \in DOMAIN signals THEN signals[t] ELSE 0]

(* summarize_learning_state                                                *)
Summary(attempts, store) ==
  LET with(status) == Len(SelectSeq(store, LAMBDA s : s.status = status)) IN
  [attempts |-> Len(attempts),
   failures |-> Len(SelectSeq(attempts, LAMBDA h : ~h.success)),
   suggested |-> with("suggested"), promotable |-> with("promotable"),
   promoted |-> with("promoted"), rejected |-> with("rejected")]
=============================================================================
