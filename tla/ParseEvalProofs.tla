--------------------------- MODULE ParseEvalProofs ---------------------------
(***************************************************************************)
(* Proof that parse_eval.py files every result under one of the five       *)
(* canonical tiers (ResultTiersCanonical), never under "?" or None, for    *)
(* every set of tiers, models and result counts, every interleaving of the *)
(* threads, and results of scenarios infer_tier does not list.             *)
(***************************************************************************)
EXTENDS ParseEval, SequenceTheorems, TLAPS

\* The five tiers of TIER_ORDER.
AllTiers == {BootstrapTier, DecideTier, ChangesetTier, HarnessTier,
             EndToEndTier}

LEMMA AllTiersOrder == {TierOrder[i] : i \in 1..5} = AllTiers
BY DEF TierOrder, AllTiers

LEMMA EvalTiersKnown == EvalTiers \subseteq AllTiers /\ NoTier \notin AllTiers
BY AllTiersOrder, EvalAssumption

(* infer_tier returns a canonical tier whenever its fallback is one: each  *)
(* branch of lines 51-60 names a tier, and line 61 returns the fallback.   *)
LEMMA InferCanonical ==
    ASSUME NEW m, NEW s, NEW fb \in AllTiers
    PROVE  InferTier(m, s, fb) \in AllTiers
BY EvalTiersKnown DEF InferTier, AllTiers

(* The first line of the log is a header: a thread prints its header       *)
(* before its results, so the first line printed at all is a header.       *)
LogOpensWithHeader == Len(log) > 0 => log[1].kind = "header"

\* A thread that has printed has put a line in the log.
ProgressLogged == \A t \in EvalTiers : progress[t] > 0 => Len(log) > 0

\* Once the scan is past the first line, current_tier holds a tier.
TierSetOnceScanned == pos > 0 => currentTier \in EvalTiers

(* The inductive invariant: the types, the three facts above, and the      *)
(* property.  ResultTiersCanonical alone is not inductive: a result takes  *)
(* the last header as fallback, which is a tier only if a header was       *)
(* scanned before it, and that holds only because the log opens with one.  *)
PInv == /\ EvalTypeOK /\ LogOpensWithHeader /\ ProgressLogged
        /\ TierSetOnceScanned /\ ResultTiersCanonical

LEMMA PInvInit == EvalInit => PInv
<1> SUFFICES ASSUME EvalInit PROVE PInv
  OBVIOUS
<1>1. progress \in [EvalTiers -> 0..(ResultsPerTier + 1)]
  BY EvalAssumption DEF EvalInit
<1>2. currentTier \in EvalTiers \cup {NoTier}
  BY DEF EvalInit
<1> QED
  BY <1>1, <1>2, EmptySeq DEF EvalInit, PInv, EvalTypeOK, LogOpensWithHeader,
     ProgressLogged, TierSetOnceScanned, ResultTiersCanonical

(* A thread printing its header or its next result keeps the invariant.    *)
LEMMA ThreadPrintsInv ==
    ASSUME PInv, NEW t \in EvalTiers, ThreadPrints(t) PROVE PInv'
<1>0. EvalTypeOK /\ LogOpensWithHeader /\ ProgressLogged
  BY DEF PInv
<1>1. /\ progress[t] <= ResultsPerTier
      /\ progress' = [progress EXCEPT ![t] = @ + 1]
      /\ UNCHANGED <<pos, currentTier, tiersSeen, results>>
  BY DEF ThreadPrints
<1>2. PICK l : /\ log' = Append(log, l) /\ l \in Line
               /\ (progress[t] = 0 <=> l.kind = "header")
  <2>1. CASE progress[t] = 0 /\ log' = Append(log, [kind |-> "header", thread |-> t])
    BY <2>1 DEF Line
  <2>2. CASE /\ progress[t] > 0
             /\ \E m \in Models, sc \in ScenariosOf(t) \cup {UnlistedScenario} :
                  log' = Append(log, [kind |-> "result", thread |-> t,
                                      model |-> m, scenario |-> sc])
    <3>1. PICK m \in Models, sc \in ScenariosOf(t) \cup {UnlistedScenario} :
                log' = Append(log, [kind |-> "result", thread |-> t,
                                    model |-> m, scenario |-> sc])
      BY <2>2
    <3>2. sc \in (UNION {ScenariosOf(u) : u \in EvalTiers}) \cup {UnlistedScenario}
      OBVIOUS
    <3>3. progress[t] # 0
      BY <1>0, <2>2 DEF EvalTypeOK
    <3> QED
      BY <3>1, <3>2, <3>3 DEF Line
  <2> QED
    BY <2>1, <2>2 DEF ThreadPrints
<1>3. log' \in Seq(Line) /\ Len(log') = Len(log) + 1
      /\ \A k \in 1..Len(log) : log'[k] = log[k]
      /\ log'[Len(log) + 1] = l
  BY <1>0, <1>2, AppendProperties DEF EvalTypeOK
<1>4. progress' \in [EvalTiers -> 0..(ResultsPerTier + 1)]
  BY <1>0, <1>1, EvalAssumption DEF EvalTypeOK
<1>5. EvalTypeOK'
  BY <1>0, <1>1, <1>3, <1>4 DEF EvalTypeOK
<1>6. LogOpensWithHeader'
  <2>1. CASE Len(log) > 0
    BY <1>0, <1>3, <2>1 DEF LogOpensWithHeader, EvalTypeOK
  <2>2. CASE Len(log) = 0
    <3>1. progress[t] = 0
      BY <1>0, <2>2 DEF ProgressLogged, EvalTypeOK
    <3> QED
      BY <1>2, <1>3, <2>2, <3>1 DEF LogOpensWithHeader
  <2> QED
    BY <1>0, <2>1, <2>2 DEF EvalTypeOK
<1>7. ProgressLogged'
  BY <1>0, <1>3 DEF ProgressLogged, EvalTypeOK
<1> QED
  BY <1>1, <1>5, <1>6, <1>7 DEF PInv, TierSetOnceScanned, ResultTiersCanonical

(* One line of main's scan keeps the invariant: a header sets current_tier *)
(* to a tier; a result is scanned only after the opening header, so its   *)
(* fallback is a tier and infer_tier returns a canonical one.              *)
LEMMA ParseLineInv == ASSUME PInv, ParseLine PROVE PInv'
<1>0. /\ EvalTypeOK /\ LogOpensWithHeader /\ ProgressLogged
      /\ TierSetOnceScanned /\ ResultTiersCanonical
  BY DEF PInv
<1> DEFINE l == log[pos + 1]
<1>1. /\ pos < Len(log) /\ pos' = pos + 1
      /\ UNCHANGED <<progress, log>>
  BY DEF ParseLine
<1>2. pos + 1 \in 1..Len(log) /\ l \in Line /\ pos' \in 0..Len(log')
  BY <1>0, <1>1, ElementOfSeq DEF EvalTypeOK
<1>3. l.thread \in EvalTiers
  BY <1>2 DEF Line
<1>4. (LogOpensWithHeader /\ ProgressLogged)'
  BY <1>0, <1>1 DEF LogOpensWithHeader, ProgressLogged
<1>5. CASE l.kind = "header"
  <2>1. /\ currentTier' = l.thread /\ tiersSeen' = Append(tiersSeen, l.thread)
        /\ UNCHANGED results
    BY <1>5 DEF ParseLine
  <2>2. tiersSeen' \in Seq(EvalTiers)
    BY <1>0, <1>3, <2>1, AppendProperties DEF EvalTypeOK
  <2> QED
    BY <1>0, <1>1, <1>2, <1>3, <1>4, <2>1, <2>2
    DEF PInv, EvalTypeOK, TierSetOnceScanned, ResultTiersCanonical
<1>6. CASE l.kind # "header"
  <2> DEFINE r == [tier |-> InferTier(l.model, l.scenario, currentTier),
                   thread |-> l.thread]
  <2>1. /\ results' = Append(results, r)
        /\ UNCHANGED <<currentTier, tiersSeen>>
    BY <1>6 DEF ParseLine
  <2>2. pos > 0
    BY <1>0, <1>2, <1>6 DEF LogOpensWithHeader, EvalTypeOK
  <2>3. currentTier \in AllTiers
    BY <1>0, <2>2, EvalTiersKnown DEF TierSetOnceScanned
  <2>4. r.tier \in AllTiers
    BY <2>3, InferCanonical
  <2>5. r \in [tier : {TierOrder[i] : i \in 1..5} \cup {NoTier, "?"},
               thread : EvalTiers]
    BY <1>3, <2>4, AllTiersOrder
  <2>6. /\ results' \in Seq([tier : {TierOrder[i] : i \in 1..5} \cup {NoTier, "?"},
                             thread : EvalTiers])
        /\ Len(results') = Len(results) + 1
        /\ \A k \in 1..Len(results) : results'[k] = results[k]
        /\ results'[Len(results) + 1] = r
    BY <1>0, <2>1, <2>5, AppendProperties DEF EvalTypeOK
  <2>7. ResultTiersCanonical'
    <3> SUFFICES ASSUME NEW i \in 1..Len(results')
                 PROVE  \E j \in 1..5 : results'[i].tier = TierOrder[j]
      BY <2>6 DEF ResultTiersCanonical
    <3>1. CASE i \in 1..Len(results)
      <4>1. results'[i] = results[i] /\ i \in DOMAIN results
        BY <1>0, <2>6, <3>1 DEF EvalTypeOK
      <4> QED
        BY <1>0, <4>1 DEF ResultTiersCanonical
    <3>2. CASE i = Len(results) + 1
      BY <2>4, <2>6, <3>2, AllTiersOrder
    <3> QED
      BY <1>0, <2>6, <3>1, <3>2 DEF EvalTypeOK
  <2> QED
    BY <1>0, <1>1, <1>2, <1>4, <2>1, <2>2, <2>6, <2>7
    DEF PInv, EvalTypeOK, TierSetOnceScanned
<1> QED
  BY <1>5, <1>6

LEMMA PInvStep == PInv /\ [EvalNext]_evalVars => PInv'
<1> SUFFICES ASSUME PInv, [EvalNext]_evalVars PROVE PInv'
  OBVIOUS
<1>1. CASE UNCHANGED evalVars
  BY <1>1 DEF evalVars, PInv, EvalTypeOK, LogOpensWithHeader, ProgressLogged,
              TierSetOnceScanned, ResultTiersCanonical
<1> QED
  BY <1>1, ThreadPrintsInv, ParseLineInv DEF EvalNext

(* However the threads' lines interleave, and whatever scenarios they run, *)
(* parse_eval.py files every result under one of the five canonical tiers *)
(* (ResultTiersCanonical), never "?": each thread prints its header before *)
(* its results, so the fallback of line 61 is always a tier.  Every        *)
(* canonical tier that has a result is in ordered_tiers (line 149), so     *)
(* every result is printed in a table.                                     *)
THEOREM ResultTiersCanonicalHolds == EvalSpec => []ResultTiersCanonical
<1>1. PInv => ResultTiersCanonical
  BY DEF PInv
<1> QED
  BY <1>1, PInvInit, PInvStep, PTL DEF EvalSpec

(* The parser's state stays of its type.                                   *)
THEOREM EvalTypeCorrect == EvalSpec => []EvalTypeOK
<1>1. PInv => EvalTypeOK
  BY DEF PInv
<1> QED
  BY <1>1, PInvInit, PInvStep, PTL DEF EvalSpec
=============================================================================
