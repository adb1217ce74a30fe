---------------------------- MODULE GovernorProofs ----------------------------
(***************************************************************************)
(* Proofs about Governor, for any number of scans, agents and patches, any *)
(* reports of the agents and under every set of hazards.                   *)
(***************************************************************************)
EXTENDS Governor, FiniteSetTheorems, TLAPS

(* The steps of a run.                                                       *)
Steps == Connected \cup {"off"}

LEMMA FollowingIs ==
  /\ Following("scan") = "graph_update"
  /\ Following("graph_update") = "test_generation"
  /\ Following("test_generation") = "test_execution"
  /\ Following("test_execution") = "fix_generation"
  /\ Following("fix_generation") = "sandbox_reverify"
  /\ Following("sandbox_reverify") = "score_select"
  /\ Following("score_select") = "close"
<1> USE DEF Following, Later, Order, Phases
<1>1. Following("scan") = "graph_update"
  OBVIOUS
<1>2. Following("graph_update") = "test_generation"
  OBVIOUS
<1>3. Following("test_generation") = "test_execution"
  OBVIOUS
<1>4. Following("test_execution") = "fix_generation"
  OBVIOUS
<1>5. Following("fix_generation") = "sandbox_reverify"
  OBVIOUS
<1>6. Following("sandbox_reverify") = "score_select"
  OBVIOUS
<1>7. Following("score_select") = "close"
  OBVIOUS
<1> QED
  BY <1>1, <1>2, <1>3, <1>4, <1>5, <1>6, <1>7

(* Once a phase is recorded, exactly it and those before it are.             *)
Recorded(step) ==
  IF step = "close" THEN Phases
  ELSE IF step \in Phases THEN {x \in Phases : Order[x] < Order[step]} ELSE {}

LEMMA RecordedGrows ==
  ASSUME NEW ph \in Phases
  PROVE  /\ Recorded(Following(ph)) = Recorded(ph) \cup {ph}
         /\ Following(ph) \in (Phases \ {"scan"}) \cup {"close"}
         /\ ph # "score_select" => Following(ph) \in Phases
         /\ Following(ph) \in Phases => ph # "score_select"
  BY FollowingIs DEF Recorded, Order, Phases

LEMMA LaterIs ==
  /\ \A ph \in Phases : ph # "score_select" => "score_select" \in Later(ph)
  /\ \A ph \in Phases : ph \notin Later(ph)
  BY DEF Later, Order, Phases

-----------------------------------------------------------------------------
(* The inductive invariant, one part per purpose, of one scan.               *)

(* What the run has written so far is what it will report.                   *)
RowsAreReported(s) ==
  \A x \in Recorded(at[s]) : Written(s).rows[x] = report[s][x] /\ report[s][x] # "none"

(* A run that can still be locked out has not reported its last phase, and   *)
(* what is reported after close() is on disk.                                *)
Unsettled(s) ==
  at[s] \in Phases \cup {"off", "begin", "scan_verdict"} => report[s]["score_select"] = "none"

Settled(s) ==
  at[s] \in {"switch", "returned"} =>
    ((\A ph \in Phases : report[s][ph] = "DONE") => history[s] = report[s])

(* Decisions live from the selection to close(), and are made with the       *)
(* re-scan known.                                                            *)
Choosing(s) ==
  /\ at[s] # "close" => decision[s] = Undecided
  /\ at[s] = "off" => txn[s] = NoTxn /\ fate[s] = NoFate
  /\ at[s] = "score_select" => DOMAIN fixes[s] = {} \/ reverify[s].findings # "unknown"

(* A dry run verifies nothing, and never writes that it completed.           *)
Dry(s) ==
  dry[s] =>
    /\ \A x \in Patches : fate[s][x] = "dry"
    /\ txn[s] # NoTxn => txn[s].phase # "complete"
    /\ \A a \in Agents : decision[s][a] # "auto_apply"

Whole(s) == history[s] # NoRows => \A ph \in Phases : history[s][ph] # "none"

Earned(s, a) ==
  decision[s][a] = "auto_apply" =>
    LET mine == PatchesOf[a]
        verified == {x \in mine : fate[s][x] = "verified"}
    IN /\ fixes[s][a].done
       /\ reverify[s].findings = "none" /\ reverify[s].regressed \cap mine = {}
       /\ mine # {} /\ 2 * Cardinality(verified) >= Cardinality(mine)
       /\ fixes[s][a].gate \in {"allow", "broken"}

Good(s) ==
  /\ RowsAreReported(s) /\ Unsettled(s) /\ Settled(s) /\ Choosing(s) /\ Dry(s) /\ Whole(s)
  /\ \A a \in Agents : Earned(s, a)

GovernorInv == TypeOK /\ \A s \in Scans : Good(s)

LEMMA GoodImplies ==
  ASSUME GovernorInv
  PROVE  VerdictIsDurable /\ HistoryHoldsWholeRuns /\ AutoApplyIsEarned /\ DryRunNeverCompletes
<1>1. VerdictIsDurable
  BY DEF GovernorInv, Good, Settled, VerdictIsDurable, Passed
<1>2. HistoryHoldsWholeRuns
  BY DEF GovernorInv, Good, Whole, HistoryHoldsWholeRuns
<1>3. AutoApplyIsEarned
  BY DEF GovernorInv, Good, Earned, AutoApplyIsEarned
<1>4. DryRunNeverCompletes
  BY DEF GovernorInv, Good, Dry, DryRunNeverCompletes
<1> QED
  BY <1>1, <1>2, <1>3, <1>4

LEMMA GovernorInit == Init => GovernorInv
<1> SUFFICES ASSUME Init PROVE GovernorInv
  OBVIOUS
<1> USE DEF Init, NoRows, NoFixes, NoFate, Unknown, Undecided
<1>1. history \in [Scans -> Rows] /\ report \in [Scans -> Rows]
  BY DEF Rows
<1>2. fixes \in [Scans -> UNION {[ran -> Candidates] : ran \in SUBSET Agents}]
  <2>1. NoFixes \in [{} -> Candidates] /\ {} \in SUBSET Agents
    OBVIOUS
  <2> QED
    BY <2>1
<1>3. fate \in [Scans -> [Patches -> Fates]]
  BY DEF Fates
<1>4. /\ reverify \in [Scans -> [findings : {"unknown", "none", "some"}, regressed : SUBSET Patches]]
      /\ decision \in [Scans -> [Agents -> {"none", "auto_apply", "escalate", "discard"}]]
      /\ at \in [Scans -> Connected \cup {"off"}] /\ seen \in [Scans -> Stored]
      /\ db \in Stored /\ runs \in 0..MaxRuns /\ dry \in [Scans -> BOOLEAN]
      /\ txn \in [Scans -> Txn \cup {NoTxn}]
  BY GovernorAssumption DEF Stored
<1>5. TypeOK
  BY <1>1, <1>2, <1>3, <1>4 DEF TypeOK
<1>6. ASSUME NEW s \in Scans PROVE Good(s)
  BY DEF Good, RowsAreReported, Unsettled, Settled, Choosing, Dry, Whole, Earned, Recorded, Phases
<1> QED
  BY <1>5, <1>6 DEF GovernorInv

-----------------------------------------------------------------------------
(* Steps of one scan.                                                        *)
LEMMA WrittenType ==
  ASSUME TypeOK, NEW s \in Scans
  PROVE  Written(s) \in Txn /\ Phase(s) \in Stored /\ Written(s).rows \in Rows
  BY DEF TypeOK, Written, Phase, Txn, NoRows, Rows

(* What a scan does leaves what is good of the others.                       *)
LEMMA OthersStayGood ==
  ASSUME NEW s \in Scans, NEW q \in Scans \ {s}, Good(q),
         /\ history'[q] = history[q] /\ txn'[q] = txn[q] /\ at'[q] = at[q] /\ dry'[q] = dry[q]
         /\ report'[q] = report[q] /\ fixes'[q] = fixes[q] /\ fate'[q] = fate[q]
         /\ reverify'[q] = reverify[q] /\ decision'[q] = decision[q]
  PROVE  Good(q)'
<1>1. Written(q)'.rows = Written(q).rows
  BY DEF Written
<1>2. RowsAreReported(q)'
  BY <1>1 DEF Good, RowsAreReported
<1>3. /\ Unsettled(q)' /\ Settled(q)' /\ Choosing(q)' /\ Dry(q)' /\ Whole(q)'
  BY DEF Good, Unsettled, Settled, Choosing, Dry, Whole
<1>4. \A a \in Agents : Earned(q, a)'
  BY DEF Good, Earned
<1> QED
  BY <1>2, <1>3, <1>4 DEF Good

LEMMA WriteType ==
  ASSUME TypeOK, NEW s \in Scans, NEW phase \in Stored, NEW rows \in Rows, Write(s, phase, rows)
  PROVE  /\ txn' \in [Scans -> Txn \cup {NoTxn}]
         /\ txn'[s] = [phase |-> phase, rows |-> rows] /\ txn'[s] # NoTxn
         /\ \A q \in Scans \ {s} : txn'[q] = txn[q]
<1>1. [phase |-> phase, rows |-> rows] \in Txn
  BY DEF Txn
<1>2. [phase |-> phase, rows |-> rows] # NoTxn
  BY <1>1, GovernorAssumption
<1> QED
  BY <1>1, <1>2 DEF Write, TypeOK

(* Recording a phase, in time or not.                                        *)
LEMMA RecordStep ==
  ASSUME TypeOK, NEW s \in Scans, Good(s), NEW ph \in Phases, NEW status \in Statuses,
         NEW phase \in Stored, Record(s, ph, status, phase), UNCHANGED <<db, history>>,
         at[s] = ph \/ (ph = "scan" /\ at[s] = "scan_verdict")
  PROVE  /\ txn' \in [Scans -> Txn \cup {NoTxn}] /\ report' \in [Scans -> Rows]
         /\ at' \in [Scans -> Connected \cup {"off"}]
         /\ \A q \in Scans \ {s} : txn'[q] = txn[q] /\ report'[q] = report[q] /\ at'[q] = at[q]
         /\ txn'[s] # NoTxn /\ txn'[s].phase \in {phase, "failed"}
         /\ at'[s] \in {Following(ph), "returned"}
         /\ ph = "score_select" => at'[s] = "close"
         /\ RowsAreReported(s)' /\ Unsettled(s)' /\ Settled(s)' /\ Whole(s)'
<1> DEFINE rows == [Written(s).rows EXCEPT ![ph] = status]
<1>1. rows \in Rows /\ "failed" \in Stored
  BY WrittenType DEF Rows, Statuses, Stored
<1>2. \A x \in Phases : rows[x] = IF x = ph THEN status ELSE Written(s).rows[x]
  BY WrittenType DEF Rows
<1>3. Recorded(at[s]) = Recorded(ph)
  BY DEF Recorded, Phases, Order
<1>4. report[s]["score_select"] = "none"
  BY DEF Good, Unsettled, Phases
<1>5. status # "none"
  BY DEF Statuses
<1>6. Whole(s)'
  BY DEF Good, Whole
<1>7. report \in [Scans -> Rows] /\ report[s] \in Rows /\ at \in [Scans -> Connected \cup {"off"}]
  BY DEF TypeOK
<1>8. CASE OnTime(s, ph, status, phase)
  <2>1. /\ txn' \in [Scans -> Txn \cup {NoTxn}] /\ txn'[s] = [phase |-> phase, rows |-> rows]
        /\ txn'[s] # NoTxn /\ \A q \in Scans \ {s} : txn'[q] = txn[q]
    BY <1>1, <1>8, WriteType DEF OnTime
  <2>2. /\ at' = [at EXCEPT ![s] = Following(ph)]
        /\ report' = [report EXCEPT ![s][ph] = status]
    BY <1>8 DEF OnTime, Go
  <2>3. Following(ph) \in Connected \cup {"off"}
    BY RecordedGrows DEF Connected
  <2>4. /\ at' \in [Scans -> Connected \cup {"off"}] /\ at'[s] = Following(ph)
        /\ \A q \in Scans \ {s} : at'[q] = at[q]
    BY <1>7, <2>2, <2>3
  <2>5. report' \in [Scans -> Rows] /\ \A q \in Scans \ {s} : report'[q] = report[q]
    BY <1>7, <2>2 DEF Rows
  <2>6. \A x \in Phases : report'[s][x] = IF x = ph THEN status ELSE report[s][x]
    BY <1>7, <2>2 DEF Rows
  <2>7. Written(s)'.rows = rows
    BY <2>1 DEF Written
  <2>8. RowsAreReported(s)'
    BY <1>2, <1>3, <1>5, <2>4, <2>6, <2>7, RecordedGrows DEF Good, RowsAreReported, Recorded
  <2>9. Unsettled(s)'
    BY <1>4, <2>4, <2>6, RecordedGrows DEF Unsettled, Phases
  <2>10. Settled(s)'
    BY <2>4, RecordedGrows DEF Settled, Phases
  <2> QED
    BY <1>6, <2>1, <2>4, <2>5, <2>8, <2>9, <2>10, FollowingIs
<1>9. CASE TimedOut(s, ph, status)
  <2>1. /\ txn' \in [Scans -> Txn \cup {NoTxn}] /\ txn'[s] = [phase |-> "failed", rows |-> rows]
        /\ txn'[s] # NoTxn /\ \A q \in Scans \ {s} : txn'[q] = txn[q]
    BY <1>1, <1>9, WriteType DEF TimedOut
  <2>2. /\ at' = [at EXCEPT ![s] = "returned"] /\ ph # "score_select"
        /\ report' = [report EXCEPT ![s] = DeadlineSkips(s, ph, status)]
    BY <1>9 DEF TimedOut, Go
  <2>3. DeadlineSkips(s, ph, status) \in Rows
    BY <1>7 DEF DeadlineSkips, Rows, Statuses
  <2>4. /\ at' \in [Scans -> Connected \cup {"off"}] /\ at'[s] = "returned"
        /\ \A q \in Scans \ {s} : at'[q] = at[q]
    BY <1>7, <2>2 DEF Connected
  <2>5. report' \in [Scans -> Rows] /\ \A q \in Scans \ {s} : report'[q] = report[q]
    BY <1>7, <2>2, <2>3
  <2>6. report'[s]["score_select"] = "SKIPPED"
    BY <1>7, <2>2, LaterIs DEF DeadlineSkips, Phases
  <2>7. RowsAreReported(s)' /\ Unsettled(s)'
    BY <2>4 DEF RowsAreReported, Unsettled, Recorded, Phases
  <2>8. Settled(s)'
    BY <2>6 DEF Settled, Phases
  <2> QED
    BY <1>6, <2>1, <2>2, <2>4, <2>5, <2>7, <2>8
<1> QED
  BY <1>8, <1>9 DEF Record

-----------------------------------------------------------------------------
(* Scores.                                                                   *)
LEMMA Thousandths ==
  ASSUME NEW v \in Nat, NEW n \in Nat \ {0}, v <= n
  PROVE  /\ (400 * v) \div n \in 0..400
         /\ (400 * v) \div n >= 200 => 2 * v >= n
<1> DEFINE q == (400 * v) \div n
<1>1. q \in Int /\ n * q <= 400 * v /\ 400 * v < n * (q + 1)
  OBVIOUS
<1> HIDE DEF q
<1>2. q >= 0
  <2> SUFFICES ASSUME q + 1 <= 0 PROVE FALSE
    BY <1>1
  <2>1. n * (q + 1) <= 0
    BY <1>1
  <2> QED
    BY <1>1, <2>1
<1>3. q <= 400
  <2> SUFFICES ASSUME q >= 401 PROVE FALSE
    BY <1>1
  <2>1. n * q >= n * 401
    BY <1>1
  <2> QED
    BY <1>1, <2>1
<1>4. q >= 200 => 2 * v >= n
  <2> SUFFICES ASSUME q >= 200 PROVE 2 * v >= n
    OBVIOUS
  <2>1. n * q >= n * 200
    BY <1>1
  <2> QED
    BY <1>1, <2>1
<1>5. q \in 0..400 /\ (q >= 200 => 2 * v >= n)
  BY <1>1, <1>2, <1>3, <1>4
<1> QED
  BY <1>5 DEF q

LEMMA TestsPassIs ==
  ASSUME NEW a \in Agents, NEW f, NEW rv
  PROVE  LET mine == PatchesOf[a]
             verified == {x \in mine : f[x] = "verified"}
         IN /\ TestsPass(a, f, rv) \in 0..400
            /\ TestsPass(a, f, rv) >= 200 =>
                 mine # {} /\ rv.regressed \cap mine = {} /\ 2 * Cardinality(verified) >= Cardinality(mine)
            /\ verified = {} => TestsPass(a, f, rv) = 0
<1> DEFINE mine == PatchesOf[a]
           verified == {x \in mine : f[x] = "verified"}
<1>1. IsFiniteSet(mine) /\ Cardinality(mine) \in Nat /\ Cardinality(verified) \in Nat
      /\ Cardinality(verified) <= Cardinality(mine)
  BY FS_Subset, FS_CardinalityType, GovernorAssumption
<1>2. CASE mine = {} \/ rv.regressed \cap mine # {}
  BY <1>2 DEF TestsPass
<1>3. CASE mine # {} /\ rv.regressed \cap mine = {}
  <2>1. Cardinality(mine) # 0
    BY <1>1, <1>3, FS_EmptySet
  <2>2. TestsPass(a, f, rv) = (400 * Cardinality(verified)) \div Cardinality(mine)
    BY <1>3 DEF TestsPass
  <2>3. /\ TestsPass(a, f, rv) \in 0..400
        /\ TestsPass(a, f, rv) >= 200 => 2 * Cardinality(verified) >= Cardinality(mine)
    BY <1>1, <2>1, <2>2, Thousandths
  <2>4. ASSUME verified = {} PROVE TestsPass(a, f, rv) = 0
    <3>1. Cardinality(verified) = 0
      BY <2>4, FS_EmptySet
    <3>2. TestsPass(a, f, rv) = 0 \div Cardinality(mine)
      BY <2>2, <3>1
    <3> QED
      BY <1>1, <2>1, <3>2
  <2> QED
    BY <1>3, <2>3, <2>4
<1> QED
  BY <1>2, <1>3

LEMMA ScoreNeeds ==
  ASSUME NEW a \in Agents, NEW c \in Candidates, NEW f, NEW rv, Score(a, c, f, rv) >= 800
  PROVE  TestsPass(a, f, rv) >= 200 /\ rv.findings # "some"
<1>1. c.findings \in Nat /\ c.blast \in Nat /\ c.done \in BOOLEAN
  BY GovernorAssumption DEF Candidate
<1>2. FindingsFree(c, rv) \in 0..300 /\ (rv.findings = "some" => FindingsFree(c, rv) = 0)
  BY <1>1 DEF FindingsFree, AtLeast0
<1>3. BlastScore(a, c) \in 0..200
  BY <1>1 DEF BlastScore, AtLeast0
<1>4. TestsPass(a, f, rv) \in 0..400
  BY TestsPassIs
<1> DEFINE tests == TestsPass(a, f, rv)
           free == FindingsFree(c, rv)
           blast == BlastScore(a, c)
           done == IF c.done THEN 100 ELSE 0
<1>5. done \in 0..100
  BY <1>1
<1>6. tests + free + blast + done >= 800
  BY DEF Score
<1>7. tests \in 0..400 /\ free \in 0..300 /\ blast \in 0..200
  BY <1>2, <1>3, <1>4
<1> HIDE DEF tests, free, blast, done
<1>8. tests >= 200 /\ free # 0
  BY <1>5, <1>6, <1>7
<1> QED
  BY <1>2, <1>8 DEF tests, free

LEMMA SelectionIsEarned ==
  ASSUME TypeOK, NEW s \in Scans, Good(s), at[s] = "score_select",
         NEW a \in Agents, Selection(s)[a] = "auto_apply"
  PROVE  LET mine == PatchesOf[a]
             verified == {x \in mine : fate[s][x] = "verified"}
         IN /\ fixes[s][a].done /\ fixes[s][a].gate \in {"allow", "broken"}
            /\ reverify[s].findings = "none" /\ reverify[s].regressed \cap mine = {}
            /\ mine # {} /\ 2 * Cardinality(verified) >= Cardinality(mine)
            /\ ~dry[s]
<1> DEFINE c == fixes[s][a]
           score == Score(a, c, fate[s], reverify[s])
           verified == {x \in PatchesOf[a] : fate[s][x] = "verified"}
<1>1. a \in DOMAIN fixes[s] /\ SelectCandidate(a, c, score) = "auto_apply"
  BY DEF Selection
<1>2. c \in Candidates
  BY <1>1 DEF TypeOK
<1>3. c.findings \in Nat /\ c.done \in BOOLEAN /\ c.gate \in Gates
  BY <1>2, GovernorAssumption DEF Candidate
<1>4. c.done /\ score >= 800 /\ (PatchesOf[a] = {} \/ c.gate \notin {"review", "block"})
  BY <1>1, <1>3 DEF SelectCandidate
<1>5. TestsPass(a, fate[s], reverify[s]) >= 200 /\ reverify[s].findings # "some"
  BY <1>2, <1>4, ScoreNeeds
<1>6. /\ PatchesOf[a] # {} /\ reverify[s].regressed \cap PatchesOf[a] = {}
      /\ 2 * Cardinality(verified) >= Cardinality(PatchesOf[a])
  BY <1>5, TestsPassIs
<1>7. reverify[s].findings = "none"
  BY <1>1, <1>5 DEF TypeOK, Good, Choosing
<1>8. ASSUME dry[s] PROVE FALSE
  <2>1. verified = {}
    BY <1>8 DEF Good, Dry, Patches
  <2>2. TestsPass(a, fate[s], reverify[s]) = 0
    BY <2>1, TestsPassIs
  <2> QED
    BY <1>5, <2>2
<1>9. c.gate \in {"allow", "broken"}
  BY <1>3, <1>4, <1>6 DEF Gates
<1> QED
  BY <1>4, <1>6, <1>7, <1>8, <1>9

-----------------------------------------------------------------------------
(* Each action preserves the invariant.                                      *)
LEMMA StartKeeps ==
  ASSUME GovernorInv, NEW s \in Scans, Start(s)
  PROVE  GovernorInv'
<1> USE DEF GovernorInv, Start, Go, results
<1>a. dry' \in [Scans -> BOOLEAN] /\ runs' \in 0..MaxRuns /\ at' \in [Scans -> Connected \cup {"off"}]
  BY GovernorAssumption DEF TypeOK, Connected
<1>1. TypeOK'
  BY <1>a DEF TypeOK
<1>2. at'[s] = "begin" /\ Good(s)
  BY DEF TypeOK
<1>3. /\ RowsAreReported(s)' /\ Unsettled(s)' /\ Settled(s)' /\ Whole(s)'
  BY <1>2 DEF Good, RowsAreReported, Unsettled, Settled, Whole, Recorded, Phases
<1>4. Choosing(s)' /\ \A a \in Agents : Earned(s, a)'
  BY <1>2 DEF Good, Choosing, Earned, Undecided
<1>5. Dry(s)'
  BY <1>2 DEF Good, Choosing, Dry, NoFate, Undecided
<1>6. \A q \in Scans \ {s} : Good(q)'
  BY OthersStayGood DEF TypeOK
<1> QED
  BY <1>1, <1>3, <1>4, <1>5, <1>6 DEF Good

LEMMA BeginKeeps ==
  ASSUME GovernorInv, NEW s \in Scans, Begin(s)
  PROVE  GovernorInv'
<1> USE DEF GovernorInv, Begin, Go, results
<1>1. NoRows \in Rows /\ "idle" \in Stored
  BY DEF NoRows, Rows, Stored
<1>2. /\ txn' \in [Scans -> Txn \cup {NoTxn}] /\ \A q \in Scans \ {s} : txn'[q] = txn[q]
      /\ txn'[s] = txn[s] \/ txn'[s].phase = "idle"
  <2>1. CASE UNCHANGED txn
    BY <2>1 DEF TypeOK
  <2>2. CASE Write(s, "idle", NoRows)
    <3>1. /\ txn' \in [Scans -> Txn \cup {NoTxn}] /\ txn'[s] = [phase |-> "idle", rows |-> NoRows]
          /\ \A q \in Scans \ {s} : txn'[q] = txn[q]
      <4> HIDE DEF Begin
      <4> QED
        BY <1>1, <2>2, WriteType
    <3> QED
      BY <3>1
  <2> QED
    BY <2>1, <2>2
<1>3. TypeOK'
  BY <1>2 DEF TypeOK, Connected, Phases
<1>4. at'[s] = "scan" /\ Good(s)
  BY DEF TypeOK
<1>5. /\ RowsAreReported(s)' /\ Unsettled(s)' /\ Settled(s)' /\ Whole(s)'
  BY <1>4 DEF Good, RowsAreReported, Unsettled, Settled, Whole, Recorded, Phases, Order
<1>6. Choosing(s)' /\ \A a \in Agents : Earned(s, a)'
  BY <1>4 DEF Good, Choosing, Earned, Undecided
<1>7. Dry(s)'
  BY <1>2, <1>4 DEF Good, Dry
<1>8. \A q \in Scans \ {s} : Good(q)'
  BY <1>2, OthersStayGood DEF TypeOK
<1> QED
  BY <1>3, <1>5, <1>6, <1>7, <1>8 DEF Good

LEMMA RunScanKeeps ==
  ASSUME GovernorInv, NEW s \in Scans, RunScan(s)
  PROVE  GovernorInv'
<1> USE DEF GovernorInv, RunScan, Go, results
<1>1. TypeOK'
  BY WrittenType DEF TypeOK, Connected
<1>2. at'[s] = "scan_verdict" /\ Good(s)
  BY DEF TypeOK
<1>3. /\ RowsAreReported(s)' /\ Unsettled(s)' /\ Settled(s)' /\ Whole(s)'
  BY <1>2 DEF Good, RowsAreReported, Unsettled, Settled, Whole, Recorded, Phases, Order
<1>4. Choosing(s)' /\ Dry(s)' /\ \A a \in Agents : Earned(s, a)'
  BY <1>2 DEF Good, Choosing, Dry, Earned, Undecided
<1>5. \A q \in Scans \ {s} : Good(q)'
  BY OthersStayGood DEF TypeOK
<1> QED
  BY <1>1, <1>3, <1>4, <1>5 DEF Good

(* A phase that changes no result of the fixes.                              *)
LEMMA PhaseKeeps ==
  ASSUME GovernorInv, NEW s \in Scans, NEW ph \in Phases \ {"score_select"},
         NEW status \in Statuses, NEW phase \in Stored \ {"complete"},
         at[s] = ph \/ (ph = "scan" /\ at[s] = "scan_verdict"),
         ph # "sandbox_reverify", Record(s, ph, status, phase), seen' \in [Scans -> Stored],
         UNCHANGED <<db, history, dry, runs, reverify, decision>>,
         fixes' \in [Scans -> UNION {[ran -> Candidates] : ran \in SUBSET Agents}],
         fate' \in [Scans -> [Patches -> Fates]],
         dry[s] => \A x \in Patches : fate'[s][x] = "dry",
         \A q \in Scans \ {s} : fixes'[q] = fixes[q] /\ fate'[q] = fate[q],
         ph = "fix_generation" \/ UNCHANGED <<fixes, fate>>
  PROVE  GovernorInv'
<1> USE DEF GovernorInv
<1>1. /\ txn' \in [Scans -> Txn \cup {NoTxn}] /\ report' \in [Scans -> Rows]
      /\ at' \in [Scans -> Connected \cup {"off"}]
      /\ \A q \in Scans \ {s} : txn'[q] = txn[q] /\ report'[q] = report[q] /\ at'[q] = at[q]
      /\ txn'[s] # NoTxn /\ txn'[s].phase # "complete"
      /\ at'[s] \in {Following(ph), "returned"}
      /\ RowsAreReported(s)' /\ Unsettled(s)' /\ Settled(s)' /\ Whole(s)'
  BY RecordStep DEF Stored
<1>2. TypeOK'
  BY <1>1 DEF TypeOK
<1>3. at'[s] \notin {"off", "close", "score_select"} /\ at[s] # "close"
  BY <1>1, FollowingIs DEF Phases
<1>4. Good(s) /\ decision[s] = Undecided
  BY <1>3 DEF Good, Choosing
<1>5. Choosing(s)'
  BY <1>3, <1>4 DEF Choosing
<1>6. Dry(s)' /\ \A a \in Agents : Earned(s, a)'
  BY <1>1, <1>4 DEF Dry, Earned, Undecided
<1>7. \A q \in Scans \ {s} : Good(q)'
  BY <1>1, OthersStayGood
<1> QED
  BY <1>1, <1>2, <1>5, <1>6, <1>7 DEF Good

LEMMA PlainPhaseKeeps ==
  ASSUME GovernorInv, NEW s \in Scans, NEW ph \in Phases \ {"fix_generation", "sandbox_reverify", "score_select"},
         NEW status \in Statuses, NEW phase \in Stored \ {"complete"},
         at[s] = ph \/ (ph = "scan" /\ at[s] = "scan_verdict"),
         Record(s, ph, status, phase), seen' \in [Scans -> Stored],
         UNCHANGED <<db, history, dry, runs, results>>
  PROVE  GovernorInv'
<1>1. UNCHANGED <<fixes, fate, reverify, decision>>
  BY DEF results
<1>2. /\ fixes' \in [Scans -> UNION {[ran -> Candidates] : ran \in SUBSET Agents}]
      /\ fate' \in [Scans -> [Patches -> Fates]]
      /\ dry[s] => \A x \in Patches : fate'[s][x] = "dry"
  BY <1>1 DEF GovernorInv, TypeOK, Good, Dry
<1> QED
  BY <1>1, <1>2, PhaseKeeps

LEMMA ScanVerdictKeeps ==
  ASSUME GovernorInv, NEW s \in Scans, ScanVerdict(s)
  PROVE  GovernorInv'
<1>1. PICK o \in Outcomes :
        IF IsValidTransition(seen[s], "scan") /\ MeetsCriteria("scan", o)
          THEN Record(s, "scan", "DONE", "scan")
          ELSE /\ Write(s, "failed", [Written(s).rows EXCEPT !["scan"] = "FAILED"])
               /\ report' = [report EXCEPT ![s]["scan"] = "FAILED"]
               /\ Go(s, "returned")
  BY DEF ScanVerdict
<1>2. /\ at[s] = "scan_verdict" /\ seen' \in [Scans -> Stored]
      /\ UNCHANGED <<db, history, dry, runs, results>>
  BY DEF ScanVerdict, GovernorInv, TypeOK, Stored
<1>3. CASE Record(s, "scan", "DONE", "scan")
  BY <1>2, <1>3, PlainPhaseKeeps DEF Phases, Stored, Statuses
<1>4. CASE /\ Write(s, "failed", [Written(s).rows EXCEPT !["scan"] = "FAILED"])
           /\ report' = [report EXCEPT ![s]["scan"] = "FAILED"]
           /\ Go(s, "returned")
  <2> USE DEF GovernorInv
  <2>1. [Written(s).rows EXCEPT !["scan"] = "FAILED"] \in Rows /\ "failed" \in Stored
    BY WrittenType DEF Rows, Statuses, Stored
  <2>a. PICK rows \in Rows : Write(s, "failed", rows)
    BY <1>4, <2>1
  <2>b. /\ txn' \in [Scans -> Txn \cup {NoTxn}] /\ txn'[s] = [phase |-> "failed", rows |-> rows]
        /\ \A q \in Scans \ {s} : txn'[q] = txn[q]
    BY <2>1, <2>a, WriteType
  <2>2. /\ txn' \in [Scans -> Txn \cup {NoTxn}] /\ txn'[s].phase = "failed"
        /\ \A q \in Scans \ {s} : txn'[q] = txn[q]
    BY <2>b
  <2>3. /\ report' \in [Scans -> Rows] /\ report'[s]["scan"] = "FAILED"
        /\ \A q \in Scans \ {s} : report'[q] = report[q]
    BY <1>4 DEF TypeOK, Rows, Statuses, Phases
  <2>4. /\ at' \in [Scans -> Connected \cup {"off"}] /\ at'[s] = "returned"
        /\ \A q \in Scans \ {s} : at'[q] = at[q]
    BY <1>4 DEF TypeOK, Go, Connected
  <2>5. TypeOK'
    <3>1. UNCHANGED <<db, history, dry, runs, fixes, fate, reverify, decision>> /\ seen' \in [Scans -> Stored]
      BY <1>2 DEF results
    <3> QED
      BY <2>2, <2>3, <2>4, <3>1 DEF TypeOK
  <2>6. RowsAreReported(s)' /\ Unsettled(s)' /\ Settled(s)' /\ Whole(s)'
    BY <1>2, <2>3, <2>4 DEF Good, RowsAreReported, Unsettled, Settled, Whole, Recorded, Phases
  <2>7. Choosing(s)' /\ Dry(s)' /\ \A a \in Agents : Earned(s, a)'
    BY <1>2, <2>2, <2>4 DEF Good, Choosing, Dry, Earned, Undecided, results
  <2>8. \A q \in Scans \ {s} : Good(q)'
    BY <1>2, <2>2, <2>3, <2>4, OthersStayGood DEF results
  <2> QED
    BY <2>5, <2>6, <2>7, <2>8 DEF Good
<1> QED
  BY <1>1, <1>3, <1>4

LEMMA TransitionRecords ==
  ASSUME NEW s \in Scans, NEW current, NEW ph \in Phases, NEW o, Transition(s, current, ph, o)
  PROVE  \E status \in Statuses, phase \in {ph, "failed"} : Record(s, ph, status, phase)
  BY DEF Transition, Statuses

LEMMA RunGraphUpdateKeeps ==
  ASSUME GovernorInv, NEW s \in Scans, RunGraphUpdate(s)
  PROVE  GovernorInv'
<1>1. /\ at[s] = "graph_update" /\ seen' \in [Scans -> Stored]
      /\ UNCHANGED <<db, history, dry, runs, results>>
  BY DEF RunGraphUpdate, GovernorInv, TypeOK
<1>2. PICK status \in Statuses : Record(s, "graph_update", status, "graph_update")
  BY DEF RunGraphUpdate, Statuses
<1> QED
  BY <1>1, <1>2, PlainPhaseKeeps DEF Phases, Stored

LEMMA RunTestGenerationKeeps ==
  ASSUME GovernorInv, NEW s \in Scans, RunTestGeneration(s)
  PROVE  GovernorInv'
<1>1. /\ at[s] = "test_generation" /\ seen' \in [Scans -> Stored]
      /\ UNCHANGED <<db, history, dry, runs, results>>
  BY DEF RunTestGeneration, GovernorInv, TypeOK
<1>2. PICK status \in Statuses : Record(s, "test_generation", status, "test_generation")
  BY DEF RunTestGeneration, Statuses
<1> QED
  BY <1>1, <1>2, PlainPhaseKeeps DEF Phases, Stored

LEMMA RunTestKeeps ==
  ASSUME GovernorInv, NEW s \in Scans, RunTest(s)
  PROVE  GovernorInv'
<1>1. /\ at[s] = "test_execution" /\ seen' \in [Scans -> Stored]
      /\ UNCHANGED <<db, history, dry, runs, results>>
  BY DEF RunTest, GovernorInv, TypeOK
<1>2. PICK status \in Statuses, phase \in {"test_execution", "failed"} :
        Record(s, "test_execution", status, phase)
  BY TransitionRecords DEF RunTest, Phases
<1> QED
  BY <1>1, <1>2, PlainPhaseKeeps DEF Phases, Stored

LEMMA RunFixGenerationKeeps ==
  ASSUME GovernorInv, NEW s \in Scans, RunFixGeneration(s)
  PROVE  GovernorInv'
<1>a. PICK ran \in SUBSET Agents : \E made \in [ran -> Candidates], f \in [Patches -> Fates] :
        /\ \A x \in Patches : f[x] \in MayBecome(s, x, ran)
        /\ fixes' = [fixes EXCEPT ![s] = made]
        /\ fate' = [fate EXCEPT ![s] = f]
        /\ Transition(s, Phase(s), "fix_generation", FixOutcome(made))
  BY DEF RunFixGeneration
<1>1. PICK made \in [ran -> Candidates], f \in [Patches -> Fates] :
        /\ \A x \in Patches : f[x] \in MayBecome(s, x, ran)
        /\ fixes' = [fixes EXCEPT ![s] = made]
        /\ fate' = [fate EXCEPT ![s] = f]
        /\ Transition(s, Phase(s), "fix_generation", FixOutcome(made))
  BY <1>a
<1>2. /\ at[s] = "fix_generation" /\ seen' \in [Scans -> Stored]
      /\ UNCHANGED <<db, history, dry, runs, reverify, decision>>
  BY DEF RunFixGeneration, GovernorInv, TypeOK
<1>3. made \in UNION {[r -> Candidates] : r \in SUBSET Agents}
  BY <1>1
<1>4. /\ fixes' \in [Scans -> UNION {[r -> Candidates] : r \in SUBSET Agents}]
      /\ fate' \in [Scans -> [Patches -> Fates]] /\ fate'[s] = f
      /\ \A q \in Scans \ {s} : fixes'[q] = fixes[q] /\ fate'[q] = fate[q]
  BY <1>1, <1>3 DEF GovernorInv, TypeOK
<1>5. dry[s] => \A x \in Patches : fate'[s][x] = "dry"
  BY <1>1, <1>4 DEF MayBecome
<1>6. PICK status \in Statuses, phase \in {"fix_generation", "failed"} :
        Record(s, "fix_generation", status, phase)
  BY <1>1, TransitionRecords DEF Phases
<1>7. /\ "fix_generation" \in Phases \ {"score_select"}
      /\ phase \in Stored \ {"complete"}
  BY <1>6 DEF Phases, Stored
<1> QED
  BY <1>2, <1>4, <1>5, <1>6, <1>7, PhaseKeeps

LEMMA RunSandboxReverifyKeeps ==
  ASSUME GovernorInv, NEW s \in Scans, RunSandboxReverify(s)
  PROVE  GovernorInv'
<1> USE DEF GovernorInv
<1>1. /\ at[s] = "sandbox_reverify" /\ Good(s)
      /\ UNCHANGED <<db, history, dry, seen, fixes, fate, decision, runs>>
  BY DEF RunSandboxReverify
<1>2. txn[s] # NoTxn
  BY <1>1 DEF Good, RowsAreReported, Recorded, Written, NoRows, Phases, Order
<1>3. Phase(s) \in Stored /\ (dry[s] => Phase(s) # "complete")
  BY <1>1, <1>2, WrittenType DEF Good, Dry, Phase, Written
<1>4. PICK status \in Statuses, phase \in {"sandbox_reverify", Phase(s)} :
        Record(s, "sandbox_reverify", status, phase)
  BY DEF RunSandboxReverify, Statuses
<1>5. /\ reverify' \in [Scans -> [findings : {"unknown", "none", "some"}, regressed : SUBSET Patches]]
      /\ \A q \in Scans \ {s} : reverify'[q] = reverify[q]
      /\ DOMAIN fixes[s] = {} \/ reverify'[s].findings # "unknown"
  <2>1. CASE UNCHANGED reverify /\ DOMAIN fixes[s] = {}
    BY <2>1 DEF TypeOK
  <2>2. ASSUME NEW o \in Outcomes, NEW r \in SUBSET Rechecked(s),
               reverify' = [reverify EXCEPT ![s] = [findings |-> Remaining(o), regressed |-> r]]
        PROVE  /\ reverify' \in [Scans -> [findings : {"unknown", "none", "some"}, regressed : SUBSET Patches]]
               /\ \A q \in Scans \ {s} : reverify'[q] = reverify[q]
               /\ reverify'[s].findings # "unknown"
    <3>1. Remaining(o) \in {"none", "some"} /\ r \subseteq Patches
      BY DEF Remaining, Rechecked
    <3> DEFINE new == [findings |-> Remaining(o), regressed |-> r]
    <3>2. new \in [findings : {"unknown", "none", "some"}, regressed : SUBSET Patches]
          /\ new.findings # "unknown"
      BY <3>1
    <3> QED
      BY <2>2, <3>2 DEF TypeOK
  <2> QED
    BY <2>1, <2>2 DEF RunSandboxReverify
<1>6. /\ "sandbox_reverify" \in Phases /\ phase \in Stored /\ (dry[s] => phase # "complete")
  BY <1>3, <1>4 DEF Phases, Stored
<1>7. /\ txn' \in [Scans -> Txn \cup {NoTxn}] /\ report' \in [Scans -> Rows]
      /\ at' \in [Scans -> Connected \cup {"off"}]
      /\ \A q \in Scans \ {s} : txn'[q] = txn[q] /\ report'[q] = report[q] /\ at'[q] = at[q]
      /\ txn'[s] # NoTxn /\ txn'[s].phase \in {phase, "failed"}
      /\ at'[s] \in {Following("sandbox_reverify"), "returned"}
      /\ RowsAreReported(s)' /\ Unsettled(s)' /\ Settled(s)' /\ Whole(s)'
  BY <1>1, <1>4, <1>6, RecordStep
<1>8. TypeOK'
  BY <1>1, <1>5, <1>7 DEF TypeOK
<1>9. at'[s] \in {"score_select", "returned"}
  BY <1>7, FollowingIs
<1>10. Choosing(s)' /\ \A a \in Agents : Earned(s, a)'
  BY <1>1, <1>5, <1>9 DEF Good, Choosing, Earned, Undecided
<1>11. Dry(s)'
  BY <1>1, <1>6, <1>7 DEF Good, Dry
<1>12. \A q \in Scans \ {s} : Good(q)'
  BY <1>1, <1>5, <1>7, OthersStayGood
<1> QED
  BY <1>7, <1>8, <1>10, <1>11, <1>12 DEF Good

LEMMA RunScoreSelectKeeps ==
  ASSUME GovernorInv, NEW s \in Scans, RunScoreSelect(s)
  PROVE  GovernorInv'
<1> USE DEF GovernorInv
<1>1. /\ at[s] = "score_select" /\ Good(s)
      /\ UNCHANGED <<db, history, dry, seen, fixes, fate, reverify, runs>>
      /\ decision' = [decision EXCEPT ![s] = Selection(s)]
  BY DEF RunScoreSelect
<1>2. txn[s] # NoTxn
  BY <1>1 DEF Good, RowsAreReported, Recorded, Written, NoRows, Phases, Order
<1>3. Phase(s) \in Stored /\ (dry[s] => Phase(s) # "complete")
  BY <1>1, <1>2, WrittenType DEF Good, Dry, Phase, Written
<1>4. \A a \in Agents : Selection(s)[a] = "auto_apply" => ~dry[s]
  BY <1>1, SelectionIsEarned
<1>5. PICK status \in Statuses, phase \in Stored :
        Record(s, "score_select", status, phase) /\ (dry[s] => phase # "complete")
  BY <1>3, <1>4 DEF RunScoreSelect, Statuses, Stored
<1>6. /\ txn' \in [Scans -> Txn \cup {NoTxn}] /\ report' \in [Scans -> Rows]
      /\ at' \in [Scans -> Connected \cup {"off"}]
      /\ \A q \in Scans \ {s} : txn'[q] = txn[q] /\ report'[q] = report[q] /\ at'[q] = at[q]
      /\ txn'[s] # NoTxn /\ txn'[s].phase \in {phase, "failed"} /\ at'[s] = "close"
      /\ RowsAreReported(s)' /\ Unsettled(s)' /\ Settled(s)' /\ Whole(s)'
  BY <1>1, <1>5, RecordStep DEF Phases
<1>7. Selection(s) \in [Agents -> {"none", "auto_apply", "escalate", "discard"}]
  <2>1. ASSUME NEW a \in Agents, a \in DOMAIN fixes[s]
        PROVE  SelectCandidate(a, fixes[s][a], Score(a, fixes[s][a], fate[s], reverify[s])) \in
                 {"auto_apply", "escalate", "discard"}
    BY DEF SelectCandidate
  <2> QED
    BY <2>1 DEF Selection
<1>8. /\ decision' \in [Scans -> [Agents -> {"none", "auto_apply", "escalate", "discard"}]]
      /\ decision'[s] = Selection(s) /\ \A q \in Scans \ {s} : decision'[q] = decision[q]
  BY <1>1, <1>7 DEF TypeOK
<1>9. TypeOK'
  BY <1>1, <1>6, <1>8 DEF TypeOK
<1>10. Choosing(s)'
  BY <1>6 DEF Choosing
<1>11. ASSUME NEW a \in Agents PROVE Earned(s, a)'
  <2>1. CASE Selection(s)[a] # "auto_apply"
    BY <1>8, <2>1 DEF Earned
  <2>2. CASE Selection(s)[a] = "auto_apply"
    <3> DEFINE mine == PatchesOf[a]
               verified == {x \in mine : fate[s][x] = "verified"}
    <3>1. /\ fixes[s][a].done /\ fixes[s][a].gate \in {"allow", "broken"}
          /\ reverify[s].findings = "none" /\ reverify[s].regressed \cap mine = {}
          /\ mine # {} /\ 2 * Cardinality(verified) >= Cardinality(mine)
      BY <1>1, <2>2, SelectionIsEarned
    <3>2. fixes' = fixes /\ reverify' = reverify /\ fate' = fate
      BY <1>1
    <3> QED
      BY <3>1, <3>2 DEF Earned
  <2> QED
    BY <2>1, <2>2
<1>12. Dry(s)'
  BY <1>1, <1>4, <1>5, <1>6, <1>8 DEF Good, Dry
<1>13. \A q \in Scans \ {s} : Good(q)'
  BY <1>1, <1>6, <1>8, OthersStayGood
<1> QED
  BY <1>6, <1>9, <1>10, <1>11, <1>12, <1>13 DEF Good

LEMMA CloseKeeps ==
  ASSUME GovernorInv, NEW s \in Scans, Close(s)
  PROVE  GovernorInv'
<1> USE DEF GovernorInv
<1>1. /\ at[s] = "close" /\ Good(s) /\ txn' = [txn EXCEPT ![s] = NoTxn]
      /\ at' = [at EXCEPT ![s] = "switch"] /\ UNCHANGED <<dry, seen, reverify, runs>>
      /\ fixes' = [fixes EXCEPT ![s] = NoFixes] /\ fate' = [fate EXCEPT ![s] = NoFate]
      /\ decision' = [decision EXCEPT ![s] = Undecided]
  BY DEF Close, Go, Forget
<1>2. /\ fixes' \in [Scans -> UNION {[ran -> Candidates] : ran \in SUBSET Agents}]
      /\ fate' \in [Scans -> [Patches -> Fates]] /\ fate'[s] = NoFate
      /\ decision' \in [Scans -> [Agents -> {"none", "auto_apply", "escalate", "discard"}]]
      /\ decision'[s] = Undecided
  <2>1. NoFixes \in [{} -> Candidates] /\ {} \in SUBSET Agents
    BY DEF NoFixes
  <2>2. NoFixes \in UNION {[ran -> Candidates] : ran \in SUBSET Agents}
    BY <2>1
  <2>3. NoFate \in [Patches -> Fates]
        /\ Undecided \in [Agents -> {"none", "auto_apply", "escalate", "discard"}]
    BY DEF NoFate, Fates, Undecided
  <2> QED
    BY <1>1, <2>2, <2>3 DEF TypeOK
<1>3. /\ db' \in Stored /\ history' \in [Scans -> Rows] /\ report' \in [Scans -> Rows]
      /\ \A q \in Scans \ {s} : history'[q] = history[q] /\ report'[q] = report[q]
  <2>1. CASE Commit(s)
    BY <2>1, WrittenType DEF Commit, TypeOK
  <2>2. CASE CommitFails(s)
    <3> DEFINE row == [report[s] EXCEPT !["score_select"] = IF @ = "DONE" THEN "SKIPPED" ELSE @]
    <3>1. UNCHANGED <<db, history>> /\ report' = [report EXCEPT ![s] = row]
      BY <2>2 DEF CommitFails, Downgraded
    <3>2. report[s] \in Rows
      BY DEF TypeOK
    <3>3. row \in Rows
      BY <3>2 DEF Rows, Statuses
    <3> HIDE DEF row
    <3> QED BY <3>1, <3>3 DEF TypeOK
  <2> QED
    BY <2>1, <2>2 DEF Close
<1>4. /\ txn' \in [Scans -> Txn \cup {NoTxn}] /\ at' \in [Scans -> Connected \cup {"off"}]
      /\ txn'[s] = NoTxn /\ at'[s] = "switch"
      /\ \A q \in Scans \ {s} : txn'[q] = txn[q] /\ at'[q] = at[q]
  BY <1>1 DEF TypeOK, Connected
<1>5. TypeOK'
  BY <1>1, <1>2, <1>3, <1>4 DEF TypeOK
<1>6. \A x \in Phases : Written(s).rows[x] = report[s][x] /\ report[s][x] # "none"
  BY <1>1 DEF Good, RowsAreReported, Recorded
<1>7. Settled(s)' /\ Whole(s)'
  <2>1. CASE Commit(s)
    <3>1. history'[s] = Written(s).rows /\ report' = report
      BY <2>1 DEF Commit, TypeOK
    <3>2. Written(s).rows = report[s]
      BY <1>6, WrittenType DEF TypeOK, Rows
    <3> QED
      BY <1>6, <3>1, <3>2 DEF Settled, Whole
  <2>2. CASE CommitFails(s)
    <3>1. history' = history /\ report'[s]["score_select"] # "DONE"
      BY <2>2 DEF CommitFails, Downgraded, TypeOK, Rows, Phases
    <3> QED
      BY <1>1, <3>1 DEF Good, Settled, Whole, Phases
  <2> QED
    BY <2>1, <2>2 DEF Close
<1>8. RowsAreReported(s)' /\ Unsettled(s)' /\ Choosing(s)'
  BY <1>2, <1>4 DEF RowsAreReported, Unsettled, Choosing, Recorded, Phases
<1>9. Dry(s)' /\ \A a \in Agents : Earned(s, a)'
  BY <1>2, <1>4 DEF Dry, Earned, NoFate, Undecided
<1>10. \A q \in Scans \ {s} : Good(q)'
  <2>1. ASSUME NEW q \in Scans \ {s} PROVE Good(q)'
    BY <1>1, <1>3, <1>4, OthersStayGood DEF TypeOK
  <2> QED
    BY <2>1
<1> QED
  BY <1>5, <1>7, <1>8, <1>9, <1>10 DEF Good

LEMMA SwitchJournalKeeps ==
  ASSUME GovernorInv, NEW s \in Scans, SwitchJournal(s)
  PROVE  GovernorInv'
<1> USE DEF GovernorInv
<1>1. /\ at[s] = "switch" /\ Good(s) /\ report' \in {report, Downgraded(s)}
      /\ at' = [at EXCEPT ![s] = "returned"]
      /\ UNCHANGED <<db, history, txn, dry, seen, fixes, fate, reverify, decision, runs>>
  BY DEF SwitchJournal, Go, results
<1>2. /\ report' \in [Scans -> Rows] /\ \A q \in Scans \ {s} : report'[q] = report[q]
      /\ report'[s] = report[s] \/ report'[s]["score_select"] # "DONE"
  <2>1. CASE report' = report
    BY <2>1 DEF TypeOK
  <2>2. CASE report' = Downgraded(s)
    BY <2>2 DEF Downgraded, TypeOK, Rows, Statuses, Phases
  <2> QED
    BY <1>1, <2>1, <2>2
<1>3. /\ at' \in [Scans -> Connected \cup {"off"}] /\ at'[s] = "returned"
      /\ \A q \in Scans \ {s} : at'[q] = at[q]
  BY <1>1 DEF TypeOK, Connected
<1>4. TypeOK'
  BY <1>1, <1>2, <1>3 DEF TypeOK
<1>5. Settled(s)' /\ Whole(s)' /\ RowsAreReported(s)' /\ Unsettled(s)'
  BY <1>1, <1>2, <1>3 DEF Good, Settled, Whole, RowsAreReported, Unsettled, Recorded, Phases
<1>6. Choosing(s)' /\ Dry(s)' /\ \A a \in Agents : Earned(s, a)'
  BY <1>1, <1>3 DEF Good, Choosing, Dry, Earned, Undecided
<1>7. \A q \in Scans \ {s} : Good(q)'
  BY <1>1, <1>2, <1>3, OthersStayGood
<1> QED
  BY <1>4, <1>5, <1>6, <1>7 DEF Good

LEMMA LockedOutKeeps ==
  ASSUME GovernorInv, NEW s \in Scans, LockedOut(s)
  PROVE  GovernorInv'
<1> USE DEF GovernorInv
<1>1. /\ at[s] \in Phases \cup {"begin", "scan_verdict"} /\ Good(s)
      /\ at' = [at EXCEPT ![s] = "returned"]
      /\ UNCHANGED <<db, history, txn, dry, seen, report, fixes, fate, reverify, decision, runs>>
  BY DEF LockedOut, Go, results
<1>2. /\ at' \in [Scans -> Connected \cup {"off"}] /\ at'[s] = "returned"
      /\ \A q \in Scans \ {s} : at'[q] = at[q]
  BY <1>1 DEF TypeOK, Connected
<1>3. TypeOK'
  BY <1>1, <1>2 DEF TypeOK
<1>4. Settled(s)' /\ Whole(s)' /\ RowsAreReported(s)' /\ Unsettled(s)'
  BY <1>1, <1>2 DEF Good, Settled, Whole, RowsAreReported, Unsettled, Recorded, Phases
<1>5. Choosing(s)' /\ Dry(s)' /\ \A a \in Agents : Earned(s, a)'
  BY <1>1, <1>2 DEF Good, Choosing, Dry, Earned, Undecided, Phases
<1>6. \A q \in Scans \ {s} : Good(q)'
  BY <1>1, <1>2, OthersStayGood
<1> QED
  BY <1>3, <1>4, <1>5, <1>6 DEF Good

LEMMA GoneKeeps ==
  ASSUME GovernorInv, NEW s \in Scans, Gone(s)
  PROVE  GovernorInv'
<1> USE DEF GovernorInv
<1>1. /\ txn' = [txn EXCEPT ![s] = NoTxn] /\ report' = [report EXCEPT ![s] = NoRows]
      /\ history' = [history EXCEPT ![s] = NoRows] /\ fixes' = [fixes EXCEPT ![s] = NoFixes]
      /\ fate' = [fate EXCEPT ![s] = NoFate] /\ decision' = [decision EXCEPT ![s] = Undecided]
      /\ reverify' = [reverify EXCEPT ![s] = Unknown] /\ dry' = [dry EXCEPT ![s] = TRUE]
      /\ seen' = [seen EXCEPT ![s] = "idle"] /\ at' = [at EXCEPT ![s] = "off"]
      /\ UNCHANGED <<db, runs>>
  BY DEF Gone, Go, Forget
<1>2. /\ NoRows \in Rows /\ NoFate \in [Patches -> Fates]
      /\ Undecided \in [Agents -> {"none", "auto_apply", "escalate", "discard"}]
      /\ Unknown \in [findings : {"unknown", "none", "some"}, regressed : SUBSET Patches]
      /\ "idle" \in Stored
  BY DEF NoRows, Rows, NoFate, Fates, Undecided, Unknown, Stored
<1>3. NoFixes \in UNION {[ran -> Candidates] : ran \in SUBSET Agents}
  <2>1. NoFixes \in [{} -> Candidates] /\ {} \in SUBSET Agents
    BY DEF NoFixes
  <2> QED
    BY <2>1
<1>4. /\ txn' \in [Scans -> Txn \cup {NoTxn}] /\ report' \in [Scans -> Rows]
      /\ history' \in [Scans -> Rows] /\ fate' \in [Scans -> [Patches -> Fates]]
      /\ dry' \in [Scans -> BOOLEAN] /\ seen' \in [Scans -> Stored]
      /\ at' \in [Scans -> Connected \cup {"off"}]
  BY <1>1, <1>2 DEF TypeOK
<1>5. /\ fixes' \in [Scans -> UNION {[ran -> Candidates] : ran \in SUBSET Agents}]
      /\ decision' \in [Scans -> [Agents -> {"none", "auto_apply", "escalate", "discard"}]]
      /\ reverify' \in [Scans -> [findings : {"unknown", "none", "some"}, regressed : SUBSET Patches]]
  BY <1>1, <1>2, <1>3 DEF TypeOK
<1>6. TypeOK'
  BY <1>1, <1>4, <1>5 DEF TypeOK
<1>7. /\ txn'[s] = NoTxn /\ report'[s] = NoRows /\ history'[s] = NoRows /\ fate'[s] = NoFate
      /\ decision'[s] = Undecided /\ at'[s] = "off"
  BY <1>1 DEF TypeOK
<1>8. Good(s)'
  BY <1>7 DEF Good, RowsAreReported, Unsettled, Settled, Choosing, Dry, Whole, Earned, Recorded,
              NoRows, NoFate, Undecided, Phases
<1>9. \A q \in Scans \ {s} : Good(q)'
  BY <1>1, OthersStayGood DEF TypeOK
<1> QED
  BY <1>6, <1>8, <1>9

-----------------------------------------------------------------------------
LEMMA GovernorStep == GovernorInv /\ [Next]_vars => GovernorInv'
<1> SUFFICES ASSUME GovernorInv, [Next]_vars PROVE GovernorInv'
  OBVIOUS
<1>1. ASSUME NEW s \in Scans, Start(s) \/ Crash(s) PROVE GovernorInv'
  BY <1>1, StartKeeps, GoneKeeps DEF Crash
<1>2. ASSUME NEW s \in Scans, Run(s) PROVE GovernorInv'
  BY <1>2, BeginKeeps, RunScanKeeps, ScanVerdictKeeps, RunGraphUpdateKeeps, RunTestGenerationKeeps,
     RunTestKeeps, RunFixGenerationKeeps, RunSandboxReverifyKeeps, RunScoreSelectKeeps, CloseKeeps,
     SwitchJournalKeeps, LockedOutKeeps, GoneKeeps DEF Run, Exit
<1>3. CASE UNCHANGED vars
  <2> USE <1>3 DEF GovernorInv, vars
  <2>1. TypeOK'
    BY DEF TypeOK
  <2>2. ASSUME NEW s \in Scans PROVE Good(s)'
    BY DEF Good, RowsAreReported, Unsettled, Settled, Choosing, Dry, Whole, Earned, Written
  <2> QED
    BY <2>1, <2>2
<1> QED
  BY <1>1, <1>2, <1>3 DEF Next

LEMMA GovernorHolds == Spec => []GovernorInv
  BY GovernorInit, GovernorStep, PTL DEF Spec

(* Every variable of the pipeline keeps its type.                            *)
THEOREM GovernorTypeCorrect == Spec => []TypeOK
<1>1. GovernorInv => TypeOK
  BY DEF GovernorInv
<1> QED
  BY <1>1, GovernorHolds, PTL

(* A scan that reports every phase of governor.py as passed has exactly that
   in its history on disk, whatever else failed or wrote meanwhile.          *)
THEOREM VerdictAlwaysDurable == Spec => []VerdictIsDurable
  BY GoodImplies, GovernorHolds, PTL

(* No part of a run is ever on disk without the rest.                        *)
THEOREM HistoryAlwaysWhole == Spec => []HistoryHoldsWholeRuns
  BY GoodImplies, GovernorHolds, PTL

(* What _select_candidate takes without a person is verified by half its
   patches at least, over a clean re-scan, and passed by the risk gate.      *)
THEOREM AutoApplyAlwaysEarned == Spec => []AutoApplyIsEarned
  BY GoodImplies, GovernorHolds, PTL

(* p scan never selects a candidate to be applied.                           *)
THEOREM DryRunsNeverComplete == Spec => []DryRunNeverCompletes
  BY GoodImplies, GovernorHolds, PTL
=============================================================================
