------------------------------- MODULE Governor -------------------------------
(***************************************************************************)
(* The scan pipeline of core/agents/governor.py: run_full_pipeline_v2, as  *)
(* p scan runs it, and its state in .patchi/pipeline_state.db.  Every scan *)
(* is a process with a connection of its own.  Its first write opens a     *)
(* transaction that only close() commits, so a run keeps the write lock of *)
(* the store until it closes, and loses what it wrote when it returns      *)
(* without closing or dies.  What the agents of a phase report is an       *)
(* input.                                                                  *)
(***************************************************************************)
EXTENDS Integers, FiniteSets

CONSTANTS
  Scans,      \* the processes that run p scan
  NoTxn,      \* no open transaction
  Agents,     \* the fix agents
  PatchesOf,  \* agent -> the patches it produces
  Outcomes,   \* what the agents of one phase may report together
  Candidates, \* what one fix agent may report
  MaxRuns,    \* bound: scans started
  Appliers,   \* the scans that may run with dry_run=False
  Hazards     \* "crash": a process dies; "disk": the commit fails; "deadline": the time
              \* budget ends

Phases == {"scan", "graph_update", "test_generation", "test_execution", "fix_generation",
           "sandbox_reverify", "score_select"}
Stored == Phases \cup {"idle", "complete", "failed"}
Statuses == {"DONE", "FAILED", "SKIPPED"}
Gates == {"allow", "review", "block", "broken"}
(* Applied but not verified, rolled back, or sent to review by the loop: all "unverified". *)
Fates == {"dry", "verified", "unverified", "flagged"}
Patches == UNION {PatchesOf[a] : a \in Agents}

Rows == [Phases -> Statuses \cup {"none"}]
Txn == [phase : Stored, rows : Rows]
Outcome == [agents : Nat, failed : Nat, critical : Nat, high : Nat, low : Nat,
            evalOk : BOOLEAN, badTests : Nat, flaky : Nat]
Candidate == [done : BOOLEAN, findings : Nat, blast : Nat, gate : Gates]

ASSUME GovernorAssumption ==
  /\ NoTxn \notin Txn
  /\ Outcomes \subseteq Outcome /\ Candidates \subseteq Candidate
  /\ \A a \in Agents : IsFiniteSet(PatchesOf[a])
  /\ MaxRuns \in Nat
  /\ Appliers \subseteq Scans
  /\ Hazards \subseteq {"crash", "disk", "deadline"}

VARIABLES
  db,        \* the committed phase
  history,   \* scan -> the rows its run committed; nobody reads rows, so those of a process
             \* that is gone are left out
  txn,       \* scan -> what its connection wrote since it began, or NoTxn
  at,        \* scan -> its next step
  dry,       \* scan -> dry_run
  seen,      \* scan -> the phase _transition_to read before it collected the evidence
  report,    \* scan -> the PhaseResults it returns: phase -> status
  fixes,     \* scan -> _last_fix_results: what each fix agent that ran reported
  fate,      \* scan -> _last_fix_verify: patch -> what the verify loop made of it
  reverify,  \* scan -> _last_reverify_outcome; what the re-scan found is unknown at first
  decision,  \* scan -> _last_selection: agent -> action
  runs

vars == <<db, history, txn, at, dry, seen, report, fixes, fate, reverify, decision, runs>>
results == <<fixes, fate, reverify, decision>>

NoRows == [ph \in Phases |-> "none"]
NoFixes == [a \in {} |-> "none"]
NoFate == [x \in Patches |-> "dry"]
Unknown == [findings |-> "unknown", regressed |-> {}]
Undecided == [a \in Agents |-> "none"]

Connected == {"begin", "switch", "returned"} \cup {"scan_verdict"} \cup Phases \cup {"close"}

Init ==
  /\ db = "idle" /\ history = [s \in Scans |-> NoRows]
  /\ txn = [s \in Scans |-> NoTxn] /\ at = [s \in Scans |-> "off"]
  /\ dry = [s \in Scans |-> TRUE] /\ seen = [s \in Scans |-> "idle"]
  /\ report = [s \in Scans |-> NoRows]
  /\ fixes = [s \in Scans |-> NoFixes] /\ fate = [s \in Scans |-> NoFate]
  /\ reverify = [s \in Scans |-> Unknown] /\ decision = [s \in Scans |-> Undecided]
  /\ runs = 0

-----------------------------------------------------------------------------
(* The state machine of the phases, and the acceptance criteria.             *)
Order == [idle |-> 0, scan |-> 1, graph_update |-> 2, test_generation |-> 3,
          test_execution |-> 4, fix_generation |-> 5, sandbox_reverify |-> 6,
          score_select |-> 7, complete |-> 8, failed |-> -1]

IsValidTransition(current, target) ==
  IF current \in {"idle", "complete"} THEN target = "scan" ELSE Order[target] = Order[current] + 1

Later(ph) == {x \in Phases : Order[x] > Order[ph]}
(* Mutation: the last phase leads to COMPLETE, not to close().              *)
FollowingToComplete(ph) ==
  IF Later(ph) = {} THEN "complete" ELSE CHOOSE x \in Later(ph) : Order[x] = Order[ph] + 1

Following(ph) ==
  IF Later(ph) = {} THEN "close" ELSE CHOOSE x \in Later(ph) : Order[x] = Order[ph] + 1

DefaultCriteria == [
  scan             |-> [critical |-> 200, high |-> 1000, agents |-> 1],
  test_execution   |-> [critical |-> 200, high |-> 1000, agents |-> 0],
  fix_generation   |-> [critical |-> 50, high |-> 200, agents |-> 1],
  sandbox_reverify |-> [critical |-> 50, high |-> 200, agents |-> 0]]

(* require_zero_errors holds of every phase, so max_errors never decides.    *)
MeetsCriteria(ph, o) ==
  /\ o.failed = 0
  /\ o.critical <= DefaultCriteria[ph].critical /\ o.high <= DefaultCriteria[ph].high
  /\ o.agents >= DefaultCriteria[ph].agents
  /\ ph = "scan" => o.evalOk
  /\ ph = "test_execution" => o.badTests = 0 /\ o.flaky = 0

Remaining(o) == IF o.critical + o.high + o.low = 0 THEN "none" ELSE "some"

-----------------------------------------------------------------------------
(* The store.                                                                *)
CanWrite(s) == \A q \in Scans \ {s} : txn[q] = NoTxn
Written(s) == IF txn[s] = NoTxn THEN [phase |-> db, rows |-> NoRows] ELSE txn[s]
Phase(s) == Written(s).phase

Write(s, phase, rows) ==
  /\ CanWrite(s)
  /\ txn' = [txn EXCEPT ![s] = [phase |-> phase, rows |-> rows]]

Go(s, step) == at' = [at EXCEPT ![s] = step]

(* The budget ends: the phases that are left are reported, not recorded, and *)
(* the run returns without close().                                          *)
DeadlineSkips(s, ph, status) ==
  [x \in Phases |-> IF x = ph THEN status ELSE IF x \in Later(ph) THEN "SKIPPED" ELSE report[s][x]]

(* Mutation: a run out of time goes on to close().                          *)
TimedOutClosing(s, ph, status) ==
  /\ "deadline" \in Hazards /\ ph # "score_select"
  /\ Write(s, "failed", [Written(s).rows EXCEPT ![ph] = status])
  /\ report' = [report EXCEPT ![s] = DeadlineSkips(s, ph, status)]
  /\ Go(s, "close")

TimedOut(s, ph, status) ==
  /\ "deadline" \in Hazards /\ ph # "score_select"
  /\ Write(s, "failed", [Written(s).rows EXCEPT ![ph] = status])
  /\ report' = [report EXCEPT ![s] = DeadlineSkips(s, ph, status)]
  /\ Go(s, "returned")

OnTime(s, ph, status, phase) ==
  /\ Write(s, phase, [Written(s).rows EXCEPT ![ph] = status])
  /\ report' = [report EXCEPT ![s][ph] = status]
  /\ Go(s, Following(ph))

(* _record_phase, and the phase that is set with it.                         *)
Record(s, ph, status, phase) ==
  OnTime(s, ph, status, phase) \/ TimedOut(s, ph, status)

Transition(s, current, target, o) ==
  IF IsValidTransition(current, target) /\ MeetsCriteria(target, o)
    THEN Record(s, target, "DONE", target)
    ELSE Record(s, target, "FAILED", "failed")

-----------------------------------------------------------------------------
(* A run.                                                                    *)
Start(s) ==
  /\ at[s] = "off" /\ runs < MaxRuns
  /\ CanWrite(s)                             \* _init_db writes the initial phase
  /\ \E d \in BOOLEAN : (d \/ s \in Appliers) /\ dry' = [dry EXCEPT ![s] = d]
  /\ runs' = runs + 1
  /\ Go(s, "begin")
  /\ UNCHANGED <<db, history, txn, seen, report, results>>

Begin(s) ==
  /\ at[s] = "begin"
  /\ IF Phase(s) = "idle" THEN UNCHANGED txn ELSE Write(s, "idle", NoRows)
  /\ Go(s, "scan")
  /\ UNCHANGED <<db, history, dry, seen, report, results, runs>>

RunScan(s) ==
  /\ at[s] = "scan"
  /\ seen' = [seen EXCEPT ![s] = Phase(s)]
  /\ Go(s, "scan_verdict")
  /\ UNCHANGED <<db, history, txn, dry, report, results, runs>>

ScanVerdict(s) ==
  /\ at[s] = "scan_verdict"
  /\ \E o \in Outcomes :
       IF IsValidTransition(seen[s], "scan") /\ MeetsCriteria("scan", o)
         THEN Record(s, "scan", "DONE", "scan")
         ELSE /\ Write(s, "failed", [Written(s).rows EXCEPT !["scan"] = "FAILED"])
              /\ report' = [report EXCEPT ![s]["scan"] = "FAILED"]
              /\ Go(s, "returned")           \* aborted, without close()
  /\ seen' = [seen EXCEPT ![s] = "idle"]
  /\ UNCHANGED <<db, history, dry, results, runs>>

RunGraphUpdate(s) ==
  /\ at[s] = "graph_update"
  /\ \E status \in {"DONE", "FAILED"} : Record(s, "graph_update", status, "graph_update")
  /\ UNCHANGED <<db, history, dry, seen, results, runs>>

RunTestGeneration(s) ==
  /\ at[s] = "test_generation"
  /\ \E status \in {"DONE", "FAILED"} : Record(s, "test_generation", status, "test_generation")
  /\ UNCHANGED <<db, history, dry, seen, results, runs>>

RunTest(s) ==
  /\ at[s] = "test_execution"
  /\ \E o \in Outcomes : Transition(s, Phase(s), "test_execution", o)
  /\ UNCHANGED <<db, history, dry, seen, results, runs>>

-----------------------------------------------------------------------------
(* Fixing.  A dry run makes patches and scores them; a run that is not       *)
(* sends each through the verify loop before the phase is judged.            *)
MayBecome(s, x, ran) ==
  IF dry[s] \/ x \notin UNION {PatchesOf[a] : a \in ran} THEN {"dry"} ELSE Fates \ {"dry"}

FixOutcome(made) ==
  [agents |-> Cardinality(DOMAIN made),
   failed |-> Cardinality({a \in DOMAIN made : ~made[a].done}),
   critical |-> 0, high |-> 0, low |-> 0, evalOk |-> TRUE, badTests |-> 0, flaky |-> 0]

RunFixGeneration(s) ==
  /\ at[s] = "fix_generation"
  /\ \E ran \in SUBSET Agents : \E made \in [ran -> Candidates] :
     \E f \in [Patches -> Fates] :
       /\ \A x \in Patches : f[x] \in MayBecome(s, x, ran)
       /\ fixes' = [fixes EXCEPT ![s] = made]
       /\ fate' = [fate EXCEPT ![s] = f]
       /\ Transition(s, Phase(s), "fix_generation", FixOutcome(made))
  /\ UNCHANGED <<db, history, dry, seen, reverify, decision, runs>>

(* A patch the test-weakening guard flagged, or whose loop raised, has no    *)
(* test file to run again.                                                   *)
Rechecked(s) == {x \in Patches : fate[s][x] \notin {"dry", "flagged"}}

RunSandboxReverify(s) ==
  /\ at[s] = "sandbox_reverify"
  /\ \/ /\ DOMAIN fixes[s] = {}
        /\ Record(s, "sandbox_reverify", "DONE", Phase(s))
        /\ UNCHANGED reverify
     \/ /\ DOMAIN fixes[s] # {}
        /\ \E o \in Outcomes, r \in SUBSET Rechecked(s) :
             /\ reverify' = [reverify EXCEPT ![s] = [findings |-> Remaining(o), regressed |-> r]]
             /\ IF MeetsCriteria("sandbox_reverify", o)
                  THEN Record(s, "sandbox_reverify", "DONE", "sandbox_reverify")
                  ELSE Record(s, "sandbox_reverify", "FAILED", Phase(s))
  /\ UNCHANGED <<db, history, dry, seen, fixes, fate, decision, runs>>

(* Scores are thousandths.                                                   *)
(* Mutation: whatever did not fail its verification counts.                 *)
TestsPassUnlessFailed(a, f, rv) ==
  LET mine == PatchesOf[a]
      verified == {x \in mine : f[x] \in {"verified", "dry"}}
  IN IF mine = {} \/ rv.regressed \cap mine # {} THEN 0
     ELSE (400 * Cardinality(verified)) \div Cardinality(mine)

TestsPass(a, f, rv) ==
  LET mine == PatchesOf[a]
      verified == {x \in mine : f[x] = "verified"}
  IN IF mine = {} \/ rv.regressed \cap mine # {} THEN 0
     ELSE (400 * Cardinality(verified)) \div Cardinality(mine)

AtLeast0(n) == IF n < 0 THEN 0 ELSE n

(* Mutation: only the agent's own findings count, not those of the re-scan. *)
FindingsFreeOfAgent(c, rv) == AtLeast0(300 - 30 * c.findings)

FindingsFree(c, rv) == IF rv.findings = "some" THEN 0 ELSE AtLeast0(300 - 30 * c.findings)
BlastScore(a, c) == IF PatchesOf[a] = {} THEN 200 ELSE AtLeast0(200 - 20 * c.blast)

Score(a, c, f, rv) ==
  TestsPass(a, f, rv) + FindingsFree(c, rv) + BlastScore(a, c) + (IF c.done THEN 100 ELSE 0)

SelectCandidate(a, c, score) ==
  CASE ~c.done -> "discard"
    [] c.done /\ c.findings > 0 -> "escalate"
    [] c.done /\ c.findings = 0 /\ PatchesOf[a] # {} /\ c.gate \in {"review", "block"} -> "escalate"
    [] OTHER -> IF score >= 800 THEN "auto_apply" ELSE IF score >= 500 THEN "escalate" ELSE "discard"

Selection(s) ==
  [a \in Agents |->
     IF a \in DOMAIN fixes[s]
       THEN SelectCandidate(a, fixes[s][a], Score(a, fixes[s][a], fate[s], reverify[s]))
       ELSE "none"]

RunScoreSelect(s) ==
  /\ at[s] = "score_select"
  /\ decision' = [decision EXCEPT ![s] = Selection(s)]
  /\ IF DOMAIN fixes[s] = {}
       THEN Record(s, "score_select", "FAILED", Phase(s))
       ELSE LET phase == IF \E a \in Agents : Selection(s)[a] = "auto_apply" THEN "complete" ELSE Phase(s)
            IN Record(s, "score_select", "DONE", phase)
  /\ UNCHANGED <<db, history, dry, seen, fixes, fate, reverify, runs>>

-----------------------------------------------------------------------------
(* The end of a run.  close() commits, then checkpoints and switches the     *)
(* journal mode, for which it must be the only connection.                   *)
Downgraded(s) ==
  [report EXCEPT ![s]["score_select"] = IF @ = "DONE" THEN "SKIPPED" ELSE @]

Commit(s) ==
  /\ db' = Phase(s) /\ history' = [history EXCEPT ![s] = Written(s).rows]
  /\ UNCHANGED report

(* Mutation: the failure is logged and nothing else.                        *)
CommitFailsUnreported(s) ==
  /\ "disk" \in Hazards
  /\ UNCHANGED <<db, history, report>>

CommitFails(s) ==
  /\ "disk" \in Hazards
  /\ report' = Downgraded(s)
  /\ UNCHANGED <<db, history>>

(* The candidates are not looked at again.                                   *)
Forget(s) ==
  /\ fixes' = [fixes EXCEPT ![s] = NoFixes] /\ fate' = [fate EXCEPT ![s] = NoFate]
  /\ decision' = [decision EXCEPT ![s] = Undecided]

Close(s) ==
  /\ at[s] = "close"
  /\ Commit(s) \/ CommitFails(s)
  /\ txn' = [txn EXCEPT ![s] = NoTxn]
  /\ Go(s, "switch")
  /\ Forget(s)
  /\ UNCHANGED <<dry, seen, reverify, runs>>

SwitchJournal(s) ==
  /\ at[s] = "switch"
  /\ report' = IF \A q \in Scans \ {s} : at[q] \notin Connected THEN report ELSE Downgraded(s)
  /\ Go(s, "returned")
  /\ UNCHANGED <<db, history, txn, dry, seen, results, runs>>

(* Another scan holds the write lock for longer than busy_timeout: the write *)
(* raises, and the scan with it.                                             *)
LockedOut(s) ==
  /\ at[s] \in Phases \cup {"begin", "scan_verdict"} /\ ~CanWrite(s)
  /\ Go(s, "returned")
  /\ UNCHANGED <<db, history, txn, dry, seen, report, results, runs>>

(* The process ends: SQLite rolls back what was not committed.               *)
Gone(s) ==
  /\ txn' = [txn EXCEPT ![s] = NoTxn]
  /\ report' = [report EXCEPT ![s] = NoRows] /\ history' = [history EXCEPT ![s] = NoRows]
  /\ Forget(s) /\ reverify' = [reverify EXCEPT ![s] = Unknown]
  /\ dry' = [dry EXCEPT ![s] = TRUE] /\ seen' = [seen EXCEPT ![s] = "idle"]
  /\ Go(s, "off")
  /\ UNCHANGED <<db, runs>>

Exit(s) == at[s] = "returned" /\ Gone(s)

Crash(s) == "crash" \in Hazards /\ at[s] # "off" /\ Gone(s)

Run(s) ==
  \/ Begin(s) \/ RunScan(s) \/ ScanVerdict(s) \/ RunGraphUpdate(s) \/ RunTestGeneration(s)
  \/ RunTest(s) \/ RunFixGeneration(s) \/ RunSandboxReverify(s) \/ RunScoreSelect(s)
  \/ Close(s) \/ SwitchJournal(s) \/ LockedOut(s) \/ Exit(s)

Next == \E s \in Scans : Start(s) \/ Run(s) \/ Crash(s)

Spec == Init /\ [][Next]_vars

-----------------------------------------------------------------------------
(* Properties.                                                               *)

(* Every variable has its type.                                              *)
TypeOK ==
  /\ db \in Stored /\ history \in [Scans -> Rows]
  /\ txn \in [Scans -> Txn \cup {NoTxn}]
  /\ at \in [Scans -> Connected \cup {"off"}]
  /\ dry \in [Scans -> BOOLEAN] /\ seen \in [Scans -> Stored]
  /\ report \in [Scans -> Rows]
  /\ fixes \in [Scans -> UNION {[ran -> Candidates] : ran \in SUBSET Agents}]
  /\ fate \in [Scans -> [Patches -> Fates]]
  /\ reverify \in [Scans -> [findings : {"unknown", "none", "some"}, regressed : SUBSET Patches]]
  /\ decision \in [Scans -> [Agents -> {"none", "auto_apply", "escalate", "discard"}]]
  /\ runs \in 0..MaxRuns

Passed(s) == at[s] = "returned" /\ \A ph \in Phases : report[s][ph] = "DONE"

(* A scan that reports every phase as passed has its verdict on disk: the    *)
(* history holds exactly what it reports, whatever failed in close() and     *)
(* whoever else wrote meanwhile.                                             *)
VerdictIsDurable ==
  \A s \in Scans : Passed(s) => history[s] = report[s]

(* The history on disk holds whole runs only: a run that aborts, runs out of *)
(* time, is locked out or dies leaves no row behind, and no run sees the     *)
(* rows of one that goes on.                                                 *)
HistoryHoldsWholeRuns ==
  \A s \in Scans : history[s] # NoRows => \A ph \in Phases : history[s][ph] # "none"

(* A candidate is selected to be applied without a person only if its agent  *)
(* succeeded, the re-scan after the fix found nothing, no test of its        *)
(* patches regressed, the verify loop verified at least half of them, and    *)
(* the risk gate, where it could be asked, allowed them.                     *)
AutoApplyIsEarned ==
  \A s \in Scans, a \in Agents : decision[s][a] = "auto_apply" =>
    LET mine == PatchesOf[a]
        verified == {x \in mine : fate[s][x] = "verified"}
    IN /\ fixes[s][a].done
       /\ reverify[s].findings = "none" /\ reverify[s].regressed \cap mine = {}
       /\ mine # {} /\ 2 * Cardinality(verified) >= Cardinality(mine)
       /\ fixes[s][a].gate \in {"allow", "broken"}

(* p scan is read-only: a dry run never selects a candidate to be applied,   *)
(* so the store never says that a pipeline completed because of one.         *)
DryRunNeverCompletes ==
  \A s \in Scans : dry[s] /\ txn[s] # NoTxn =>
    txn[s].phase # "complete" /\ \A a \in Agents : decision[s][a] # "auto_apply"

(* Stated by the docstring of run_score_select: the pipeline cannot "pass"   *)
(* while its own reverify log says findings remain.                          *)
PassMeansClean == \A s \in Scans : Passed(s) => reverify[s].findings # "some"

(* Stated in _transition_to: a phase can never claim "done" out of order.    *)
DoneInOrder ==
  \A s \in Scans : \A ph \in Phases : \A x \in Later(ph) :
    report[s][x] = "DONE" => report[s][ph] = "DONE"
=============================================================================
