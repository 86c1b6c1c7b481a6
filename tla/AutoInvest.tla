----------------------------- MODULE AutoInvest -----------------------------
(***************************************************************************)
(* One auto-invest rule and one new listing                                *)
(* (modules/auto-invest/auto-invest.service.ts).  Evaluations are started  *)
(* by the key_registered listener of every server process and by the       *)
(* evaluate endpoint; AutoInvestExecution is unique per rule and listing.  *)
(* buyGateway is external: a purchase may go through although its answer   *)
(* is an error.                                                            *)
(***************************************************************************)
EXTENDS Integers

CONSTANTS
  Evaluation,   \* calls of evaluateListing
  InvestFaults  \* bound: crashes, failed statements, lost answers

ASSUME AutoInvestAssumption == InvestFaults \in Nat

VARIABLES
  rule,        \* the rule: "active", "inactive", "deleted"
  execution,   \* the AutoInvestExecution row's status; "none": no row
  purchases,   \* purchases that went through (history)
  evalPc,      \* evaluations: position
  outcome,     \* what evaluateListing reports
  investFaults

investVars == <<rule, execution, purchases, evalPc, outcome, investFaults>>

AutoInvestTypeOK ==
  /\ rule \in {"active", "inactive", "deleted"}
  /\ execution \in {"none", "PENDING", "EXECUTED", "FAILED",
                    "SKIPPED_INSUFFICIENT_BALANCE"}
  /\ purchases \in Nat
  /\ evalPc \in [Evaluation -> {"idle", "create", "balance", "skip", "buy",
                                "record", "fail", "done"}]
  /\ outcome \in [Evaluation -> {"none", "ineligible", "duplicate", "skipped",
                                 "executed", "failed"}]
  /\ investFaults \in 0..InvestFaults

AutoInvestInit ==
  /\ rule = "active" /\ execution = "none" /\ purchases = 0
  /\ evalPc = [v \in Evaluation |-> "idle"]
  /\ outcome = [v \in Evaluation |-> "none"] /\ investFaults = 0

Move(v, label) == evalPc' = [evalPc EXCEPT ![v] = label]
Report(v, o) == Move(v, "done") /\ outcome' = [outcome EXCEPT ![v] = o]
Fault == investFaults < InvestFaults /\ investFaults' = investFaults + 1

\* The rule is changed or deleted; executions stay.
updateAutoInvestRule(r) ==
  /\ rule # "deleted" /\ rule # r /\ rule' = r
  /\ UNCHANGED <<execution, purchases, evalPc, outcome, investFaults>>

\* The listing and the active rules of its category are read; a rule whose
\* rating or price limit is not met is ineligible.
evaluateListing(v) ==
  /\ evalPc[v] = "idle"
  /\ \/ rule = "active" /\ Move(v, "create") /\ UNCHANGED outcome
     \/ Report(v, "ineligible")
  /\ UNCHANGED <<rule, execution, purchases, investFaults>>

\* Mutant: an existing execution is found and used again.
UpsertExecution(v) ==
  /\ evalPc[v] = "create"
  /\ execution' = "PENDING" /\ Move(v, "balance")
  /\ UNCHANGED <<rule, purchases, outcome, investFaults>>

\* The row is claimed first; any error of the insert, a duplicate or not,
\* counts as a duplicate.
CreateExecution(v) ==
  /\ evalPc[v] = "create"
  /\ \/ /\ execution = "none" /\ execution' = "PENDING" /\ Move(v, "balance")
        /\ UNCHANGED <<outcome, investFaults>>
     \/ /\ execution # "none" /\ Report(v, "duplicate")
        /\ UNCHANGED <<execution, investFaults>>
     \/ Fault /\ Report(v, "duplicate") /\ UNCHANGED execution
  /\ UNCHANGED <<rule, purchases>>

\* Fees, estimated cost and the wallet's balance.
CheckBalance(v) ==
  /\ evalPc[v] = "balance"
  /\ \/ Move(v, "buy") /\ UNCHANGED investFaults
     \/ Move(v, "skip") /\ UNCHANGED investFaults
     \/ Fault /\ Move(v, "fail")
  /\ UNCHANGED <<rule, execution, purchases, outcome>>

\* Too little: the row says so.  If that write fails the row is FAILED.
SkipExecution(v) ==
  /\ evalPc[v] = "skip"
  /\ \/ /\ execution' = "SKIPPED_INSUFFICIENT_BALANCE" /\ Report(v, "skipped")
        /\ UNCHANGED investFaults
     \/ Fault /\ Move(v, "fail") /\ UNCHANGED <<execution, outcome>>
  /\ UNCHANGED <<rule, purchases>>

\* buyGateway.submitBuy succeeds, fails, or goes through with an error.
submitBuy(v) ==
  /\ evalPc[v] = "buy"
  /\ \/ purchases' = purchases + 1 /\ Move(v, "record") /\ UNCHANGED investFaults
     \/ Fault /\ Move(v, "fail") /\ purchases' \in {purchases, purchases + 1}
  /\ UNCHANGED <<rule, execution, outcome>>

RecordExecuted(v) ==
  /\ evalPc[v] = "record"
  /\ \/ /\ execution' = "EXECUTED" /\ Report(v, "executed")
        /\ UNCHANGED investFaults
     \/ Fault /\ Move(v, "fail") /\ UNCHANGED <<execution, outcome>>
  /\ UNCHANGED <<rule, purchases>>

\* The catch: FAILED, and an error of that write is only logged.
RecordFailed(v) ==
  /\ evalPc[v] = "fail" /\ Report(v, "failed")
  /\ \/ execution' = "FAILED" /\ UNCHANGED investFaults
     \/ Fault /\ UNCHANGED execution
  /\ UNCHANGED <<rule, purchases>>

\* The process dies; the listing may be evaluated again after its restart.
EvaluationCrash(v) ==
  /\ evalPc[v] \notin {"idle", "done"} /\ Fault /\ Move(v, "idle")
  /\ UNCHANGED <<rule, execution, purchases, outcome>>

AutoInvestNext ==
  \/ \E r \in {"active", "inactive", "deleted"} : updateAutoInvestRule(r)
  \/ \E v \in Evaluation :
       \/ evaluateListing(v) \/ CreateExecution(v) \/ CheckBalance(v)
       \/ SkipExecution(v) \/ submitBuy(v) \/ RecordExecuted(v)
       \/ RecordFailed(v) \/ EvaluationCrash(v)

\* "Prevents duplicate purchases for the same rule and listing across retries
\* and duplicate listing events": over any number of evaluations, crashes and
\* lost answers at most one purchase is made, an EXECUTED row is backed by it,
\* and a row that says SKIPPED has none.
OneBuyPerListing ==
  /\ purchases <= 1
  /\ execution = "EXECUTED" => purchases = 1
  /\ execution = "SKIPPED_INSUFFICIENT_BALANCE" => purchases = 0
=============================================================================
