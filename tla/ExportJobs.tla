----------------------------- MODULE ExportJobs -----------------------------
(***************************************************************************)
(* Key exports (modules/keys/key-export.service.ts): a KeyExportJob row per*)
(* request, and exportChain, a promise chain in the process's memory that  *)
(* works the jobs off one at a time.  A restart empties the chain; nothing *)
(* picks up the rows it leaves behind.                                     *)
(***************************************************************************)
EXTENDS Integers, Sequences

CONSTANTS
  Job,
  JobFaults   \* bound: restarts and failed status writes

ASSUME ExportJobsAssumption == JobFaults \in Nat

VARIABLES
  jobStatus,   \* KeyExportJob.status; "none": no row
  expired,     \* jobs whose expiresAt has passed
  queue,       \* exportChain: jobs not yet taken up
  current,     \* the job being processed, as a sequence of at most one
  stage,       \* where it is
  download,    \* what the last download request was told
  lost,        \* jobs hit by a fault (history)
  jobFaults

jobVars == <<jobStatus, expired, queue, current, stage, download, lost, jobFaults>>

Listed(s) == {s[i] : i \in 1..Len(s)}

ExportJobsTypeOK ==
  /\ jobStatus \in [Job -> {"none", "PENDING", "PROCESSING", "READY", "FAILED"}]
  /\ expired \subseteq Job /\ lost \subseteq Job
  /\ queue \in Seq(Job) /\ current \in Seq(Job) /\ Len(current) <= 1
  /\ stage \in {"start", "build", "ready", "failed"}
  /\ download \in [Job -> {"none", "ready", "pending", "failed", "expired"}]
  /\ jobFaults \in 0..JobFaults

ExportJobsInit ==
  /\ jobStatus = [j \in Job |-> "none"] /\ expired = {} /\ lost = {}
  /\ queue = <<>> /\ current = <<>> /\ stage = "start"
  /\ download = [j \in Job |-> "none"] /\ jobFaults = 0

\* Row, token, place in the chain.
createKeyExportJob(j) ==
  /\ jobStatus[j] = "none" /\ jobStatus' = [jobStatus EXCEPT ![j] = "PENDING"]
  /\ queue' = Append(queue, j)
  /\ UNCHANGED <<expired, current, stage, download, lost, jobFaults>>

\* The chain takes up its next job.
enqueueKeyExport ==
  /\ current = <<>> /\ queue # <<>>
  /\ current' = <<Head(queue)>> /\ queue' = Tail(queue) /\ stage' = "start"
  /\ UNCHANGED <<jobStatus, expired, download, lost, jobFaults>>

JobEnds == current' = <<>> /\ UNCHANGED <<queue, stage>>

\* Mutant: without the catch a rejected job rejects the rest of the chain.
ChainStops == current' = <<>> /\ queue' = <<>> /\ UNCHANGED stage

\* The chain's catch: a job whose promise rejects does not end the chain.
ChainCatch == JobEnds

\* A statement of job j fails.
StatementFails(j) ==
  /\ jobFaults < JobFaults /\ jobFaults' = jobFaults + 1
  /\ lost' = lost \cup {j}

\* processKeyExportJob: PROCESSING first, the only write whose error leaves
\* the function; the build succeeds or throws, and READY or FAILED is written.
\* A READY that fails becomes FAILED, a FAILED that fails is only logged.
processKeyExportJob(j) ==
  /\ current = <<j>>
  /\ \/ /\ stage = "start" /\ jobStatus' = [jobStatus EXCEPT ![j] = "PROCESSING"]
        /\ stage' = "build" /\ UNCHANGED <<queue, current, lost, jobFaults>>
     \/ /\ stage = "start" /\ StatementFails(j) /\ ChainCatch
        /\ UNCHANGED jobStatus
     \/ /\ stage = "build" /\ stage' \in {"ready", "failed"}
        /\ UNCHANGED <<jobStatus, queue, current, lost, jobFaults>>
     \/ /\ stage = "ready" /\ jobStatus' = [jobStatus EXCEPT ![j] = "READY"]
        /\ JobEnds /\ UNCHANGED <<lost, jobFaults>>
     \/ /\ stage = "ready" /\ StatementFails(j) /\ stage' = "failed"
        /\ UNCHANGED <<jobStatus, queue, current>>
     \/ /\ stage = "failed" /\ jobStatus' = [jobStatus EXCEPT ![j] = "FAILED"]
        /\ JobEnds /\ UNCHANGED <<lost, jobFaults>>
     \/ /\ stage = "failed" /\ StatementFails(j) /\ JobEnds
        /\ UNCHANGED jobStatus
  /\ UNCHANGED <<expired, download>>

\* resolveKeyExportDownload with a valid token.
resolveKeyExportDownload(j) ==
  /\ jobStatus[j] # "none"
  /\ download' = [download EXCEPT ![j] =
       IF j \in expired THEN "expired"
       ELSE CASE jobStatus[j] = "READY" -> "ready"
              [] jobStatus[j] = "FAILED" -> "failed"
              [] OTHER -> "pending"]
  /\ UNCHANGED <<jobStatus, expired, queue, current, stage, lost, jobFaults>>

ExportExpires(j) ==
  /\ jobStatus[j] # "none" /\ j \notin expired /\ expired' = expired \cup {j}
  /\ UNCHANGED <<jobStatus, queue, current, stage, download, lost, jobFaults>>

\* The process restarts with an empty chain.
ExportRestart ==
  /\ jobFaults < JobFaults /\ jobFaults' = jobFaults + 1
  /\ lost' = lost \cup Listed(queue) \cup Listed(current)
  /\ queue' = <<>> /\ current' = <<>> /\ stage' = "start"
  /\ UNCHANGED <<jobStatus, expired, download>>

ExportWork == enqueueKeyExport \/ \E j \in Job : processKeyExportJob(j)

ExportJobsNext ==
  \/ ExportWork \/ ExportRestart
  \/ \E j \in Job : \/ createKeyExportJob(j) \/ resolveKeyExportDownload(j)
                    \/ ExportExpires(j)

\* A job is worked off once: what the chain still holds is PENDING (the check
\* at the start of processKeyExportJob never turns one away), an accepted job
\* no fault has hit is finished or still in the chain, whatever became of the
\* jobs before it, and what a download was told of a finished job stays true.
ExportsKept ==
  /\ \A j \in Listed(queue) : jobStatus[j] = "PENDING" /\ j \notin Listed(current)
  /\ \A j \in Job :
       /\ jobStatus[j] \in {"PENDING", "PROCESSING"} =>
            j \in Listed(queue) \cup Listed(current) \cup lost
       /\ download[j] = "ready" => jobStatus[j] = "READY"
       /\ download[j] = "failed" => jobStatus[j] = "FAILED"

\* Every accepted export ends READY or FAILED unless a restart or a failed
\* status write hit that very job: another job's failure never blocks it.
ExportsEnd ==
  \A j \in Job : (jobStatus[j] = "PENDING") ~>
                   (jobStatus[j] \in {"READY", "FAILED"} \/ j \in lost)
=============================================================================
