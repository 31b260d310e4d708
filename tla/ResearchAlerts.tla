--------------------------- MODULE ResearchAlerts ---------------------------
(***************************************************************************)
(* The conditions a worker's pass derives from facts it already holds: the *)
(* last backup report, the last recovery test, the verification records    *)
(* and the day decisions. One registration with one partition is taken,    *)
(* whose window holds every shard; a condition names no days, because one  *)
(* alert stands for all of them. The informational awaiting_data and the   *)
(* backup_not_configured of an installation without a backup are left out. *)
(***************************************************************************)
EXTENDS Integers

Never == -1

Alert(condition, severity) == [condition |-> condition, severity |-> severity]
When(holds, condition, severity) == IF holds THEN {Alert(condition, severity)} ELSE {}

\* Of one partition: the shards whose last verification failed, those gone for
\* good, those that keep failing to generate and those not re-verified in time.
DeriveAlerts(registration, corrupt, lost, failing, overdue) ==
  CASE registration = "absent" -> {}
    [] registration = "intact" ->
         When(corrupt # {}, "shard_integrity_failed", "critical")
           \cup When(lost # {}, "shard_unrecoverable", "warning")
           \cup When(failing # {}, "shard_generation_failing", "warning")
           \cup When(overdue # {}, "verification_overdue", "warning")
    [] OTHER -> {Alert("registration_invalid", "critical")}  \* no partitions are read

Some(errors, kind) == \E i \in DOMAIN errors : errors[i] = kind

DeriveBackupAlerts(report, unprotected, recovery, backupOverdue, recoveryInterval) ==
  When(report.error, "backup_destination_unavailable",
       IF report.success # Never THEN "warning" ELSE "critical")
    \cup When(Some(report.errors, "integrity"), "backup_integrity_failed", "critical")
    \cup When(Some(report.errors, "other"), "backup_failed", "warning")
    \cup When(~report.error /\ unprotected # {}, "backup_incomplete", "warning")
    \cup When(report.checked
                /\ (report.success = Never \/ report.success > backupOverdue),
              "backup_overdue", "warning")
    \cup When(recovery.status = "none", "recovery_untested", "warning")
    \cup When(recovery.status = "failed", "recovery_test_failed", "critical")
    \cup When(recovery.status = "unavailable", "recovery_test_unavailable", "warning")
    \cup When(recovery.status = "passed" /\ recovery.age > 3 * recoveryInterval,
              "recovery_test_overdue", "warning")

DeriveWorkerAlerts(lockLost) == When(lockLost, "generation_lock_lost", "warning")
=============================================================================
