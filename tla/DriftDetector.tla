---------------------------- MODULE DriftDetector ---------------------------
(***************************************************************************)
(* Snapshots and their comparison (provable_ai/drift_detector.py), as      *)
(* operators on the list of stored snapshots of one tenant.                *)
(***************************************************************************)
EXTENDS Naturals, Sequences, SequencesExt, FiniteSetsExt

\* compute_system_root sorts the latest hashes and hashes them together: the
\* instances they belong to are lost, their multiplicities are not.  The latest
\* hash of an instance is named by the number of its decisions, 0 for none, as
\* if all instances had the same decisions.
compute_system_root(heads) ==
    [h \in {heads[i] : i \in DOMAIN heads} \ {0} |->
        Cardinality({i \in DOMAIN heads : heads[i] = h})]

InstanceCount(heads) == Cardinality({i \in DOMAIN heads : heads[i] # 0})

\* Mutant: ORDER BY id DESC.
get_latest_by_id(snapshots, env) ==
    LET of_env == {n \in DOMAIN snapshots : snapshots[n].environment = env}
    IN  {n \in of_env : \A m \in of_env : m <= n}

\* ORDER BY recorded_at DESC LIMIT 1: any of the snapshots of the latest second.
get_latest(snapshots, env) ==
    LET of_env == {n \in DOMAIN snapshots : snapshots[n].environment = env}
    IN  {n \in of_env : \A m \in of_env : snapshots[m].recorded_at <= snapshots[n].recorded_at}

\* list_snapshots(limit=2), every environment: pairs <<latest, second>>.
list_two_snapshots(snapshots) ==
    {p \in (DOMAIN snapshots) \X (DOMAIN snapshots) :
        /\ p[1] # p[2]
        /\ \A m \in DOMAIN snapshots :
              /\ snapshots[m].recorded_at <= snapshots[p[1]].recorded_at
              /\ m # p[1] => snapshots[m].recorded_at <= snapshots[p[2]].recorded_at}

\* Mutant: the instance counts decide whether the roots are compared.
Issues_count_first(a, b) ==
    {x \in {"root_mismatch"} : a.system_root # b.system_root
                               /\ a.instance_count # b.instance_count}
    \cup {x \in {"chain_mismatch"} : a.audit_chain_hash # b.audit_chain_hash}

\* The mismatches of two snapshots.
Issues(a, b) ==
    {x \in {"root_mismatch"} : a.system_root # b.system_root}
    \cup {x \in {"chain_mismatch"} : a.audit_chain_hash # b.audit_chain_hash}
    \cup {x \in {"count_mismatch"} : \/ a.instance_count # b.instance_count
                                     \/ a.audit_row_count # b.audit_row_count}

_severity(issues) ==
    IF "root_mismatch" \in issues \/ Cardinality(issues) > 1 THEN "CRITICAL"
    ELSE "WARNING"

compare(a, b) ==
    LET issues == Issues(a, b)
    IN  IF issues = {}
        THEN [drifted |-> FALSE, drift_type |-> "None", severity |-> "OK"]
        ELSE [drifted    |-> TRUE,
              drift_type |-> IF Cardinality(issues) > 1 THEN "combined"
                             ELSE CHOOSE x \in issues : TRUE,
              severity   |-> _severity(issues)]
=============================================================================
