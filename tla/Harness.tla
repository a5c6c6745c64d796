------------------------------ MODULE Harness ------------------------------
(***************************************************************************)
(* The order of phases of src/tools/frogbard_absurd_test.sh, main, under   *)
(* "set -Eeuo pipefail": a phase that returns a status other than 0 ends   *)
(* the script.  Most tests stand before "|| true"; a few stand before      *)
(* "|| return", which hands the test's own status on.  A phase here is the *)
(* tests it runs, of which only the outcome and what follows it matter.    *)
(***************************************************************************)
EXTENDS Naturals, Sequences

CONSTANT MaxFails      \* bound: failures counted

Phases == <<"install_packages", "install_practrand", "write_manifest",
            "build_matrix", "optimization_matrix", "self_tests",
            "functional_tests", "helper_tests", "coverage_tests",
            "valgrind_tests", "fuzz_tests", "cryptanalysis_smoke",
            "statistical_tests", "hardening_tests", "reproducibility_tests",
            "benchmark_tests", "resource_limit_tests", "report_summary">>

VARIABLES
    phase,           \* index of the running phase
    binaries,        \* which of the native and portable builds exist
    fail_count,      \* FAIL_COUNT
    reported,        \* SUMMARY.txt has been written
    status           \* "running", "exit 0" or "exit 1"

vars == <<phase, binaries, fail_count, reported, status>>

Running(name) == status = "running" /\ Phases[phase] = name

Init ==
    /\ phase = 1 /\ binaries = {} /\ fail_count = 0
    /\ reported = FALSE /\ status = "running"

\* run_test fails before "|| true" or "|| return 0", or an equivalence check fails.
ToleratedFailure ==
    /\ status = "running" /\ Phases[phase] # "report_summary"
    /\ fail_count < MaxFails /\ fail_count' = fail_count + 1
    /\ UNCHANGED <<phase, binaries, reported, status>>

\* build_matrix builds and copies a binary the later phases look for.
Build ==
    /\ Running("build_matrix")
    /\ \E b \in {"native", "portable"} : binaries' = binaries \cup {b}
    /\ UNCHANGED <<phase, fail_count, reported, status>>

\* A test before a bare "|| return" fails: the coverage build or merge, the AFL++
\* build, the benchmark file.  The phase returns 1.
ReturnedFailure ==
    /\ \/ Running("coverage_tests")
       \/ Running("fuzz_tests")
       \/ Running("benchmark_tests") /\ "native" \in binaries
    /\ fail_count < MaxFails /\ fail_count' = fail_count + 1
    /\ status' = "exit 1"
    /\ UNCHANGED <<phase, binaries, reported>>

\* resource_limit_tests finds neither binary: "[[ -x ... ]] || return" returns 1.
NoBinary ==
    /\ Running("resource_limit_tests") /\ binaries = {}
    /\ status' = "exit 1"
    /\ UNCHANGED <<phase, binaries, fail_count, reported>>

EndPhase ==
    /\ status = "running" /\ Phases[phase] # "report_summary"
    /\ ~(Running("resource_limit_tests") /\ binaries = {})
    /\ phase' = phase + 1
    /\ UNCHANGED <<binaries, fail_count, reported, status>>

ReportSummary ==
    /\ Running("report_summary")
    /\ reported' = TRUE
    /\ status' = IF fail_count > 0 THEN "exit 1" ELSE "exit 0"
    /\ UNCHANGED <<phase, binaries, fail_count>>

Next == ToleratedFailure \/ Build \/ ReturnedFailure \/ NoBinary \/ EndPhase \/ ReportSummary

Spec == Init /\ [][Next]_vars

-----------------------------------------------------------------------------
\* The usage text (frogbard_absurd_test.sh:73-74) promises that the script
\* "continues through independent failures so you get a complete diagnostic
\* picture": whatever fails, it ends with the report written.
CompletePicture == status # "running" => reported
=============================================================================
