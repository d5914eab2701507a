------------------------------ MODULE ExitCode ------------------------------
(***************************************************************************)
(* The frozen exit-code taxonomy of pkg/cli/exitcode and its two           *)
(* classifiers: an HTTP answer and a lifecycle reason.                     *)
(***************************************************************************)
EXTENDS Integers

OK                 == 0
InvalidArgument    == 2
Auth               == 3
Precondition       == 4
Unavailable        == 5
ContractMismatch   == 6
Failed             == 7
Partial            == 8
FeatureUnavailable == 9

Taxonomy == {OK} \cup InvalidArgument..FeatureUnavailable

\* A non-2xx gateway answer to a simple request/answer command.
FromHTTPStatus(status) ==
  CASE status \in {401, 403} -> Auth
    [] status \in {404, 409} -> Precondition
    [] status \in {429, 503} -> Unavailable
    [] status = 400          -> ContractMismatch
    [] status = 504          -> Partial
    [] OTHER                 -> Failed

\* reasonCodes: the stable LifecycleError reasons by taxonomy row; Classify
\* sends a reason outside the table to Failed.
ReasonsOf(code) ==
  CASE code = OK               -> {"ok"}
    [] code = InvalidArgument  -> {"invalid-arguments", "invalid-json"}
    [] code = Auth             -> {"unauthorized"}
    [] code = Precondition     -> {"file-read-failed", "maintenance-mode", "dependency-failed",
                                   "not-ready"}
    [] code = Unavailable      -> {"request-failed", "operation-in-progress"}
    [] code = ContractMismatch -> {"bad-request", "decode-failed", "incompatible-snapshot",
                                   "validation-failed", "checksum-mismatch",
                                   "contract-legacy"}
    [] code = Partial          -> {"rollback-failed", "not-persisted", "recovery-required"}
    [] OTHER                   -> {}

Classify(reason) ==
  IF \E c \in Taxonomy : reason \in ReasonsOf(c)
  THEN CHOOSE c \in Taxonomy : reason \in ReasonsOf(c)
  ELSE Failed

=============================================================================
