---------------------------- MODULE HostFailures ----------------------------
(***************************************************************************)
(* The closed host failures of shared/host_failures.py: what each code     *)
(* promises, which details it may carry, and how a typed error of the      *)
(* operation runtime becomes one.                                          *)
(*                                                                         *)
(* Messages are left out: each is fixed by its code.  A detail object is a *)
(* record whose kind says which keys it has.                               *)
(***************************************************************************)
EXTENDS Integers, Sequences, SequencesExt

CONSTANTS
    FieldNames,     \* names of 1 to 240 bytes
    ComponentIds,   \* identifiers of the form dq.category.slug
    MaxFields,      \* 32: the longest list of fields a failure may carry
    MaxDifferences, \* 8: the most differences of two ports
    MaxSafeInteger, \* 2^53 - 1
    None

ASSUME HostFailuresAssumption ==
    /\ {MaxFields, MaxDifferences, MaxSafeInteger} \subseteq Nat /\ MaxDifferences > 0
    /\ None \notin ComponentIds \cup FieldNames

NoDetails == [kind |-> "none"]
Fields(names) == [kind |-> "fields", names |-> names]
Component(id) == [kind |-> "component", id |-> id]

-----------------------------------------------------------------------------
(* HOST_FAILURE_SPECS: the outcome and the retry policy of a code *)

RefusedCodes ==
    {"invalid_tool_request", "unsupported_host_schema", "unsupported_protocol_version",
     "unsupported_reference_version", "component_identity_mismatch", "incompatible_ports",
     "unsupported_binding", "multiple_non_literal_sources", "invalid_dataset",
     "unsupported_data_format", "input_root_denied", "unsafe_input_path",
     "input_limit_exceeded", "invalid_field_mapping", "reference_scope_denied",
     "component_refused", "invalid_component_input", "result_limit_exceeded"}

RetryAllowed ==
    {"cache_full", "record_publication_failed", "worker_timeout", "worker_cancelled",
     "worker_crashed", "worker_capacity"}

OutcomeOf(code) ==
    IF code = "missing_convention" THEN "needs_information"
    ELSE IF code \in RefusedCodes THEN "refused" ELSE "failed"

-----------------------------------------------------------------------------
(* _validate_failure_details: the details a code may carry *)

BareCodes ==
    {"unsupported_binding", "multiple_non_literal_sources", "unsupported_data_format",
     "input_root_denied", "unsafe_input_path", "reference_not_found",
     "reference_scope_denied", "record_corrupt", "cache_full",
     "record_publication_failed", "worker_timeout", "worker_cancelled", "worker_crashed",
     "worker_capacity", "worker_resource_limit", "artifact_publication_failed",
     "internal_failure"}
FieldCodes ==
    {"invalid_tool_request", "missing_convention", "invalid_field_mapping",
     "invalid_component_input"}
ComponentCodes ==
    {"component_not_found", "component_identity_mismatch", "component_refused",
     "component_failed", "output_validation_failed"}

InputLimitNames ==
    {"tool_arguments_bytes", "inline_json_source_bytes", "local_file_bytes",
     "normalized_dataset_payload_bytes", "worker_request_bytes", "dataset_rows",
     "dataset_columns", "decoded_cell_bytes"}
ResultLimitNames ==
    {"search_response_bytes", "structured_tool_response_bytes",
     "dataset_preview_page_bytes", "result_page_bytes", "message_page_bytes",
     "artifact_decoded_bytes", "resource_response_frame_bytes",
     "normalized_result_member_bytes", "result_top_level_fields", "operation_artifacts",
     "operation_bundle_bytes", "worker_control_response_bytes"}
LimitNames(code) ==
    IF code = "input_limit_exceeded" THEN InputLimitNames ELSE ResultLimitNames

FieldList(names) == Len(names) <= MaxFields /\ \A i \in 1..Len(names) : names[i] \in FieldNames

SafeCount(n) == n \in 0..MaxSafeInteger

DetailsValid(code, d) ==
    \/ code \in BareCodes /\ d.kind = "none"
    \/ code \in FieldCodes /\ d.kind = "fields" /\ FieldList(d.names)
    \/ code \in ComponentCodes /\ d.kind = "component" /\ d.id \in ComponentIds
    \/ /\ code = "component_contract_error"
       /\ d.kind = "none" \/ (d.kind = "component" /\ d.id \in ComponentIds)
    \/ /\ code \in {"input_limit_exceeded", "result_limit_exceeded"}
       /\ d.kind = "limit" /\ d.name \in LimitNames(code)
       /\ SafeCount(d.maximum) /\ SafeCount(d.actual)
    \/ /\ code \in {"unsupported_host_schema", "unsupported_protocol_version",
                    "unsupported_reference_version"}
       /\ d.kind = "version" /\ d.wellformed
    \/ code = "invalid_dataset" /\ d.kind = "findings" /\ d.count <= MaxFields /\ d.wellformed
    \/ code = "artifact_not_found" /\ d.kind = "artifact" /\ d.wellformed
    \/ code = "incompatible_ports" /\ d.kind = "ports" /\ d.count <= MaxDifferences /\ d.wellformed

-----------------------------------------------------------------------------
(* host_failure and map_operation_error *)

\* Constructing a failure whose details do not fit its code raises.
Constructible(f) == DetailsValid(f.code, f.details)

HostFailure(code, details) ==
    [code |-> code, outcome |-> OutcomeOf(code), retry |-> code \in RetryAllowed,
     details |-> details]

\* OPERATION_ERROR_DEFAULT_CODES
DefaultCode(code) ==
    CASE code \in {"invalid_operation_request", "invalid_json"} -> "invalid_tool_request"
      [] code = "component_execution_failed" -> "component_failed"
      [] code \in {"invalid_output_directory", "output_exists", "artifact_write_failed"} ->
            "artifact_publication_failed"
      [] code = "operation_failed" -> "internal_failure"
      [] OTHER -> code

\* Mutant: names the caller has not verified are passed on.
ProjectFieldsUnverified(names, verified) == names

\* _project_fields: the verified names in order, each once, at most MaxFields.
TakeName(taken, name, verified) ==
    IF name \notin verified \/ Contains(taken, name) \/ Len(taken) = MaxFields
    THEN taken ELSE Append(taken, name)
ProjectFields(names, verified) ==
    LET projected[n \in 0..Len(names)] ==
            IF n = 0 THEN <<>> ELSE TakeName(projected[n - 1], names[n], verified)
    IN  projected[Len(names)]

\* _project_component_id: the request's identifier before the error's.
ProjectComponentId(error, request) ==
    IF request # None /\ request \in ComponentIds THEN request
    ELSE IF error.component \in ComponentIds THEN error.component ELSE None

\* The failure the mapping tries to construct.  error.fields holds the locations of
\* invalid input or the fields of the component's questions.
Projection(error, request, fields) ==
    LET code == DefaultCode(error.code)
        named == ProjectFields(error.fields, fields \cap FieldNames)
        id == ProjectComponentId(error, request)
        asks == code = "component_refused" /\ error.ambiguous /\ named # <<>>
    IN  CASE code = "invalid_tool_request" -> HostFailure(code, Fields(<<>>))
          [] code = "invalid_component_input" -> HostFailure(code, Fields(named))
          [] asks -> HostFailure("missing_convention", Fields(named))
          [] code \in ComponentCodes /\ ~asks ->
                IF id = None THEN HostFailure("internal_failure", NoDetails)
                ELSE HostFailure(code, Component(id))
          [] code = "component_contract_error" ->
                HostFailure(code, IF id = None THEN NoDetails ELSE Component(id))
          [] OTHER -> HostFailure(code, NoDetails)

\* map_operation_error never raises: what cannot be constructed is internal.
MapOperationError(error, request, fields) ==
    LET f == Projection(error, request, fields)
    IN  IF Constructible(f) THEN f ELSE HostFailure("internal_failure", NoDetails)
=============================================================================
