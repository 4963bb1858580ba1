-------------------------- MODULE OperationRecords --------------------------
(***************************************************************************)
(* shared/operation_records.py: how the host turns the bundle a worker     *)
(* left and the manifest it answered with into an immutable record, and    *)
(* how it copies the bundle into the session store.                        *)
(*                                                                         *)
(* The bundle is read several times, member by member, while whoever can   *)
(* write to the directory may still change it.  A digest is the content    *)
(* itself, a manifest is the digest it declares for every member, and only *)
(* the last reconciliation reads a private copy that nobody can change.    *)
(***************************************************************************)
EXTENDS Integers, FiniteSets, Sequences, SequencesExt

CONSTANTS
    MemberOrder,    \* <<"input", "result", ...>>: the declared members, in order
    Contents,       \* bytes a member can have
    Malformed,      \* those that are no JSON object of at most 256 fields
    Size,           \* [Contents -> Nat]
    MaxMember,      \* the most bytes one member may have
    MaxBundle,      \* the most bytes a bundle may have
    Garbage,        \* a manifest.json that is no manifest
    MaxEdits        \* bound: how often the directory is changed under the host

MemberNames == ToSet(MemberOrder)
Manifests == [MemberNames -> Contents]

ASSUME RecordsAssumption ==
    /\ MemberOrder \in Seq(STRING) /\ "result" \in MemberNames /\ IsInjective(MemberOrder)
    /\ Garbage \notin Manifests
    /\ Malformed \subseteq Contents /\ Size \in [Contents -> Nat]
    /\ {MaxMember, MaxBundle, MaxEdits} \subseteq Nat

VARIABLES
    step,       \* control point of the host
    phase,      \* "build", then "reconcile": which caller _derive_record has
    answered,   \* the manifest in the worker's answer
    binding,    \* how the operation's input was bound
    bundle,     \* member -> content, for the members in the directory
    declared,   \* what manifest.json in the directory holds
    inHand,     \* the manifest the host reconciles with
    members,    \* members read and digested so far
    record,     \* the record built
    copied,     \* the bundle copied for publication
    stored,     \* the bundle published
    edits

recordVars == <<step, phase, answered, binding, bundle, declared, inHand, members, record,
                copied, stored, edits>>

NoRecord == [built |-> FALSE]
NoBundle == [present |-> FALSE]

-----------------------------------------------------------------------------
(* _validate_binding *)

Bindings ==
    [source : {"none", "dataset", "operation"},
     dataset : {"absent", "right", "other", "invalid"},
     resolves : BOOLEAN, sameProvenance : BOOLEAN, sameInput : BOOLEAN]

\* Mutant: the resolved fields are not compared with the request's input.
BindingErrorLax(b) == IF b.source = "operation" THEN "unsupported_binding" ELSE "none"

\* The first objection, in the order of the code.
BindingError(b) ==
    LET bound == b.source = "dataset"
    IN  CASE b.source = "operation" -> "unsupported_binding"
          [] b.source = "none" /\ b.dataset # "absent" -> "invalid_field_mapping"
          [] bound /\ b.dataset = "absent" -> "internal_failure"
          [] bound /\ b.dataset \in {"other", "invalid"} -> "record_corrupt"
          [] bound /\ b.dataset = "right" /\ ~b.resolves -> "invalid_field_mapping"
          [] bound /\ b.dataset = "right" /\ b.resolves /\ ~b.sameProvenance -> "record_corrupt"
          [] OTHER -> IF b.sameInput THEN "none" ELSE "invalid_field_mapping"

-----------------------------------------------------------------------------
(* What one reading of a bundle that stands still says *)

\* The bytes of a list of contents, and of all members of a bundle.
Bytes(list) ==
    LET sum[n \in 0..Len(list)] == IF n = 0 THEN 0 ELSE sum[n - 1] + Size[list[n]]
    IN  sum[Len(list)]
Total(files) == Bytes([i \in 1..Len(MemberOrder) |-> files[MemberOrder[i]]])

\* Mutant: the manifest in the private copy is not compared with the record's digest.
StoreAcceptsManifest(r, manifest, files) ==
    /\ files = r.digests /\ files["result"] \notin Malformed

\* reconcile_operation_record on the store's private copy.
StoreAccepts(r, manifest, files) ==
    /\ manifest = r.manifest
    /\ files = r.digests /\ files["result"] \notin Malformed
    /\ Total(files) <= MaxBundle

-----------------------------------------------------------------------------

\* The worker answered; its bundle is what it declared, or is not.
RecordsInit ==
    /\ step = "binding" /\ phase = "build"
    /\ answered \in Manifests
    /\ binding \in Bindings
    /\ bundle = answered /\ declared = answered /\ inHand = answered
    /\ members = <<>> /\ record = NoRecord /\ copied = NoBundle /\ stored = NoBundle
    /\ edits = 0

Running == {"names", "manifest", "members", "result", "parsing", "copying"}
Fails(code) == step' = code

Same == UNCHANGED <<answered, binding, bundle, declared, edits>>

CheckBinding ==
    /\ step = "binding"
    /\ step' = IF BindingError(binding) = "none" THEN "names" ELSE BindingError(binding)
    /\ UNCHANGED <<phase, inHand, members, record, copied, stored>> /\ Same

\* _derive_record: exactly the declared names.
ListMembers ==
    /\ step = "names"
    /\ step' = IF DOMAIN bundle = MemberNames THEN "manifest" ELSE "record_corrupt"
    /\ members' = <<>>
    /\ UNCHANGED <<phase, inHand, record, copied, stored>> /\ Same

\* _manifest_bytes: the exact serialization of the manifest in hand.
ReadManifest ==
    /\ step = "manifest"
    /\ step' = IF declared = inHand THEN "members" ELSE "record_corrupt"
    /\ UNCHANGED <<phase, inHand, members, record, copied, stored>> /\ Same

Readable(m) == m \in DOMAIN bundle /\ Size[bundle[m]] <= MaxMember

ReadFailure(m) ==
    IF m \in DOMAIN bundle /\ Size[bundle[m]] > MaxMember
    THEN "result_limit_exceeded" ELSE "record_corrupt"

ReadMember ==
    /\ step = "members" /\ Len(members) < Len(MemberOrder)
    /\ LET m == MemberOrder[Len(members) + 1]
       IN  \/ /\ Readable(m) /\ bundle[m] = inHand[m]
              /\ members' = Append(members, bundle[m]) /\ UNCHANGED step
           \/ Readable(m) /\ bundle[m] # inHand[m]
              /\ Fails("record_corrupt") /\ UNCHANGED members
           \/ ~Readable(m) /\ Fails(ReadFailure(m)) /\ UNCHANGED members
    /\ UNCHANGED <<phase, inHand, record, copied, stored>> /\ Same

\* Mutant: a bundle of exactly the limit is refused.
CheckTotalStrict ==
    /\ step = "members" /\ Len(members) = Len(MemberOrder)
    /\ step' = IF Bytes(members) < MaxBundle
               THEN "result" ELSE "result_limit_exceeded"
    /\ UNCHANGED <<phase, inHand, members, record, copied, stored>> /\ Same

CheckTotal ==
    /\ step = "members" /\ Len(members) = Len(MemberOrder)
    /\ step' = IF Bytes(members) <= MaxBundle
               THEN "result" ELSE "result_limit_exceeded"
    /\ UNCHANGED <<phase, inHand, members, record, copied, stored>> /\ Same

Derived ==
    [built |-> TRUE, manifest |-> inHand,
     digests |-> [m \in MemberNames |-> members[CHOOSE i \in 1..Len(MemberOrder) : MemberOrder[i] = m]]]

\* The result is read again, for its shape; its digest is not taken again.
ReadResult ==
    /\ step = "result"
    /\ \/ ~Readable("result") /\ Fails(ReadFailure("result")) /\ UNCHANGED <<phase, record>>
       \/ /\ Readable("result") /\ bundle["result"] \in Malformed
          /\ step' \in {"record_corrupt", "result_limit_exceeded"} /\ UNCHANGED <<phase, record>>
       \/ /\ Readable("result") /\ bundle["result"] \notin Malformed
          /\ \/ /\ phase = "build"
                /\ record' = Derived /\ phase' = "reconcile" /\ step' = "parsing"
             \/ /\ phase = "reconcile"
                /\ step' = IF Derived = record THEN "copying" ELSE "record_corrupt"
                /\ UNCHANGED <<phase, record>>
    /\ members' = <<>>
    /\ UNCHANGED <<inHand, copied, stored>> /\ Same

\* reconcile_operation_record takes the manifest from the directory.
ParseManifest ==
    /\ step = "parsing"
    /\ \/ declared = Garbage /\ Fails("record_corrupt") /\ UNCHANGED inHand
       \/ declared # Garbage /\ step' = "binding" /\ inHand' = declared
    /\ UNCHANGED <<phase, members, record, copied, stored>> /\ Same

\* reconciled_bundle_bytes reads manifest.json once more, and does not digest it.
CopyManifest ==
    /\ step = "copying" /\ copied = NoBundle
    /\ copied' = [present |-> TRUE, manifest |-> declared]
    /\ UNCHANGED <<step, phase, inHand, members, record, stored>> /\ Same

CopyMember ==
    /\ step = "copying" /\ copied # NoBundle /\ Len(members) < Len(MemberOrder)
    /\ LET m == MemberOrder[Len(members) + 1]
       IN  \/ /\ Readable(m) /\ bundle[m] = record.digests[m]
              /\ members' = Append(members, bundle[m]) /\ UNCHANGED step
           \/ Readable(m) /\ bundle[m] # record.digests[m]
              /\ Fails("record_corrupt") /\ UNCHANGED members
           \/ ~Readable(m) /\ Fails(ReadFailure(m)) /\ UNCHANGED members
    /\ UNCHANGED <<phase, inHand, record, copied, stored>> /\ Same

\* publish_operation parses the manifest, stages the copy and reconciles the stage.
PublishRecord ==
    /\ step = "copying" /\ copied # NoBundle /\ Len(members) = Len(MemberOrder)
    /\ \/ /\ copied.manifest # Garbage /\ StoreAccepts(record, copied.manifest, Derived.digests)
          /\ stored' = [present |-> TRUE, manifest |-> copied.manifest,
                        files |-> Derived.digests]
          /\ step' = "published"
       \/ /\ copied.manifest # Garbage /\ ~StoreAccepts(record, copied.manifest, Derived.digests)
          /\ Fails("record_corrupt") /\ UNCHANGED stored
       \/ copied.manifest = Garbage /\ Fails("record_publication_failed") /\ UNCHANGED stored
    /\ UNCHANGED <<phase, inHand, members, record, copied>> /\ Same

\* Somebody changes or removes a member, or rewrites the manifest, while the host reads.
ChangeBundle ==
    /\ step \in Running
    /\ edits < MaxEdits /\ edits' = edits + 1
    /\ \/ \E m \in DOMAIN bundle, c \in Contents :
            bundle' = [bundle EXCEPT ![m] = c] /\ UNCHANGED declared
       \/ \E m \in DOMAIN bundle :
            bundle' = [n \in DOMAIN bundle \ {m} |-> bundle[n]] /\ UNCHANGED declared
       \/ declared' \in Manifests \cup {Garbage} /\ UNCHANGED bundle
    /\ UNCHANGED <<step, phase, answered, binding, inHand, members, record, copied, stored>>

RecordsNext ==
    \/ CheckBinding \/ ListMembers \/ ReadManifest \/ ReadMember \/ CheckTotal \/ ReadResult
    \/ ParseManifest \/ CopyManifest \/ CopyMember \/ PublishRecord
    \/ ChangeBundle

RecordsSpec == RecordsInit /\ [][RecordsNext]_recordVars

-----------------------------------------------------------------------------
(* Properties *)

\* Whatever happened to the directory meanwhile, a published bundle is the worker's answer:
\* its manifest, exactly the members that declares, and a result that can be read
\* (build_operation_record, reconciled_bundle_bytes, publish_operation).
PublishedIsAnswer ==
    stored.present =>
        /\ stored.manifest = answered /\ stored.files = answered
        /\ stored.files["result"] \notin Malformed
        /\ BindingError(binding) = "none"

\* A bundle nobody touched is never called corrupt or refused for its size without reason
\* (_derive_record, _load_result, reconcile_operation_record).
NoFalseCorruption ==
    edits = 0 /\ BindingError(binding) = "none" =>
        /\ step = "record_corrupt" => answered["result"] \in Malformed
        /\ step = "result_limit_exceeded" =>
              \/ answered["result"] \in Malformed
              \/ \E m \in MemberNames : Size[answered[m]] > MaxMember
              \/ Total(answered) > MaxBundle
=============================================================================
