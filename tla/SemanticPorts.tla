---------------------------- MODULE SemanticPorts ----------------------------
(***************************************************************************)
(* protocol/ports.py: a port read from a model field, checked against the  *)
(* JSON Schema of the field, and compared with another port.               *)
(*                                                                         *)
(* A schema is a JSON object: the definition its $ref names, the           *)
(* alternatives of its anyOf or oneOf, its type names (none when it has no *)
(* type), the constants of its enum or const, and minItems and uniqueItems *)
(* of an array; a keyword that is not there is NoKeyword.  The code goes   *)
(* through references and alternatives without a bound: it ends because a  *)
(* schema comes to an end, which Nesting says.  (Its recursion would not   *)
(* end on a definition that leads back to itself.)                         *)
(***************************************************************************)
EXTENDS Integers, Sequences, SequencesExt, FiniteSets

CONSTANTS
    Schemas,        \* the schemas of the models, with all that is in them
    Definitions,    \* name -> schema: the $defs of a model
    Nesting,        \* [Schemas -> 0..MaxNesting]: decreases towards what is inside
    MaxNesting,
    ProducerFields, \* fields compared, with their metadata
    ConsumerFields,
    NoKeyword

Dimensions == <<"concept", "unit", "shape", "cardinality", "convention", "ordering",
                "frequency", "provenance_requirement">>

\* PortProvenanceRequirement
Provenances == {"not_required", "source_bound", "component_bound", "source_or_component_bound"}

\* A $ref that names no definition leads nowhere.
Resolves(s) == s.ref \in DOMAIN Definitions
HasAlternatives(s) == s.of # NoKeyword
\* What the code looks into when it looks at s.
Inside(s) ==
    (IF Resolves(s) THEN {Definitions[s.ref]} ELSE {})
    \cup (IF HasAlternatives(s) THEN s.of ELSE {})

ASSUME PortsAssumption ==
    /\ MaxNesting \in Nat /\ Nesting \in [Schemas -> 0..MaxNesting]
    /\ \A s \in Schemas : \A t \in Inside(s) : t \in Schemas /\ Nesting[t] < Nesting[s]
    /\ \A field \in ProducerFields \cup ConsumerFields :
          field.schema \in Schemas /\ field.port.provenance_requirement \in Provenances

ScalarTypes == {"boolean", "integer", "number", "string"}

-----------------------------------------------------------------------------
(* The schema of a field *)

\* The end of _schema_shapes: the shapes that a schema's own keywords tell.
OwnShapes(s) ==
    LET types == s.types \ {"null"}
        constant == types = {} /\ s.values # NoKeyword /\ s.values \subseteq {"null", "scalar"}
    IN  (IF types \cap ScalarTypes # {} \/ constant THEN {"scalar"} ELSE {})
        \cup (IF "array" \in types /\ ~s.unique THEN {"ordered_series"} ELSE {})

\* _schema_shapes: alternatives without a shape (objects, sets, anything) add none.
SchemaShapes[s \in Schemas] ==
    IF Resolves(s) THEN SchemaShapes[Definitions[s.ref]]
    ELSE IF HasAlternatives(s) THEN UNION {SchemaShapes[t] : t \in s.of}
    ELSE OwnShapes(s)

OwnMinimums(s) == IF "array" \in s.types THEN {s.minimum} ELSE {}

\* _array_minimum_items
ArrayMinimums[s \in Schemas] ==
    IF Resolves(s) THEN ArrayMinimums[Definitions[s.ref]]
    ELSE IF HasAlternatives(s) THEN UNION {ArrayMinimums[t] : t \in s.of}
    ELSE OwnMinimums(s)

\* Mutant: a constant that may be null passes as a port.
NullByType(s) == "null" \in s.types

\* The end of _schema_allows_null
NullByKeywords(s) == "null" \in s.types \/ (s.values # NoKeyword /\ "null" \in s.values)

\* _schema_allows_null, which reads a schema's own keywords whatever is inside it
AllowsNull[s \in Schemas] ==
    (\E t \in Inside(s) : AllowsNull[t]) \/ NullByKeywords(s)

BadPort == [kind |-> "error"]        \* a SemanticPortError

\* _field_shape_and_cardinality
FieldShape(s) ==
    CASE AllowsNull[s] -> BadPort
      [] ~AllowsNull[s] /\ SchemaShapes[s] = {"ordered_series"} ->
            IF ArrayMinimums[s] = {} \/ \E m \in ArrayMinimums[s] : m = NoKeyword \/ m < 1
            THEN BadPort
            ELSE [kind |-> "shape", shape |-> "ordered_series", cardinality |-> "one_or_more"]
      [] ~AllowsNull[s] /\ SchemaShapes[s] = {"scalar"} ->
            [kind |-> "shape", shape |-> "scalar", cardinality |-> "exactly_one"]
      [] OTHER -> BadPort

-----------------------------------------------------------------------------
(* Ports *)

\* SemanticPort: shape and cardinality go together.
WellFormedPort(p) ==
    p.cardinality = IF p.shape = "scalar" THEN "exactly_one" ELSE "one_or_more"

\* extract_semantic_port: field.metadata says whether its only key is the port's.
Extract(field, direction) ==
    LET p == field.port
        actual == FieldShape(field.schema)
    IN  IF /\ field.metadata = "port" /\ WellFormedPort(p) /\ p.direction = direction
           /\ actual # BadPort
           /\ p.shape = actual.shape /\ p.cardinality = actual.cardinality
        THEN [kind |-> "port", port |-> p] ELSE BadPort

\* _provenance_is_compatible
ProvenanceCompatible(producer, consumer) ==
    \/ consumer = "not_required"
    \/ /\ consumer = "source_or_component_bound"
       /\ producer \in {"source_bound", "component_bound", "source_or_component_bound"}
    \/ consumer \notin {"not_required", "source_or_component_bound"} /\ producer = consumer

\* _differences, in the order of the dimensions
Differences(producer, consumer) ==
    LET differing ==
            {d \in ToSet(Dimensions) :
                IF d = "provenance_requirement" THEN ~ProvenanceCompatible(producer[d], consumer[d])
                ELSE producer[d] # consumer[d]}
        listed[n \in 0..Len(Dimensions)] ==
            IF n = 0 THEN <<>>
            ELSE IF Dimensions[n] \in differing THEN Append(listed[n - 1], Dimensions[n])
            ELSE listed[n - 1]
    IN  listed[Len(Dimensions)]

\* compare_semantic_ports; PortCompatibility recomputes the differences.
ComparePortFields(producer, consumer) ==
    LET p == Extract(producer, "output")
        c == Extract(consumer, "input")
    IN  IF BadPort \in {p, c} THEN BadPort
        ELSE [kind |-> "compared", differences |-> Differences(p.port, c.port)]

-----------------------------------------------------------------------------

VARIABLES produces, consumes, comparison

portVars == <<produces, consumes, comparison>>

NotCompared == [kind |-> "open"]

PortsInit ==
    /\ produces \in ProducerFields /\ consumes \in ConsumerFields
    /\ comparison = NotCompared

PortsNext ==
    /\ comparison = NotCompared
    /\ comparison' = ComparePortFields(produces, consumes)
    /\ UNCHANGED <<produces, consumes>>

PortsSpec == PortsInit /\ [][PortsNext]_portVars

-----------------------------------------------------------------------------
(* Reference: the values a schema accepts, and what a guarantee means *)

ValueType(v) ==
    CASE v = "null" -> {"null"}
      [] v = "object" -> {"object"}
      [] v \in {"empty", "filled"} -> {"array"}
      [] OTHER -> ScalarTypes
Values == {"null", "scalar", "object", "empty", "filled"}

\* What a schema's own keywords let through.
Permitted(s) ==
    {v \in Values :
        /\ s.types = {} \/ ValueType(v) \cap s.types # {}
        /\ s.values # NoKeyword => v \in s.values
        /\ v = "empty" => s.minimum = NoKeyword \/ s.minimum = 0}

\* A schema that leads to no other, of which the code tells no shape: an object, a set, or a
\* value without a type (Any) that is not limited to scalar constants.
Shapeless(s) ==
    /\ Inside(s) = {} /\ ~HasAlternatives(s)
    /\ \/ s.unique \/ "object" \in s.types
       \/ s.types = {} /\ (s.values = NoKeyword \/ ~ s.values \subseteq {"null", "scalar"})

\* The values a schema accepts other than by something shapeless in it.  All keywords of a
\* JSON Schema count, those beside a $ref or a choice too.
AcceptedValues[s \in Schemas] ==
    IF Shapeless(s) THEN {}
    ELSE {v \in Permitted(s) :
            /\ Resolves(s) => v \in AcceptedValues[Definitions[s.ref]]
            /\ HasAlternatives(s) => \E t \in s.of : v \in AcceptedValues[t]}

OfShape(shape) == IF shape = "scalar" THEN {"scalar"} ELSE {"filled"}

\* The kinds of origin a value with the requirement may have.
Origins(requirement) ==
    CASE requirement = "not_required" -> {"source", "component", "none"}
      [] requirement = "source_bound" -> {"source"}
      [] requirement = "component_bound" -> {"component"}
      [] OTHER -> {"source", "component"}

-----------------------------------------------------------------------------
(* Properties *)

\* Ports found compatible fit.  They are compatible exactly when every origin the producer
\* admits is one the consumer accepts and the declared meanings agree; and then what the
\* producer's field accepts, through all references and choices of its schema, is never null,
\* never an empty array, and of the shape the consumer asks for, as far as the code tells
\* shapes at all: an object, a set or an untyped value in a choice beside a scalar adds no
\* shape and is let through, so nothing is said of it (Shapeless; extract_semantic_port,
\* compare_semantic_ports, _schema_shapes).
CompatiblePortsFit ==
    comparison.kind = "compared" =>
        LET p == produces.port
            c == consumes.port
            fits == /\ Origins(p.provenance_requirement) \subseteq Origins(c.provenance_requirement)
                    /\ \A d \in ToSet(Dimensions) \ {"provenance_requirement"} : p[d] = c[d]
        IN  /\ (comparison.differences = <<>>) <=> fits
            /\ comparison.differences = <<>> =>
                  AcceptedValues[produces.schema] \subseteq OfShape(c.shape)
=============================================================================
