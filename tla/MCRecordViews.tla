---------------------------- MODULE MCRecordViews ----------------------------
(* An instance of RecordViews for TLC.  Nothing orders the sessions or the fields. *)
EXTENDS RecordViews, TLC

MCItemLists == [preview |-> {<<2, 1, 4>>},
                result_field |-> {<<1, 6>>, <<1, 2, 1>>},
                messages |-> {<<>>, <<1, 2, 1>>, <<3, 1>>}]
MCDefaultLimit == [preview |-> 2, result_field |-> 2, messages |-> 1]
MCMaxLimit == [preview |-> 2, result_field |-> 3, messages |-> 2]
MCOverhead == [preview |-> 3, result_field |-> 2, messages |-> 2, summary |-> 5, execute |-> 4]
MCCursorBytes == [i \in 0 .. 3 |-> IF i < 2 THEN 1 ELSE 2]
MCSymmetry == Permutations(Sessions) \cup Permutations(Fields)
=============================================================================
