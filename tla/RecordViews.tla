---------------------------- MODULE RecordViews ----------------------------
(***************************************************************************)
(* shared/record_views.py: bounded pages over the immutable records of a   *)
(* session, and the cursors of shared/session_cas.py that link one page to *)
(* the next.                                                               *)
(*                                                                         *)
(* Each request runs in a thread of its own.  It takes the store's mutex   *)
(* once to load the record, once to decode its cursor and once for every   *)
(* cursor it encodes; between any two of these another thread may find the *)
(* record corrupt or close the session.  An item is its size in bytes; a   *)
(* page is the bytes of everything else in the answer, of the items and of *)
(* the next cursor.                                                        *)
(***************************************************************************)
EXTENDS Integers, Sequences, FiniteSets, FiniteSetsExt

CONSTANTS
    Readers,        \* threads that answer requests
    Sessions,
    Datasets,       \* dataset references
    Operations,     \* operation references
    Fields,         \* the fields of a result that hold an array or an object
    Scalars,        \* its other fields
    ItemLists,      \* for each paged view, the sequences of item sizes it may show
    Limits,         \* the limits a client may ask for
    DefaultLimit,   \* the limit of a request that names none
    MaxLimit,       \* the largest limit a request may name
    MaxBytes,       \* MAX_STRUCTURED_RESPONSE_BYTES
    Overhead,       \* bytes of an answer besides its items and its cursor
    CursorBytes,    \* bytes of a cursor, which embeds the next index
    MaxItems,       \* bound: items of a list
    MaxCursors,     \* bound: cursors the clients keep at a time
    None

References == Datasets \cup Operations
PagedViews == {"preview", "result_field", "messages"}
FixedViews == {"metadata", "manifest", "artifact_metadata"}
Views == PagedViews \cup FixedViews \cup {"summary", "execute"}

\* What a cursor is bound to besides its session: reference, view and selector.
Selections ==
    [ref : Datasets, view : {"preview"}, field : {None}]
    \cup [ref : Operations, view : {"messages"}, field : {None}]
    \cup [ref : Operations, view : {"result_field"}, field : Fields]

ASSUME ViewAssumption ==
    /\ Datasets \cap Operations = {} /\ Fields \cap Scalars = {}
    /\ None \notin References \cup Sessions \cup Fields \cup Scalars \cup Limits
    /\ ItemLists \in [PagedViews -> SUBSET Seq(Nat)]
    /\ Limits \subseteq Int
    /\ DefaultLimit \in [PagedViews -> Nat \ {0}]
    /\ MaxLimit \in [PagedViews -> Nat]
    /\ MaxBytes \in Nat /\ MaxCursors \in Nat
    /\ Overhead \in [PagedViews \cup {"summary", "execute"} -> Nat]
    /\ MaxItems \in Nat /\ CursorBytes \in [0 .. MaxItems -> Nat]
    /\ \A v \in PagedViews : \A list \in ItemLists[v] : Len(list) <= MaxItems

VARIABLES
    content,        \* the items of each selection; records are immutable
    references,     \* SessionCas._references
    corrupt,        \* SessionCas._corrupt_references
    closed,         \* sessions that are closed
    pc,             \* where each thread is
    req,            \* its request
    start,          \* start of the page it builds
    taken,          \* items selected so far
    cursors,        \* cursors given out, each with what its client has read
    reply           \* the last answer of each thread

storeVars == <<references, corrupt, closed>>
vars == <<content, storeVars, pc, req, start, taken, cursors, reply>>

Contents == {c \in [Selections -> UNION {ItemLists[v] : v \in PagedViews}] :
                \A sel \in Selections : c[sel] \in ItemLists[sel.view]}
Tokens == [session : Sessions, sel : Selections, index : Nat]
NoRequest == [session |-> None, ref |-> None, view |-> None, field |-> None,
              cursor |-> None, limit |-> None]
NoReply == [code |-> "none"]

Live(s, r) == s \notin closed /\ r \in references[s] /\ r \notin corrupt[s]

SelectionOf(q) == [ref |-> q.ref, view |-> q.view, field |-> q.field]
Items(q) == content[SelectionOf(q)]
LimitOf(q) == IF q.limit = None THEN DefaultLimit[q.view] ELSE q.limit

\* The items from the one after index a up to the one at index b.
SizeOf(list, a, b) == MapThenSumSet(LAMBDA i : list[i], (a + 1) .. b)

\* _result_size of a page of a list, cursor included unless the page is the last.
PageBytes(view, list, a, b) ==
    Overhead[view] + SizeOf(list, a, b) + (IF b = Len(list) THEN 0 ELSE CursorBytes[b])

\* The items from 1 to n of a selection, in order, as a client collects them.
Collected(sel, n) == [i \in 1 .. n |-> <<sel, i>>]

Init ==
    /\ content \in Contents
    /\ references = [s \in Sessions |-> {}]
    /\ corrupt = [s \in Sessions |-> {}]
    /\ closed = {}
    /\ pc = [p \in Readers |-> "idle"]
    /\ req = [p \in Readers |-> NoRequest]
    /\ start = [p \in Readers |-> 0]
    /\ taken = [p \in Readers |-> 0]
    /\ cursors = {}
    /\ reply = [p \in Readers |-> NoReply]

-----------------------------------------------------------------------------
(* Requests *)

Requests ==
    [session : Sessions, ref : Datasets, view : {"metadata", "preview"}, field : {None},
     cursor : cursors \cup {None}, limit : Limits \cup {None}]
    \cup [session : Sessions, ref : Operations, view : Views \ {"metadata", "preview"},
          field : Fields \cup Scalars \cup {None},
          cursor : cursors \cup {None}, limit : Limits \cup {None}]

Paged(q) == q.view \in PagedViews /\ q.field \notin Scalars

\* The checks of describe_dataset and get_operation on selectors and limit, in
\* one verdict: they all end in invalid_tool_request.
Admissible(q) ==
    /\ q.view = "result_field" <=> q.field # None
    /\ IF Paged(q) THEN LimitOf(q) \in 1 .. MaxLimit[q.view]
       ELSE q.cursor = None /\ q.limit = None

\* _require_open, then the tests of encode_cursor and _resolve on the reference
\* ("not_found" stands for a reference of another session as well).
LookupFailure(s, r) == IF s \notin closed /\ r \in corrupt[s] THEN "record_corrupt" ELSE "not_found"

Reset(p) ==
    /\ pc' = [pc EXCEPT ![p] = "idle"]
    /\ req' = [req EXCEPT ![p] = NoRequest]
    /\ start' = [start EXCEPT ![p] = 0]
    /\ taken' = [taken EXCEPT ![p] = 0]

Finish(p, code) ==
    /\ Reset(p)
    /\ reply' = [reply EXCEPT ![p] = [code |-> code]]
    /\ UNCHANGED <<content, storeVars, cursors>>

Continue(p, to) ==
    /\ pc' = [pc EXCEPT ![p] = to]
    /\ UNCHANGED <<content, storeVars, cursors, reply>>

\* A request arrives; its record is loaded and its selectors are checked.  The
\* views without pages answer with _bounded_result; whether their value fits, and
\* whether the artifact identifier is well formed and known, is left open.
Serve(p) ==
    /\ pc[p] = "idle"
    /\ \E q \in Requests :
        LET loaded == Live(q.session, q.ref)
        IN \/ q.view # "execute" /\ ~loaded /\ Finish(p, LookupFailure(q.session, q.ref))
           \/ q.view # "execute" /\ loaded /\ ~Admissible(q) /\ Finish(p, "invalid_tool_request")
           \/ /\ q.view \in FixedViews \/ q.field \in Scalars
              /\ loaded /\ Admissible(q)
              /\ \/ \E code \in {"value", "result_limit_exceeded"} : Finish(p, code)
                 \/ /\ q.view = "artifact_metadata"
                    /\ \E code \in {"invalid_tool_request", "artifact_not_found"} : Finish(p, code)
           \/ /\ q.view \in {"summary", "execute"} \/ Paged(q)
              /\ loaded \/ q.view = "execute"
              /\ Admissible(q)
              /\ req' = [req EXCEPT ![p] = q]
              /\ reply' = [reply EXCEPT ![p] = NoReply]
              /\ pc' = [pc EXCEPT ![p] = IF ~Paged(q) THEN "summary"
                                         ELSE IF q.cursor = None THEN "page" ELSE "decode"]
              /\ UNCHANGED <<content, storeVars, cursors, start, taken>>

\* Mutant: the selector is not part of what a cursor is bound to.
BoundNoField(t, q) ==
    t.session = q.session /\ t.sel.ref = q.ref /\ t.sel.view = q.view

\* The signature under the session's key, and the comparison of the payload with
\* the request.
Bound(t, q) == t.session = q.session /\ t.sel = SelectionOf(q)

\* decode_cursor and the first test of _page.
Decode(p) ==
    LET q == req[p] IN
    /\ pc[p] = "decode"
    /\ \/ q.session \in closed /\ Finish(p, "not_found")
       \/ /\ q.session \notin closed
          /\ \/ ~Bound(q.cursor.token, q)
             \/ ~Live(q.session, q.ref)
             \/ q.cursor.token.index > Len(Items(q))
          /\ Finish(p, "invalid_tool_request")
       \/ /\ Bound(q.cursor.token, q) /\ Live(q.session, q.ref)
          /\ q.cursor.token.index <= Len(Items(q))
          /\ start' = [start EXCEPT ![p] = q.cursor.token.index]
          /\ Continue(p, "page")
          /\ UNCHANGED <<req, taken>>

-----------------------------------------------------------------------------
(* _page *)

\* Mutant: one item more than the limit.
MaximumEndLate(p) == Min({Len(Items(req[p])), start[p] + LimitOf(req[p]) + 1})

\* maximum_end.
MaximumEnd(p) == Min({Len(Items(req[p])), start[p] + LimitOf(req[p])})

\* A page that ends at index b needs a cursor unless it is the last.
Encodes(p, b) == b = Len(Items(req[p])) \/ Live(req[p].session, req[p].ref)

\* Mutant: a page that exactly reaches the byte limit counts as too large.
ExtendStrict(p) ==
    LET q == req[p]
        b == start[p] + taken[p] + 1
        fits == ~(PageBytes(q.view, Items(q), start[p], b) >= MaxBytes)
    IN  /\ pc[p] = "page" /\ b <= MaximumEnd(p)
        /\ \/ Encodes(p, b) /\ ~fits /\ taken[p] > 0
              /\ Continue(p, "answer") /\ UNCHANGED <<req, start, taken>>
           \/ Encodes(p, b) /\ fits
              /\ taken' = [taken EXCEPT ![p] = @ + 1]
              /\ Continue(p, "page") /\ UNCHANGED <<req, start>>

\* One turn of the loop: the candidate page is built with its own cursor.
Extend(p) ==
    LET q == req[p]
        b == start[p] + taken[p] + 1
        fits == ~(PageBytes(q.view, Items(q), start[p], b) > MaxBytes)
    IN  /\ pc[p] = "page" /\ b <= MaximumEnd(p)
        /\ \/ ~Encodes(p, b) /\ Finish(p, LookupFailure(q.session, q.ref))
           \/ Encodes(p, b) /\ ~fits /\ taken[p] = 0 /\ Finish(p, "result_limit_exceeded")
           \/ /\ Encodes(p, b) /\ ~fits /\ taken[p] > 0
              /\ Continue(p, "answer")
              /\ UNCHANGED <<req, start, taken>>
           \/ /\ Encodes(p, b) /\ fits
              /\ taken' = [taken EXCEPT ![p] = @ + 1]
              /\ Continue(p, "page")
              /\ UNCHANGED <<req, start>>

LoopEnds(p, b) == pc[p] = "answer" \/ (pc[p] = "page" /\ b >= MaximumEnd(p))

\* The client keeps a cursor it is given, and may forget others.
Keep(c) ==
    \E kept \in SUBSET cursors :
        Cardinality(kept) < MaxCursors /\ cursors' = kept \cup {c}

\* An answer with the items of sel after index a up to index b: complete, or with
\* the cursor of the next page.  read is what the client has collected with it.
Page(p, q, sel, a, b, limit, bytes) ==
    LET before == IF q.cursor = None THEN <<>> ELSE q.cursor.read
        read == before \o [i \in 1 .. b - a |-> <<sel, a + i>>]
        complete == b = Len(content[sel])
        token == [session |-> q.session, sel |-> sel, index |-> b]
    IN  /\ Reset(p)
        /\ reply' = [reply EXCEPT ![p] =
              [code |-> "page", request |-> q, sel |-> sel, start |-> a, returned |-> b - a,
               complete |-> complete, limit |-> limit, bytes |-> bytes, read |-> read]]
        /\ IF complete THEN UNCHANGED cursors ELSE Keep([token |-> token, read |-> read])

\* Mutant: the cursor of the last accepted candidate is used again.
AnswerReusesCursor(p) ==
    LET q == req[p]
        b == start[p] + taken[p]
        bytes == PageBytes(q.view, Items(q), start[p], b)
    IN  /\ LoopEnds(p, b)
        /\ \/ bytes > MaxBytes /\ Finish(p, "result_limit_exceeded")
           \/ /\ bytes <= MaxBytes
              /\ Page(p, q, SelectionOf(q), start[p], b, LimitOf(q), bytes)
              /\ UNCHANGED <<content, storeVars>>

\* The page is built once more and bounded once more.
Answer(p) ==
    LET q == req[p]
        b == start[p] + taken[p]
        bytes == PageBytes(q.view, Items(q), start[p], b)
    IN  /\ LoopEnds(p, b)
        /\ \/ ~Encodes(p, b) /\ Finish(p, LookupFailure(q.session, q.ref))
           \/ Encodes(p, b) /\ bytes > MaxBytes /\ Finish(p, "result_limit_exceeded")
           \/ /\ Encodes(p, b) /\ bytes <= MaxBytes
              /\ Page(p, q, SelectionOf(q), start[p], b, LimitOf(q), bytes)
              /\ UNCHANGED <<content, storeVars>>

-----------------------------------------------------------------------------
(* operation_summary, alone (get_operation) and before a publication *)

Messages(q) == [ref |-> q.ref, view |-> "messages", field |-> None]
FirstMessages(q) == Min({DefaultLimit["messages"], Len(content[Messages(q)])})
SummaryBytes(q, view) == PageBytes(view, content[Messages(q)], 0, FirstMessages(q))

\* _bounded_result of the summary, and of the view that wraps it.
SummaryFits(q) ==
    /\ SummaryBytes(q, "execute") <= MaxBytes
    /\ SummaryBytes(q, q.view) <= MaxBytes

\* encode_cursor asks for a registered reference, _encode_pending_cursor does not.
SummaryEncodes(q) ==
    \/ FirstMessages(q) = Len(content[Messages(q)])
    \/ q.view = "execute" /\ q.session \notin closed /\ q.ref \notin corrupt[q.session]
    \/ Live(q.session, q.ref)

SummaryPage(p, q) ==
    Page(p, q, Messages(q), 0, FirstMessages(q), DefaultLimit["messages"], SummaryBytes(q, q.view))

\* Mutant: the operation is registered before its summary is bounded.
SummarizeRegistered(p) ==
    LET q == req[p] IN
    /\ pc[p] = "summary" /\ SummaryEncodes(q) /\ ~SummaryFits(q)
    /\ references' = [references EXCEPT ![q.session] = @ \cup {q.ref}]
    /\ Reset(p)
    /\ reply' = [reply EXCEPT ![p] = [code |-> "result_limit_exceeded"]]
    /\ UNCHANGED <<content, corrupt, closed, cursors>>

\* A source dataset that is gone fails the summary as well.
Summarize(p) ==
    LET q == req[p] IN
    /\ pc[p] = "summary"
    /\ \/ ~SummaryEncodes(q) /\ Finish(p, LookupFailure(q.session, q.ref))
       \/ Finish(p, "not_found")
       \/ SummaryEncodes(q) /\ ~SummaryFits(q) /\ Finish(p, "result_limit_exceeded")
       \/ /\ SummaryEncodes(q) /\ SummaryFits(q)
          /\ IF q.view = "execute" THEN Continue(p, "publish") /\ UNCHANGED <<req, start, taken>>
             ELSE SummaryPage(p, q) /\ UNCHANGED <<content, storeVars>>

\* publish_operation (module SessionCas); only then is the summary returned.
Publish(p) ==
    LET q == req[p] IN
    /\ pc[p] = "publish"
    /\ \/ Finish(p, "record_publication_failed")
       \/ /\ q.session \notin closed /\ q.ref \notin corrupt[q.session]
          /\ references' = [references EXCEPT ![q.session] = @ \cup {q.ref}]
          /\ SummaryPage(p, q)
          /\ UNCHANGED <<content, corrupt, closed>>

-----------------------------------------------------------------------------
(* The rest of the session: module SessionCas *)

\* publish_dataset.
RegisterDataset(s, d) ==
    /\ s \notin closed /\ d \notin references[s]
    /\ references' = [references EXCEPT ![s] = @ \cup {d}]
    /\ UNCHANGED <<content, corrupt, closed, pc, req, start, taken, cursors, reply>>

\* A load finds a changed file.
FindCorrupt(s, r) ==
    /\ Live(s, r)
    /\ corrupt' = [corrupt EXCEPT ![s] = @ \cup {r}]
    /\ UNCHANGED <<content, references, closed, pc, req, start, taken, cursors, reply>>

CloseSession(s) ==
    /\ s \notin closed
    /\ closed' = closed \cup {s}
    /\ references' = [references EXCEPT ![s] = {}]
    /\ UNCHANGED <<content, corrupt, pc, req, start, taken, cursors, reply>>

Next ==
    \/ \E p \in Readers :
        Serve(p) \/ Decode(p) \/ Extend(p) \/ Answer(p) \/ Summarize(p) \/ Publish(p)
    \/ \E s \in Sessions :
        \/ CloseSession(s)
        \/ \E d \in Datasets : RegisterDataset(s, d)
        \/ \E r \in References : FindCorrupt(s, r)

Spec == Init /\ [][Next]_vars

-----------------------------------------------------------------------------
(* Properties *)

\* The type of the module's state; a closed session holds no reference.
TypeOK ==
    /\ content \in Contents
    /\ references \in [Sessions -> SUBSET References]
    /\ corrupt \in [Sessions -> SUBSET References]
    /\ closed \subseteq Sessions /\ \A s \in closed : references[s] = {}
    /\ pc \in [Readers -> {"idle", "decode", "page", "answer", "summary", "publish"}]
    /\ start \in [Readers -> Nat] /\ taken \in [Readers -> Nat]
    /\ \A c \in cursors : c.token \in Tokens

\* "Pages are stable source-order slices": whoever follows the cursors, from the
\* first page or from the summary of an operation, with any limits and with
\* cursors of other views at hand, collects the items of one selection, each
\* once and in order, and all of them when the last page says it is complete.
\* A cursor continues only in the session that issued it.
ReadsInOrder ==
    /\ \A c \in cursors :
        /\ c.read = Collected(c.token.sel, c.token.index)
        /\ c.token.index < Len(content[c.token.sel])
    /\ \A p \in Readers : reply[p].code = "page" =>
        /\ reply[p].read = Collected(reply[p].sel, reply[p].start + reply[p].returned)
        /\ reply[p].request.cursor # None =>
            reply[p].request.cursor.token.session = reply[p].request.session

\* A page honours the byte limit and the limit asked for, and never leaves a
\* client where it was: only an empty list gives an empty page.
PageWithinBounds ==
    \A p \in Readers : reply[p].code = "page" =>
        /\ reply[p].bytes <= MaxBytes
        /\ reply[p].returned <= reply[p].limit
        /\ reply[p].returned = 0 => Len(content[reply[p].sel]) = 0

\* A page of a view is shorter than asked for only at the end of the list, or
\* because one more item, with the cursor that would follow it, does not fit.
PageNoShorter ==
    \A p \in Readers :
        LET r == reply[p] IN
        r.code = "page" /\ r.request.view \in PagedViews =>
            \/ r.complete
            \/ r.returned = r.limit
            \/ PageBytes(r.request.view, content[r.sel], r.start, r.start + r.returned + 1) > MaxBytes

\* Pages are as long as they may be and no longer: within the limits, and cut only at the
\* end of the list or where the next item would not fit (_page).
PageExact == PageWithinBounds /\ PageNoShorter

\* "An operation whose required summary cannot be returned must not become a live
\* session reference": execution could return the summary of every operation that
\* is registered.
RegisteredSummaryFits ==
    \A s \in Sessions, o \in Operations :
        o \in references[s] => SummaryBytes([ref |-> o], "execute") <= MaxBytes

\* A client is given a cursor only for a reference that is live at that moment,
\* although the record was loaded and the first cursors encoded before, and
\* although the cursor of a summary is encoded before its operation is published.
CursorsBornLive ==
    [][\A c \in cursors' \ cursors : Live(c.token.session, c.token.sel.ref)']_vars
=============================================================================
