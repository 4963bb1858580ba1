------------------------- MODULE RecordViewsProofs -------------------------
(***************************************************************************)
(* Proofs about RecordViews: for any records, limits, byte budget and      *)
(* number of threads, following cursors reads each item once and in order, *)
(* a page is as long as its bounds allow and no longer, and cursors are    *)
(* given out only for live references.                                     *)
(***************************************************************************)
EXTENDS RecordViews, SequenceTheorems, TLAPS

\* The part of the type invariant the proofs need.
TypeCore ==
    /\ content \in Contents
    /\ references \in [Sessions -> SUBSET References]
    /\ pc \in [Readers -> {"idle", "decode", "page", "answer", "summary", "publish"}]
    /\ start \in [Readers -> Nat] /\ taken \in [Readers -> Nat]
    /\ req = [p \in Readers |-> req[p]] /\ reply = [p \in Readers |-> reply[p]]

\* A cursor whose client has read every item before it.
CursorOK(c) ==
    /\ c.token \in Tokens
    /\ c.read = Collected(c.token.sel, c.token.index)
    /\ c.token.index < Len(content[c.token.sel])

CursorInv == \A c \in cursors : CursorOK(c)

\* A request that passed its checks.
RequestOK(q) ==
    /\ q.session \in Sessions
    /\ q.cursor # None => CursorOK(q.cursor)
    /\ Paged(q) => SelectionOf(q) \in Selections /\ LimitOf(q) \in Nat \ {0}
    /\ ~Paged(q) => q.ref \in Operations /\ q.cursor = None /\ q.view \notin PagedViews

\* With one more item after index b, and its cursor, the page would be too large.
NextTooLarge(q, a, b) == PageBytes(q.view, Items(q), a, b + 1) > MaxBytes

\* A page of a view ends at the end of the list, at the limit, or before an item too many.
NoShorter(q, sel, a, b, limit) ==
    q.view \in PagedViews =>
        \/ b = Len(content[sel])
        \/ b - a = limit
        \/ PageBytes(q.view, content[sel], a, b + 1) > MaxBytes

\* A thread at work: its request, and the page under construction, which
\* continues exactly where its cursor points.
ThreadOK(p) ==
    /\ pc[p] # "idle" =>
        /\ RequestOK(req[p])
        /\ pc[p] \in {"summary", "publish"} <=> ~Paged(req[p])
        /\ pc[p] = "decode" => req[p].cursor # None
        /\ pc[p] = "publish" => SummaryFits(req[p]) /\ req[p].view = "execute"
    /\ pc[p] \notin {"page", "answer"} => start[p] = 0 /\ taken[p] = 0
    /\ pc[p] \in {"page", "answer"} =>
        /\ req[p].cursor = None => start[p] = 0
        /\ req[p].cursor # None => /\ start[p] = req[p].cursor.token.index
                                   /\ Bound(req[p].cursor.token, req[p])
        /\ start[p] + taken[p] <= Len(Items(req[p]))
        /\ taken[p] <= LimitOf(req[p])
    /\ pc[p] = "answer" => taken[p] > 0 /\ NextTooLarge(req[p], start[p], start[p] + taken[p])

ThreadInv == \A p \in Readers : ThreadOK(p)

\* An answered page, taken alone.
PageOK(r) ==
    /\ r.read = Collected(r.sel, r.start + r.returned)
    /\ r.bytes <= MaxBytes
    /\ r.returned <= r.limit
    /\ r.returned = 0 => Len(content[r.sel]) = 0
    /\ r.request.cursor # None => r.request.cursor.token.session = r.request.session
    /\ r.complete <=> r.start + r.returned = Len(content[r.sel])
    /\ NoShorter(r.request, r.sel, r.start, r.start + r.returned, r.limit)
    /\ r.start \in Nat /\ r.returned \in Nat

ReplyInv == \A p \in Readers : reply[p].code = "page" => PageOK(reply[p])

IInv == TypeCore /\ CursorInv /\ ThreadInv /\ ReplyInv /\ RegisteredSummaryFits

-----------------------------------------------------------------------------
(* Facts about contents, minima and pages *)

\* What a view shows is a sequence.
LEMMA ContentIsSequence ==
    ASSUME content \in Contents, NEW sel \in Selections
    PROVE  content[sel] \in Seq(Nat) /\ Len(content[sel]) \in Nat
<1>1. sel.view \in PagedViews
  BY DEF Selections, PagedViews
<1>2. content[sel] \in ItemLists[sel.view]
  BY DEF Contents
<1>3. ItemLists[sel.view] \subseteq Seq(Nat)
  BY <1>1, ViewAssumption
<1>4. QED BY <1>2, <1>3

\* The smaller of two numbers.
LEMMA MinOfTwo ==
    ASSUME NEW a \in Nat, NEW b \in Nat
    PROVE  /\ Min({a, b}) \in Nat /\ Min({a, b}) <= a /\ Min({a, b}) <= b
           /\ Min({a, b}) = a \/ Min({a, b}) = b
<1>1. \E x \in {a, b} : \A y \in {a, b} : x <= y
  OBVIOUS
<1>2. Min({a, b}) \in {a, b} /\ \A y \in {a, b} : Min({a, b}) <= y
  BY <1>1 DEF Min
<1>3. QED BY <1>2

\* A page that continues a cursor, or starts at 0, extends what its client read.
LEMMA PageReads ==
    ASSUME NEW sel, NEW a \in Nat, NEW b \in Nat, a <= b,
           NEW before, before = Collected(sel, a)
    PROVE  before \o [i \in 1 .. b - a |-> <<sel, a + i>>] = Collected(sel, b)
<1> DEFINE more == [i \in 1 .. b - a |-> <<sel, a + i>>]
<1> DEFINE T == {sel} \X Nat
<1>1. Collected(sel, a) \in Seq(T) /\ Len(Collected(sel, a)) = a
  BY DEF Collected
<1>2. b - a \in Nat
  OBVIOUS
<1>3. more \in Seq(T) /\ Len(more) = b - a
  BY <1>2
<1>4. Collected(sel, b) \in Seq(T) /\ Len(Collected(sel, b)) = b
  BY DEF Collected
<1> HIDE DEF more, T
<1>5. /\ before \o more \in Seq(T) /\ Len(before \o more) = a + (b - a)
      /\ \A i \in 1 .. a + (b - a) :
            (before \o more)[i] = IF i <= a THEN before[i] ELSE more[i - a]
  <2>1. before \in Seq(T) /\ Len(before) = a
    BY <1>1
  <2>2. /\ before \o more \in Seq(T) /\ Len(before \o more) = Len(before) + Len(more)
        /\ \A i \in 1 .. Len(before) + Len(more) : (before \o more)[i] =
                IF i <= Len(before) THEN before[i] ELSE more[i - Len(before)]
    <3>1. before \in Seq(T) /\ more \in Seq(T)
      BY <2>1, <1>3
    <3>2. QED BY <3>1, ConcatProperties, Zenon
  <2>3. QED BY <2>1, <2>2, <1>3
<1> HIDE DEF Collected
<1>6. \A i \in 1 .. b : (before \o more)[i] = Collected(sel, b)[i]
  <2> TAKE i \in 1 .. b
  <2>1. CASE i <= a
    <3>1. i \in 1 .. a + (b - a) /\ i \in 1 .. a
      BY <2>1
    <3>2. (before \o more)[i] = Collected(sel, a)[i]
      BY <2>1, <3>1, <1>5
    <3>3. QED BY <3>1, <3>2 DEF Collected
  <2>2. CASE ~(i <= a)
    <3>1. (before \o more)[i] = more[i - a]
      <4>1. i \in 1 .. a + (b - a)
        OBVIOUS
      <4>2. QED BY <2>2, <4>1, <1>5
    <3>2. i - a \in 1 .. b - a
      BY <2>2
    <3>3. more[i - a] = <<sel, a + (i - a)>>
      BY <3>2 DEF more
    <3>4. a + (i - a) = i /\ Collected(sel, b)[i] = <<sel, i>>
      BY DEF Collected
    <3>5. QED BY <3>1, <3>3, <3>4
  <2>3. QED BY <2>1, <2>2
<1>7. a + (b - a) = b
  OBVIOUS
<1>8. before \o more = Collected(sel, b)
  BY <1>4, <1>5, <1>6, <1>7, SeqEqual
<1>9. QED BY <1>8 DEF more

-----------------------------------------------------------------------------
(* Steps that several actions share *)

\* An answered page leaves good cursors and is a good page.
LEMMA PageStep ==
    ASSUME TypeCore, CursorInv, ReplyInv, NEW p \in Readers, NEW q, NEW sel \in Selections,
           NEW a \in Nat, NEW b \in Nat, NEW limit, NEW bytes,
           a <= b, b <= Len(content[sel]), b - a <= limit, bytes <= MaxBytes,
           b = a => Len(content[sel]) = 0, NoShorter(q, sel, a, b, limit),
           q.session \in Sessions,
           q.cursor = None => a = 0,
           q.cursor # None => /\ CursorOK(q.cursor) /\ q.cursor.token.sel = sel
                              /\ q.cursor.token.index = a /\ q.cursor.token.session = q.session,
           Page(p, q, sel, a, b, limit, bytes), content' = content
    PROVE  /\ CursorInv' /\ ReplyInv' /\ reply' = [t \in Readers |-> reply'[t]]
           /\ \A c \in cursors' \ cursors : c.token.session = q.session /\ c.token.sel = sel
           /\ cursors' # cursors => b # Len(content[sel])
<1> DEFINE before == IF q.cursor = None THEN <<>> ELSE q.cursor.read
           read == before \o [i \in 1 .. b - a |-> <<sel, a + i>>]
           token == [session |-> q.session, sel |-> sel, index |-> b]
           r == [code |-> "page", request |-> q, sel |-> sel, start |-> a, returned |-> b - a,
                 complete |-> b = Len(content[sel]), limit |-> limit, bytes |-> bytes, read |-> read]
<1>1. read = Collected(sel, b)
  <2>1. before = Collected(sel, a)
    <3>1. CASE q.cursor = None
      BY <3>1 DEF Collected
    <3>2. CASE q.cursor # None
      BY <3>2 DEF CursorOK
    <3>3. QED BY <3>1, <3>2
  <2> HIDE DEF before
  <2>2. QED BY <2>1, PageReads, Zenon
<1>2. Len(content[sel]) \in Nat
  BY ContentIsSequence DEF TypeCore
<1>3. token \in Tokens
  BY DEF Tokens
<1> HIDE DEF read
<1>4. b # Len(content[sel]) => CursorOK([token |-> token, read |-> read])'
  BY <1>1, <1>2, <1>3 DEF CursorOK
<1>5. /\ reply' = [reply EXCEPT ![p] = r]
      /\ \/ b = Len(content[sel]) /\ cursors' = cursors
         \/ /\ b # Len(content[sel])
            /\ \E kept \in SUBSET cursors : cursors' = kept \cup {[token |-> token, read |-> read]}
  BY DEF Page, Keep, read
<1>6. ASSUME NEW x, x = r PROVE PageOK(x)' /\ x.code = "page"
  <2>1. a + (b - a) = b /\ b - a \in Nat /\ (b - a = 0 => b = a)
    OBVIOUS
  <2>2. NoShorter(q, sel, a, b, limit)'
    BY DEF NoShorter
  <2>3. /\ x.request = q /\ x.sel = sel /\ x.start = a /\ x.returned = b - a /\ x.limit = limit
        /\ x.bytes = bytes /\ x.read = read /\ x.code = "page"
        /\ x.complete = (b = Len(content[sel]))
    BY <1>6
  <2>4. NoShorter(x.request, x.sel, x.start, x.start + x.returned, x.limit)'
    BY <2>1, <2>2, <2>3
  <2>5. QED BY <2>1, <2>3, <2>4, <1>1 DEF PageOK
<1>7. \A c \in cursors : CursorOK(c)'
  BY DEF CursorInv, CursorOK
<1>8. CursorInv'
  BY <1>4, <1>5, <1>7 DEF CursorInv
<1> HIDE DEF r
<1>9. \A t \in Readers \ {p} : reply'[t] = reply[t]
  BY <1>5 DEF TypeCore
<1>10. reply'[p] = r
  BY <1>5 DEF TypeCore
<1>11. ASSUME NEW x, PageOK(x) PROVE PageOK(x)'
  BY <1>11 DEF PageOK, NoShorter
<1>12. ReplyInv'
  BY <1>6, <1>9, <1>10, <1>11 DEF ReplyInv
<1>13. reply' = [t \in Readers |-> reply'[t]]
  BY <1>5 DEF TypeCore
<1>14. QED BY <1>5, <1>8, <1>12, <1>13

\* Records are immutable: what was established of a value stays established.
LEMMA Immutable ==
    ASSUME content' = content, NEW x
    PROVE  /\ CursorOK(x) => CursorOK(x)'
           /\ RequestOK(x) => RequestOK(x)'
           /\ PageOK(x) => PageOK(x)'
           /\ SummaryFits(x) => SummaryFits(x)'
           /\ Items(x)' = Items(x)
<1>1. ASSUME NEW y PROVE CursorOK(y) => CursorOK(y)'
  BY DEF CursorOK
<1>2. RequestOK(x) => RequestOK(x)'
  BY <1>1 DEF RequestOK
<1>3. PageOK(x) => PageOK(x)'
  BY DEF PageOK, NoShorter
<1>4. SummaryFits(x) => SummaryFits(x)'
  BY DEF SummaryFits, SummaryBytes, FirstMessages
<1>5. Items(x)' = Items(x)
  BY DEF Items
<1>6. QED BY <1>1, <1>2, <1>3, <1>4, <1>5

\* A thread that does not move stays as it is.
LEMMA OtherThread ==
    ASSUME content' = content, NEW t, ThreadOK(t),
           pc'[t] = pc[t], req'[t] = req[t], start'[t] = start[t], taken'[t] = taken[t]
    PROVE  ThreadOK(t)'
<1> DEFINE q == req[t]
<1>1. ASSUME NEW x, x = q
      PROVE  /\ RequestOK(x) => RequestOK(x)'
             /\ SummaryFits(x) => SummaryFits(x)'
             /\ Items(x)' = Items(x)
  BY Immutable
<1>2. req'[t] = q
  OBVIOUS
<1>3. /\ RequestOK(req[t]) => RequestOK(req[t])'
      /\ SummaryFits(req[t]) => SummaryFits(req[t])'
      /\ Items(req[t])' = Items(req[t])
  BY <1>1, <1>2
<1>4. NextTooLarge(req[t], start[t], start[t] + taken[t])
          => NextTooLarge(req[t], start[t], start[t] + taken[t])'
  BY <1>2, Immutable DEF NextTooLarge, Items, SelectionOf
<1>5. QED BY <1>3, <1>4 DEF ThreadOK, Paged, Bound, LimitOf, SelectionOf

\* A thread that ends its request without a page.
LEMMA FinishStep ==
    ASSUME IInv, NEW p \in Readers, NEW code, code # "page", Finish(p, code)
    PROVE  IInv'
<1>1. content' = content /\ references' = references /\ cursors' = cursors
  BY DEF Finish, storeVars
<1>2. TypeCore'
  BY DEF IInv, TypeCore, Finish, Reset, storeVars
<1>3. CursorInv'
  BY <1>1, Immutable DEF IInv, CursorInv
<1>4. ThreadInv'
  <2> SUFFICES ASSUME NEW t \in Readers PROVE ThreadOK(t)'
    BY DEF ThreadInv
  <2>1. CASE t = p
    BY <2>1 DEF ThreadOK, IInv, TypeCore, Finish, Reset
  <2>2. CASE t # p
    <3>1. pc'[t] = pc[t] /\ req'[t] = req[t] /\ start'[t] = start[t] /\ taken'[t] = taken[t]
      BY <2>2 DEF IInv, TypeCore, Finish, Reset
    <3>2. QED BY <3>1, <1>1, OtherThread DEF IInv, ThreadInv
  <2>3. QED BY <2>1, <2>2
<1>5. ReplyInv'
  <2> SUFFICES ASSUME NEW t \in Readers, reply'[t].code = "page" PROVE PageOK(reply[t])'
    BY DEF ReplyInv
  <2>1. t # p /\ reply'[t] = reply[t]
    BY DEF IInv, TypeCore, Finish
  <2>2. PageOK(reply[t])
    BY <2>1 DEF IInv, ReplyInv
  <2>3. ASSUME NEW x, PageOK(x) PROVE PageOK(x)'
    BY <1>1, <2>3, Immutable
  <2>4. QED BY <2>1, <2>2, <2>3
<1>6. RegisteredSummaryFits'
  BY <1>1 DEF IInv, RegisteredSummaryFits, SummaryBytes, FirstMessages
<1>7. QED BY <1>2, <1>3, <1>4, <1>5, <1>6 DEF IInv

\* Only thread p moves.
OnlyThread(p) ==
    \A t \in Readers \ {p} :
        pc'[t] = pc[t] /\ req'[t] = req[t] /\ start'[t] = start[t] /\ taken'[t] = taken[t]

\* A thread that moves on inside its request.
LEMMA MoveStep ==
    ASSUME IInv, NEW p \in Readers, OnlyThread(p), TypeCore', ThreadOK(p)',
           content' = content, references' = references, cursors' = cursors,
           reply' = reply \/ reply' = [reply EXCEPT ![p] = NoReply]
    PROVE  IInv'
<1>1. CursorInv'
  BY Immutable DEF IInv, CursorInv
<1>2. ThreadInv'
  BY OtherThread DEF IInv, ThreadInv, OnlyThread
<1>3. ReplyInv'
  <2> SUFFICES ASSUME NEW t \in Readers, reply'[t].code = "page" PROVE PageOK(reply[t])'
    BY DEF ReplyInv
  <2>1. reply'[t] = reply[t]
    BY DEF IInv, TypeCore, NoReply
  <2>2. PageOK(reply[t])
    BY <2>1 DEF IInv, ReplyInv
  <2>3. ASSUME NEW x, PageOK(x) PROVE PageOK(x)'
    BY <2>3, Immutable
  <2>4. QED BY <2>1, <2>2, <2>3
<1>4. RegisteredSummaryFits'
  BY DEF IInv, RegisteredSummaryFits, SummaryBytes, FirstMessages
<1>5. QED BY <1>1, <1>2, <1>3, <1>4 DEF IInv

\* A thread that answers: Page resets it.
LEMMA AnswerStep ==
    ASSUME IInv, NEW p \in Readers, Reset(p), content' = content,
           references' \in [Sessions -> SUBSET References],
           CursorInv', ReplyInv', RegisteredSummaryFits', reply' = [t \in Readers |-> reply'[t]]
    PROVE  IInv'
<1>1. TypeCore'
  BY DEF IInv, TypeCore, Reset
<1>2. OnlyThread(p)
  BY DEF IInv, TypeCore, Reset, OnlyThread
<1>3. ThreadOK(p)'
  BY DEF IInv, TypeCore, Reset, ThreadOK
<1>4. ThreadInv'
  BY <1>2, <1>3, OtherThread DEF IInv, ThreadInv, OnlyThread
<1>5. QED BY <1>1, <1>4 DEF IInv

-----------------------------------------------------------------------------
(* One lemma per action *)

\* A request that arrives is refused, answered at once, or starts its page.
LEMMA ServeStep ==
    ASSUME IInv, NEW p \in Readers, Serve(p)
    PROVE  IInv'
<1>1. CASE \E code : code # "page" /\ Finish(p, code)
  BY <1>1, FinishStep
<1>2. CASE ~\E code : code # "page" /\ Finish(p, code)
  <2>1. PICK q \in Requests :
          /\ q.view \in {"summary", "execute"} \/ Paged(q)
          /\ Admissible(q)
          /\ req' = [req EXCEPT ![p] = q]
          /\ reply' = [reply EXCEPT ![p] = NoReply]
          /\ pc' = [pc EXCEPT ![p] = IF ~Paged(q) THEN "summary"
                                     ELSE IF q.cursor = None THEN "page" ELSE "decode"]
          /\ UNCHANGED <<content, storeVars, cursors, start, taken>>
    BY <1>2 DEF Serve, LookupFailure
  <2>2. q.session \in Sessions /\ (q.cursor # None => q.cursor \in cursors)
    BY DEF Requests
  <2>3. Paged(q) => SelectionOf(q) \in Selections /\ LimitOf(q) \in Nat \ {0}
    <3> SUFFICES ASSUME Paged(q) PROVE SelectionOf(q) \in Selections /\ LimitOf(q) \in Nat \ {0}
      OBVIOUS
    <3>1. LimitOf(q) \in Nat \ {0}
      <4>1. q.view \in PagedViews /\ MaxLimit[q.view] \in Nat
        BY ViewAssumption DEF Paged
      <4>2. QED BY <2>1, <4>1 DEF Admissible
    <3>2. q.view = "result_field" <=> q.field # None
      BY <2>1 DEF Admissible
    <3>3. SelectionOf(q) \in Selections
      BY <3>2 DEF Requests, Paged, PagedViews, SelectionOf, Selections, Views
    <3>4. QED BY <3>1, <3>3
  <2>4. ~Paged(q) => q.ref \in Operations /\ q.cursor = None /\ q.view \notin PagedViews
    BY <2>1 DEF Requests, Admissible, Paged, PagedViews
  <2>5. RequestOK(q)
    BY <2>2, <2>3, <2>4 DEF RequestOK, IInv, CursorInv
  <2>6. content' = content /\ references' = references /\ cursors' = cursors
        /\ start' = start /\ taken' = taken
    BY <2>1 DEF storeVars
  <2>7. TypeCore'
    BY <2>1, <2>6 DEF IInv, TypeCore
  <2>8. OnlyThread(p)
    BY <2>1, <2>6 DEF IInv, TypeCore, OnlyThread
  <2>9. RequestOK(q)'
    BY <2>5, <2>6, Immutable
  <2>10. start[p] = 0 /\ taken[p] = 0
    BY DEF IInv, ThreadInv, ThreadOK, Serve
  <2>11. ThreadOK(p)'
    <3>1. req'[p] = q /\ start'[p] = 0 /\ taken'[p] = 0
      BY <2>1, <2>6, <2>10 DEF IInv, TypeCore
    <3>2. pc'[p] = IF ~Paged(q) THEN "summary" ELSE IF q.cursor = None THEN "page" ELSE "decode"
      BY <2>1 DEF IInv, TypeCore
    <3>3. Paged(q) => Len(Items(q)') \in Nat /\ LimitOf(q) \in Nat
      BY <2>3, <2>6, ContentIsSequence DEF IInv, TypeCore, Items
    <3>4. QED BY <2>9, <3>1, <3>2, <3>3 DEF ThreadOK, Paged, Items, LimitOf, SelectionOf
  <2>12. QED BY <2>1, <2>6, <2>7, <2>8, <2>11, MoveStep
<1>3. QED BY <1>1, <1>2

\* A cursor that is honoured starts the page where it points.
LEMMA DecodeStep ==
    ASSUME IInv, NEW p \in Readers, Decode(p)
    PROVE  IInv'
<1> DEFINE q == req[p]
<1>1. CASE \E code : code # "page" /\ Finish(p, code)
  BY <1>1, FinishStep
<1>2. CASE ~\E code : code # "page" /\ Finish(p, code)
  <2>1. /\ pc[p] = "decode" /\ Bound(q.cursor.token, q)
        /\ q.cursor.token.index <= Len(Items(q))
        /\ start' = [start EXCEPT ![p] = q.cursor.token.index]
        /\ Continue(p, "page") /\ UNCHANGED <<req, taken>>
    BY <1>2 DEF Decode
  <2>2. RequestOK(q) /\ Paged(q) /\ q.cursor # None /\ taken[p] = 0
    BY <2>1 DEF IInv, ThreadInv, ThreadOK
  <2>3. q.cursor.token.index \in Nat /\ LimitOf(q) \in Nat
    BY <2>2 DEF RequestOK, CursorOK, Tokens
  <2>4. content' = content /\ references' = references /\ cursors' = cursors /\ reply' = reply
    BY <2>1 DEF Continue, storeVars
  <2>5. TypeCore'
    BY <2>1, <2>3, <2>4 DEF IInv, TypeCore, Continue
  <2>6. OnlyThread(p)
    BY <2>1 DEF IInv, TypeCore, OnlyThread, Continue
  <2>7. ThreadOK(p)'
    <3>1. req'[p] = q /\ taken'[p] = 0 /\ start'[p] = q.cursor.token.index /\ pc'[p] = "page"
      BY <2>1, <2>2 DEF IInv, TypeCore, Continue
    <3>2. RequestOK(q)'
      <4>1. ASSUME NEW x, RequestOK(x) PROVE RequestOK(x)'
        BY <2>4, <4>1, Immutable
      <4>2. QED BY <2>1, <2>2, <4>1
    <3>3. Items(q)' = Items(q)
      BY <2>1, <2>4 DEF Items
    <3> HIDE DEF q
    <3>4. RequestOK(req[p])' /\ Items(req[p])' = Items(q)
      BY <3>1, <3>2, <3>3, <2>1 DEF q
    <3>5. QED BY <2>1, <2>2, <2>3, <3>1, <3>4 DEF ThreadOK, Paged, Bound, LimitOf, SelectionOf
  <2>8. QED BY <2>4, <2>5, <2>6, <2>7, MoveStep
<1>3. QED BY <1>1, <1>2

\* The end of the loop is within the list and within the limit.
LEMMA MaximumEndBounds ==
    ASSUME IInv, NEW p \in Readers, pc[p] \in {"page", "answer"}
    PROVE  /\ Len(Items(req[p])) \in Nat /\ LimitOf(req[p]) \in Nat \ {0}
           /\ SelectionOf(req[p]) \in Selections
           /\ MaximumEnd(p) \in Nat
           /\ MaximumEnd(p) <= Len(Items(req[p])) /\ MaximumEnd(p) <= start[p] + LimitOf(req[p])
           /\ MaximumEnd(p) = Len(Items(req[p])) \/ MaximumEnd(p) = start[p] + LimitOf(req[p])
<1>1. RequestOK(req[p]) /\ Paged(req[p])
  BY DEF IInv, ThreadInv, ThreadOK
<1>2. SelectionOf(req[p]) \in Selections /\ LimitOf(req[p]) \in Nat \ {0}
  BY <1>1 DEF RequestOK
<1>3. Len(Items(req[p])) \in Nat
  BY <1>2, ContentIsSequence DEF IInv, TypeCore, Items
<1>4. start[p] + LimitOf(req[p]) \in Nat
  BY <1>2 DEF IInv, TypeCore
<1>5. QED BY <1>2, <1>3, <1>4, MinOfTwo DEF MaximumEnd

\* One more item fits, or the page ends before it.
LEMMA ExtendStep ==
    ASSUME IInv, NEW p \in Readers, Extend(p)
    PROVE  IInv'
<1> DEFINE q == req[p]
           b == start[p] + taken[p] + 1
<1>1. CASE \E code : code # "page" /\ Finish(p, code)
  BY <1>1, FinishStep
<1>2. CASE ~\E code : code # "page" /\ Finish(p, code)
  <2>1. /\ pc[p] = "page" /\ b <= MaximumEnd(p)
        /\ UNCHANGED <<req, start>>
        /\ \/ /\ taken[p] > 0 /\ Continue(p, "answer") /\ UNCHANGED taken
              /\ PageBytes(q.view, Items(q), start[p], b) > MaxBytes
           \/ taken' = [taken EXCEPT ![p] = @ + 1] /\ Continue(p, "page")
    BY <1>2 DEF Extend, LookupFailure
  <2>2. ThreadOK(p) /\ RequestOK(q)
    BY <2>1 DEF IInv, ThreadInv, ThreadOK
  <2>3. content' = content /\ references' = references /\ cursors' = cursors /\ reply' = reply
    BY <2>1 DEF Continue, storeVars
  <2>4. TypeCore'
    BY <2>1, <2>3 DEF IInv, TypeCore, Continue
  <2>5. OnlyThread(p)
    BY <2>1 DEF IInv, TypeCore, OnlyThread, Continue
  <2>6. ThreadOK(p)'
    <3>1. req'[p] = req[p] /\ start'[p] = start[p] /\ start[p] \in Nat /\ taken[p] \in Nat
      BY <2>1 DEF IInv, TypeCore
    <3>2. \/ /\ pc'[p] = "answer" /\ taken'[p] = taken[p] /\ taken[p] > 0
             /\ NextTooLarge(req[p], start[p], start[p] + taken[p])'
          \/ pc'[p] = "page" /\ taken'[p] = taken[p] + 1
      <4>1. CASE taken' = [taken EXCEPT ![p] = @ + 1] /\ Continue(p, "page")
        BY <4>1 DEF IInv, TypeCore, Continue
      <4>2. CASE /\ taken[p] > 0 /\ Continue(p, "answer") /\ UNCHANGED taken
                 /\ PageBytes(q.view, Items(q), start[p], b) > MaxBytes
        <5>1. pc'[p] = "answer" /\ taken'[p] = taken[p]
          BY <4>2 DEF IInv, TypeCore, Continue
        <5>2. NextTooLarge(req[p], start[p], start[p] + taken[p])
          BY <4>2 DEF NextTooLarge
        <5>3. NextTooLarge(req[p], start[p], start[p] + taken[p])'
          BY <2>3, <3>1, <5>1, <5>2 DEF NextTooLarge, Items, SelectionOf
        <5>4. QED BY <4>2, <5>1, <5>3
      <4>3. QED BY <2>1, <4>1, <4>2
    <3>3. RequestOK(req[p])'
      <4>1. ASSUME NEW x, RequestOK(x) PROVE RequestOK(x)'
        BY <2>3, <4>1, Immutable
      <4>2. QED BY <2>2, <3>1, <4>1
    <3>4. Items(req[p])' = Items(req[p])
      BY <2>3, <3>1 DEF Items, SelectionOf
    <3>5. /\ Len(Items(req[p])) \in Nat /\ LimitOf(req[p]) \in Nat
          /\ b <= Len(Items(req[p])) /\ b <= start[p] + LimitOf(req[p])
      BY <2>1, <3>1, MaximumEndBounds
    <3>6. taken[p] + 1 <= LimitOf(req[p])
      BY <3>1, <3>5
    <3>7. QED BY <2>1, <2>2, <3>1, <3>2, <3>3, <3>4, <3>5, <3>6
              DEF ThreadOK, Paged, Bound, LimitOf, SelectionOf
  <2>7. QED BY <2>3, <2>4, <2>5, <2>6, MoveStep
<1>3. QED BY <1>1, <1>2

\* The page that is answered is the one that was built.
LEMMA AnswerActionStep ==
    ASSUME IInv, NEW p \in Readers, Answer(p)
    PROVE  IInv'
<1> DEFINE q == req[p]
           b == start[p] + taken[p]
           bytes == PageBytes(q.view, Items(q), start[p], b)
<1>1. CASE \E code : code # "page" /\ Finish(p, code)
  BY <1>1, FinishStep
<1>2. CASE ~\E code : code # "page" /\ Finish(p, code)
  <2>1. /\ LoopEnds(p, b) /\ bytes <= MaxBytes
        /\ Page(p, q, SelectionOf(q), start[p], b, LimitOf(q), bytes)
        /\ UNCHANGED <<content, storeVars>>
    BY <1>2 DEF Answer, LookupFailure
  <2>2. pc[p] \in {"page", "answer"} /\ start[p] \in Nat /\ taken[p] \in Nat /\ b \in Nat
    BY <2>1 DEF LoopEnds, IInv, TypeCore
  <2>3. ThreadOK(p) /\ RequestOK(q)
    BY <2>2 DEF IInv, ThreadInv, ThreadOK
  <2>4. /\ Len(Items(q)) \in Nat /\ LimitOf(q) \in Nat \ {0} /\ SelectionOf(q) \in Selections
        /\ start[p] <= b /\ b <= Len(content[SelectionOf(q)]) /\ b - start[p] <= LimitOf(q)
    BY <2>2, <2>3, MaximumEndBounds DEF ThreadOK, Items
  <2>5. b = start[p] => Len(content[SelectionOf(q)]) = 0
    <3> SUFFICES ASSUME b = start[p] PROVE Len(Items(q)) = 0
      BY DEF Items
    <3>1. pc[p] = "page" /\ start[p] >= MaximumEnd(p)
      BY <2>1, <2>2, <2>3 DEF ThreadOK, LoopEnds
    <3>2. start[p] >= Len(Items(q))
      <4>1. /\ MaximumEnd(p) \in Nat /\ LimitOf(q) \in Nat \ {0}
            /\ MaximumEnd(p) = Len(Items(q)) \/ MaximumEnd(p) = start[p] + LimitOf(q)
        BY <2>2, MaximumEndBounds
      <4> HIDE DEF q, b
      <4>2. QED BY <3>1, <2>2, <4>1
    <3>3. q.cursor # None => start[p] < Len(Items(q))
      BY <2>2, <2>3 DEF ThreadOK, RequestOK, CursorOK, Bound, Items
    <3>4. q.cursor = None => start[p] = 0
      BY <2>2, <2>3 DEF ThreadOK
    <3> HIDE DEF q, b
    <3>5. start[p] \in Nat /\ Len(Items(q)) \in Nat
      BY <2>2, <2>4
    <3>6. QED BY <3>2, <3>3, <3>4, <3>5
  <2>13. NoShorter(q, SelectionOf(q), start[p], b, LimitOf(q))
    <3>1. CASE pc[p] = "answer"
      <4>1. PageBytes(q.view, Items(q), start[p], b + 1) > MaxBytes
        BY <2>3, <3>1 DEF ThreadOK, NextTooLarge
      <4>2. QED BY <4>1 DEF NoShorter, Items
    <3>2. CASE pc[p] = "page" /\ b >= MaximumEnd(p)
      <4>1. /\ MaximumEnd(p) \in Nat /\ taken[p] <= LimitOf(q)
            /\ MaximumEnd(p) = Len(Items(q)) \/ MaximumEnd(p) = start[p] + LimitOf(q)
        BY <2>2, <2>3, MaximumEndBounds DEF ThreadOK
      <4>2. b <= Len(Items(q))
        BY <2>4 DEF Items
      <4>3. b = Len(Items(q)) \/ b - start[p] = LimitOf(q)
        <5> DEFINE n == Len(Items(q))
                   limit == LimitOf(q)
                   m == MaximumEnd(p)
        <5>1. n \in Nat /\ limit \in Nat /\ m \in Nat /\ (m = n \/ m = start[p] + limit)
          BY <2>4, <4>1
        <5>2. b = start[p] + taken[p] /\ b >= m /\ b <= n /\ taken[p] <= limit
          BY <3>2, <4>1, <4>2
        <5> HIDE DEF n, limit, m, b
        <5>3. b = n \/ b - start[p] = limit
          BY <2>2, <5>1, <5>2
        <5>4. QED BY <5>3 DEF n, limit
      <4>4. QED BY <4>3 DEF NoShorter, Items
    <3>3. QED BY <2>1, <3>1, <3>2 DEF LoopEnds
  <2>6. q.session \in Sessions /\ (q.cursor = None => start[p] = 0)
    BY <2>2, <2>3 DEF ThreadOK, RequestOK
  <2>7. q.cursor # None => /\ CursorOK(q.cursor) /\ q.cursor.token.sel = SelectionOf(q)
                           /\ q.cursor.token.index = start[p] /\ q.cursor.token.session = q.session
    BY <2>2, <2>3 DEF ThreadOK, RequestOK, Bound
  <2>8. content' = content /\ references' = references
    BY <2>1 DEF storeVars
  <2>9. CursorInv' /\ ReplyInv' /\ reply' = [t \in Readers |-> reply'[t]]
    <3> HIDE DEF q, b, bytes
    <3>1. QED BY <2>1, <2>2, <2>4, <2>5, <2>6, <2>7, <2>8, <2>13, PageStep DEF IInv
  <2>10. RegisteredSummaryFits' /\ references' \in [Sessions -> SUBSET References]
    BY <2>8 DEF IInv, TypeCore, RegisteredSummaryFits, SummaryBytes, FirstMessages
  <2>11. Reset(p)
    BY <2>1 DEF Page
  <2>12. QED BY <2>8, <2>9, <2>10, <2>11, AnswerStep
<1>3. QED BY <1>1, <1>2

\* The summary shows the first messages of its operation, from the start.
LEMMA SummaryStep ==
    ASSUME IInv, NEW p \in Readers, pc[p] \in {"summary", "publish"}, SummaryFits(req[p]),
           SummaryPage(p, req[p]), content' = content
    PROVE  /\ CursorInv' /\ ReplyInv' /\ reply' = [t \in Readers |-> reply'[t]] /\ Reset(p)
           /\ req[p].session \in Sessions /\ req[p].ref \in Operations
           /\ \A c \in cursors' \ cursors :
                c.token.session = req[p].session /\ c.token.sel = Messages(req[p])
           /\ cursors' # cursors => FirstMessages(req[p]) # Len(content[Messages(req[p])])
<1> DEFINE q == req[p]
           n == FirstMessages(q)
<1>1. RequestOK(q) /\ ~Paged(q)
  BY DEF IInv, ThreadInv, ThreadOK
<1>2. q.session \in Sessions /\ q.ref \in Operations /\ q.cursor = None
      /\ q.view \notin PagedViews
  BY <1>1 DEF RequestOK
<1>3. Messages(q) \in Selections
  BY <1>2 DEF Messages, Selections
<1>4. Len(content[Messages(q)]) \in Nat
  BY <1>3, ContentIsSequence DEF IInv, TypeCore
<1>5. DefaultLimit["messages"] \in Nat \ {0}
  BY ViewAssumption DEF PagedViews
<1>6. /\ n \in Nat /\ n <= Len(content[Messages(q)]) /\ n <= DefaultLimit["messages"]
      /\ n = Len(content[Messages(q)]) \/ n = DefaultLimit["messages"]
  BY <1>4, <1>5, MinOfTwo DEF FirstMessages
<1>7. SummaryBytes(q, q.view) <= MaxBytes
  BY DEF SummaryFits
<1>8. Page(p, q, Messages(q), 0, n, DefaultLimit["messages"], SummaryBytes(q, q.view))
  BY DEF SummaryPage
<1>9. Reset(p)
  BY <1>8 DEF Page
<1> HIDE DEF q, n
<1>10. 0 <= n /\ n - 0 <= DefaultLimit["messages"] /\ (n = 0 => Len(content[Messages(q)]) = 0)
  BY <1>4, <1>5, <1>6
<1>11. /\ CursorInv' /\ ReplyInv' /\ reply' = [t \in Readers |-> reply'[t]]
       /\ \A c \in cursors' \ cursors : c.token.session = q.session /\ c.token.sel = Messages(q)
       /\ cursors' # cursors => n # Len(content[Messages(q)])
  <2>1. 0 \in Nat /\ (q.cursor = None => 0 = 0) /\ TypeCore /\ CursorInv /\ ReplyInv
    BY DEF IInv
  <2>2. q.cursor # None => /\ CursorOK(q.cursor) /\ q.cursor.token.sel = Messages(q)
                           /\ q.cursor.token.index = 0 /\ q.cursor.token.session = q.session
    BY <1>2
  <2> DEFINE a == 0
             limit == DefaultLimit["messages"]
             bytes == SummaryBytes(q, q.view)
  <2>3. /\ a \in Nat /\ a <= n /\ n - a <= limit /\ (n = a => Len(content[Messages(q)]) = 0)
        /\ q.cursor = None => a = 0
        /\ q.cursor # None => q.cursor.token.index = a
        /\ bytes <= MaxBytes /\ Page(p, q, Messages(q), a, n, limit, bytes)
    BY <1>7, <1>8, <1>10, <2>1, <2>2
  <2> HIDE DEF a, limit, bytes
  <2>4. NoShorter(q, Messages(q), a, n, limit)
    BY <1>2 DEF NoShorter
  <2> DEFINE sel == Messages(q)
  <2>5. /\ sel \in Selections /\ n \in Nat /\ n <= Len(content[sel]) /\ q.session \in Sessions
        /\ n = a => Len(content[sel]) = 0
        /\ q.cursor # None => /\ CursorOK(q.cursor) /\ q.cursor.token.sel = sel
                              /\ q.cursor.token.index = a /\ q.cursor.token.session = q.session
        /\ NoShorter(q, sel, a, n, limit) /\ Page(p, q, sel, a, n, limit, bytes)
    BY <1>2, <1>3, <1>6, <2>2, <2>3, <2>4
  <2> HIDE DEF sel
  <2>6. /\ CursorInv' /\ ReplyInv' /\ reply' = [t \in Readers |-> reply'[t]]
        /\ \A c \in cursors' \ cursors : c.token.session = q.session /\ c.token.sel = sel
        /\ cursors' # cursors => n # Len(content[sel])
    BY <2>1, <2>3, <2>5, PageStep, SMTT(60)
  <2>7. QED BY <2>6 DEF sel
<1>12. QED BY <1>2, <1>9, <1>11 DEF q, n

\* A summary is bounded before its operation is registered.
LEMMA SummarizeStep ==
    ASSUME IInv, NEW p \in Readers, Summarize(p)
    PROVE  IInv'
<1> DEFINE q == req[p]
<1>1. CASE \E code : code # "page" /\ Finish(p, code)
  BY <1>1, FinishStep
<1>2. CASE ~\E code : code # "page" /\ Finish(p, code)
  <2>1. /\ pc[p] = "summary" /\ SummaryFits(q)
        /\ IF q.view = "execute" THEN Continue(p, "publish") /\ UNCHANGED <<req, start, taken>>
           ELSE SummaryPage(p, q) /\ UNCHANGED <<content, storeVars>>
    BY <1>2 DEF Summarize, LookupFailure
  <2>2. CASE q.view = "execute"
    <3>1. /\ content' = content /\ references' = references /\ cursors' = cursors /\ reply' = reply
          /\ req' = req /\ start' = start /\ taken' = taken /\ pc' = [pc EXCEPT ![p] = "publish"]
      BY <2>1, <2>2 DEF Continue, storeVars
    <3>2. TypeCore' /\ OnlyThread(p)
      BY <3>1 DEF IInv, TypeCore, OnlyThread
    <3>3. ThreadOK(p)'
      <4>1. ThreadOK(p) /\ RequestOK(q)
        BY <2>1 DEF IInv, ThreadInv, ThreadOK
      <4>2. ASSUME NEW x, x = q
            PROVE  (RequestOK(x) => RequestOK(x)') /\ (SummaryFits(x) => SummaryFits(x)')
        BY <3>1, Immutable
      <4>3. RequestOK(req[p])' /\ SummaryFits(req[p])'
        BY <2>1, <3>1, <4>1, <4>2
      <4>4. pc'[p] = "publish" /\ req'[p] = req[p] /\ start'[p] = start[p] /\ taken'[p] = taken[p]
        BY <3>1 DEF IInv, TypeCore
      <4>5. QED BY <2>1, <2>2, <4>1, <4>3, <4>4 DEF ThreadOK, Paged
    <3>4. QED BY <3>1, <3>2, <3>3, MoveStep
  <2>3. CASE q.view # "execute"
    <3>1. SummaryPage(p, req[p]) /\ content' = content /\ references' = references
      BY <2>1, <2>3 DEF storeVars
    <3>2. CursorInv' /\ ReplyInv' /\ reply' = [t \in Readers |-> reply'[t]] /\ Reset(p)
      BY <2>1, <3>1, SummaryStep
    <3>3. RegisteredSummaryFits' /\ references' \in [Sessions -> SUBSET References]
      BY <3>1 DEF IInv, TypeCore, RegisteredSummaryFits, SummaryBytes, FirstMessages
    <3>4. QED BY <3>1, <3>2, <3>3, AnswerStep
  <2>4. QED BY <2>2, <2>3
<1>3. QED BY <1>1, <1>2

\* Publication registers an operation whose summary fits.
LEMMA PublishStep ==
    ASSUME IInv, NEW p \in Readers, Publish(p)
    PROVE  IInv'
<1> DEFINE q == req[p]
<1>1. CASE \E code : code # "page" /\ Finish(p, code)
  BY <1>1, FinishStep
<1>2. CASE ~\E code : code # "page" /\ Finish(p, code)
  <2>1. /\ pc[p] = "publish" /\ SummaryPage(p, q) /\ content' = content
        /\ references' = [references EXCEPT ![q.session] = @ \cup {q.ref}]
    BY <1>2 DEF Publish
  <2>2. SummaryFits(q)
    BY <2>1 DEF IInv, ThreadInv, ThreadOK
  <2>3. /\ CursorInv' /\ ReplyInv' /\ reply' = [t \in Readers |-> reply'[t]] /\ Reset(p)
        /\ q.session \in Sessions /\ q.ref \in Operations
    BY <2>1, <2>2, SummaryStep
  <2>4. references' \in [Sessions -> SUBSET References]
    BY <2>1, <2>3 DEF IInv, TypeCore, References
  <2>5. SummaryBytes([ref |-> q.ref], "execute") <= MaxBytes
    BY <2>2 DEF SummaryFits, SummaryBytes, FirstMessages, Messages
  <2>6. ASSUME NEW o PROVE SummaryBytes([ref |-> o], "execute")' = SummaryBytes([ref |-> o], "execute")
    BY <2>1 DEF SummaryBytes, FirstMessages
  <2>7. \A s \in Sessions, o \in Operations :
            o \in references'[s] => o \in references[s] \/ o = q.ref
    BY <2>1, <2>3 DEF IInv, TypeCore
  <2>8. RegisteredSummaryFits'
    BY <2>5, <2>6, <2>7 DEF IInv, RegisteredSummaryFits
  <2>9. QED BY <2>1, <2>3, <2>4, <2>8, AnswerStep
<1>3. QED BY <1>1, <1>2

\* The store changes; no thread moves.  Only datasets are added.
LEMMA StoreStep ==
    ASSUME IInv, UNCHANGED <<content, pc, req, start, taken, cursors, reply>>,
           references' \in [Sessions -> SUBSET References],
           \A s \in Sessions : references'[s] \subseteq references[s] \cup Datasets
    PROVE  IInv'
<1>1. TypeCore'
  BY DEF IInv, TypeCore
<1>2. CursorInv'
  BY Immutable DEF IInv, CursorInv
<1>3. ThreadInv'
  BY OtherThread DEF IInv, ThreadInv
<1>4. ReplyInv'
  <2>1. ASSUME NEW x, PageOK(x) PROVE PageOK(x)'
    BY <2>1, Immutable
  <2>2. QED BY <2>1 DEF IInv, ReplyInv
<1>5. RegisteredSummaryFits'
  <2>1. \A s \in Sessions, o \in Operations : o \in references'[s] => o \in references[s]
    BY ViewAssumption
  <2>2. QED BY <2>1 DEF IInv, RegisteredSummaryFits, SummaryBytes, FirstMessages
<1>6. QED BY <1>1, <1>2, <1>3, <1>4, <1>5 DEF IInv

-----------------------------------------------------------------------------
(* The invariant *)

\* The invariant holds initially.
LEMMA Initially == Init => IInv
<1> SUFFICES ASSUME Init PROVE IInv
  OBVIOUS
<1>1. TypeCore
  BY DEF Init, TypeCore
<1>2. CursorInv /\ RegisteredSummaryFits
  BY DEF Init, CursorInv, RegisteredSummaryFits
<1>3. ThreadInv
  BY DEF Init, ThreadInv, ThreadOK
<1>4. ReplyInv
  BY DEF Init, ReplyInv, NoReply
<1>5. QED BY <1>1, <1>2, <1>3, <1>4 DEF IInv

\* Every step keeps the invariant.
LEMMA Inductive == IInv /\ [Next]_vars => IInv'
<1> SUFFICES ASSUME IInv, [Next]_vars PROVE IInv'
  OBVIOUS
<1>1. CASE UNCHANGED vars
  <2>1. references' = references /\ UNCHANGED <<content, pc, req, start, taken, cursors, reply>>
    BY <1>1 DEF vars, storeVars
  <2>2. QED BY <2>1, StoreStep DEF IInv, TypeCore
<1>2. ASSUME NEW p \in Readers,
             Serve(p) \/ Decode(p) \/ Extend(p) \/ Answer(p) \/ Summarize(p) \/ Publish(p)
      PROVE  IInv'
  BY <1>2, ServeStep, DecodeStep, ExtendStep, AnswerActionStep, SummarizeStep, PublishStep
<1>3. ASSUME NEW s \in Sessions, CloseSession(s) PROVE IInv'
  BY <1>3, StoreStep DEF CloseSession, IInv, TypeCore
<1>4. ASSUME NEW s \in Sessions, NEW d \in Datasets, RegisterDataset(s, d) PROVE IInv'
  BY <1>4, StoreStep DEF RegisterDataset, IInv, TypeCore, References
<1>5. ASSUME NEW s \in Sessions, NEW r \in References, FindCorrupt(s, r) PROVE IInv'
  BY <1>5, StoreStep DEF FindCorrupt, IInv, TypeCore
<1>6. QED BY <1>1, <1>2, <1>3, <1>4, <1>5 DEF Next

\* describe_dataset and get_operation: whatever the records, limits and byte
\* budget, the pages a client follows cover its list in order, each stays within
\* its bounds and advances, and cursors are honoured only by their session.
THEOREM PagesReassemble == Spec => [](ReadsInOrder /\ PageWithinBounds)
<1>1. IInv => ReadsInOrder /\ PageWithinBounds
  BY DEF IInv, CursorInv, CursorOK, ReplyInv, PageOK, ReadsInOrder, PageWithinBounds
<1>2. QED BY <1>1, Initially, Inductive, PTL DEF Spec

\* _page: a page is within its limits, and it ends only at the end of the list, at the
\* limit asked for, or where one more item and the cursor behind it would not fit.
THEOREM PagesAreExact == Spec => []PageExact
<1>1. IInv => PageExact
  <2>1. IInv => PageWithinBounds
    BY DEF IInv, ReplyInv, PageOK, PageWithinBounds
  <2>2. IInv => PageNoShorter
    <3> SUFFICES ASSUME IInv, NEW p \in Readers, reply[p].code = "page",
                        reply[p].request.view \in PagedViews
                 PROVE  \/ reply[p].complete
                        \/ reply[p].returned = reply[p].limit
                        \/ PageBytes(reply[p].request.view, content[reply[p].sel], reply[p].start,
                                     reply[p].start + reply[p].returned + 1) > MaxBytes
      BY DEF PageNoShorter
    <3> DEFINE r == reply[p]
    <3>1. PageOK(r) BY DEF IInv, ReplyInv
    <3>2. r.start + r.returned - r.start = r.returned BY <3>1 DEF PageOK
    <3>3. QED BY <3>1, <3>2 DEF PageOK, NoShorter
  <2>3. QED BY <2>1, <2>2 DEF PageExact
<1>2. QED BY <1>1, Initially, Inductive, PTL DEF Spec

\* execute_recorded_operation: the summary of every registered operation fits the
\* answer that execution gives.
THEOREM SummariesFit == Spec => []RegisteredSummaryFits
<1>1. IInv => RegisteredSummaryFits
  BY DEF IInv
<1>2. QED BY <1>1, Initially, Inductive, PTL DEF Spec

\* encode_cursor and publish_operation: between the load of a record and the
\* answer, neither a close nor a corruption goes unnoticed by the cursor given out.
THEOREM CursorsLive == Spec => CursorsBornLive
<1> DEFINE New == \A c \in cursors' \ cursors : Live(c.token.session, c.token.sel.ref)'
<1>1. IInv /\ [Next]_vars => [New]_vars
  <2> SUFFICES ASSUME IInv, Next PROVE New
    OBVIOUS
  <2>1. CASE cursors' = cursors
    BY <2>1
  <2>2. CASE cursors' # cursors
    <3>1. PICK p \in Readers : Answer(p) \/ Summarize(p) \/ Publish(p)
      BY <2>2 DEF Next, Serve, Decode, Extend, Finish, Continue, CloseSession, RegisterDataset, FindCorrupt
    <3>2. ~\E code : Finish(p, code)
      BY <2>2 DEF Finish
    <3>3. CASE Answer(p)
      <4> DEFINE q == req[p]
                 b == start[p] + taken[p]
      <4>1. /\ Encodes(p, b) /\ UNCHANGED <<content, storeVars>>
            /\ Page(p, q, SelectionOf(q), start[p], b, LimitOf(q),
                    PageBytes(q.view, Items(q), start[p], b))
        BY <3>2, <3>3 DEF Answer
      <4>2. /\ b # Len(Items(q))
            /\ \A c \in cursors' \ cursors : c.token.session = q.session /\ c.token.sel = SelectionOf(q)
        BY <2>2, <4>1 DEF Page, Keep, Items
      <4>3. Live(q.session, q.ref)
        BY <4>1, <4>2 DEF Encodes
      <4>4. QED BY <4>1, <4>2, <4>3 DEF Live, storeVars, SelectionOf
    <3>4. CASE Summarize(p)
      <4>1. /\ pc[p] = "summary" /\ SummaryEncodes(req[p]) /\ SummaryFits(req[p])
            /\ req[p].view # "execute" /\ SummaryPage(p, req[p]) /\ UNCHANGED <<content, storeVars>>
        BY <2>2, <3>2, <3>4 DEF Summarize, Continue
      <4>2. /\ FirstMessages(req[p]) # Len(content[Messages(req[p])])
            /\ \A c \in cursors' \ cursors :
                 c.token.session = req[p].session /\ c.token.sel = Messages(req[p])
        BY <2>2, <4>1, SummaryStep
      <4>3. Live(req[p].session, req[p].ref)
        BY <4>1, <4>2 DEF SummaryEncodes
      <4>4. QED BY <4>1, <4>2, <4>3 DEF Live, storeVars, Messages
    <3>5. CASE Publish(p)
      <4>1. /\ pc[p] = "publish" /\ SummaryPage(p, req[p])
            /\ req[p].session \notin closed /\ req[p].ref \notin corrupt[req[p].session]
            /\ references' = [references EXCEPT ![req[p].session] = @ \cup {req[p].ref}]
            /\ UNCHANGED <<content, corrupt, closed>>
        BY <3>2, <3>5 DEF Publish
      <4>2. SummaryFits(req[p])
        BY <4>1 DEF IInv, ThreadInv, ThreadOK
      <4>3. /\ req[p].session \in Sessions
            /\ \A c \in cursors' \ cursors :
                 c.token.session = req[p].session /\ c.token.sel = Messages(req[p])
        BY <4>1, <4>2, SummaryStep
      <4>4. QED BY <4>1, <4>3 DEF Live, Messages, IInv, TypeCore
    <3>6. QED BY <3>1, <3>3, <3>4, <3>5
  <2>3. QED BY <2>1, <2>2
<1>2. QED BY <1>1, Initially, Inductive, PTL DEF Spec, CursorsBornLive

=============================================================================
