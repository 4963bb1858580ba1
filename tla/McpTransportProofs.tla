-------------------------- MODULE McpTransportProofs --------------------------
(***************************************************************************)
(* Proofs about McpTransport, for any requests, any input of the client,   *)
(* any limits and any size of the client's pipe: lines are judged alike    *)
(* however they arrive, frames stay whole, calls are audited and told to   *)
(* stop.                                                                   *)
(***************************************************************************)
EXTENDS McpTransport, WellFoundedInduction, TLAPS

Handed == consumed - Len(buffer)

\* The buffer is what was read and not handed over yet, and a request that has a task
\* was handed over.  So the byte of a request in the buffer is one without a task.
ReadInv ==
    /\ Handed >= 0
    /\ \A i \in 1..Len(buffer) : buffer[i] = stream[Handed + i]
    /\ \A r \in Requests : task[r] # "none" => \E i \in 1..Handed : stream[i] = r

\* The thread that writes holds the lock; nobody else does.
LockInv == \A j \in Jobs : job[j] = "writing" <=> lock = j

\* A frame is handed to one write: an answer waits in the outbox once and unwritten,
\* and the input task awaits its own reply.
QueueInv ==
    /\ \A i \in DOMAIN outbox : task[outbox[i]] = "answered" /\ job[outbox[i]] = "none"
    /\ \A i, k \in DOMAIN outbox : outbox[i] = outbox[k] => i = k
    /\ \A r \in Requests : job[r] # "none" => task[r] = "answered"
    /\ input = "reading" => job[ParseError] \notin {"waiting", "writing"}

Complete == wire = <<>> \/ wire[Len(wire)].piece = FramePieces

\* While the client is there, the wire ends with what the holder of the lock has sent,
\* and the output is not closed under a thread that has sent a part of its frame.
WireInv ==
    /\ WholeFrames
    /\ clientOut /\ lock = Nobody => Complete
    /\ clientOut => \A j \in Jobs : lock = j =>
        IF sent[j] = 0 THEN Complete
        ELSE /\ wire # <<>> /\ wire[Len(wire)] = [job |-> j, piece |-> sent[j]]
             /\ sent[j] < FramePieces
    /\ ~outOpen => \A j \in Jobs : lock = j => sent[j] = 0

\* The task of a request and the thread of its call.
CallInv ==
    /\ \A r \in Requests :
        /\ task[r] \in {"none", "queued"} => thread[r] = "none"
        /\ task[r] = "calling" => thread[r] # "none"
        /\ task[r] = "answered" => thread[r] # "running"
        /\ r \in ToolCalls /\ task[r] = "cancelled" /\ thread[r] = "running" => r \in event
    /\ phase = "starting" => \A r \in Requests : task[r] = "none"
    /\ ~Running => InFlight = {}

\* The inductive invariant.
IInv == TypeOK /\ ReadInv /\ LockInv /\ QueueInv /\ WireInv /\ CallInv /\ OneAuditPerCall

\* What a read leaves in the buffer.
LEMMA ReadBytes ==
    ASSUME NEW S, NEW s \in Seq(S), NEW t \in Seq(S), NEW a \in Nat, NEW n \in Nat,
           a + n <= Len(t), NEW u, u = s \o SubSeq(t, a + 1, a + n)
    PROVE  /\ u \in Seq(S) /\ Len(u) = Len(s) + n
           /\ \A i \in 1..Len(u) : u[i] = IF i <= Len(s) THEN s[i] ELSE t[a + i - Len(s)]
<1>1. SubSeq(t, a + 1, a + n) \in Seq(S) /\ Len(SubSeq(t, a + 1, a + n)) = n
  OBVIOUS
<1>2. ASSUME NEW i \in 1..n PROVE SubSeq(t, a + 1, a + n)[i] = t[a + i]
  <2>1. SubSeq(t, a + 1, a + n)[i] = t[(a + 1) + i - 1] OBVIOUS
  <2>2. (a + 1) + i - 1 = a + i OBVIOUS
  <2>3. QED BY <2>1, <2>2
<1>3. QED BY <1>1, <1>2

\* What is left when the first n elements are removed.
LEMMA Rest ==
    ASSUME NEW S, NEW s \in Seq(S), NEW n \in 1..Len(s), NEW u, u = SubSeq(s, n + 1, Len(s))
    PROVE  /\ u \in Seq(S) /\ Len(u) = Len(s) - n
           /\ \A i \in 1..Len(u) : n + i \in 1..Len(s) /\ u[i] = s[n + i]
<1>1. u \in Seq(S) /\ Len(u) = Len(s) - n OBVIOUS
<1>2. ASSUME NEW i \in 1..Len(u) PROVE n + i \in 1..Len(s)
  BY <1>1
<1>3. ASSUME NEW i \in 1..Len(u) PROVE u[i] = s[n + i]
  <2>1. u[i] = s[(n + 1) + i - 1] BY <1>1
  <2>2. (n + 1) + i - 1 = n + i BY <1>1
  <2>3. QED BY <2>1, <2>2
<1>4. QED BY <1>1, <1>2, <1>3

\* A sequence extended by one element.
LEMMA Longer ==
    ASSUME NEW S, NEW s \in Seq(S), NEW x \in S, NEW u, u = Append(s, x)
    PROVE  /\ u \in Seq(S) /\ u # <<>> /\ Len(u) = Len(s) + 1 /\ u[Len(u)] = x
           /\ DOMAIN u = 1..(Len(s) + 1) /\ \A i \in 1..Len(s) : u[i] = s[i]
  OBVIOUS

\* The first audit record of a call.
LEMMA FirstRecord ==
    ASSUME NEW x
    PROVE  /\ Append(<<>>, x) = <<x>> /\ Len(<<x>>) = 1
           /\ <<x>> = <<"ok">> <=> x = "ok"
<1>1. <<x>>[1] = x /\ <<"ok">>[1] = "ok" OBVIOUS
<1>2. QED BY <1>1

\* A line handed over leaves the rest of the input in the buffer.
LEMMA LineTaken ==
    ASSUME ReadTypes, ReadInv, NEW n \in DOMAIN buffer,
           buffer' = SubSeq(buffer, n + 1, Len(buffer)), UNCHANGED <<stream, consumed>>
    PROVE  /\ buffer' \in Seq(Bytes) /\ Len(buffer') <= MaxFrame
           /\ Handed' = Handed + n
           /\ \A i \in 1..Len(buffer') : buffer'[i] = stream[Handed' + i]
<1>1. n \in 1..Len(buffer) /\ buffer \in Seq(Bytes) BY DEF ReadTypes
<1>2. /\ buffer' \in Seq(Bytes) /\ Len(buffer') = Len(buffer) - n
      /\ \A i \in 1..Len(buffer') : n + i \in 1..Len(buffer) /\ buffer'[i] = buffer[n + i]
  BY <1>1, Rest, SMTT(30)
<1>3. consumed \in Int /\ n \in Int /\ Len(buffer) \in Int BY <1>1 DEF ReadTypes
<1>4. Handed \in Int /\ Handed' = Handed + n BY <1>2, <1>3, SMTT(30) DEF Handed
<1>5. ASSUME NEW i \in 1..Len(buffer') PROVE buffer'[i] = stream[Handed' + i]
  <2>1. buffer[n + i] = stream[Handed + (n + i)] BY <1>2 DEF ReadInv
  <2>2. Handed + (n + i) = Handed' + i BY <1>3, <1>4
  <2>3. QED BY <1>2, <2>1, <2>2
<1>6. Len(buffer') <= MaxFrame BY <1>1, <1>2, TransportAssumption, SMTT(30) DEF ReadTypes
<1>7. QED BY <1>2, <1>4, <1>5, <1>6

\* A request in the buffer has no task yet: its byte occurs once in the input.
LEMMA FreshRequest ==
    ASSUME ReadTypes, ReadInv, NEW r \in Requests, buffer # <<>>, buffer[1] = r
    PROVE  task[r] = "none" /\ Handed + 1 \in DOMAIN stream /\ stream[Handed + 1] = r
<1> USE TransportAssumption
<1>1. 1 \in 1..Len(buffer) BY DEF ReadTypes
<1>2. stream[Handed + 1] = r BY <1>1 DEF ReadInv
<1>3. Handed \in Nat /\ Handed + 1 <= Len(stream) BY <1>1 DEF ReadTypes, ReadInv, Handed
<1>4. Handed + 1 \in DOMAIN stream BY <1>3 DEF ReadTypes
<1>5. ASSUME task[r] # "none" PROVE FALSE
  <2>1. PICK i \in 1..Handed : stream[i] = r BY <1>5 DEF ReadInv
  <2>2. i \in DOMAIN stream /\ i # Handed + 1 BY <2>1, <1>3 DEF ReadTypes
  <2>3. QED BY <2>1, <2>2, <1>2, <1>4 DEF ReadTypes
<1>6. QED BY <1>2, <1>4, <1>5

\* A cancelled call is audited as such, unless it had not begun; it has no answer.
LEMMA CancelAudits ==
    ASSUME CallTypes, CallInv, OneAuditPerCall, NEW S, S \subseteq InFlight, CancelTasks(S)
    PROVE  OneAuditPerCall'
<1> USE DEF Requests
<1>1. ASSUME NEW q \in ToolCalls, q \notin S
      PROVE  UNCHANGED <<task[q], audit[q], answer[q], thread[q]>>
  BY <1>1 DEF CancelTasks, CallTypes
<1>2. ASSUME NEW q \in ToolCalls, q \in S
      PROVE  /\ task'[q] = "cancelled" /\ answer'[q] = "none"
             /\ audit'[q] = IF thread'[q] = "none" THEN <<>> ELSE <<"worker_cancelled">>
  <2>1. task[q] \in {"queued", "calling"} /\ audit[q] = <<>> /\ answer[q] = "none"
    BY <1>2 DEF InFlight, OneAuditPerCall
  <2>2. thread[q] = "none" <=> task[q] = "queued" BY <2>1 DEF CallInv
  <2>3. QED BY <1>2, <2>1, <2>2, FirstRecord DEF CancelTasks, CallTypes
<1>3. QED BY <1>1, <1>2 DEF OneAuditPerCall

\* What a step leaves alone it cannot disturb.
LEMMA Undisturbed ==
    ASSUME IInv
    PROVE  /\ UNCHANGED <<stream, consumed, buffer, eof, verdict, input>> => ReadTypes'
           /\ UNCHANGED <<task, thread, event, audit, answer>> => CallTypes'
           /\ UNCHANGED <<outbox, writer, job, sent, lock, wire, drained, clientOut, outOpen>> => WriteTypes'
           /\ UNCHANGED <<phase, errors, exit>> => MainTypes'
           /\ UNCHANGED <<stream, consumed, buffer, task>> => ReadInv'
           /\ UNCHANGED <<job, lock>> => LockInv'
           /\ UNCHANGED <<outbox, task, job, input>> => QueueInv'
           /\ UNCHANGED <<sent, lock, wire, clientOut, outOpen>> => WireInv'
           /\ UNCHANGED <<task, thread, event, phase>> => CallInv'
           /\ UNCHANGED <<task, thread, audit, answer>> => OneAuditPerCall'
<1> USE DEF IInv, TypeOK
<1>1. UNCHANGED <<stream, consumed, buffer, eof, verdict, input>> => ReadTypes' BY DEF ReadTypes
<1>2. UNCHANGED <<task, thread, event, audit, answer>> => CallTypes' BY DEF CallTypes
<1>3. UNCHANGED <<outbox, writer, job, sent, lock, wire, drained, clientOut, outOpen>> => WriteTypes'
  BY DEF WriteTypes
<1>4. UNCHANGED <<phase, errors, exit>> => MainTypes' BY DEF MainTypes
<1>5. UNCHANGED <<stream, consumed, buffer, task>> => ReadInv' BY DEF ReadInv, Handed
<1>6. UNCHANGED <<job, lock>> => LockInv' BY DEF LockInv
<1>7. UNCHANGED <<outbox, task, job, input>> => QueueInv' BY DEF QueueInv
<1>8. UNCHANGED <<sent, lock, wire, clientOut, outOpen>> => WireInv'
  BY DEF WireInv, WholeFrames, Complete
<1>9. UNCHANGED <<task, thread, event, phase>> => CallInv' BY DEF CallInv, Running, InFlight
<1>10. UNCHANGED <<task, thread, audit, answer>> => OneAuditPerCall' BY DEF OneAuditPerCall
<1>11. QED BY <1>1, <1>2, <1>3, <1>4, <1>5, <1>6, <1>7, <1>8, <1>9, <1>10

\* The invariant holds initially.
LEMMA InitIInv == Init => IInv
<1> SUFFICES ASSUME Init PROVE IInv OBVIOUS
<1> USE TransportAssumption DEF Init
<1>1. ReadTypes
  <2>1. stream \in Seq(Bytes) /\ buffer \in Seq(Bytes) /\ Len(buffer) = 0 OBVIOUS
  <2>2. consumed \in 0..Len(stream) BY <2>1
  <2>3. Len(buffer) <= MaxFrame BY <2>1
  <2>4. eof \in BOOLEAN OBVIOUS
  <2>5. verdict \in FrameError \cup {"none", "eof"} /\ input \in {"reading", "replying", "ended"}
    OBVIOUS
  <2>6. stream \in Streams OBVIOUS
  <2>7. QED BY <2>1, <2>2, <2>3, <2>4, <2>5, <2>6, Zenon DEF ReadTypes
<1>2. CallTypes BY DEF CallTypes, TaskStep
<1>3. WriteTypes BY DEF WriteTypes
<1>4. MainTypes BY DEF MainTypes, Phase
<1>5. ReadInv BY <1>1 DEF ReadInv, Handed, ReadTypes
<1>6. LockInv BY DEF LockInv
<1>7. QueueInv BY DEF QueueInv, Jobs
<1>8. WireInv BY DEF WireInv, WholeFrames, Complete
<1>9. CallInv BY DEF CallInv, Running, InFlight
<1>10. OneAuditPerCall BY DEF OneAuditPerCall, Requests
<1>11. QED BY <1>1, <1>2, <1>3, <1>4, <1>5, <1>6, <1>7, <1>8, <1>9, <1>10 DEF IInv, TypeOK

\* Launching.
LEMMA LaunchStep ==
    ASSUME IInv, Launch
    PROVE  IInv'
<1> USE TransportAssumption
<1> USE DEF Requests, Jobs, Running, readVars, callVars, writeVars, wireVars, mainVars
<1>1. ReadTypes' /\ CallTypes' /\ WriteTypes' /\ ReadInv' /\ LockInv' /\ QueueInv' /\ WireInv' /\ OneAuditPerCall'
  BY Undisturbed DEF Launch
<1>2. MainTypes' BY DEF Launch, IInv, TypeOK, MainTypes, Phase
<1>3. CallInv' BY DEF Launch, IInv, CallInv, InFlight
<1>4. QED BY <1>1, <1>2, <1>3 DEF IInv, TypeOK

\* A read extends the buffer by what comes next in the input.
LEMMA ReadMoreStep ==
    ASSUME IInv, ReadMore
    PROVE  IInv'
<1> USE TransportAssumption
<1> USE DEF Requests, Jobs, Running, readVars, callVars, writeVars, wireVars, mainVars
<1>1. CallTypes' /\ WriteTypes' /\ MainTypes' /\ LockInv' /\ QueueInv' /\ WireInv' /\ CallInv' /\ OneAuditPerCall'
  BY Undisturbed DEF ReadMore
<1>2. ReadTypes' BY DEF ReadMore, IInv, TypeOK, ReadTypes
<1>3. ReadInv'
  <2>1. PICK k \in 1..MaxRead : /\ consumed + k <= Len(stream) /\ consumed' = consumed + k
                                /\ buffer' = buffer \o SubSeq(stream, consumed + 1, consumed + k)
    BY DEF ReadMore
  <2>2. /\ buffer \in Seq(Bytes) /\ stream \in Seq(Bytes) /\ consumed \in Nat /\ k \in Nat
        /\ UNCHANGED <<stream, task>>
    BY <2>1 DEF ReadMore, IInv, TypeOK, ReadTypes
  <2>3. /\ Len(buffer') = Len(buffer) + k
        /\ \A i \in 1..Len(buffer') : buffer'[i] = IF i <= Len(buffer) THEN buffer[i]
                                                  ELSE stream[consumed + i - Len(buffer)]
    BY <2>1, <2>2, ReadBytes
  <2>4. Handed' = Handed BY <2>1, <2>2, <2>3 DEF Handed
  <2>5. ASSUME NEW i \in 1..Len(buffer') PROVE buffer'[i] = stream[Handed + i]
    <3>1. CASE i <= Len(buffer)
      BY <2>2, <2>3, <3>1 DEF IInv, ReadInv
    <3>2. CASE i > Len(buffer)
      BY <2>2, <2>3, <3>2 DEF Handed
    <3>3. QED BY <3>1, <3>2, <2>2, <2>3
  <2>6. QED BY <2>2, <2>4, <2>5 DEF IInv, ReadInv
<1>4. QED BY <1>1, <1>2, <1>3 DEF IInv, TypeOK

\* The end of input is noted.
LEMMA ReadEofStep ==
    ASSUME IInv, ReadEof
    PROVE  IInv'
<1> USE TransportAssumption
<1> USE DEF Requests, Jobs, Running, readVars, callVars, writeVars, wireVars, mainVars
<1>1. CallTypes' /\ WriteTypes' /\ MainTypes' /\ ReadInv' /\ LockInv' /\ QueueInv' /\ WireInv' /\ CallInv' /\ OneAuditPerCall'
  BY Undisturbed DEF ReadEof
<1>2. ReadTypes' BY DEF ReadEof, IInv, TypeOK, ReadTypes
<1>3. QED BY <1>1, <1>2 DEF IInv, TypeOK

\* A failing read.
LEMMA ReadFailsStep ==
    ASSUME IInv, ReadFails
    PROVE  IInv'
<1> USE TransportAssumption
<1> USE DEF Requests, Jobs, Running, readVars, callVars, writeVars, wireVars, mainVars
<1>1. CallTypes' /\ WriteTypes' /\ ReadInv' /\ LockInv' /\ WireInv' /\ OneAuditPerCall'
  BY Undisturbed DEF ReadFails, ReadRaises
<1>2. ReadTypes' BY DEF ReadFails, ReadRaises, IInv, TypeOK, ReadTypes, FrameError
<1>3. MainTypes' BY DEF ReadFails, ReadRaises, IInv, TypeOK, MainTypes, Phase
<1>4. QueueInv' BY DEF ReadFails, ReadRaises, IInv, QueueInv
<1>5. CallInv' BY DEF ReadFails, ReadRaises, IInv, CallInv
<1>6. QED BY <1>1, <1>2, <1>3, <1>4, <1>5 DEF IInv, TypeOK

\* A line that is too long before its LF was seen.
LEMMA RefuseUnterminatedStep ==
    ASSUME IInv, RefuseUnterminated
    PROVE  IInv'
<1> USE TransportAssumption
<1> USE DEF Requests, Jobs, Running, readVars, callVars, writeVars, wireVars, mainVars
<1>1. CallTypes' /\ WriteTypes' /\ ReadInv' /\ LockInv' /\ WireInv' /\ OneAuditPerCall'
  BY Undisturbed DEF RefuseUnterminated, ReadRaises
<1>2. ReadTypes' BY DEF RefuseUnterminated, ReadRaises, IInv, TypeOK, ReadTypes, FrameError
<1>3. MainTypes' BY DEF RefuseUnterminated, ReadRaises, IInv, TypeOK, MainTypes, Phase
<1>4. QueueInv' BY DEF RefuseUnterminated, ReadRaises, IInv, QueueInv
<1>5. CallInv' BY DEF RefuseUnterminated, ReadRaises, IInv, CallInv
<1>6. QED BY <1>1, <1>2, <1>3, <1>4, <1>5 DEF IInv, TypeOK

\* A line without LF at the end of input.
LEMMA RefuseIncompleteStep ==
    ASSUME IInv, RefuseIncomplete
    PROVE  IInv'
<1> USE TransportAssumption
<1> USE DEF Requests, Jobs, Running, readVars, callVars, writeVars, wireVars, mainVars
<1>1. CallTypes' /\ WriteTypes' /\ ReadInv' /\ LockInv' /\ WireInv' /\ OneAuditPerCall'
  BY Undisturbed DEF RefuseIncomplete, ReadRaises
<1>2. ReadTypes' BY DEF RefuseIncomplete, ReadRaises, IInv, TypeOK, ReadTypes, FrameError
<1>3. MainTypes' BY DEF RefuseIncomplete, ReadRaises, IInv, TypeOK, MainTypes, Phase
<1>4. QueueInv' BY DEF RefuseIncomplete, ReadRaises, IInv, QueueInv
<1>5. CallInv' BY DEF RefuseIncomplete, ReadRaises, IInv, CallInv
<1>6. QED BY <1>1, <1>2, <1>3, <1>4, <1>5 DEF IInv, TypeOK

\* A clean end of input.
LEMMA EndOfInputStep ==
    ASSUME IInv, EndOfInput
    PROVE  IInv'
<1> USE TransportAssumption
<1> USE DEF Requests, Jobs, Running, readVars, callVars, writeVars, wireVars, mainVars
<1>1. CallTypes' /\ WriteTypes' /\ ReadInv' /\ LockInv' /\ WireInv' /\ OneAuditPerCall'
  BY Undisturbed DEF EndOfInput
<1>2. ReadTypes' BY DEF EndOfInput, IInv, TypeOK, ReadTypes
<1>3. MainTypes' BY DEF EndOfInput, IInv, TypeOK, MainTypes, Phase
<1>4. QueueInv' BY DEF EndOfInput, IInv, QueueInv
<1>5. CallInv' BY DEF EndOfInput, IInv, CallInv, InFlight
<1>6. QED BY <1>1, <1>2, <1>3, <1>4, <1>5 DEF IInv, TypeOK

\* A line that is too long or not UTF-8.
LEMMA RefuseLineStep ==
    ASSUME IInv, NEW n \in DOMAIN buffer, RefuseLine(n)
    PROVE  IInv'
<1> USE TransportAssumption
<1> USE DEF Requests, Jobs, Running, readVars, callVars, writeVars, wireVars, mainVars
<1>1. CallTypes' /\ WriteTypes' /\ LockInv' /\ WireInv' /\ OneAuditPerCall'
  BY Undisturbed DEF RefuseLine, ReadRaises
<1>2. ReadTypes'
  <2>1. CASE UNCHANGED buffer BY <2>1 DEF RefuseLine, ReadRaises, IInv, TypeOK, ReadTypes, FrameError
  <2>2. CASE buffer' = SubSeq(buffer, n + 1, Len(buffer))
    <3>1. UNCHANGED <<stream, consumed, eof>> BY DEF RefuseLine, ReadRaises
    <3>2. buffer' \in Seq(Bytes) /\ Len(buffer') <= MaxFrame
      BY <2>2, <3>1, LineTaken DEF IInv, TypeOK
    <3>3. verdict' \in FrameError /\ input' = "ended" BY DEF RefuseLine, ReadRaises, FrameError
    <3>4. QED BY <3>1, <3>2, <3>3 DEF IInv, TypeOK, ReadTypes
  <2>3. QED BY <2>1, <2>2 DEF RefuseLine
<1>3. MainTypes'
  <2>1. phase' = "unwinding" /\ errors' = errors \cup {"framing"} /\ UNCHANGED exit
    BY DEF RefuseLine, ReadRaises
  <2>2. QED BY <2>1 DEF IInv, TypeOK, MainTypes, Phase
<1>4. ReadInv'
  <2>1. UNCHANGED <<stream, consumed, task>> BY DEF RefuseLine, ReadRaises
  <2>2. CASE UNCHANGED buffer BY <2>1, <2>2 DEF IInv, ReadInv, Handed
  <2>3. CASE buffer' = SubSeq(buffer, n + 1, Len(buffer))
    <3>1. Handed' = Handed + n /\ \A i \in 1..Len(buffer') : buffer'[i] = stream[Handed' + i]
      BY <2>1, <2>3, LineTaken DEF IInv, TypeOK
    <3>2. Handed \in Nat /\ n \in Nat
      BY DEF IInv, TypeOK, ReadTypes, ReadInv, Handed
    <3>3. QED BY <2>1, <3>1, <3>2 DEF IInv, ReadInv
  <2>4. QED BY <2>2, <2>3 DEF RefuseLine
<1>5. QueueInv' BY DEF RefuseLine, ReadRaises, IInv, QueueInv
<1>6. CallInv' BY DEF RefuseLine, ReadRaises, IInv, CallInv
<1>7. QED BY <1>1, <1>2, <1>3, <1>4, <1>5, <1>6 DEF IInv, TypeOK

\* A request gets its task, which it did not have before.
LEMMA DeliverRequestStep ==
    ASSUME IInv, NEW n \in DOMAIN buffer, NEW r \in Requests, DeliverRequest(n, r)
    PROVE  IInv'
<1> USE TransportAssumption
<1> USE DEF Requests, Jobs, Running, readVars, callVars, writeVars, wireVars, mainVars
<1>0. task[r] = "none" BY FreshRequest DEF DeliverRequest, Is, IInv, TypeOK, ReadTypes
<1>1. WriteTypes' /\ MainTypes' /\ LockInv' /\ WireInv'
  BY Undisturbed DEF DeliverRequest, TakeLine
<1>2. ReadTypes'
  <2>1. /\ UNCHANGED <<stream, consumed, eof, verdict>>
        /\ buffer' = SubSeq(buffer, n + 1, Len(buffer))
        /\ input' \in {"reading", "replying", "ended"}
    BY DEF DeliverRequest, TakeLine, IInv, TypeOK, ReadTypes
  <2>2. buffer' \in Seq(Bytes) /\ Len(buffer') <= MaxFrame BY <2>1, LineTaken DEF IInv, TypeOK
  <2>3. QED BY <2>1, <2>2 DEF IInv, TypeOK, ReadTypes
<1>3. CallTypes' BY <1>0 DEF DeliverRequest, IInv, TypeOK, CallTypes, TaskStep
<1>4. ReadInv'
  <2>1. UNCHANGED <<stream, consumed>> /\ buffer' = SubSeq(buffer, n + 1, Len(buffer))
    BY DEF DeliverRequest, TakeLine
  <2>2. Handed' = Handed + n /\ \A i \in 1..Len(buffer') : buffer'[i] = stream[Handed' + i]
    BY <2>1, LineTaken DEF IInv, TypeOK
  <2>3. Handed \in Nat /\ n \in Nat \ {0} BY DEF IInv, TypeOK, ReadTypes, ReadInv, Handed
  <2>4. stream[Handed + 1] = r
    BY FreshRequest DEF DeliverRequest, Is, IInv, TypeOK, ReadTypes
  <2>5. \A q \in Requests : task'[q] # "none" => task[q] # "none" \/ q = r
    BY DEF DeliverRequest, IInv, TypeOK, CallTypes
  <2>6. 1..Handed \subseteq 1..Handed' /\ Handed + 1 \in 1..Handed' /\ Handed' >= 0 BY <2>2, <2>3
  <2>7. ASSUME NEW q \in Requests, task'[q] # "none" PROVE \E i \in 1..Handed' : stream'[i] = q
    <3>1. CASE q = r BY <2>1, <2>4, <2>6, <3>1
    <3>2. CASE task[q] # "none" BY <2>1, <2>6, <3>2 DEF IInv, ReadInv
    <3>3. QED BY <2>5, <2>7, <3>1, <3>2
  <2>8. QED BY <2>1, <2>2, <2>6, <2>7 DEF ReadInv
<1>5. QueueInv' BY <1>0 DEF DeliverRequest, IInv, QueueInv
<1>6. CallInv' BY <1>0 DEF DeliverRequest, TakeLine, Reading, IInv, CallInv
<1>7. OneAuditPerCall' BY <1>0 DEF DeliverRequest, IInv, OneAuditPerCall
<1>8. QED BY <1>1, <1>2, <1>3, <1>4, <1>5, <1>6, <1>7 DEF IInv, TypeOK

\* A cancellation reaches the task it names.
LEMMA DeliverCancelStep ==
    ASSUME IInv, NEW n \in DOMAIN buffer, NEW c \in Cancels, DeliverCancel(n, c)
    PROVE  IInv'
<1> USE TransportAssumption
<1> USE DEF Requests, Jobs, Running, readVars, callVars, writeVars, wireVars, mainVars
<1>1. WriteTypes' /\ MainTypes' /\ LockInv' /\ WireInv'
  BY Undisturbed DEF DeliverCancel, TakeLine, CancelTasks
<1>2. ReadTypes'
  <2>1. /\ UNCHANGED <<stream, consumed, eof, verdict>>
        /\ buffer' = SubSeq(buffer, n + 1, Len(buffer))
        /\ input' \in {"reading", "replying", "ended"}
    BY DEF DeliverCancel, TakeLine, IInv, TypeOK, ReadTypes
  <2>2. buffer' \in Seq(Bytes) /\ Len(buffer') <= MaxFrame BY <2>1, LineTaken DEF IInv, TypeOK
  <2>3. QED BY <2>1, <2>2 DEF IInv, TypeOK, ReadTypes
<1>3. CallTypes' BY DEF DeliverCancel, CancelTasks, IInv, TypeOK, CallTypes, Outcome, TaskStep
<1>4. ReadInv'
  <2>1. UNCHANGED <<stream, consumed>> /\ buffer' = SubSeq(buffer, n + 1, Len(buffer))
    BY DEF DeliverCancel, TakeLine
  <2>2. Handed' = Handed + n /\ \A i \in 1..Len(buffer') : buffer'[i] = stream[Handed' + i]
    BY <2>1, LineTaken DEF IInv, TypeOK
  <2>3. Handed \in Nat /\ n \in Nat \ {0} BY DEF IInv, TypeOK, ReadTypes, ReadInv, Handed
  <2>4. \A q \in Requests : task'[q] # "none" => task[q] # "none"
    BY DEF DeliverCancel, CancelTasks, InFlight, IInv, TypeOK, CallTypes
  <2>5. 1..Handed \subseteq 1..Handed' /\ Handed' >= 0 BY <2>2, <2>3
  <2>6. QED BY <2>1, <2>2, <2>4, <2>5 DEF IInv, ReadInv
<1>5. QueueInv' BY DEF DeliverCancel, CancelTasks, InFlight, IInv, TypeOK, QueueInv, WriteTypes
<1>6. CallInv' BY DEF DeliverCancel, CancelTasks, InFlight, IInv, CallInv
<1>7. OneAuditPerCall'
  <2> DEFINE S == InFlight \cap {CancelOf[c]}
  <2>1. S \subseteq InFlight /\ CancelTasks(S) BY DEF DeliverCancel
  <2>2. QED BY <2>1, CancelAudits DEF IInv, TypeOK
<1>8. QED BY <1>1, <1>2, <1>3, <1>4, <1>5, <1>6, <1>7 DEF IInv, TypeOK

\* A line on which json.loads raises.
LEMMA JsonRaisesStep ==
    ASSUME IInv, NEW n \in DOMAIN buffer, JsonRaises(n)
    PROVE  IInv'
<1> USE TransportAssumption
<1> USE DEF Requests, Jobs, Running, readVars, callVars, writeVars, wireVars, mainVars
<1>1. CallTypes' /\ WriteTypes' /\ LockInv' /\ WireInv' /\ OneAuditPerCall'
  BY Undisturbed DEF JsonRaises, TakeLine
<1>2. ReadTypes'
  <2>1. /\ UNCHANGED <<stream, consumed, eof, verdict>>
        /\ buffer' = SubSeq(buffer, n + 1, Len(buffer))
        /\ input' \in {"reading", "replying", "ended"}
    BY DEF JsonRaises, TakeLine, IInv, TypeOK, ReadTypes
  <2>2. buffer' \in Seq(Bytes) /\ Len(buffer') <= MaxFrame BY <2>1, LineTaken DEF IInv, TypeOK
  <2>3. QED BY <2>1, <2>2 DEF IInv, TypeOK, ReadTypes
<1>3. MainTypes' BY DEF JsonRaises, IInv, TypeOK, MainTypes, Phase
<1>4. ReadInv'
  <2>1. UNCHANGED <<stream, consumed>> /\ buffer' = SubSeq(buffer, n + 1, Len(buffer))
    BY DEF JsonRaises, TakeLine
  <2>2. Handed' = Handed + n /\ \A i \in 1..Len(buffer') : buffer'[i] = stream[Handed' + i]
    BY <2>1, LineTaken DEF IInv, TypeOK
  <2>3. Handed \in Nat /\ n \in Nat \ {0} BY DEF IInv, TypeOK, ReadTypes, ReadInv, Handed
  <2>4. \A q \in Requests : task'[q] # "none" => task[q] # "none"
    BY DEF JsonRaises, CancelTasks, InFlight, IInv, TypeOK, CallTypes
  <2>5. 1..Handed \subseteq 1..Handed' /\ Handed' >= 0 BY <2>2, <2>3
  <2>6. QED BY <2>1, <2>2, <2>4, <2>5 DEF IInv, ReadInv
<1>5. QueueInv' BY DEF JsonRaises, IInv, QueueInv
<1>6. CallInv' BY DEF JsonRaises, IInv, CallInv
<1>7. QED BY <1>1, <1>2, <1>3, <1>4, <1>5, <1>6 DEF IInv, TypeOK

\* A line that is not JSON is answered by the input task.
LEMMA ReplyParseErrorStep ==
    ASSUME IInv, NEW n \in DOMAIN buffer, ReplyParseError(n)
    PROVE  IInv'
<1> USE TransportAssumption
<1> USE DEF Requests, Jobs, Running, readVars, callVars, writeVars, wireVars, mainVars
<1>1. CallTypes' /\ MainTypes' /\ WireInv' /\ CallInv' /\ OneAuditPerCall'
  BY Undisturbed DEF ReplyParseError, TakeLine
<1>2. ReadTypes'
  <2>1. /\ UNCHANGED <<stream, consumed, eof, verdict>>
        /\ buffer' = SubSeq(buffer, n + 1, Len(buffer))
        /\ input' \in {"reading", "replying", "ended"}
    BY DEF ReplyParseError, TakeLine, IInv, TypeOK, ReadTypes
  <2>2. buffer' \in Seq(Bytes) /\ Len(buffer') <= MaxFrame BY <2>1, LineTaken DEF IInv, TypeOK
  <2>3. QED BY <2>1, <2>2 DEF IInv, TypeOK, ReadTypes
<1>3. WriteTypes' BY DEF ReplyParseError, IInv, TypeOK, WriteTypes
<1>4. ReadInv'
  <2>1. UNCHANGED <<stream, consumed>> /\ buffer' = SubSeq(buffer, n + 1, Len(buffer))
    BY DEF ReplyParseError, TakeLine
  <2>2. Handed' = Handed + n /\ \A i \in 1..Len(buffer') : buffer'[i] = stream[Handed' + i]
    BY <2>1, LineTaken DEF IInv, TypeOK
  <2>3. Handed \in Nat /\ n \in Nat \ {0} BY DEF IInv, TypeOK, ReadTypes, ReadInv, Handed
  <2>4. \A q \in Requests : task'[q] # "none" => task[q] # "none"
    BY DEF ReplyParseError, CancelTasks, InFlight, IInv, TypeOK, CallTypes
  <2>5. 1..Handed \subseteq 1..Handed' /\ Handed' >= 0 BY <2>2, <2>3
  <2>6. QED BY <2>1, <2>2, <2>4, <2>5 DEF IInv, ReadInv
<1>5. LockInv'
  <2>1. job[ParseError] # "writing" BY DEF ReplyParseError, TakeLine, Reading, IInv, QueueInv
  <2>2. QED BY <2>1 DEF ReplyParseError, IInv, TypeOK, LockInv, WriteTypes
<1>6. QueueInv' BY DEF ReplyParseError, IInv, TypeOK, QueueInv, WriteTypes
<1>7. QED BY <1>1, <1>2, <1>3, <1>4, <1>5, <1>6 DEF IInv, TypeOK

\* The input task goes on.
LEMMA ReplyWrittenStep ==
    ASSUME IInv, ReplyWritten
    PROVE  IInv'
<1> USE TransportAssumption
<1> USE DEF Requests, Jobs, Running, readVars, callVars, writeVars, wireVars, mainVars
<1>1. CallTypes' /\ WriteTypes' /\ ReadInv' /\ LockInv' /\ WireInv' /\ OneAuditPerCall'
  BY Undisturbed DEF ReplyWritten, WriteRaises
<1>2. ReadTypes' BY DEF ReplyWritten, IInv, TypeOK, ReadTypes
<1>3. MainTypes' BY DEF ReplyWritten, WriteRaises, IInv, TypeOK, MainTypes, Phase
<1>4. QueueInv' BY DEF ReplyWritten, IInv, QueueInv
<1>5. CallInv' BY DEF ReplyWritten, WriteRaises, IInv, CallInv
<1>6. QED BY <1>1, <1>2, <1>3, <1>4, <1>5 DEF IInv, TypeOK

\* The call of the service begins.
LEMMA DispatchStep ==
    ASSUME IInv, NEW r \in Requests, Dispatch(r)
    PROVE  IInv'
<1> USE TransportAssumption
<1> USE DEF Requests, Jobs, Running, readVars, callVars, writeVars, wireVars, mainVars
<1>1. ReadTypes' /\ WriteTypes' /\ MainTypes' /\ LockInv' /\ WireInv'
  BY Undisturbed DEF Dispatch
<1>2. CallTypes' BY DEF Dispatch, IInv, TypeOK, CallTypes, TaskStep
<1>3. ReadInv' BY DEF Dispatch, IInv, ReadInv, Handed
<1>4. QueueInv' BY DEF Dispatch, IInv, QueueInv
<1>5. CallInv' BY DEF Dispatch, IInv, TypeOK, CallInv, CallTypes
<1>6. OneAuditPerCall' BY DEF Dispatch, IInv, OneAuditPerCall
<1>7. QED BY <1>1, <1>2, <1>3, <1>4, <1>5, <1>6 DEF IInv, TypeOK

\* A call is refused.
LEMMA RefuseCallStep ==
    ASSUME IInv, NEW r \in ToolCalls, RefuseCall(r)
    PROVE  IInv'
<1> USE TransportAssumption
<1> USE DEF Requests, Jobs, Running, readVars, callVars, writeVars, wireVars, mainVars
<1>1. ReadTypes' /\ MainTypes' /\ LockInv' /\ WireInv'
  BY Undisturbed DEF RefuseCall, Respond, Audit
<1>2. CallTypes' BY DEF RefuseCall, Respond, Audit, IInv, TypeOK, CallTypes, Outcome, Answer, TaskStep
<1>3. WriteTypes'
  <2>1. outbox' = Append(outbox, r) /\ UNCHANGED <<writer, wireVars>> BY DEF RefuseCall, Respond
  <2>2. outbox' \in Seq(Requests) BY <2>1, Longer DEF IInv, TypeOK, WriteTypes
  <2>3. QED BY <2>1, <2>2 DEF IInv, TypeOK, WriteTypes
<1>4. ReadInv' BY DEF RefuseCall, Respond, IInv, TypeOK, ReadInv, Handed, CallTypes
<1>5. QueueInv'
  <2>1. /\ task[r] # "answered" /\ UNCHANGED <<job, input>>
        /\ task' = [task EXCEPT ![r] = "answered"] /\ outbox' = Append(outbox, r)
    BY DEF RefuseCall, Respond, Audit
  <2>2. job[r] = "none" /\ \A i \in DOMAIN outbox : outbox[i] # r
    BY <2>1 DEF IInv, QueueInv
  <2>3. /\ DOMAIN outbox' = 1..(Len(outbox) + 1) /\ outbox'[Len(outbox) + 1] = r
        /\ \A i \in 1..Len(outbox) : outbox'[i] = outbox[i]
        /\ DOMAIN outbox = 1..Len(outbox) /\ Len(outbox) \in Nat
    BY <2>1, Longer DEF IInv, TypeOK, WriteTypes
  <2>4. \A i \in DOMAIN outbox' : i \in DOMAIN outbox \/ i = Len(outbox) + 1 BY <2>3
  <2>5. \A i \in DOMAIN outbox' : task'[outbox'[i]] = "answered" /\ job'[outbox'[i]] = "none"
    BY <2>1, <2>2, <2>3, <2>4 DEF IInv, QueueInv, TypeOK, CallTypes, WriteTypes
  <2>6. \A i, k \in DOMAIN outbox' : outbox'[i] = outbox'[k] => i = k
    BY <2>2, <2>3, <2>4 DEF IInv, QueueInv
  <2>7. \A q \in Requests : job'[q] # "none" => task'[q] = "answered"
    BY <2>1 DEF IInv, QueueInv, TypeOK, CallTypes
  <2>8. QED BY <2>1, <2>5, <2>6, <2>7 DEF IInv, QueueInv
<1>6. CallInv' BY DEF RefuseCall, Respond, IInv, CallInv
<1>7. OneAuditPerCall'
  <2>1. /\ task[r] = "queued" /\ UNCHANGED thread
        /\ task' = [task EXCEPT ![r] = "answered"] /\ answer' = [answer EXCEPT ![r] = "refused"]
        /\ audit' = [audit EXCEPT ![r] = Append(@, "refused")]
    BY DEF RefuseCall, Respond, Audit
  <2>2. audit[r] = <<>> BY <2>1 DEF IInv, OneAuditPerCall
  <2>3. audit'[r] = <<"refused">> /\ Len(audit'[r]) = 1 /\ audit'[r] # <<"ok">>
    BY <2>1, <2>2, FirstRecord DEF IInv, TypeOK, CallTypes
  <2>4. QED BY <2>1, <2>3 DEF IInv, OneAuditPerCall, TypeOK, CallTypes
<1>8. QED BY <1>1, <1>2, <1>3, <1>4, <1>5, <1>6, <1>7 DEF IInv, TypeOK

\* What the service returned is audited and answered.
LEMMA HandleResultStep ==
    ASSUME IInv, NEW r \in ToolCalls, HandleResult(r)
    PROVE  IInv'
<1> USE TransportAssumption
<1> USE DEF Requests, Jobs, Running, readVars, callVars, writeVars, wireVars, mainVars
<1>1. ReadTypes' /\ MainTypes' /\ LockInv' /\ WireInv'
  BY Undisturbed DEF HandleResult, Respond, Audit
<1>2. CallTypes'
  BY DEF HandleResult, Respond, Audit, AnswerTo, OutcomeOf, IInv, TypeOK, CallTypes, Outcome,
     Answer, TaskStep
<1>3. WriteTypes'
  <2>1. outbox' = Append(outbox, r) /\ UNCHANGED <<writer, wireVars>> BY DEF HandleResult, Respond
  <2>2. outbox' \in Seq(Requests) BY <2>1, Longer DEF IInv, TypeOK, WriteTypes
  <2>3. QED BY <2>1, <2>2 DEF IInv, TypeOK, WriteTypes
<1>4. ReadInv' BY DEF HandleResult, Respond, IInv, TypeOK, ReadInv, Handed, CallTypes
<1>5. QueueInv'
  <2>1. /\ task[r] # "answered" /\ UNCHANGED <<job, input>>
        /\ task' = [task EXCEPT ![r] = "answered"] /\ outbox' = Append(outbox, r)
    BY DEF HandleResult, Respond, Audit
  <2>2. job[r] = "none" /\ \A i \in DOMAIN outbox : outbox[i] # r
    BY <2>1 DEF IInv, QueueInv
  <2>3. /\ DOMAIN outbox' = 1..(Len(outbox) + 1) /\ outbox'[Len(outbox) + 1] = r
        /\ \A i \in 1..Len(outbox) : outbox'[i] = outbox[i]
        /\ DOMAIN outbox = 1..Len(outbox) /\ Len(outbox) \in Nat
    BY <2>1, Longer DEF IInv, TypeOK, WriteTypes
  <2>4. \A i \in DOMAIN outbox' : i \in DOMAIN outbox \/ i = Len(outbox) + 1 BY <2>3
  <2>5. \A i \in DOMAIN outbox' : task'[outbox'[i]] = "answered" /\ job'[outbox'[i]] = "none"
    BY <2>1, <2>2, <2>3, <2>4 DEF IInv, QueueInv, TypeOK, CallTypes, WriteTypes
  <2>6. \A i, k \in DOMAIN outbox' : outbox'[i] = outbox'[k] => i = k
    BY <2>2, <2>3, <2>4 DEF IInv, QueueInv
  <2>7. \A q \in Requests : job'[q] # "none" => task'[q] = "answered"
    BY <2>1 DEF IInv, QueueInv, TypeOK, CallTypes
  <2>8. QED BY <2>1, <2>5, <2>6, <2>7 DEF IInv, QueueInv
<1>6. CallInv' BY DEF HandleResult, Respond, ServiceResult, IInv, CallInv
<1>7. OneAuditPerCall'
  <2>1. /\ task[r] = "calling" /\ thread[r] \in ServiceResult /\ UNCHANGED thread
        /\ task' = [task EXCEPT ![r] = "answered"]
        /\ answer' = [answer EXCEPT ![r] = AnswerTo(thread[r])]
        /\ audit' = [audit EXCEPT ![r] = Append(@, OutcomeOf(thread[r]))]
    BY DEF HandleResult, Respond, Audit
  <2>2. audit[r] = <<>> BY <2>1 DEF IInv, OneAuditPerCall
  <2>3. audit'[r] = <<OutcomeOf(thread[r])>> /\ Len(audit'[r]) = 1
    BY <2>1, <2>2, FirstRecord DEF IInv, TypeOK, CallTypes
  <2>4. /\ AnswerTo(thread[r]) # "none"
        /\ OutcomeOf(thread[r]) = "ok" <=>
               AnswerTo(thread[r]) \in {"ok", "result_limit_exceeded"}
    BY <2>1 DEF AnswerTo, OutcomeOf, ServiceResult
  <2>5. audit'[r] = <<"ok">> <=> answer'[r] \in {"ok", "result_limit_exceeded"}
    BY <2>1, <2>3, <2>4, FirstRecord DEF IInv, TypeOK, CallTypes
  <2>6. QED BY <2>1, <2>3, <2>4, <2>5 DEF IInv, OneAuditPerCall, TypeOK, CallTypes
<1>8. QED BY <1>1, <1>2, <1>3, <1>4, <1>5, <1>6, <1>7 DEF IInv, TypeOK

\* A resource is refused.
LEMMA RefuseResourceStep ==
    ASSUME IInv, NEW r \in Resources, RefuseResource(r)
    PROVE  IInv'
<1> USE TransportAssumption
<1> USE DEF Requests, Jobs, Running, readVars, callVars, writeVars, wireVars, mainVars
<1>1. ReadTypes' /\ MainTypes' /\ LockInv' /\ WireInv'
  BY Undisturbed DEF RefuseResource, Respond
<1>2. CallTypes' BY DEF RefuseResource, Respond, IInv, TypeOK, CallTypes, Answer, TaskStep
<1>3. WriteTypes'
  <2>1. outbox' = Append(outbox, r) /\ UNCHANGED <<writer, wireVars>> BY DEF RefuseResource, Respond
  <2>2. outbox' \in Seq(Requests) BY <2>1, Longer DEF IInv, TypeOK, WriteTypes
  <2>3. QED BY <2>1, <2>2 DEF IInv, TypeOK, WriteTypes
<1>4. ReadInv' BY DEF RefuseResource, Respond, IInv, TypeOK, ReadInv, Handed, CallTypes
<1>5. QueueInv'
  <2>1. /\ task[r] # "answered" /\ UNCHANGED <<job, input>>
        /\ task' = [task EXCEPT ![r] = "answered"] /\ outbox' = Append(outbox, r)
    BY DEF RefuseResource, Respond
  <2>2. job[r] = "none" /\ \A i \in DOMAIN outbox : outbox[i] # r
    BY <2>1 DEF IInv, QueueInv
  <2>3. /\ DOMAIN outbox' = 1..(Len(outbox) + 1) /\ outbox'[Len(outbox) + 1] = r
        /\ \A i \in 1..Len(outbox) : outbox'[i] = outbox[i]
        /\ DOMAIN outbox = 1..Len(outbox) /\ Len(outbox) \in Nat
    BY <2>1, Longer DEF IInv, TypeOK, WriteTypes
  <2>4. \A i \in DOMAIN outbox' : i \in DOMAIN outbox \/ i = Len(outbox) + 1 BY <2>3
  <2>5. \A i \in DOMAIN outbox' : task'[outbox'[i]] = "answered" /\ job'[outbox'[i]] = "none"
    BY <2>1, <2>2, <2>3, <2>4 DEF IInv, QueueInv, TypeOK, CallTypes, WriteTypes
  <2>6. \A i, k \in DOMAIN outbox' : outbox'[i] = outbox'[k] => i = k
    BY <2>2, <2>3, <2>4 DEF IInv, QueueInv
  <2>7. \A q \in Requests : job'[q] # "none" => task'[q] = "answered"
    BY <2>1 DEF IInv, QueueInv, TypeOK, CallTypes
  <2>8. QED BY <2>1, <2>5, <2>6, <2>7 DEF IInv, QueueInv
<1>6. CallInv' BY DEF RefuseResource, Respond, IInv, CallInv
<1>7. OneAuditPerCall' BY DEF RefuseResource, Respond, IInv, OneAuditPerCall
<1>8. QED BY <1>1, <1>2, <1>3, <1>4, <1>5, <1>6, <1>7 DEF IInv, TypeOK

\* A resource is answered.
LEMMA HandleResourceStep ==
    ASSUME IInv, NEW r \in Resources, HandleResource(r)
    PROVE  IInv'
<1> USE TransportAssumption
<1> USE DEF Requests, Jobs, Running, readVars, callVars, writeVars, wireVars, mainVars
<1>1. ReadTypes' /\ MainTypes' /\ LockInv' /\ WireInv'
  BY Undisturbed DEF HandleResource, Respond
<1>2. CallTypes' BY DEF HandleResource, Respond, AnswerTo, IInv, TypeOK, CallTypes, Answer, TaskStep
<1>3. WriteTypes'
  <2>1. outbox' = Append(outbox, r) /\ UNCHANGED <<writer, wireVars>> BY DEF HandleResource, Respond
  <2>2. outbox' \in Seq(Requests) BY <2>1, Longer DEF IInv, TypeOK, WriteTypes
  <2>3. QED BY <2>1, <2>2 DEF IInv, TypeOK, WriteTypes
<1>4. ReadInv' BY DEF HandleResource, Respond, IInv, TypeOK, ReadInv, Handed, CallTypes
<1>5. QueueInv'
  <2>1. /\ task[r] # "answered" /\ UNCHANGED <<job, input>>
        /\ task' = [task EXCEPT ![r] = "answered"] /\ outbox' = Append(outbox, r)
    BY DEF HandleResource, Respond
  <2>2. job[r] = "none" /\ \A i \in DOMAIN outbox : outbox[i] # r
    BY <2>1 DEF IInv, QueueInv
  <2>3. /\ DOMAIN outbox' = 1..(Len(outbox) + 1) /\ outbox'[Len(outbox) + 1] = r
        /\ \A i \in 1..Len(outbox) : outbox'[i] = outbox[i]
        /\ DOMAIN outbox = 1..Len(outbox) /\ Len(outbox) \in Nat
    BY <2>1, Longer DEF IInv, TypeOK, WriteTypes
  <2>4. \A i \in DOMAIN outbox' : i \in DOMAIN outbox \/ i = Len(outbox) + 1 BY <2>3
  <2>5. \A i \in DOMAIN outbox' : task'[outbox'[i]] = "answered" /\ job'[outbox'[i]] = "none"
    BY <2>1, <2>2, <2>3, <2>4 DEF IInv, QueueInv, TypeOK, CallTypes, WriteTypes
  <2>6. \A i, k \in DOMAIN outbox' : outbox'[i] = outbox'[k] => i = k
    BY <2>2, <2>3, <2>4 DEF IInv, QueueInv
  <2>7. \A q \in Requests : job'[q] # "none" => task'[q] = "answered"
    BY <2>1 DEF IInv, QueueInv, TypeOK, CallTypes
  <2>8. QED BY <2>1, <2>5, <2>6, <2>7 DEF IInv, QueueInv
<1>6. CallInv' BY DEF HandleResource, Respond, ServiceResult, IInv, CallInv
<1>7. OneAuditPerCall' BY DEF HandleResource, Respond, IInv, OneAuditPerCall
<1>8. QED BY <1>1, <1>2, <1>3, <1>4, <1>5, <1>6, <1>7 DEF IInv, TypeOK

\* The writer task starts a write for the next answer.
LEMMA WriterTakesStep ==
    ASSUME IInv, WriterTakes
    PROVE  IInv'
<1> USE TransportAssumption
<1> USE DEF Requests, Jobs, Running, readVars, callVars, writeVars, wireVars, mainVars
<1>1. ReadTypes' /\ CallTypes' /\ MainTypes' /\ ReadInv' /\ WireInv' /\ CallInv' /\ OneAuditPerCall'
  BY Undisturbed DEF WriterTakes
<1>2. WriteTypes' BY DEF WriterTakes, IInv, TypeOK, WriteTypes
<1>3. LockInv'
  <2>1. 1 \in DOMAIN outbox /\ Head(outbox) = outbox[1] /\ Head(outbox) \in Requests
    BY DEF WriterTakes, IInv, TypeOK, WriteTypes
  <2>2. job[Head(outbox)] = "none" BY <2>1 DEF IInv, QueueInv
  <2>3. QED BY <2>1, <2>2 DEF WriterTakes, IInv, LockInv, TypeOK, WriteTypes
<1>4. QueueInv'
  <2>1. 1 \in DOMAIN outbox /\ Head(outbox) = outbox[1] /\ Head(outbox) \in Requests
    BY DEF WriterTakes, IInv, TypeOK, WriteTypes
  <2>2. \A i \in DOMAIN outbox' : i + 1 \in DOMAIN outbox /\ outbox'[i] = outbox[i + 1] /\ i \in Nat \ {0}
    BY DEF WriterTakes, IInv, TypeOK, WriteTypes
  <2>3. \A i \in DOMAIN outbox' : outbox'[i] # Head(outbox) BY <2>1, <2>2 DEF IInv, QueueInv
  <2>4. UNCHANGED <<task, input>> /\ job' = [job EXCEPT ![Head(outbox)] = "waiting"]
    BY DEF WriterTakes
  <2>5. \A i \in DOMAIN outbox' : task'[outbox'[i]] = "answered" /\ job'[outbox'[i]] = "none"
    BY <2>1, <2>2, <2>3, <2>4 DEF IInv, QueueInv, TypeOK, WriteTypes
  <2>6. \A i, k \in DOMAIN outbox' : outbox'[i] = outbox'[k] => i = k
    BY <2>2 DEF IInv, QueueInv
  <2>7. \A q \in Requests : job'[q] # "none" => task'[q] = "answered"
    BY <2>1, <2>4 DEF IInv, QueueInv, TypeOK, WriteTypes
  <2>8. QED BY <2>1, <2>4, <2>5, <2>6, <2>7 DEF IInv, QueueInv, TypeOK, WriteTypes
<1>5. QED BY <1>1, <1>2, <1>3, <1>4 DEF IInv, TypeOK

\* The writer task goes on.
LEMMA WriterResumesStep ==
    ASSUME IInv, WriterResumes
    PROVE  IInv'
<1> USE TransportAssumption
<1> USE DEF Requests, Jobs, Running, readVars, callVars, writeVars, wireVars, mainVars
<1>1. ReadTypes' /\ CallTypes' /\ ReadInv' /\ LockInv' /\ QueueInv' /\ WireInv' /\ OneAuditPerCall'
  BY Undisturbed DEF WriterResumes, WriteRaises
<1>2. WriteTypes' BY DEF WriterResumes, IInv, TypeOK, WriteTypes
<1>3. MainTypes' BY DEF WriterResumes, WriteRaises, IInv, TypeOK, MainTypes, Phase
<1>4. CallInv' BY DEF WriterResumes, WriteRaises, IInv, CallInv
<1>5. QED BY <1>1, <1>2, <1>3, <1>4 DEF IInv, TypeOK

\* A thread takes the lock.
LEMMA WriteBeginStep ==
    ASSUME IInv, NEW j \in Jobs, WriteBegin(j)
    PROVE  IInv'
<1> USE TransportAssumption
<1> USE DEF Requests, Jobs, Running, readVars, callVars, writeVars, wireVars, mainVars
<1>1. ReadTypes' /\ CallTypes' /\ MainTypes' /\ ReadInv' /\ CallInv' /\ OneAuditPerCall'
  BY Undisturbed DEF WriteBegin
<1>2. WriteTypes' BY DEF WriteBegin, IInv, TypeOK, WriteTypes
<1>3. LockInv' BY DEF WriteBegin, IInv, TypeOK, LockInv, WriteTypes
<1>4. QueueInv' BY DEF WriteBegin, IInv, QueueInv
<1>5. WireInv' BY DEF WriteBegin, IInv, TypeOK, WireInv, WholeFrames, Complete, WriteTypes
<1>6. QED BY <1>1, <1>2, <1>3, <1>4, <1>5 DEF IInv, TypeOK

\* The holder of the lock writes, or fails and gives the lock back.
LEMMA WritePieceStep ==
    ASSUME IInv, NEW j \in Jobs, WritePiece(j)
    PROVE  IInv'
<1> USE TransportAssumption
<1> USE DEF Requests, Jobs, Running, readVars, callVars, writeVars, wireVars, mainVars
<1>0. /\ clientOut => sent[j] < FramePieces
      /\ ~outOpen => sent[j] = 0
  <2>1. lock = j BY DEF WritePiece, IInv, LockInv
  <2>2. 0 < FramePieces OBVIOUS
  <2>3. QED BY <2>1, <2>2 DEF IInv, WireInv
<1>1. ReadTypes' /\ CallTypes' /\ MainTypes' /\ ReadInv' /\ CallInv' /\ OneAuditPerCall'
  BY Undisturbed DEF WritePiece, PutPiece
<1>2. WriteTypes'
  <2>1. sent[j] \in 0..FramePieces /\ UNCHANGED <<outbox, writer, drained, clientOut, outOpen>>
    BY DEF WritePiece, IInv, TypeOK, WriteTypes
  <2>2. CASE outOpen /\ clientOut
    <3>1. PutPiece(j) BY <2>2 DEF WritePiece
    <3>2. sent[j] + 1 \in 1..FramePieces BY <1>0, <2>1, <2>2
    <3>3. wire' \in Seq([job : Jobs, piece : 1..FramePieces]) /\ Len(wire') = Len(wire) + 1
      BY <3>1, <3>2, Longer DEF PutPiece, IInv, TypeOK, WriteTypes
    <3>4. drained' \in 0..Len(wire') BY <2>1, <3>3 DEF IInv, TypeOK, WriteTypes
    <3>5. QED BY <2>1, <3>1, <3>2, <3>3, <3>4 DEF PutPiece, IInv, TypeOK, WriteTypes
  <2>3. CASE ~(outOpen /\ clientOut) BY <2>3 DEF WritePiece, IInv, TypeOK, WriteTypes
  <2>4. QED BY <2>2, <2>3
<1>3. LockInv'
  <2>1. lock = j /\ job[j] = "writing" BY DEF WritePiece, IInv, LockInv
  <2>2. \/ UNCHANGED <<job, lock>>
        \/ lock' = Nobody /\ \E x \in {"done", "failed"} : job' = [job EXCEPT ![j] = x]
    BY DEF WritePiece, PutPiece
  <2>3. QED BY <2>1, <2>2 DEF IInv, LockInv, TypeOK, WriteTypes
<1>4. QueueInv' BY DEF WritePiece, PutPiece, IInv, TypeOK, QueueInv, WriteTypes, LockInv
<1>5. WireInv'
  <2>1. lock = j /\ UNCHANGED clientOut BY DEF WritePiece, IInv, LockInv
  <2>2. CASE ~(outOpen /\ clientOut)
    <3>1. UNCHANGED <<wire, sent>> /\ lock' = Nobody BY <2>2 DEF WritePiece
    <3>2. CASE ~clientOut BY <2>1, <3>1, <3>2 DEF IInv, WireInv, WholeFrames
    <3>3. CASE clientOut /\ sent[j] = 0
      BY <2>1, <3>1, <3>3 DEF IInv, WireInv, WholeFrames, Complete
    <3>4. CASE clientOut /\ sent[j] # 0 BY <1>0, <2>2, <3>4 DEF WritePiece
    <3>5. QED BY <3>2, <3>3, <3>4
  <2>3. CASE outOpen /\ clientOut
    <3> DEFINE new == [job |-> j, piece |-> sent[j] + 1]
    <3>1. PutPiece(j) BY <2>3 DEF WritePiece
    <3>2. sent[j] \in Nat /\ sent[j] + 1 \in 1..FramePieces
      BY <1>0, <2>3 DEF IInv, TypeOK, WriteTypes
    <3>3. wire' = Append(wire, new) /\ new \in [job : Jobs, piece : 1..FramePieces]
      BY <3>1, <3>2 DEF PutPiece
    <3>4. /\ wire' # <<>> /\ Len(wire') = Len(wire) + 1 /\ wire'[Len(wire) + 1] = new
          /\ DOMAIN wire' = 1..(Len(wire) + 1) /\ \A i \in 1..Len(wire) : wire'[i] = wire[i]
          /\ Len(wire) \in Nat /\ DOMAIN wire = 1..Len(wire)
      <4>1. wire \in Seq([job : Jobs, piece : 1..FramePieces]) BY DEF IInv, TypeOK, WriteTypes
      <4>2. Len(wire) \in Nat /\ DOMAIN wire = 1..Len(wire) BY <4>1
      <4>3. /\ wire' # <<>> /\ Len(wire') = Len(wire) + 1 /\ wire'[Len(wire')] = new
            /\ DOMAIN wire' = 1..(Len(wire) + 1) /\ \A i \in 1..Len(wire) : wire'[i] = wire[i]
        BY <3>3, <4>1, Longer, SMTT(30)
      <4>4. QED BY <4>2, <4>3
    <3>5. IF sent[j] = 0 THEN Complete ELSE wire # <<>> /\ wire[Len(wire)] = [job |-> j, piece |-> sent[j]]
      BY <2>1, <2>3 DEF IInv, WireInv
    <3>6. ASSUME NEW i \in DOMAIN wire'
          PROVE  IF i = 1 \/ wire'[i - 1].piece = FramePieces
                 THEN wire'[i].piece = 1
                 ELSE wire'[i] = [job |-> wire'[i - 1].job, piece |-> wire'[i - 1].piece + 1]
      <4>1. CASE i \in DOMAIN wire
        <5>1. wire'[i] = wire[i] /\ (i # 1 => wire'[i - 1] = wire[i - 1]) BY <4>1, <3>4
        <5>2. QED BY <4>1, <5>1 DEF IInv, WireInv, WholeFrames
      <4>2. CASE i = Len(wire) + 1 /\ sent[j] = 0
        <5>1. i = 1 \/ wire'[i - 1].piece = FramePieces
          <6>1. CASE wire = <<>> BY <4>2, <6>1
          <6>2. CASE wire # <<>>
            <7>1. Len(wire) \in 1..Len(wire) BY <3>4, <6>2 DEF IInv, TypeOK, WriteTypes
            <7>2. wire'[i - 1] = wire[Len(wire)] BY <3>4, <4>2, <7>1
            <7>3. QED BY <3>5, <4>2, <6>2, <7>2 DEF Complete
          <6>3. QED BY <6>1, <6>2
        <5>2. wire'[i].piece = 1 BY <3>4, <4>2
        <5>3. QED BY <5>1, <5>2
      <4>3. CASE i = Len(wire) + 1 /\ sent[j] # 0
        <5>1. wire # <<>> /\ wire[Len(wire)] = [job |-> j, piece |-> sent[j]] BY <3>5, <4>3
        <5>2. Len(wire) \in 1..Len(wire) BY <3>4, <5>1 DEF IInv, TypeOK, WriteTypes
        <5>3. i # 1 /\ wire'[i - 1] = wire[Len(wire)] BY <3>4, <4>3, <5>2
        <5>4. wire'[i - 1].piece = sent[j] /\ wire'[i - 1].job = j /\ sent[j] # FramePieces
          BY <3>2, <5>1, <5>3
        <5>5. wire'[i] = new BY <3>4, <4>3
        <5>6. QED BY <5>3, <5>4, <5>5
      <4>4. QED BY <3>4, <4>1, <4>2, <4>3
    <3>7. wire'[Len(wire')] = new /\ new.job = j /\ new.piece = sent[j] + 1 BY <3>4
    <3>8. CASE sent[j] + 1 = FramePieces
      <4>1. lock' = Nobody BY <3>1, <3>8 DEF PutPiece
      <4>2. wire'[Len(wire')].piece = FramePieces BY <3>7, <3>8
      <4>3. QED BY <3>6, <4>1, <4>2 DEF WireInv, WholeFrames, Complete
    <3>9. CASE sent[j] + 1 # FramePieces
      <4>1. lock' = j /\ sent'[j] = sent[j] + 1 /\ UNCHANGED outOpen
        BY <2>1, <3>1, <3>9 DEF PutPiece, WritePiece, IInv, TypeOK, WriteTypes
      <4>2. sent'[j] < FramePieces /\ sent'[j] # 0 BY <3>2, <3>9, <4>1
      <4>3. wire'[Len(wire')] = [job |-> j, piece |-> sent'[j]] BY <3>7, <4>1
      <4>4. WholeFrames' BY <3>6, <3>7, <4>1 DEF WholeFrames
      <4>5. QED BY <2>1, <2>3, <3>4, <4>1, <4>2, <4>3, <4>4 DEF WireInv
    <3>10. QED BY <3>8, <3>9
  <2>4. QED BY <2>2, <2>3
<1>6. QED BY <1>1, <1>2, <1>3, <1>4, <1>5 DEF IInv, TypeOK

\* The service returns.
LEMMA ServiceReturnsStep ==
    ASSUME IInv, NEW r \in Requests, ServiceReturns(r)
    PROVE  IInv'
<1> USE TransportAssumption
<1> USE DEF Requests, Jobs, Running, readVars, callVars, writeVars, wireVars, mainVars
<1>1. ReadTypes' /\ WriteTypes' /\ MainTypes' /\ ReadInv' /\ LockInv' /\ QueueInv' /\ WireInv'
  BY Undisturbed DEF ServiceReturns
<1>2. CallTypes' BY DEF ServiceReturns, IInv, TypeOK, CallTypes
<1>3. CallInv' BY DEF ServiceReturns, ServiceResult, IInv, CallInv, InFlight
<1>4. OneAuditPerCall' BY DEF ServiceReturns, ServiceResult, IInv, OneAuditPerCall
<1>5. QED BY <1>1, <1>2, <1>3, <1>4 DEF IInv, TypeOK

\* A call is cancelled after the end of input.
LEMMA DrainCancelsStep ==
    ASSUME IInv, NEW r \in Requests, DrainCancels(r)
    PROVE  IInv'
<1> USE TransportAssumption
<1> USE DEF Requests, Jobs, Running, readVars, callVars, writeVars, wireVars, mainVars
<1>1. ReadTypes' /\ WriteTypes' /\ MainTypes' /\ LockInv' /\ WireInv'
  BY Undisturbed DEF DrainCancels, CancelTasks
<1>2. CallTypes' BY DEF DrainCancels, CancelTasks, IInv, TypeOK, CallTypes, Outcome, TaskStep
<1>3. ReadInv' BY DEF DrainCancels, CancelTasks, InFlight, IInv, ReadInv, Handed
<1>4. QueueInv' BY DEF DrainCancels, CancelTasks, InFlight, IInv, TypeOK, QueueInv, WriteTypes
<1>5. CallInv' BY DEF DrainCancels, CancelTasks, InFlight, IInv, CallInv
<1>6. OneAuditPerCall'
  <2> DEFINE S == {r}
  <2>1. S \subseteq InFlight /\ CancelTasks(S) BY DEF DrainCancels
  <2>2. QED BY <2>1, CancelAudits DEF IInv, TypeOK
<1>7. QED BY <1>1, <1>2, <1>3, <1>4, <1>5, <1>6 DEF IInv, TypeOK

\* The client reads.
LEMMA ClientReadsStep ==
    ASSUME IInv, ClientReads
    PROVE  IInv'
<1> USE TransportAssumption
<1> USE DEF Requests, Jobs, Running, readVars, callVars, writeVars, wireVars, mainVars
<1>1. ReadTypes' /\ CallTypes' /\ MainTypes' /\ ReadInv' /\ LockInv' /\ QueueInv' /\ WireInv' /\ CallInv' /\ OneAuditPerCall'
  BY Undisturbed DEF ClientReads
<1>2. WriteTypes' BY DEF ClientReads, IInv, TypeOK, WriteTypes
<1>3. QED BY <1>1, <1>2 DEF IInv, TypeOK

\* The client leaves.
LEMMA ClientLeavesStep ==
    ASSUME IInv, ClientLeaves
    PROVE  IInv'
<1> USE TransportAssumption
<1> USE DEF Requests, Jobs, Running, readVars, callVars, writeVars, wireVars, mainVars
<1>1. ReadTypes' /\ CallTypes' /\ MainTypes' /\ ReadInv' /\ LockInv' /\ QueueInv' /\ CallInv' /\ OneAuditPerCall'
  BY Undisturbed DEF ClientLeaves
<1>2. WriteTypes' BY DEF ClientLeaves, IInv, TypeOK, WriteTypes
<1>3. WireInv' BY DEF ClientLeaves, IInv, WireInv, WholeFrames
<1>4. QED BY <1>1, <1>2, <1>3 DEF IInv, TypeOK

\* The session ran out.
LEMMA DrainEndsStep ==
    ASSUME IInv, DrainEnds
    PROVE  IInv'
<1> USE TransportAssumption
<1> USE DEF Requests, Jobs, Running, readVars, callVars, writeVars, wireVars, mainVars
<1>1. ReadTypes' /\ CallTypes' /\ WriteTypes' /\ ReadInv' /\ LockInv' /\ QueueInv' /\ WireInv' /\ OneAuditPerCall'
  BY Undisturbed DEF DrainEnds
<1>2. MainTypes' BY DEF DrainEnds, IInv, TypeOK, MainTypes, Phase
<1>3. CallInv' BY DEF DrainEnds, InFlight, IInv, CallInv
<1>4. QED BY <1>1, <1>2, <1>3 DEF IInv, TypeOK

\* Every task is cancelled.
LEMMA UnwindStep ==
    ASSUME IInv, Unwind
    PROVE  IInv'
<1> USE TransportAssumption
<1> USE DEF Requests, Jobs, Running, readVars, callVars, writeVars, wireVars, mainVars
<1>1. LockInv' /\ WireInv'
  BY Undisturbed DEF Unwind, CancelTasks
<1>2. ReadTypes' BY DEF Unwind, CancelTasks, IInv, TypeOK, ReadTypes
<1>3. CallTypes' BY DEF Unwind, CancelTasks, IInv, TypeOK, CallTypes, Outcome, TaskStep
<1>4. WriteTypes' BY DEF Unwind, CancelTasks, IInv, TypeOK, WriteTypes
<1>5. MainTypes' BY DEF Unwind, CancelTasks, IInv, TypeOK, MainTypes, Phase
<1>6. ReadInv' BY DEF Unwind, CancelTasks, InFlight, IInv, ReadInv, Handed
<1>7. QueueInv' BY DEF Unwind, CancelTasks, InFlight, IInv, QueueInv
<1>8. CallInv' BY DEF Unwind, CancelTasks, InFlight, IInv, CallInv
<1>9. OneAuditPerCall'
  <2> DEFINE S == InFlight
  <2>1. S \subseteq InFlight /\ CancelTasks(S) BY DEF Unwind
  <2>2. QED BY <2>1, CancelAudits DEF IInv, TypeOK
<1>10. QED BY <1>1, <1>2, <1>3, <1>4, <1>5, <1>6, <1>7, <1>8, <1>9 DEF IInv, TypeOK

\* The output is closed while nobody writes.
LEMMA CloseOutputStep ==
    ASSUME IInv, CloseOutput
    PROVE  IInv'
<1> USE TransportAssumption
<1> USE DEF Requests, Jobs, Running, readVars, callVars, writeVars, wireVars, mainVars
<1>1. ReadTypes' /\ CallTypes' /\ ReadInv' /\ LockInv' /\ QueueInv' /\ OneAuditPerCall'
  BY Undisturbed DEF CloseOutput
<1>2. WriteTypes' BY DEF CloseOutput, IInv, TypeOK, WriteTypes
<1>3. MainTypes' BY DEF CloseOutput, IInv, TypeOK, MainTypes, Phase
<1>4. WireInv' BY DEF CloseOutput, IInv, WireInv, WholeFrames, Complete
<1>5. CallInv' BY DEF CloseOutput, IInv, CallInv, InFlight
<1>6. QED BY <1>1, <1>2, <1>3, <1>4, <1>5 DEF IInv, TypeOK

\* The process exits.
LEMMA CloseServiceStep ==
    ASSUME IInv, CloseService
    PROVE  IInv'
<1> USE TransportAssumption
<1> USE DEF Requests, Jobs, Running, readVars, callVars, writeVars, wireVars, mainVars
<1>1. ReadTypes' /\ CallTypes' /\ WriteTypes' /\ ReadInv' /\ LockInv' /\ QueueInv' /\ WireInv' /\ OneAuditPerCall'
  BY Undisturbed DEF CloseService
<1>2. MainTypes' BY DEF CloseService, IInv, TypeOK, MainTypes, Phase
<1>3. CallInv' BY DEF CloseService, IInv, CallInv, InFlight
<1>4. QED BY <1>1, <1>2, <1>3 DEF IInv, TypeOK

\* Every step preserves the invariant.
LEMMA NextIInv == IInv /\ [Next]_vars => IInv'
<1> SUFFICES ASSUME IInv, [Next]_vars PROVE IInv' OBVIOUS
<1>1. ASSUME FrameNext PROVE IInv'
  <2>1. ASSUME NEW n \in DOMAIN buffer, LineNext(n) PROVE IInv'
    BY <2>1, RefuseLineStep, JsonRaisesStep, ReplyParseErrorStep, DeliverRequestStep,
       DeliverCancelStep DEF LineNext
  <2>2. QED
    BY <1>1, <2>1, RefuseUnterminatedStep, RefuseIncompleteStep, EndOfInputStep, ReplyWrittenStep
       DEF FrameNext
<1>2. ASSUME NEW r \in Requests, TaskNext(r) PROVE IInv'
  BY <1>2, DispatchStep, RefuseCallStep, HandleResultStep, RefuseResourceStep, HandleResourceStep
     DEF TaskNext
<1>3. ASSUME LoopNext PROVE IInv' BY <1>1, <1>2, <1>3, WriterTakesStep, WriterResumesStep DEF LoopNext
<1>4. ASSUME NEW j \in Jobs, JobNext(j) PROVE IInv' BY <1>4, WriteBeginStep, WritePieceStep DEF JobNext
<1>5. ASSUME EndNext PROVE IInv'
  BY <1>5, DrainEndsStep, UnwindStep, CloseOutputStep, CloseServiceStep DEF EndNext
<1>6. ASSUME InputNext PROVE IInv' BY <1>6, ReadMoreStep, ReadEofStep, ReadFailsStep DEF InputNext
<1>7. ASSUME UNCHANGED vars PROVE IInv'
  BY <1>7, Undisturbed DEF vars, readVars, callVars, writeVars, wireVars, mainVars, IInv, TypeOK
<1>8. QED
  BY <1>3, <1>4, <1>5, <1>6, <1>7, LaunchStep, ServiceReturnsStep, DrainCancelsStep,
     ClientReadsStep, ClientLeavesStep DEF Next

\* The inductive invariant holds in every behaviour.
LEMMA Invariance == Spec => []IInv
  BY InitIInv, NextIInv, PTL DEF Spec

\* The types of the transport, for any input and any limits: in particular the reader never
\* holds more than MaxFrame bytes, however the input is cut into reads.
THEOREM TransportTypes == Spec => []TypeOK
<1>1. IInv => TypeOK BY DEF IInv
<1>2. QED BY Invariance, <1>1, PTL

\* Frames never mix on the wire, for any number of writing threads, any number of writes a
\* frame takes and any size of the client's pipe; only a client that left sees half a frame.
THEOREM WireStaysWhole == Spec => []WholeFrames
<1>1. IInv => WholeFrames BY DEF IInv, WireInv
<1>2. QED BY Invariance, <1>1, PTL

\* However the session ends, no call of the service is left running without its cancel event.
THEOREM CallsAreSignalled == Spec => []AbandonedAreSignalled
<1>1. ASSUME IInv, NEW r \in ToolCalls, thread[r] = "running"
      PROVE  r \in event \/ (task[r] = "calling" /\ Running)
  <2>1. r \in Requests /\ task[r] \in TaskStep BY <1>1 DEF IInv, TypeOK, CallTypes, Requests
  <2>2. task[r] \in {"calling", "cancelled"} BY <1>1, <2>1 DEF IInv, CallInv, TaskStep
  <2>3. CASE task[r] = "calling" BY <1>1, <2>1, <2>3 DEF IInv, CallInv, InFlight
  <2>4. CASE task[r] = "cancelled" BY <1>1, <2>1, <2>4 DEF IInv, CallInv
  <2>5. QED BY <2>2, <2>3, <2>4
<1>2. IInv => AbandonedAreSignalled BY <1>1 DEF AbandonedAreSignalled
<1>3. QED BY Invariance, <1>2, PTL

\* on_call_tool: every tool call leaves exactly one audit record, or none if it was cancelled
\* before it began, whatever order results, cancellations and the end of the session take; it
\* is audited as "ok" exactly if the client is sent a result or told that it is too large.
THEOREM CallsAreAudited == Spec => []OneAuditPerCall
<1>1. IInv => OneAuditPerCall BY DEF IInv
<1>2. QED BY Invariance, <1>1, PTL

-----------------------------------------------------------------------------
(* Lines of the input *)

NatLess == {p \in Nat \X Nat : p[1] < p[2]}

\* A non-empty set of natural numbers has a least one.
LEMMA LeastNumber ==
    ASSUME NEW T \in SUBSET Nat, T # {}
    PROVE  \E n \in T : \A m \in T : n <= m
<1>1. IsWellFoundedOn(NatLess, Nat)
  <2>1. NatLess = OpToRel(<, Nat) BY DEF OpToRel, NatLess
  <2>2. QED BY <2>1, NatLessThanWellFounded, Zenon
<1>2. PICK x \in T : \A y \in T : ~ (<<y, x>> \in NatLess)
  BY <1>1, WFMin
<1>3. \A x1, y1 \in Nat : x1 < y1 => <<x1, y1>> \in NatLess
  BY DEF NatLess
<1>4. \A y \in T : ~(y < x)
  BY <1>2, <1>3
<1>5. \A y \in T : x <= y
  BY <1>4
<1>6. QED BY <1>5

\* The line that begins at offset i ends at k: at an LF, or where the input ends.
IsEnd(s, i, k) ==
    /\ k \in (i + 1)..(Len(s) + 1)
    /\ k = Len(s) + 1 \/ s[k] = Lf
    /\ \A m \in (i + 1)..(k - 1) : s[m] # Lf

\* Every line ends somewhere, and only there.
LEMMA LineEnds ==
    ASSUME NEW s \in Seq(Bytes), NEW i \in 0..Len(s)
    PROVE  /\ IsEnd(s, i, EndOfLine(s, i))
           /\ \A k : IsEnd(s, i, k) => EndOfLine(s, i) = k
<1>0. Len(s) \in Nat OBVIOUS
<1>1. \E k : IsEnd(s, i, k)
  <2> DEFINE T == {k \in (i + 1)..(Len(s) + 1) : k = Len(s) + 1 \/ s[k] = Lf}
  <2>1. T \in SUBSET Nat /\ Len(s) + 1 \in T OBVIOUS
  <2>2. PICK k \in T : \A m \in T : k <= m
    <3> HIDE DEF T
    <3>1. QED BY <2>1, LeastNumber
  <2>3. \A m \in (i + 1)..(k - 1) : s[m] # Lf
    <3> TAKE m \in (i + 1)..(k - 1)
    <3>1. m \in (i + 1)..(Len(s) + 1) /\ ~(k <= m) BY <1>0, <2>2
    <3>2. QED BY <2>2, <3>1
  <2>4. QED BY <2>2, <2>3 DEF IsEnd
<1>2. EndOfLine(s, i) = CHOOSE k \in (i + 1)..(Len(s) + 1) : IsEnd(s, i, k)
  BY DEF EndOfLine, IsEnd
<1>3. IsEnd(s, i, EndOfLine(s, i))
  BY <1>1, <1>2 DEF IsEnd
<1>4. ASSUME NEW k, NEW l, IsEnd(s, i, k), IsEnd(s, i, l) PROVE ~(k < l)
  <2>1. k \in (i + 1)..(Len(s) + 1) /\ l \in (i + 1)..(Len(s) + 1) BY <1>4 DEF IsEnd
  <2>2. SUFFICES ASSUME k < l PROVE FALSE OBVIOUS
  <2>3. k \in (i + 1)..(l - 1) /\ k # Len(s) + 1 BY <1>0, <2>1, <2>2
  <2>4. QED BY <1>4, <2>3 DEF IsEnd
<1>5. ASSUME NEW k, IsEnd(s, i, k) PROVE EndOfLine(s, i) = k
  <2> DEFINE e == EndOfLine(s, i)
  <2>1. IsEnd(s, i, e) BY <1>3
  <2> HIDE DEF e
  <2>2. k \in Int /\ e \in Int BY <1>5, <2>1 DEF IsEnd
  <2>3. ~(k < e) /\ ~(e < k) BY <1>4, <1>5, <2>1
  <2>4. e = k BY <2>2, <2>3
  <2>5. QED BY <2>4 DEF e
<1>6. QED BY <1>3, <1>5

\* Every line before offset h is one that read_frame hands over.
LinesUpTo(s, h) ==
    /\ h \in LineStarts(s)
    /\ \A k \in LineStarts(s) : k < h => FateOfLine(s, k) = "line"

\* The requests that stand alone on a line that begins before offset h.
Delivered(s, h) ==
    {r \in Requests : \E i \in LineStarts(s) : i < h /\ EndOfLine(s, i) = i + 2 /\ s[i + 1] = r}

\* Some line is the one at which reading stops.
LEMMA StopExists ==
    ASSUME NEW s \in Seq(Bytes)
    PROVE  \E i \in LineStarts(s) : LinesUpTo(s, i) /\ FateOfLine(s, i) # "line"
<1>0. Len(s) \in Nat /\ DOMAIN s = 1..Len(s) OBVIOUS
<1>1. LineStarts(s) \subseteq 0..Len(s) BY <1>0 DEF LineStarts
<1>2. PICK i \in LineStarts(s) : \A k \in LineStarts(s) : k <= i
  <2> DEFINE T == {n \in 0..Len(s) : Len(s) - n \in LineStarts(s)}
  <2>1. T \in SUBSET Nat OBVIOUS
  <2>2. Len(s) \in T
    <3>1. Len(s) - Len(s) = 0 /\ Len(s) \in 0..Len(s) BY <1>0
    <3>2. QED BY <3>1 DEF LineStarts
  <2>3. PICK n \in T : \A m \in T : n <= m
    <3> HIDE DEF T
    <3>1. QED BY <2>1, <2>2, LeastNumber
  <2>4. \A k \in LineStarts(s) : Len(s) - k \in T
    <3> TAKE k \in LineStarts(s)
    <3>1. k \in 0..Len(s) /\ Len(s) - k \in 0..Len(s) /\ Len(s) - (Len(s) - k) = k BY <1>0, <1>1
    <3>2. QED BY <3>1
  <2>5. \A k \in LineStarts(s) : k <= Len(s) - n
    <3> TAKE k \in LineStarts(s)
    <3>1. k \in 0..Len(s) /\ n \in 0..Len(s) BY <1>1
    <3>2. n <= Len(s) - k BY <2>3, <2>4
    <3>3. QED BY <1>0, <3>1, <3>2
  <2>6. Len(s) - n \in LineStarts(s) BY <2>3
  <2>7. QED BY <2>5, <2>6
<1>3. i \in 0..Len(s) BY <1>1
<1>4. IsEnd(s, i, Len(s) + 1)
  <2>1. \A m \in (i + 1)..Len(s) : s[m] # Lf
    <3> SUFFICES ASSUME NEW m \in (i + 1)..Len(s), s[m] = Lf PROVE FALSE
      OBVIOUS
    <3>1. m \in LineStarts(s) /\ ~(m <= i) BY <1>0, <1>3 DEF LineStarts
    <3>2. QED BY <1>2, <3>1
  <2>2. Len(s) + 1 - 1 = Len(s) /\ Len(s) + 1 \in (i + 1)..(Len(s) + 1) BY <1>0, <1>3
  <2>3. QED BY <2>1, <2>2 DEF IsEnd
<1>5. EndOfLine(s, i) = Len(s) + 1 BY <1>3, <1>4, LineEnds
<1>6. FateOfLine(s, i) # "line" BY <1>0, <1>5 DEF FateOfLine
<1>7. PICK j \in {k \in LineStarts(s) : FateOfLine(s, k) # "line"} :
          \A k \in {l \in LineStarts(s) : FateOfLine(s, l) # "line"} : j <= k
  <2> DEFINE T == {k \in LineStarts(s) : FateOfLine(s, k) # "line"}
  <2>1. T \in SUBSET Nat /\ T # {} BY <1>1, <1>6
  <2> HIDE DEF T
  <2>2. \E j \in T : \A k \in T : j <= k BY <2>1, LeastNumber
  <2>3. QED BY <2>2 DEF T
<1>8. LinesUpTo(s, j)
  <2> SUFFICES ASSUME NEW k \in LineStarts(s), k < j PROVE FateOfLine(s, k) = "line"
    BY <1>7 DEF LinesUpTo
  <2>1. k \in 0..Len(s) /\ j \in 0..Len(s) BY <1>1, <1>7
  <2>2. ~(j <= k) BY <2>1
  <2>3. QED BY <1>7, <2>2
<1>9. QED BY <1>7, <1>8

\* That line is unique, and a reader that handed over only lines is not past it.
LEMMA StopUnique ==
    ASSUME NEW s \in Seq(Bytes), NEW h, LinesUpTo(s, h)
    PROVE  /\ FateOfLine(s, h) # "line" => StopsAt(s) = h
           /\ h <= StopsAt(s)
<1>0. LineStarts(s) \subseteq Nat BY DEF LineStarts
<1>1. StopsAt(s) = CHOOSE i \in LineStarts(s) : LinesUpTo(s, i) /\ FateOfLine(s, i) # "line"
  BY DEF StopsAt, LinesUpTo
<1>2. StopsAt(s) \in LineStarts(s) /\ LinesUpTo(s, StopsAt(s)) /\ FateOfLine(s, StopsAt(s)) # "line"
  BY <1>1, StopExists
<1> DEFINE e == StopsAt(s)
<1>3. e \in Nat /\ h \in Nat BY <1>0, <1>2 DEF LinesUpTo
<1>4. e \in LineStarts(s) /\ h \in LineStarts(s) BY <1>2 DEF LinesUpTo
<1>5. ~(e < h) BY <1>2, <1>4 DEF LinesUpTo
<1>6. FateOfLine(s, h) # "line" => ~(h < e) BY <1>2, <1>4 DEF LinesUpTo
<1> HIDE DEF e
<1>7. h <= e /\ (FateOfLine(s, h) # "line" => e = h) BY <1>3, <1>5, <1>6
<1>8. QED BY <1>7 DEF e

\* What was handed over before it may be handed over.
LEMMA DeliveredAreDeliverable ==
    ASSUME NEW s \in Seq(Bytes), NEW h, LinesUpTo(s, h)
    PROVE  Delivered(s, h) \subseteq Deliverable(s)
<1>1. StopsAt(s) \in Nat /\ LineStarts(s) \subseteq Nat /\ h \in Nat /\ h <= StopsAt(s)
  <2>1. LineStarts(s) \subseteq Nat BY DEF LineStarts
  <2>2. h \in LineStarts(s) /\ h <= StopsAt(s) BY StopUnique DEF LinesUpTo
  <2>3. StopsAt(s) \in LineStarts(s)
    BY StopExists DEF StopsAt, LinesUpTo
  <2>4. QED BY <2>1, <2>2, <2>3
<1>2. \A i \in LineStarts(s) : i < h => i < StopsAt(s) BY <1>1
<1>3. QED BY <1>2 DEF Delivered, Deliverable

Started == {r \in Requests : task[r] # "none"}

\* Reading ended at the line that begins at h, or failed before it was complete.
StoppedAt(h) ==
    /\ LinesUpTo(stream, h) /\ Started = Delivered(stream, h)
    /\ verdict # "read_failed" => verdict = FateOfLine(stream, h)

\* While the input task reads, it is between two lines, and exactly the requests of the
\* lines before have tasks; when it ended with a verdict, that was the fate of a line.
LineInv ==
    /\ eof => consumed = Len(stream)
    /\ input # "ended" => verdict = "none"
    /\ verdict = "none" => LinesUpTo(stream, Handed) /\ Started = Delivered(stream, Handed)
    /\ verdict # "none" => \E h \in LineStarts(stream) : StoppedAt(h)

\* Reading judges each line as the design does, however it arrives.
LEMMA LinesJudged ==
    TypeOK /\ LineInv => ReaderExact
<1> SUFFICES ASSUME TypeOK, LineInv PROVE ReaderExact
  OBVIOUS
<1>1. stream \in Seq(Bytes) /\ verdict \in FrameError \cup {"none", "eof"}
  BY TransportAssumption DEF TypeOK, ReadTypes
<1>2. CASE verdict = "none"
  <2>1. LinesUpTo(stream, Handed) /\ Started = Delivered(stream, Handed) BY <1>2 DEF LineInv
  <2>2. Started \subseteq Deliverable(stream) BY <1>1, <2>1, DeliveredAreDeliverable
  <2>3. QED BY <1>2, <2>2 DEF ReaderExact, Started
<1>3. CASE verdict # "none"
  <2>1. PICK h \in LineStarts(stream) : StoppedAt(h) BY <1>3 DEF LineInv
  <2>2. LinesUpTo(stream, h) /\ Started = Delivered(stream, h) BY <2>1 DEF StoppedAt
  <2>3. Started \subseteq Deliverable(stream) BY <1>1, <2>2, DeliveredAreDeliverable
  <2>4. ASSUME verdict # "read_failed"
        PROVE  verdict = FateOfLine(stream, StopsAt(stream)) /\ Started = Deliverable(stream)
    <3>1. verdict = FateOfLine(stream, h) /\ verdict # "line"
      BY <1>1, <2>1, <2>4 DEF StoppedAt, FrameError
    <3>2. StopsAt(stream) = h BY <1>1, <2>2, <3>1, StopUnique
    <3>3. Deliverable(stream) = Delivered(stream, h) BY <3>2 DEF Delivered, Deliverable
    <3>4. QED BY <2>2, <3>1, <3>2, <3>3
  <2>5. QED BY <1>3, <2>3, <2>4 DEF ReaderExact, Started
<1>4. QED BY <1>2, <1>3

\* Where the reader stands, from the invariant.
LEMMA ReaderStands ==
    ASSUME TypeOK, ReadInv, LineInv, input # "ended"
    PROVE  /\ stream \in Seq(Bytes) /\ buffer \in Seq(Bytes) /\ verdict = "none"
           /\ Handed \in 0..Len(stream) /\ consumed = Handed + Len(buffer)
           /\ consumed \in 0..Len(stream) /\ Len(buffer) \in Nat
           /\ LinesUpTo(stream, Handed) /\ Started = Delivered(stream, Handed)
<1>1. /\ stream \in Seq(Bytes) /\ buffer \in Seq(Bytes) /\ consumed \in 0..Len(stream)
      /\ Len(buffer) \in Nat /\ Len(stream) \in Nat
  BY TransportAssumption DEF TypeOK, ReadTypes
<1>2. verdict = "none" BY DEF LineInv
<1>3. Handed \in 0..Len(stream) /\ consumed = Handed + Len(buffer)
  BY <1>1 DEF ReadInv, Handed
<1>4. QED BY <1>1, <1>2, <1>3 DEF LineInv

\* The first LF in the buffer ends the line that begins where the reader stands.
LEMMA BufferedLine ==
    ASSUME TypeOK, ReadInv, LineInv, input # "ended", NEW n \in DOMAIN buffer, EndsLine(n)
    PROVE  /\ EndOfLine(stream, Handed) = Handed + n
           /\ Handed + n \in 1..Len(stream) /\ n \in Nat \ {0}
           /\ \A m \in 1..n : stream[Handed + m] = buffer[m]
<1> DEFINE h == Handed
           e == h + n
<1>1. /\ h \in 0..Len(stream) /\ consumed = h + Len(buffer) /\ consumed \in 0..Len(stream)
      /\ Len(buffer) \in Nat /\ n \in 1..Len(buffer) /\ stream \in Seq(Bytes)
  BY ReaderStands
<1>2. \A m \in 1..n : stream[h + m] = buffer[m]
  <2> TAKE m \in 1..n
  <2>1. m \in 1..Len(buffer) BY <1>1
  <2>2. QED BY <2>1 DEF ReadInv
<1> HIDE DEF h
<1>3. e \in 1..Len(stream) /\ e \in (h + 1)..(Len(stream) + 1) BY <1>1
<1>4. stream[e] = Lf
  <2>1. buffer[n] = Lf BY DEF EndsLine
  <2>2. n \in 1..n BY <1>1
  <2>3. QED BY <1>2, <2>1, <2>2
<1>5. \A m \in (h + 1)..(e - 1) : stream[m] # Lf
  <2> TAKE m \in (h + 1)..(e - 1)
  <2>1. m - h \in 1..(n - 1) /\ m - h \in 1..n /\ h + (m - h) = m BY <1>1
  <2>2. QED BY <1>2, <2>1 DEF EndsLine
<1>6. IsEnd(stream, h, e)
  <2> HIDE DEF e
  <2>1. QED BY <1>3, <1>4, <1>5 DEF IsEnd
<1>7. EndOfLine(stream, h) = e
  <2> HIDE DEF e
  <2>1. QED BY <1>1, <1>6, LineEnds
<1>8. QED BY <1>1, <1>2, <1>3, <1>7 DEF h

\* After a line that is handed over, the next one begins behind its LF.
LEMMA NextLine ==
    ASSUME NEW s \in Seq(Bytes), NEW h \in 0..Len(s), NEW k \in 1..Len(s), LinesUpTo(s, h),
           EndOfLine(s, h) = k, FateOfLine(s, h) = "line"
    PROVE  /\ LinesUpTo(s, k)
           /\ Delivered(s, k) = Delivered(s, h) \cup {r \in Requests : k = h + 2 /\ s[h + 1] = r}
<1>0. Len(s) \in Nat /\ DOMAIN s = 1..Len(s) OBVIOUS
<1>1. IsEnd(s, h, k) BY LineEnds
<1>2. k \in LineStarts(s) /\ h < k
  <2>1. s[k] = Lf /\ h < k BY <1>0, <1>1 DEF IsEnd
  <2>2. QED BY <1>0, <2>1 DEF LineStarts
<1>3. ASSUME NEW i \in LineStarts(s) PROVE i < k <=> i < h \/ i = h
  <2>1. i \in Nat BY DEF LineStarts
  <2>2. i < h \/ i = h => i < k BY <1>2, <2>1
  <2>3. ASSUME i < k, ~(i < h), i # h PROVE FALSE
    <3>1. i \in (h + 1)..(k - 1) /\ i # 0 BY <2>1, <2>3
    <3>2. s[i] = Lf BY <1>0, <3>1 DEF LineStarts
    <3>3. QED BY <1>1, <3>1, <3>2 DEF IsEnd
  <2>4. QED BY <2>2, <2>3
<1>4. LinesUpTo(s, k) BY <1>2, <1>3 DEF LinesUpTo
<1>5. h \in LineStarts(s) BY DEF LinesUpTo
<1>6. QED BY <1>3, <1>4, <1>5 DEF Delivered

\* Steps that leave the reader and the set of tasks as they are.
LEMMA QuietLines ==
    ASSUME LineInv, UNCHANGED <<stream, consumed, buffer, eof, verdict>>, Started' = Started,
           input' # "ended" => input # "ended"
    PROVE  LineInv'
<1>1. UNCHANGED Handed BY DEF Handed
<1>2. ASSUME NEW h, StoppedAt(h) PROVE StoppedAt(h)' BY <1>2 DEF StoppedAt
<1>3. \A h : LinesUpTo(stream, h)' = LinesUpTo(stream, h)
  OBVIOUS
<1>4. LinesUpTo(stream, Handed)' = LinesUpTo(stream, Handed)
  BY <1>1
<1>5. Delivered(stream, Handed)' = Delivered(stream, Handed)
  BY <1>1
<1>6. QED BY <1>2, <1>4, <1>5 DEF LineInv

\* A step that ends reading with a verdict, for a read that failed or a line's fate.
LEMMA StopKeeps ==
    ASSUME TypeOK, ReadInv, LineInv, input # "ended", UNCHANGED <<stream, consumed, eof, task>>,
           input' = "ended", verdict' # "none",
           verdict' = "read_failed" \/ verdict' = FateOfLine(stream, Handed)
    PROVE  LineInv'
<1>1. PICK h : h = Handed OBVIOUS
<1>2. LinesUpTo(stream, h) /\ Started = Delivered(stream, h) BY <1>1, ReaderStands
<1>3. verdict' = "read_failed" \/ verdict' = FateOfLine(stream, h) BY <1>1
<1>4. Started' = Started BY DEF Started
<1>5. StoppedAt(h)' BY <1>2, <1>3, <1>4 DEF StoppedAt
<1>6. h \in LineStarts(stream)' BY <1>2 DEF LinesUpTo
<1>7. (eof => consumed = Len(stream))' BY DEF LineInv
<1>8. QED BY <1>5, <1>6, <1>7 DEF LineInv

\* A step that hands over a line.
LEMMA TakeLineKeeps ==
    ASSUME TypeOK, ReadInv, LineInv, NEW n \in DOMAIN buffer, TakeLine(n),
           Started' = Started \cup {r \in Requests : Is(n, r)}
    PROVE  LineInv'
<1>0. input # "ended" BY DEF TakeLine, Reading
<1> DEFINE h == Handed
           k == h + n
<1>1. /\ stream \in Seq(Bytes) /\ h \in 0..Len(stream) /\ verdict = "none" /\ n \in Nat \ {0}
      /\ LinesUpTo(stream, h) /\ Started = Delivered(stream, h)
      /\ EndOfLine(stream, h) = k /\ k \in 1..Len(stream)
      /\ \A m \in 1..n : stream[h + m] = buffer[m]
  BY <1>0, ReaderStands, BufferedLine DEF TakeLine
<1>2. FateOfLine(stream, h) = "line"
  <2>1. n <= MaxFrame /\ \A i \in 1..(n - 1) : buffer[i] # BadByte BY DEF TakeLine
  <2> HIDE DEF h
  <2>2. k - h = n /\ ~(n > MaxFrame) /\ h # Len(stream) /\ ~(k > Len(stream))
    BY <1>1, <2>1, TransportAssumption
  <2>3. \A j \in (h + 1)..(k - 1) : stream[j] # BadByte
    <3> TAKE j \in (h + 1)..(k - 1)
    <3>1. j - h \in 1..(n - 1) /\ j - h \in 1..n /\ h + (j - h) = j BY <1>1
    <3>2. QED BY <1>1, <2>1, <3>1
  <2> HIDE DEF k
  <2>4. QED BY <1>1, <2>2, <2>3 DEF FateOfLine
<1>3. /\ LinesUpTo(stream, k)
      /\ Delivered(stream, k)
            = Delivered(stream, h) \cup {r \in Requests : k = h + 2 /\ stream[h + 1] = r}
  <2> HIDE DEF h, k
  <2>1. QED BY <1>1, <1>2, NextLine
<1>4. \A r : Is(n, r) <=> k = h + 2 /\ stream[h + 1] = r
  <2> HIDE DEF h
  <2>1. stream[h + 1] = buffer[1] BY <1>1
  <2>2. n = 2 <=> k = h + 2 BY <1>1
  <2> HIDE DEF k
  <2>3. QED BY <2>1, <2>2 DEF Is
<1>5. Started' = Delivered(stream, k)
  <2> HIDE DEF h, k
  <2>1. QED BY <1>1, <1>3, <1>4
<1>6. Handed' = k
  BY LineTaken DEF TakeLine, TypeOK
<1>7. UNCHANGED <<stream, consumed, eof, verdict>> BY DEF TakeLine
<1>8. LinesUpTo(stream, Handed)' /\ (Started = Delivered(stream, Handed))'
  <2> HIDE DEF h, k
  <2>1. QED BY <1>3, <1>5, <1>6, <1>7
<1>9. QED BY <1>1, <1>7, <1>8 DEF LineInv

\* Cancelling tasks neither starts nor forgets one.
LEMMA CancelStarted ==
    ASSUME NEW S \in SUBSET InFlight, CancelTasks(S)
    PROVE  Started' = Started
  BY DEF CancelTasks, InFlight, Started

\* So does a step of a request's own task.
LEMMA MoveStarted ==
    ASSUME task \in [Requests -> TaskStep], NEW r \in Requests, NEW x, x # "none",
           task[r] # "none", task' = [task EXCEPT ![r] = x]
    PROVE  Started' = Started
  BY DEF Started

\* A read adds to the buffer what it takes from the input.
LEMMA ReadMoreLines ==
    ASSUME TypeOK, ReadInv, LineInv, ReadMore
    PROVE  LineInv'
<1>1. PICK k \in 1..MaxRead : /\ consumed + k <= Len(stream) /\ consumed' = consumed + k
                              /\ buffer' = buffer \o SubSeq(stream, consumed + 1, consumed + k)
  BY DEF ReadMore
<1>2. /\ buffer \in Seq(Bytes) /\ stream \in Seq(Bytes) /\ consumed \in Nat /\ k \in Nat
      /\ UNCHANGED <<stream, eof, verdict, input, task>> /\ ~eof /\ verdict = "none"
  BY <1>1, TransportAssumption DEF ReadMore, TypeOK, ReadTypes, callVars, LineInv, Reading
<1>3. Len(buffer') = Len(buffer) + k BY <1>1, <1>2, ReadBytes
<1>4. UNCHANGED Handed BY <1>1, <1>2, <1>3 DEF Handed
<1>5. Started' = Started BY <1>2 DEF Started
<1>6. LinesUpTo(stream, Handed)' = LinesUpTo(stream, Handed) BY <1>2, <1>4
<1>7. Delivered(stream, Handed)' = Delivered(stream, Handed) BY <1>2, <1>4
<1>8. QED BY <1>2, <1>5, <1>6, <1>7 DEF LineInv

\* The verdict of a line without its LF in the buffer.
LEMMA UnterminatedLines ==
    ASSUME TypeOK, ReadInv, LineInv, RefuseUnterminated \/ RefuseIncomplete \/ EndOfInput
    PROVE  LineInv'
<1> DEFINE h == Handed
           e == EndOfLine(stream, h)
<1>0. input # "ended" BY DEF RefuseUnterminated, RefuseIncomplete, EndOfInput, Reading
<1>1. /\ stream \in Seq(Bytes) /\ h \in 0..Len(stream) /\ consumed = h + Len(buffer)
      /\ buffer \in Seq(Bytes) /\ Len(buffer) \in Nat /\ consumed \in 0..Len(stream)
      /\ Len(stream) \in Nat /\ (buffer = <<>> <=> Len(buffer) = 0)
  BY <1>0, ReaderStands
<1>2. ~HasLine
  BY <1>1 DEF RefuseUnterminated, RefuseIncomplete, EndOfInput, HasLine
<1>3. IsEnd(stream, h, e) BY <1>1, LineEnds
<1>4. \A m \in 1..Len(buffer) : stream[h + m] # Lf
  BY <1>1, <1>2 DEF ReadInv, HasLine
<1> HIDE DEF h, e
<1>5. e \in Int /\ e > h + Len(buffer)
  <2>1. e \in (h + 1)..(Len(stream) + 1) /\ (e = Len(stream) + 1 \/ stream[e] = Lf)
    BY <1>3 DEF IsEnd
  <2>2. SUFFICES ASSUME e <= h + Len(buffer) PROVE FALSE BY <1>1, <2>1
  <2>3. e # Len(stream) + 1 /\ e - h \in 1..Len(buffer) /\ h + (e - h) = e BY <1>1, <2>1, <2>2
  <2>4. QED BY <1>4, <2>1, <2>3
<1>6. MaxFrame \in Nat \ {0} BY TransportAssumption
<1>7. CASE RefuseUnterminated
  <2>1. Len(buffer) >= MaxFrame /\ ReadRaises("frame_too_large") BY <1>7 DEF RefuseUnterminated
  <2>2. FateOfLine(stream, h) = "frame_too_large"
    <3>1. e - h > MaxFrame BY <1>1, <1>5, <1>6, <2>1
    <3>2. QED BY <3>1 DEF FateOfLine, e
  <2>3. QED BY <1>0, <2>1, <2>2, StopKeeps DEF ReadRaises, callVars, h
<1>8. ASSUME eof PROVE consumed = Len(stream) /\ e = Len(stream) + 1
  <2>1. consumed = Len(stream) BY <1>8 DEF LineInv
  <2>2. QED BY <1>1, <1>3, <1>5, <2>1 DEF IsEnd
<1>9. CASE RefuseIncomplete
  <2>1. eof /\ buffer # <<>> /\ Len(buffer) < MaxFrame /\ ReadRaises("incomplete_frame")
    BY <1>9 DEF RefuseIncomplete
  <2>2. FateOfLine(stream, h) = "incomplete_frame"
    <3>1. ~(e - h > MaxFrame) /\ h # Len(stream) /\ e > Len(stream)
      BY <1>1, <1>6, <1>8, <2>1
    <3>2. QED BY <3>1 DEF FateOfLine, e
  <2>3. QED BY <1>0, <2>1, <2>2, StopKeeps DEF ReadRaises, callVars, h
<1>10. CASE EndOfInput
  <2>1. /\ eof /\ buffer = <<>> /\ verdict' = "eof" /\ input' = "ended"
        /\ UNCHANGED <<stream, consumed, eof, task>>
    BY <1>10 DEF EndOfInput, callVars
  <2>2. FateOfLine(stream, h) = "eof"
    <3>1. ~(e - h > MaxFrame) /\ h = Len(stream) BY <1>1, <1>6, <1>8, <2>1
    <3>2. QED BY <3>1 DEF FateOfLine, e
  <2>3. QED BY <1>0, <2>1, <2>2, StopKeeps DEF h
<1>11. QED BY <1>7, <1>9, <1>10

\* The verdict of a line that is too long or not UTF-8.
LEMMA RefusedLines ==
    ASSUME TypeOK, ReadInv, LineInv, NEW n \in DOMAIN buffer, RefuseLine(n)
    PROVE  LineInv'
<1> DEFINE h == Handed
           k == h + n
<1>0. input # "ended" /\ EndsLine(n) BY DEF RefuseLine, Reading
<1>1. /\ stream \in Seq(Bytes) /\ h \in 0..Len(stream) /\ n \in Nat \ {0}
      /\ EndOfLine(stream, h) = k /\ k \in 1..Len(stream) /\ Len(stream) \in Nat
      /\ \A m \in 1..n : stream[h + m] = buffer[m]
  BY <1>0, ReaderStands, BufferedLine
<1> HIDE DEF h
<1>2. k - h = n /\ h # Len(stream) /\ ~(k > Len(stream)) BY <1>1
<1>3. MaxFrame \in Nat BY TransportAssumption
<1>4. CASE n > MaxFrame /\ ReadRaises("frame_too_large")
  <2>1. FateOfLine(stream, h) = "frame_too_large"
    <3> HIDE DEF k
    <3>1. QED BY <1>1, <1>2, <1>4 DEF FateOfLine
  <2>2. QED BY <1>0, <1>4, <2>1, StopKeeps DEF ReadRaises, callVars, h
<1>5. CASE /\ n <= MaxFrame /\ ReadRaises("invalid_utf8")
           /\ \E i \in 1..(n - 1) : buffer[i] = BadByte
  <2>1. PICK i \in 1..(n - 1) : buffer[i] = BadByte BY <1>5
  <2>2. h + i \in (h + 1)..(k - 1) /\ i \in 1..n BY <1>1
  <2>3. stream[h + i] = BadByte BY <1>1, <2>1, <2>2
  <2>4. ~(n > MaxFrame) BY <1>1, <1>3, <1>5
  <2>5. FateOfLine(stream, h) = "invalid_utf8"
    <3>1. \E j \in (h + 1)..(k - 1) : stream[j] = BadByte BY <2>2, <2>3
    <3> HIDE DEF k
    <3>2. QED BY <1>1, <1>2, <2>4, <3>1 DEF FateOfLine
  <2>6. QED BY <1>0, <1>5, <2>5, StopKeeps DEF ReadRaises, callVars, h
<1>6. QED BY <1>4, <1>5 DEF RefuseLine

\* The lines handed over.
LEMMA LineSteps ==
    ASSUME TypeOK, ReadInv, LineInv, NEW n \in DOMAIN buffer, LineNext(n)
    PROVE  LineInv'
<1> USE TransportAssumption
<1>0. task \in [Requests -> TaskStep] BY DEF TypeOK, CallTypes
<1>1. CASE RefuseLine(n) BY <1>1, RefusedLines
<1>2. ASSUME NEW r \in Requests, DeliverRequest(n, r) PROVE LineInv'
  <2>1. TakeLine(n) /\ Is(n, r) /\ task' = [task EXCEPT ![r] = "queued"]
    BY <1>2 DEF DeliverRequest
  <2>2. Started' = Started \cup {r} BY <1>0, <2>1 DEF Started
  <2>3. {x \in Requests : Is(n, x)} = {r} BY <2>1 DEF Is
  <2>4. QED BY <2>1, <2>2, <2>3, TakeLineKeeps
<1>3. ASSUME NEW b \in Cancels \cup {HardByte}, Is(n, b) PROVE {x \in Requests : Is(n, x)} = {}
  BY <1>3 DEF Is, Requests, Special
<1>4. ASSUME NEW c \in Cancels, DeliverCancel(n, c) PROVE LineInv'
  <2>1. TakeLine(n) /\ Is(n, c) /\ CancelTasks(InFlight \cap {CancelOf[c]})
    BY <1>4 DEF DeliverCancel
  <2>2. Started' = Started BY <2>1, CancelStarted
  <2>3. {x \in Requests : Is(n, x)} = {} BY <1>3, <2>1
  <2>4. QED BY <2>1, <2>2, <2>3, TakeLineKeeps
<1>5. CASE JsonRaises(n)
  <2>1. TakeLine(n) /\ Is(n, HardByte) /\ UNCHANGED task BY <1>5 DEF JsonRaises, callVars
  <2>2. Started' = Started BY <2>1 DEF Started
  <2>3. {x \in Requests : Is(n, x)} = {} BY <1>3, <2>1
  <2>4. QED BY <2>1, <2>2, <2>3, TakeLineKeeps
<1>6. CASE ReplyParseError(n)
  <2>1. TakeLine(n) /\ UNCHANGED task /\ \A b \in Requests : ~Is(n, b)
    BY <1>6 DEF ReplyParseError, callVars
  <2>2. Started' = Started BY <2>1 DEF Started
  <2>3. QED BY <2>1, <2>2, TakeLineKeeps
<1>7. QED BY <1>1, <1>2, <1>4, <1>5, <1>6 DEF LineNext

\* Every step keeps the reader's account.
LEMMA NextLineInv == IInv /\ LineInv /\ [Next]_vars => LineInv'
<1> SUFFICES ASSUME IInv, LineInv, [Next]_vars PROVE LineInv' OBVIOUS
<1>0. TypeOK /\ ReadInv /\ task \in [Requests -> TaskStep] BY DEF IInv, TypeOK, CallTypes
<1>1. ASSUME UNCHANGED <<stream, consumed, buffer, eof, verdict, task>>,
             input' # "ended" => input # "ended"
      PROVE  LineInv'
  <2>1. Started' = Started BY <1>1 DEF Started
  <2>2. QED BY <1>1, <2>1, QuietLines
<1>2. ASSUME NEW r \in Requests, TaskNext(r) PROVE LineInv'
  <2>1. /\ UNCHANGED readVars /\ task[r] \in {"queued", "calling"}
        /\ \E x \in {"calling", "answered"} : task' = [task EXCEPT ![r] = x]
    BY <1>2 DEF TaskNext, Dispatch, RefuseCall, HandleResult, RefuseResource, HandleResource, Respond
  <2>2. Started' = Started BY <1>0, <2>1, MoveStarted
  <2>3. QED BY <2>1, <2>2, QuietLines DEF readVars
<1>3. ASSUME NEW r \in Requests, DrainCancels(r) PROVE LineInv'
  <2>1. {r} \in SUBSET InFlight /\ CancelTasks({r}) /\ UNCHANGED readVars BY <1>3 DEF DrainCancels
  <2>2. Started' = Started BY <2>1, CancelStarted
  <2>3. QED BY <2>1, <2>2, QuietLines DEF readVars
<1>4. CASE Unwind
  <2>1. /\ CancelTasks(InFlight) /\ input' = "ended"
        /\ UNCHANGED <<stream, consumed, buffer, eof, verdict>>
    BY <1>4 DEF Unwind
  <2>2. Started' = Started BY <2>1, CancelStarted
  <2>3. QED BY <2>1, <2>2, QuietLines
<1>5. CASE ReadEof
  <2>1. /\ consumed = Len(stream) /\ UNCHANGED <<stream, consumed, buffer, verdict, input, task>>
    BY <1>5 DEF ReadEof, callVars
  <2>2. Started' = Started /\ UNCHANGED Handed BY <2>1 DEF Started, Handed
  <2>3. ASSUME NEW h, StoppedAt(h) PROVE StoppedAt(h)' BY <2>1, <2>2, <2>3 DEF StoppedAt
  <2>4. LinesUpTo(stream, Handed)' = LinesUpTo(stream, Handed) BY <2>1, <2>2
  <2>5. Delivered(stream, Handed)' = Delivered(stream, Handed) BY <2>1, <2>2
  <2>6. QED BY <2>1, <2>2, <2>3, <2>4, <2>5 DEF LineInv
<1>6. CASE ReadFails
  BY <1>0, <1>6, StopKeeps DEF ReadFails, ReadRaises, callVars, Reading
<1>7. CASE ReplyWritten
  BY <1>1, <1>7 DEF ReplyWritten, callVars
<1>8. ASSUME NEW n \in DOMAIN buffer, LineNext(n) PROVE LineInv'
  BY <1>0, <1>8, LineSteps
<1>9. CASE Launch \/ WriterTakes \/ WriterResumes \/ ClientReads \/ ClientLeaves
           \/ DrainEnds \/ CloseOutput \/ CloseService
  BY <1>1, <1>9 DEF Launch, WriterTakes, WriterResumes, ClientReads, ClientLeaves, DrainEnds,
     CloseOutput, CloseService, readVars, callVars
<1>10. ASSUME NEW r \in Requests, ServiceReturns(r) PROVE LineInv'
  BY <1>1, <1>10 DEF ServiceReturns, readVars
<1>11. ASSUME NEW j \in Jobs, JobNext(j) PROVE LineInv'
  BY <1>1, <1>11 DEF JobNext, WriteBegin, WritePiece, readVars, callVars
<1>12. CASE UNCHANGED vars BY <1>1, <1>12 DEF vars, readVars, callVars
<1>13. QED
  BY <1>0, <1>2, <1>3, <1>4, <1>5, <1>6, <1>7, <1>8, <1>9, <1>10, <1>11, <1>12, ReadMoreLines,
     UnterminatedLines DEF Next, InputNext, LoopNext, FrameNext, EndNext

\* read_frame: however the input is cut into reads, the requests that have been started are
\* the ones that stand alone on a line before the one that ends reading, and the verdict is
\* the fate of that line, for any input, any limit of a frame and any limit of a read.
THEOREM LinesAreReadExactly == Spec => []ReaderExact
<1>1. Init => LineInv
  <2> SUFFICES ASSUME Init PROVE LineInv
    OBVIOUS
  <2>1. Handed = 0 /\ Started = {} /\ verdict = "none" /\ ~eof /\ input = "reading"
    <3>1. /\ consumed = 0 /\ buffer = <<>> /\ eof = FALSE /\ verdict = "none" /\ input = "reading"
          /\ \A r \in Requests : task[r] = "none"
      BY DEF Init
    <3>2. Len(buffer) = 0 BY <3>1
    <3>3. Handed = 0
      <4>1. consumed = 0 BY <3>1
      <4>2. QED BY <4>1, <3>2 DEF Handed
    <3>4. Started = {} BY <3>1 DEF Started
    <3>5. QED BY <3>1, <3>3, <3>4
  <2>2. stream \in Seq(Bytes) BY TransportAssumption DEF Init
  <2>3. \A k \in LineStarts(stream) : ~(k < 0) BY <2>2 DEF LineStarts
  <2>4. LinesUpTo(stream, 0) BY <2>3 DEF LinesUpTo, LineStarts
  <2>5. Delivered(stream, 0) = {} BY <2>3 DEF Delivered
  <2>6. QED BY <2>1, <2>4, <2>5 DEF LineInv
<1>2. IInv => TypeOK BY DEF IInv
<1>3. QED BY <1>1, <1>2, Invariance, InitIInv, NextIInv, NextLineInv, LinesJudged, PTL DEF Spec
===============================================================================
