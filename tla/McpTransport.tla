---------------------------- MODULE McpTransport ----------------------------
(***************************************************************************)
(* The transport of one session: mcp_server/src/defined_quant_mcp/server.py *)
(* over shared/stdio_framing.py.                                           *)
(*                                                                         *)
(* The event loop runs the input task, one task per request and the SDK's  *)
(* writer task; between two awaits a task is one step.  Reading a frame,   *)
(* a call of the service and a write to the client run in threads, which   *)
(* go on when the task that awaits them is cancelled.                      *)
(*                                                                         *)
(* The client's input is a sequence of bytes.  A request or the            *)
(* cancellation of one is a byte of its own: a line that consists of it    *)
(* is JSON, every other line is not.  BadByte is never part of UTF-8; a    *)
(* HardByte alone is a line on which json.loads raises something else than *)
(* JSONDecodeError (nesting or digits beyond the interpreter's limits).  A *)
(* frame on the wire is FramePieces calls of os.write.                     *)
(***************************************************************************)
EXTENDS Integers, Sequences, FiniteSets

CONSTANTS
    ToolCalls,      \* requests served by on_call_tool
    Resources,      \* requests served by on_read_resource
    Cancels,        \* cancellation notifications
    CancelOf,       \* the request each of them names
    Lf, BadByte, HardByte, OtherByte,
    Streams,        \* what a client may send before it closes its end
    MaxFrame,       \* MAX_BINARY_FRAME_BYTES
    MaxRead,        \* MAX_BINARY_READ_BYTES
    FramePieces,    \* writes it takes to send a frame
    PipeSize,       \* pieces the client's pipe holds
    ParseError,     \* the write of the answer to a line that is not JSON
    Nobody

Requests == ToolCalls \cup Resources
Jobs == Requests \cup {ParseError}
Special == {Lf, BadByte, HardByte, OtherByte}
Bytes == Requests \cup Cancels \cup Special

ASSUME TransportAssumption ==
    /\ ToolCalls \cap Resources = {} /\ Requests \cap Cancels = {}
    /\ CancelOf \in [Cancels -> Requests]
    /\ Special \cap (Requests \cup Cancels) = {} /\ Cardinality(Special) = 4
    /\ Streams \subseteq Seq(Bytes)
    /\ \A s \in Streams : \A i, k \in DOMAIN s : i # k /\ s[i] = s[k] => s[i] \notin Requests
    /\ MaxFrame \in Nat \ {0} /\ MaxRead \in Nat \ {0}
    /\ FramePieces \in Nat \ {0} /\ PipeSize \in Nat \ {0}
    /\ ParseError \notin Requests /\ Nobody \notin Jobs

VARIABLES
    stream,     \* what this client sends
    consumed,   \* bytes read from the descriptor
    buffer,     \* BoundedBinaryFrameReader._buffer
    eof,        \* BoundedBinaryFrameReader._eof
    verdict,    \* how read_frame ended, "none" while the input task goes on
    input,      \* the input task
    task,       \* the task of each request
    thread,     \* its call of the service: "none", "running", or what it returned
    event,      \* requests whose cancel_event is set
    audit,      \* the audit records of each request
    answer,     \* what its handler returned or raised to the SDK
    outbox,     \* answers handed to the SDK's writer task
    writer,     \* the answer that task awaits the write of
    job,        \* the thread of each write
    sent,       \* how much of its frame that thread has written
    lock,       \* _ExclusiveAsyncOutput._lock
    wire,       \* the pieces on the wire
    drained,    \* how many of them the client has read
    clientOut,  \* the client keeps its end of the output open
    outOpen,    \* _wire_descriptor is not -1
    phase,      \* main() and run_stdio
    errors,     \* what the tasks of the session raised
    exit        \* the exit status, 255 while the process runs

readVars  == <<stream, consumed, buffer, eof, verdict, input>>
callVars  == <<task, thread, event, audit, answer>>
writeVars == <<outbox, writer>>
wireVars  == <<job, sent, lock, wire, drained, clientOut, outOpen>>
mainVars  == <<phase, errors, exit>>
vars == <<readVars, callVars, writeVars, wireVars, mainVars>>

FrameError == {"frame_too_large", "incomplete_frame", "invalid_utf8", "read_failed"}
ServiceResult == {"ok", "too_large", "allowed_failure", "other_failure", "exception"}
Answer == {"ok", "result_limit_exceeded", "failure", "internal_failure", "refused"}
Outcome == {"ok", "failure", "internal_failure", "refused", "worker_cancelled"}
TaskStep == {"none", "queued", "calling", "answered", "cancelled"}
Phase == {"starting", "serving", "draining", "unwinding", "closing", "cleanup", "exited"}

Init ==
    /\ stream \in Streams /\ consumed = 0 /\ buffer = <<>> /\ eof = FALSE
    /\ verdict = "none" /\ input = "reading"
    /\ task = [r \in Requests |-> "none"]
    /\ thread = [r \in Requests |-> "none"]
    /\ event = {}
    /\ audit = [r \in Requests |-> <<>>]
    /\ answer = [r \in Requests |-> "none"]
    /\ outbox = <<>> /\ writer = Nobody
    /\ job = [j \in Jobs |-> "none"] /\ sent = [j \in Jobs |-> 0]
    /\ lock = Nobody /\ wire = <<>> /\ drained = 0
    /\ clientOut = TRUE /\ outOpen = TRUE
    /\ phase = "starting" /\ errors = {} /\ exit = 255

\* The event loop runs tasks; later it is blocked in output.close() or gone.
Running == phase \in {"serving", "draining", "unwinding"}

-----------------------------------------------------------------------------
(* main(): launch *)

Launch ==
    /\ phase = "starting"
    /\ \/ phase' = "serving" /\ UNCHANGED exit
       \/ phase' = "exited" /\ exit' \in {64, 69, 70}
    /\ UNCHANGED <<readVars, callVars, writeVars, wireVars, errors>>

-----------------------------------------------------------------------------
(* BoundedBinaryFrameReader.read_frame, in the thread the input task awaits. *)
(* A thread abandoned by the cancelled input task has no further effect.     *)

Reading == Running /\ input = "reading"
HasLine == \E i \in DOMAIN buffer : buffer[i] = Lf
\* buffer.find: the first LF is the n-th byte.
EndsLine(n) == buffer[n] = Lf /\ \A k \in 1..(n - 1) : buffer[k] # Lf

\* A read of at most the requested bytes; how many arrive is up to the client.
ReadMore ==
    /\ Reading /\ ~HasLine /\ ~eof
    /\ Len(buffer) < MaxFrame
    /\ \E n \in 1..MaxRead :
        /\ n <= MaxFrame - Len(buffer)
        /\ consumed + n <= Len(stream)
        /\ consumed' = consumed + n
        /\ buffer' = buffer \o SubSeq(stream, consumed + 1, consumed + n)
    /\ UNCHANGED <<stream, eof, verdict, input, callVars, writeVars, wireVars, mainVars>>

ReadEof ==
    /\ Reading /\ ~HasLine /\ ~eof
    /\ Len(buffer) < MaxFrame
    /\ consumed = Len(stream)
    /\ eof' = TRUE
    /\ UNCHANGED <<stream, consumed, buffer, verdict, input, callVars, writeVars, wireVars, mainVars>>

\* read_frame raises: the input task fails, and with it the task group.
ReadRaises(code) ==
    /\ verdict' = code /\ input' = "ended"
    /\ errors' = errors \cup {"framing"} /\ phase' = "unwinding"
    /\ UNCHANGED <<stream, consumed, eof, callVars, writeVars, wireVars, exit>>

ReadFails ==
    /\ Reading /\ ~HasLine /\ ~eof
    /\ Len(buffer) < MaxFrame
    /\ ReadRaises("read_failed")
    /\ UNCHANGED buffer

RefuseUnterminated ==
    /\ Reading /\ ~HasLine
    /\ Len(buffer) >= MaxFrame
    /\ ReadRaises("frame_too_large")
    /\ UNCHANGED buffer

RefuseIncomplete ==
    /\ Reading /\ ~HasLine /\ eof
    /\ buffer # <<>> /\ Len(buffer) < MaxFrame
    /\ ReadRaises("incomplete_frame")
    /\ UNCHANGED buffer

\* A clean end of the input: the SDK lets the session run out.
EndOfInput ==
    /\ Reading /\ eof /\ buffer = <<>>
    /\ verdict' = "eof" /\ input' = "ended"
    /\ phase' = IF phase = "serving" THEN "draining" ELSE phase
    /\ UNCHANGED <<stream, consumed, buffer, eof, callVars, writeVars, wireVars, errors, exit>>

RefuseLineEarly(n) ==
    /\ Reading /\ EndsLine(n)
    /\ \/ n >= MaxFrame /\ ReadRaises("frame_too_large") /\ UNCHANGED buffer
       \/ /\ n <= MaxFrame
          /\ \E i \in 1..(n - 1) : buffer[i] = BadByte
          /\ ReadRaises("invalid_utf8")
          /\ buffer' = SubSeq(buffer, n + 1, Len(buffer))

RefuseLine(n) ==
    /\ Reading /\ EndsLine(n)
    /\ \/ n > MaxFrame /\ ReadRaises("frame_too_large") /\ UNCHANGED buffer
       \/ /\ n <= MaxFrame
          /\ \E i \in 1..(n - 1) : buffer[i] = BadByte
          /\ ReadRaises("invalid_utf8")
          /\ buffer' = SubSeq(buffer, n + 1, Len(buffer))

-----------------------------------------------------------------------------
(* _BoundedAsyncInput.__anext__ and the SDK's dispatch of what it returns *)

\* The request's task is cancelled at its only await, the call of the service:
\* _cancellable_call sets the event, on_call_tool audits and raises.
CancelTasksSilently(S) ==
    /\ task' = [r \in Requests |-> IF r \in S THEN "cancelled" ELSE task[r]]
    /\ event' = event
    /\ audit' = [r \in Requests |-> IF r \in S \cap ToolCalls /\ task[r] = "calling"
                                    THEN Append(audit[r], "worker_cancelled") ELSE audit[r]]
    /\ UNCHANGED <<thread, answer>>

CancelTasks(S) ==
    /\ task' = [r \in Requests |-> IF r \in S THEN "cancelled" ELSE task[r]]
    /\ event' = event \cup {r \in S \cap ToolCalls : task[r] = "calling"}
    /\ audit' = [r \in Requests |-> IF r \in S \cap ToolCalls /\ task[r] = "calling"
                                    THEN Append(audit[r], "worker_cancelled") ELSE audit[r]]
    /\ UNCHANGED <<thread, answer>>

InFlight == {r \in Requests : task[r] \in {"queued", "calling"}}

\* A line of n bytes goes to the input task, which looks at it as JSON.
TakeLine(n) ==
    /\ Reading /\ EndsLine(n) /\ n <= MaxFrame
    /\ \A i \in 1..(n - 1) : buffer[i] # BadByte
    /\ buffer' = SubSeq(buffer, n + 1, Len(buffer))
    /\ UNCHANGED <<stream, consumed, eof, verdict>>

\* The line is the byte b alone.
Is(n, b) == n = 2 /\ buffer[1] = b

DeliverRequest(n, r) ==
    /\ TakeLine(n) /\ Is(n, r)
    /\ task' = [task EXCEPT ![r] = "queued"]
    /\ UNCHANGED <<input, thread, event, audit, answer, writeVars, wireVars, mainVars>>

DeliverCancel(n, c) ==
    /\ TakeLine(n) /\ Is(n, c)
    /\ CancelTasks(InFlight \cap {CancelOf[c]})
    /\ UNCHANGED <<input, writeVars, wireVars, mainVars>>

JsonRaises(n) ==
    /\ TakeLine(n) /\ Is(n, HardByte)
    /\ input' = "ended"
    /\ errors' = errors \cup {"json"} /\ phase' = "unwinding"
    /\ UNCHANGED <<callVars, writeVars, wireVars, exit>>

ReplyParseError(n) ==
    /\ TakeLine(n)
    /\ \A b \in Requests \cup Cancels \cup {HardByte} : ~Is(n, b)
    /\ input' = "replying"
    /\ job' = [job EXCEPT ![ParseError] = "waiting"]
    /\ UNCHANGED <<callVars, writeVars, sent, lock, wire, drained, clientOut, outOpen, mainVars>>

\* A write that failed raises in the task that awaits it.
WriteRaises == errors' = errors \cup {"os"} /\ phase' = "unwinding"

ReplyWritten ==
    /\ Running /\ input = "replying"
    /\ \/ job[ParseError] = "done" /\ input' = "reading" /\ UNCHANGED <<errors, phase>>
       \/ job[ParseError] = "failed" /\ input' = "ended" /\ WriteRaises
    /\ UNCHANGED <<stream, consumed, buffer, eof, verdict, callVars, writeVars, wireVars, exit>>

-----------------------------------------------------------------------------
(* on_call_tool and on_read_resource *)

Respond(r, code) ==
    /\ task' = [task EXCEPT ![r] = "answered"]
    /\ answer' = [answer EXCEPT ![r] = code]
    /\ outbox' = Append(outbox, r)

Audit(r, outcome) == audit' = [audit EXCEPT ![r] = Append(@, outcome)]

\* An unknown tool, arguments too large, another schema or an invalid request:
\* refused before the service is called.
RefuseCall(r) ==
    /\ Running /\ task[r] = "queued"
    /\ Respond(r, "refused") /\ Audit(r, "refused")
    /\ UNCHANGED <<readVars, thread, event, writer, wireVars, mainVars>>

RefuseResource(r) ==
    /\ Running /\ task[r] = "queued"
    /\ Respond(r, "refused")
    /\ UNCHANGED <<readVars, thread, event, audit, writer, wireVars, mainVars>>

Dispatch(r) ==
    /\ Running /\ task[r] = "queued"
    /\ task' = [task EXCEPT ![r] = "calling"]
    /\ thread' = [thread EXCEPT ![r] = "running"]
    /\ UNCHANGED <<readVars, event, audit, answer, writeVars, wireVars, mainVars>>

\* The service returns or raises, also when nobody awaits it any more.
ServiceReturns(r) ==
    /\ thread[r] = "running" /\ phase # "exited"
    /\ \E result \in ServiceResult : thread' = [thread EXCEPT ![r] = result]
    /\ UNCHANGED <<readVars, task, event, audit, answer, writeVars, wireVars, mainVars>>

\* What _failure_result, _resource_error and _bounded_tool_result make of it.
AnswerTo(result) ==
    CASE result = "ok" -> "ok"
      [] result = "too_large" -> "result_limit_exceeded"
      [] result = "allowed_failure" -> "failure"
      [] OTHER -> "internal_failure"

\* The audit has the outcome before the answer was bounded or its code replaced.
OutcomeOf(result) ==
    CASE result \in {"ok", "too_large"} -> "ok"
      [] result = "exception" -> "internal_failure"
      [] OTHER -> "failure"

HandleResultOnlySuccess(r) ==
    /\ Running /\ task[r] = "calling" /\ thread[r] \in {"ok", "too_large"}
    /\ Respond(r, AnswerTo(thread[r])) /\ Audit(r, OutcomeOf(thread[r]))
    /\ event' = event \cup {r}
    /\ UNCHANGED <<readVars, thread, writer, wireVars, mainVars>>

HandleResultLate(r) ==
    /\ Running /\ task[r] \in {"calling", "cancelled"} /\ thread[r] \in ServiceResult
    /\ Respond(r, AnswerTo(thread[r])) /\ Audit(r, OutcomeOf(thread[r]))
    /\ event' = event \cup {r}
    /\ UNCHANGED <<readVars, thread, writer, wireVars, mainVars>>

HandleResult(r) ==
    /\ Running /\ task[r] = "calling" /\ thread[r] \in ServiceResult
    /\ Respond(r, AnswerTo(thread[r])) /\ Audit(r, OutcomeOf(thread[r]))
    /\ event' = event \cup {r}
    /\ UNCHANGED <<readVars, thread, writer, wireVars, mainVars>>

HandleResource(r) ==
    /\ Running /\ task[r] = "calling" /\ thread[r] \in ServiceResult
    /\ Respond(r, AnswerTo(thread[r]))
    /\ UNCHANGED <<readVars, thread, event, audit, writer, wireVars, mainVars>>

-----------------------------------------------------------------------------
(* The SDK's writer task and _ExclusiveAsyncOutput *)

WriterTakes ==
    /\ Running /\ writer = Nobody /\ outbox # <<>>
    /\ writer' = Head(outbox) /\ outbox' = Tail(outbox)
    /\ job' = [job EXCEPT ![Head(outbox)] = "waiting"]
    /\ UNCHANGED <<readVars, callVars, sent, lock, wire, drained, clientOut, outOpen, mainVars>>

WriterResumes ==
    /\ Running /\ writer # Nobody
    /\ \/ job[writer] = "done" /\ UNCHANGED <<errors, phase>>
       \/ job[writer] = "failed" /\ WriteRaises
    /\ writer' = Nobody
    /\ UNCHANGED <<readVars, callVars, outbox, wireVars, exit>>

WriteBeginUnlocked(j) ==
    /\ job[j] = "waiting" /\ phase # "exited"
    /\ lock' = j
    /\ job' = [job EXCEPT ![j] = "writing"] /\ sent' = [sent EXCEPT ![j] = 0]
    /\ UNCHANGED <<readVars, callVars, writeVars, wire, drained, clientOut, outOpen, mainVars>>

WriteBegin(j) ==
    /\ job[j] = "waiting" /\ phase # "exited"
    /\ lock = Nobody
    /\ lock' = j
    /\ job' = [job EXCEPT ![j] = "writing"] /\ sent' = [sent EXCEPT ![j] = 0]
    /\ UNCHANGED <<readVars, callVars, writeVars, wire, drained, clientOut, outOpen, mainVars>>

\* One more piece of j's frame; with the last one the thread is done.
PutPiece(j) ==
    /\ Len(wire) - drained < PipeSize
    /\ wire' = Append(wire, [job |-> j, piece |-> sent[j] + 1])
    /\ sent' = [sent EXCEPT ![j] = @ + 1]
    /\ IF sent[j] + 1 = FramePieces
       THEN job' = [job EXCEPT ![j] = "done"] /\ lock' = Nobody
       ELSE UNCHANGED <<job, lock>>

WritePieceKeepsLock(j) ==
    /\ job[j] = "writing" /\ phase # "exited"
    /\ IF outOpen /\ clientOut
       THEN PutPiece(j)
       ELSE job' = [job EXCEPT ![j] = "failed"] /\ UNCHANGED <<lock, wire, sent>>
    /\ UNCHANGED <<readVars, callVars, writeVars, drained, clientOut, outOpen, mainVars>>

\* One os.write: it waits for room, and fails when the descriptor was withdrawn
\* or the client has closed its end.
WritePiece(j) ==
    /\ job[j] = "writing" /\ phase # "exited"
    /\ IF outOpen /\ clientOut
       THEN PutPiece(j)
       ELSE job' = [job EXCEPT ![j] = "failed"] /\ lock' = Nobody /\ UNCHANGED <<wire, sent>>
    /\ UNCHANGED <<readVars, callVars, writeVars, drained, clientOut, outOpen, mainVars>>

ClientReads ==
    /\ clientOut /\ drained < Len(wire)
    /\ drained' = drained + 1
    /\ UNCHANGED <<readVars, callVars, writeVars, job, sent, lock, wire, clientOut, outOpen, mainVars>>

ClientLeaves ==
    /\ clientOut /\ phase # "exited"
    /\ clientOut' = FALSE
    /\ UNCHANGED <<readVars, callVars, writeVars, job, sent, lock, wire, drained, outOpen, mainVars>>

-----------------------------------------------------------------------------
(* The end of the session: the SDK's task groups, then run_stdio and main() *)

\* After the end of input the SDK may cancel what is still in flight.
DrainCancels(r) ==
    /\ phase = "draining" /\ r \in InFlight
    /\ CancelTasks({r})
    /\ UNCHANGED <<readVars, writeVars, wireVars, mainVars>>

DrainEnds ==
    /\ phase = "draining"
    /\ InFlight = {} /\ outbox = <<>> /\ writer = Nobody
    /\ phase' = "closing"
    /\ UNCHANGED <<readVars, callVars, writeVars, wireVars, errors, exit>>

\* A task raised: the task groups cancel every other one and forget the outbox.
Unwind ==
    /\ phase = "unwinding"
    /\ CancelTasks(InFlight)
    /\ input' = "ended"
    /\ outbox' = <<>> /\ writer' = Nobody
    /\ phase' = "closing"
    /\ UNCHANGED <<stream, consumed, buffer, eof, verdict, wireVars, errors, exit>>

\* output.close(), on the event loop's thread: it waits for the writers' lock.
CloseOutput ==
    /\ phase = "closing" /\ lock = Nobody
    /\ outOpen' = FALSE
    /\ phase' = "cleanup"
    /\ UNCHANGED <<readVars, callVars, writeVars, job, sent, lock, wire, drained, clientOut, errors, exit>>

\* service.close(), whose steps are those of module Service, and the exit status:
\* only framing errors are swallowed by run_stdio.
CloseService ==
    /\ phase = "cleanup"
    /\ exit' = IF errors \subseteq {"framing"} THEN 0 ELSE 70
    /\ phase' = "exited"
    /\ UNCHANGED <<readVars, callVars, writeVars, wireVars, errors>>

-----------------------------------------------------------------------------
InputNext == ReadMore \/ ReadEof \/ ReadFails
LineNext(n) ==
    \/ RefuseLine(n) \/ JsonRaises(n) \/ ReplyParseError(n)
    \/ \E r \in Requests : DeliverRequest(n, r)
    \/ \E c \in Cancels : DeliverCancel(n, c)
FrameNext ==
    \/ RefuseUnterminated \/ RefuseIncomplete \/ EndOfInput
    \/ \E n \in DOMAIN buffer : LineNext(n)
    \/ ReplyWritten
TaskNext(r) ==
    \/ Dispatch(r)
    \/ r \in ToolCalls /\ (RefuseCall(r) \/ HandleResult(r))
    \/ r \in Resources /\ (RefuseResource(r) \/ HandleResource(r))
LoopNext == FrameNext \/ WriterTakes \/ WriterResumes \/ (\E r \in Requests : TaskNext(r))
JobNext(j) == WriteBegin(j) \/ WritePiece(j)
EndNext == DrainEnds \/ Unwind \/ CloseOutput \/ CloseService

Next ==
    \/ Launch \/ InputNext \/ LoopNext
    \/ \E r \in Requests : ServiceReturns(r) \/ DrainCancels(r)
    \/ \E j \in Jobs : JobNext(j)
    \/ ClientReads \/ ClientLeaves
    \/ EndNext

Spec == Init /\ [][Next]_vars

\* The event loop and the threads run; the service returns (EveryRequestEnds of
\* module Service); a client that keeps its end open reads.
FairSpec ==
    /\ Spec
    /\ WF_vars(FrameNext) /\ WF_vars(WriterTakes) /\ WF_vars(WriterResumes)
    /\ \A r \in Requests : WF_vars(TaskNext(r)) /\ WF_vars(ServiceReturns(r))
    /\ \A j \in Jobs : WF_vars(WritePiece(j)) /\ WF_vars(WriteBegin(j))
    /\ WF_vars(ClientReads)
    /\ WF_vars(DrainEnds) /\ WF_vars(Unwind) /\ WF_vars(CloseOutput) /\ WF_vars(CloseService)

-----------------------------------------------------------------------------
(* Properties *)

ReadTypes ==
    /\ stream \in Streams /\ consumed \in 0..Len(stream)
    /\ buffer \in Seq(Bytes) /\ Len(buffer) <= MaxFrame
    /\ eof \in BOOLEAN
    /\ verdict \in FrameError \cup {"none", "eof"}
    /\ input \in {"reading", "replying", "ended"}

CallTypes ==
    /\ task \in [Requests -> TaskStep]
    /\ thread \in [Requests -> ServiceResult \cup {"none", "running"}]
    /\ event \subseteq ToolCalls
    /\ audit \in [Requests -> Seq(Outcome)]
    /\ answer \in [Requests -> Answer \cup {"none"}]

WriteTypes ==
    /\ outbox \in Seq(Requests) /\ writer \in Requests \cup {Nobody}
    /\ job \in [Jobs -> {"none", "waiting", "writing", "done", "failed"}]
    /\ sent \in [Jobs -> 0..FramePieces]
    /\ lock \in Jobs \cup {Nobody}
    /\ wire \in Seq([job : Jobs, piece : 1..FramePieces]) /\ drained \in 0..Len(wire)
    /\ clientOut \in BOOLEAN /\ outOpen \in BOOLEAN

MainTypes ==
    /\ phase \in Phase
    /\ errors \subseteq {"framing", "os", "json"}
    /\ exit \in {0, 64, 69, 70, 255}

\* The types of the transport; the buffer never holds more than one maximal frame.
TypeOK == ReadTypes /\ CallTypes /\ WriteTypes /\ MainTypes

\* Offsets at which a line of s begins, and the position of the LF that ends it.
LineStarts(s) == {0} \cup {i \in DOMAIN s : s[i] = Lf}
EndOfLine(s, i) ==
    CHOOSE k \in (i + 1)..(Len(s) + 1) :
        /\ k = Len(s) + 1 \/ s[k] = Lf
        /\ \A m \in (i + 1)..(k - 1) : s[m] # Lf

\* What the design says of the line that begins at offset i, however it arrives.
FateOfLine(s, i) ==
    IF EndOfLine(s, i) - i > MaxFrame THEN "frame_too_large"
    ELSE IF i = Len(s) THEN "eof"
    ELSE IF EndOfLine(s, i) > Len(s) THEN "incomplete_frame"
    ELSE IF \E k \in (i + 1)..(EndOfLine(s, i) - 1) : s[k] = BadByte THEN "invalid_utf8"
    ELSE "line"

StopsAt(s) ==
    CHOOSE i \in LineStarts(s) :
        /\ FateOfLine(s, i) # "line"
        /\ \A k \in LineStarts(s) : k < i => FateOfLine(s, k) = "line"

\* The requests that stand alone on a line before the one that ends the session.
Deliverable(s) ==
    {r \in Requests : \E i \in LineStarts(s) :
        i < StopsAt(s) /\ EndOfLine(s, i) = i + 2 /\ s[i + 1] = r}

\* However the bytes are cut into reads, read_frame hands over the same lines and ends
\* with the same verdict: the size limit, the end of input and UTF-8 are judged per line.
ReaderExact ==
    /\ {r \in Requests : task[r] # "none"} \subseteq Deliverable(stream)
    /\ verdict \notin {"none", "read_failed"} =>
        /\ verdict = FateOfLine(stream, StopsAt(stream))
        /\ {r \in Requests : task[r] # "none"} = Deliverable(stream)

\* _ExclusiveAsyncOutput._lock: frames never mix on the wire, whichever task or abandoned
\* thread writes them, and only a client that left can have seen half a frame.
WholeFrames ==
    /\ \A i \in DOMAIN wire :
        IF i = 1 \/ wire[i - 1].piece = FramePieces
        THEN wire[i].piece = 1
        ELSE wire[i] = [job |-> wire[i - 1].job, piece |-> wire[i - 1].piece + 1]
    /\ wire # <<>> /\ wire[Len(wire)].piece # FramePieces =>
        lock = wire[Len(wire)].job \/ ~clientOut

\* _cancellable_call: a call of the service that nobody awaits any more has its cancel
\* event set, and once the session is over nobody awaits any.
AbandonedAreSignalled ==
    \A r \in ToolCalls : thread[r] = "running" =>
        \/ r \in event
        \/ task[r] = "calling" /\ Running

\* on_call_tool: a call leaves one audit record when its task ends, or none if it was
\* cancelled before it began, and a cancelled call is not answered.  The record's outcome is
\* taken before the answer is bounded: the calls audited as "ok" are those answered with a
\* result and those told that the result is too large, and no others.
OneAuditPerCall ==
    \A r \in ToolCalls :
        /\ task[r] \in {"none", "queued", "calling"} => audit[r] = <<>> /\ answer[r] = "none"
        /\ task[r] = "answered" => Len(audit[r]) = 1 /\ answer[r] # "none"
        /\ task[r] = "cancelled" =>
            /\ audit[r] = IF thread[r] = "none" THEN <<>> ELSE <<"worker_cancelled">>
            /\ answer[r] = "none"
        /\ audit[r] = <<"ok">> <=> answer[r] \in {"ok", "result_limit_exceeded"}

OnWire(r) == \E i \in DOMAIN wire : wire[i] = [job |-> r, piece |-> FramePieces]

\* Every call of the service ends in an answer on the wire, in a cancellation or with the session.
AnswersArrive ==
    \A r \in Requests :
        task[r] = "calling" ~> OnWire(r) \/ task[r] = "cancelled" \/ phase = "exited"

\* After the end of input, a bad frame or a failed write the process exits.
SessionEnds == phase \in {"draining", "unwinding"} ~> phase = "exited"
=============================================================================
