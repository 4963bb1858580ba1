--------------------------- MODULE MCMcpTransport ---------------------------
(* McpTransport for TLC: a tool call, a resource, a cancellation, short streams. *)
EXTENDS McpTransport

CONSTANTS c1, q1, n1

MCCancelOf == [n \in {n1} |-> c1]

\* Around the frame limit of three bytes: exact, one too many, with and without LF.
MCLimitStreams ==
    {<<>>, <<Lf>>, <<OtherByte, OtherByte, Lf>>, <<OtherByte, OtherByte, OtherByte>>,
     <<OtherByte, OtherByte, OtherByte, Lf>>, <<OtherByte, OtherByte>>,
     <<c1, Lf, OtherByte, OtherByte, OtherByte>>, <<OtherByte, BadByte, Lf>>,
     <<BadByte>>, <<c1, Lf, Lf>>}

\* Requests that race with each other, with a cancellation and with the end.
MCRaceStreams ==
    {<<c1, Lf, q1, Lf>>, <<c1, Lf, n1, Lf>>, <<n1, Lf, c1, Lf>>,
     <<c1, Lf, OtherByte, Lf, q1, Lf>>, <<c1, Lf, BadByte, Lf>>,
     <<q1, Lf, HardByte, Lf>>, <<c1, Lf, q1, OtherByte, Lf>>}

MCStreams == MCLimitStreams \cup MCRaceStreams
=============================================================================
