------------------------------- MODULE WinRm --------------------------------
(***************************************************************************)
(* WinRmDecoder (src/engine/decoders/winrm.rs): the sessions whose         *)
(* one-shot winrm_https_session transaction is out, and the events of a    *)
(* chunk.  The body of a chunk on port 5985 is [http, wsman, op]: whether  *)
(* it is empty or looks like HTTP, whether it is a POST to /wsman, and the *)
(* operation its action stands for.                                        *)
(***************************************************************************)
EXTENDS Integers, Sequences

Port(c) == IF c.dport \in {5985, 5986} THEN c.dport ELSE c.sport

Server(c) == IF c.dport = Port(c) THEN c.dst ELSE c.src

Winrm(c, what, key) ==
    [ts |-> c.ts, src |-> c.src, dst |-> c.dst,
     rest |-> <<<<c.sport, c.dport>>, key[1], key[2]>>, what |-> what,
     req |-> 0, resp |-> 0]

Asset(c) == Winrm(c, "asset", <<"asset_observation:winrm", Server(c)>>)

HttpsSession(c) ==
    Winrm(c, "https", <<"protocol_transaction:winrm", "winrm_https_session">>)

\* on_stream_chunk on port 5985.
PlainEvents(c) ==
    CASE c.body.wsman ->
            <<Winrm(c, "wsman", <<"protocol_transaction:winrm", c.body.op>>)>>
      [] ~c.body.wsman /\ ~c.body.http ->
            <<Winrm(c, "anomaly", <<"parse_anomaly:winrm", "not HTTP">>)>>
      [] OTHER -> <<>>

\* The events of on_stream_chunk.
WinRmEvents(sessions, c) ==
    <<Asset(c)>> \o
    (IF Port(c) = 5985 THEN PlainEvents(c)
     ELSE IF c.session \in sessions THEN <<>> ELSE <<HttpsSession(c)>>)

\* The sessions after on_stream_chunk.
WinRmSessions(sessions, c) ==
    IF Port(c) = 5986 THEN sessions \cup {c.session} ELSE sessions

\* The sessions after evict_idle, which forgets all of them.
WinRmEvict(sessions) == {}

=============================================================================
