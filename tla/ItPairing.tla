------------------------------- MODULE ItPairing -------------------------------
(*****************************************************************************)
(* The IT decoders that park a request until its response comes: DCE/RPC,    *)
(* Diameter, SMB2 and LDAP.                                                  *)
(*****************************************************************************)
EXTENDS Decoding

CONSTANTS MaxFileNames    \* the bound of file_names, 256

-----------------------------------------------------------------------------
(***************************************************************************)
(* The DCE/RPC endpoint-mapper decoder: binds and calls parked by session  *)
(* and call id, in two tables.                                             *)
(***************************************************************************)

DceRpcNew == [binds |-> <<>>, reqs |-> <<>>]

Binds == {"bind", "alter_context"}

BindAcks == {"bind_ack", "alter_context_resp"}

Ignored == {"ping", "auth3", "shutdown"}

DceRpcKey(c) == <<c.session, c.call_id>>

BindTxn(c, op, status) == Transaction(c, op, status)

ReqTxn(c, status) == Transaction(c, "dcerpc_request", status)

OnBind(s, c) ==
    IF c.malformed THEN To(s, Anomaly(c, "medium"))
    ELSE To([s EXCEPT !.binds = Insert(@, DceRpcKey(c), [no |-> c.no, op |-> c.ptype, epm |-> c.epm, ts |-> c.ts])],
            If(c.epm, Asset(c, c.src)))

\* An answer without a bind, or without a call, is dropped in silence.
CompleteBind(s, c, status) ==
    IF DceRpcKey(c) \notin DOMAIN s.binds THEN To(s, <<>>)
    ELSE LET p == s.binds[DceRpcKey(c)]
         IN  To([s EXCEPT !.binds = Without(@, {DceRpcKey(c)})],
                If(p.epm /\ status = "ok", Asset(c, c.src)) \o BindTxn(p, p.op, status))

OnRequest(s, c) ==
    To([s EXCEPT !.reqs = Insert(@, DceRpcKey(c), [no |-> c.no, op |-> "dcerpc_request", ts |-> c.ts])], <<>>)

CompleteReq(s, c, status) ==
    IF DceRpcKey(c) \notin DOMAIN s.reqs THEN To(s, <<>>)
    ELSE To([s EXCEPT !.reqs = Without(@, {DceRpcKey(c)})], ReqTxn(s.reqs[DceRpcKey(c)], status))

Dispatch(s, c) ==
    CASE c.ptype \in Binds -> OnBind(s, c)
      [] c.ptype \in BindAcks -> CompleteBind(s, c, "ok")
      [] c.ptype = "bind_nak" -> CompleteBind(s, c, "failed")
      [] c.ptype = "request" -> OnRequest(s, c)
      [] c.ptype = "response" -> CompleteReq(s, c, "ok")
      [] c.ptype = "fault" -> CompleteReq(s, c, "fault")
      [] c.ptype \in Ignored -> To(s, <<>>)
      [] OTHER -> To(s, Anomaly(c, "low"))

DceRpcOnStreamChunk(s, c) ==
    {IF c.len < 16 \/ c.version # 5 THEN To(s, Anomaly(c, "medium"))
     ELSE LET r == Dispatch(s, c) IN To(r.state, If(~c.le, Anomaly(c, "medium")) \o r.out)}

Expired(t, ts) == {k \in DOMAIN t : NumSeconds(ts - t[k].ts) >= 0}

OnIdleFlush(s, ts) ==
    LET eb == Expired(s.binds, ts)
        er == Expired(s.reqs, ts)
    IN  {To([binds |-> Without(s.binds, eb), reqs |-> Without(s.reqs, er)], b \o r) :
            b \in Drained(s.binds, eb, "request_only"), r \in Drained(s.reqs, er, "request_only")}

-----------------------------------------------------------------------------
(***************************************************************************)
(* The Diameter decoder.  Requests wait under their hop-by-hop id alone,   *)
(* whatever the session; every message is reported when it is read.        *)
(***************************************************************************)

DiameterNew == [pending |-> <<>>, tls_session_emitted |-> FALSE, asset_emitted |-> FALSE]

HeaderLen == 20

CapabilitiesExchange == 257

Known == {257, 280, 282, 258, 271, 274, 275, 268}

Operation(cmd) == IF cmd \in Known THEN cmd ELSE Unknown

DiameterTlsSession == -2

TlsSession(s, c) ==
    To([s EXCEPT !.tls_session_emitted = TRUE],
       If(~s.tls_session_emitted, Asset(c, c.dst) \o Transaction(c, DiameterTlsSession, "observed")))

\* An error message neither parks a request nor takes one out.
DiameterPending(s, c) ==
    IF c.error THEN s.pending
    ELSE IF c.request THEN Insert(s.pending, c.hop_by_hop, [no |-> c.no])
    ELSE Without(s.pending, {c.hop_by_hop})

DiameterStatus(s, c) ==
    IF c.error THEN "error"
    ELSE IF ~c.request /\ c.hop_by_hop \in DOMAIN s.pending THEN "ok"
    ELSE "request_only"

DecodePlaintext(s, c) ==
    LET introduces == c.cmd = CapabilitiesExchange /\ c.request
    IN  IF c.len = 0 THEN To(s, <<>>)
        ELSE IF c.version # 1 THEN To(s, Anomaly(c, "low"))
        ELSE IF c.len < HeaderLen THEN To(s, Anomaly(c, "medium"))
        ELSE To([s EXCEPT !.pending = DiameterPending(s, c), !.asset_emitted = @ \/ introduces],
                If(c.message_length > c.len, Anomaly(c, "medium"))
                \o Transaction(c, Operation(c.cmd), DiameterStatus(s, c))
                \o If(introduces /\ ~s.asset_emitted, Asset(c, c.src)))

DiameterOnStreamChunk(s, c) ==
    {IF 5868 \in {c.dport, c.sport} THEN TlsSession(s, c) ELSE DecodePlaintext(s, c)}

-----------------------------------------------------------------------------
(***************************************************************************)
(* The SMB2 decoder: NetBIOS frames reassembled per session, compound      *)
(* chains walked, requests parked by session and message id, and per       *)
(* session the paths of its trees and the names of its open files.         *)
(* A unit of a payload is the NetBIOS frame that would start there; "pdus" *)
(* are the PDUs its compound chain visits.                                 *)
(***************************************************************************)

Smb2NewSession == [tree_paths |-> <<>>, file_names |-> <<>>, dialect |-> "none", asset_emitted |-> FALSE]

Smb2New == [pending |-> <<>>, sessions |-> <<>>, buffers |-> <<>>]

\* A transaction, with the names it is annotated with and the identifiers they stand for.
Tx(c, p, operation, status, tree, file) ==
    <<Event("protocol_transaction", c,
            [op |-> operation, status |-> status, tree |-> tree, file |-> file,
             id |-> p.message_id, tree_id |-> p.tree_id, file_id |-> p.file_id])>>

\* nt_status_name
StatusName(p) == IF p.status = "success" THEN "ok" ELSE p.status

SessionOf(s, c) == Lookup(s.sessions, c.session, Smb2NewSession)

TreePath(s, c, p) == Lookup(SessionOf(s, c).tree_paths, p.tree_id, "none")

\* "none" as a file id stands for a body too short to hold one.
FileName(s, c, p) ==
    IF p.file_id = "none" THEN "none" ELSE Lookup(SessionOf(s, c).file_names, p.file_id, "none")

KeyByMessage(c, p) == <<p.message_id>>

Smb2Key(c, p) == <<c.session, p.message_id>>

Parked(s, c, p, name) == [s EXCEPT !.pending = Insert(@, Smb2Key(c, p), [no |-> c.no, name |-> name])]

Taken(s, c, p) == [s EXCEPT !.pending = Without(@, {Smb2Key(c, p)})]

\* The name the request had, if it was seen.
AskedName(s, c, p) == Lookup(s.pending, Smb2Key(c, p), [name |-> "none"]).name

NegotiateRequest(s, c, p) ==
    {To(Parked(s, c, p, "none"), Tx(c, p, "negotiate_request", "request_pending", "none", "none"))}

\* The server is whichever side has a server port, the receiver when the sender has none.
Server(c) == IF c.sport \in {139, 445} THEN c.src ELSE c.dst

NegotiateResponse(s, c, p) ==
    LET old == SessionOf(s, c)
        new == [old EXCEPT !.dialect = IF p.name = "none" THEN @ ELSE p.name, !.asset_emitted = TRUE]
        out == Tx(c, p, "negotiate_response", StatusName(p), "none", "none")
    IN  {IF p.status # "success" THEN To(Taken(s, c, p), out)
         ELSE To([Taken(s, c, p) EXCEPT !.sessions = Insert(@, c.session, new)],
                 If(~old.asset_emitted, Asset(c, Server(c))) \o out)}

SessionSetupRequest(s, c, p) ==
    {To(Parked(s, c, p, "none"), Tx(c, p, "session_setup_request", "request_pending", "none", "none"))}

SessionSetupResponse(s, c, p) ==
    {To(Taken(s, c, p),
        If(p.status = "logon_failure", Anomaly(c, "medium"))
        \o Tx(c, p, "session_setup_response", StatusName(p), "none", "none"))}

\* Logging off, and disconnecting a tree, forgets nothing but the parked request.
LogoffRequest(s, c, p) ==
    {To(Parked(s, c, p, "none"), Tx(c, p, "logoff_request", "request_pending", "none", "none"))}

LogoffResponse(s, c, p) ==
    {To(Taken(s, c, p), Tx(c, p, "logoff_response", StatusName(p), "none", "none"))}

TreeConnectRequest(s, c, p) ==
    {To(Parked(s, c, p, p.name), Tx(c, p, "tree_connect_request", "request_pending", p.name, "none"))}

\* set_tree_path
SetTreePath(sess, tree_id, path) == [sess EXCEPT !.tree_paths = Insert(@, tree_id, path)]

TreeConnectResponse(s, c, p) ==
    LET path == AskedName(s, c, p)
        known == p.status = "success" /\ path # "none"
        t == Taken(s, c, p)
    IN  {To(IF known THEN [t EXCEPT !.sessions = Insert(@, c.session, SetTreePath(SessionOf(s, c), p.tree_id, path))]
            ELSE t,
            If(p.status # "success", Anomaly(c, "medium"))
            \o Tx(c, p, "tree_connect_response", StatusName(p), IF known THEN path ELSE "none", "none"))}

CreateRequest(s, c, p) ==
    {To(Parked(s, c, p, p.name), Tx(c, p, "create_request", "request_pending", TreePath(s, c, p), p.name))}

\* set_file_name: a full table first gives up any one of its names.
SetFileName(sess, file_id, name) ==
    LET full == Cardinality(DOMAIN sess.file_names) >= MaxFileNames
        evictions == IF full THEN {{f} : f \in DOMAIN sess.file_names} ELSE {{}}
    IN  {[sess EXCEPT !.file_names = Insert(Without(@, E), file_id, name)] : E \in evictions}

CreateResponse(s, c, p) ==
    LET name == AskedName(s, c, p)
        t == Taken(s, c, p)
    IN  IF p.status = "success" /\ p.file_id # "none" /\ name # "none"
        THEN {To([t EXCEPT !.sessions = Insert(@, c.session, sess)],
                 Tx(c, p, "create_response", "ok", "none", name)) :
                    sess \in SetFileName(SessionOf(s, c), p.file_id, name)}
        ELSE {To(t, Tx(c, p, "create_response", StatusName(p), "none", "none"))}

CloseRequest(s, c, p) ==
    {To(Parked(s, c, p, "none"), Tx(c, p, "close_request", "request_pending", "none", FileName(s, c, p)))}

CloseResponse(s, c, p) ==
    {To(Taken(s, c, p), Tx(c, p, "close_response", StatusName(p), "none", "none"))}

ReadRequest(s, c, p) ==
    {To(Parked(s, c, p, "none"), Tx(c, p, "read_request", "request_pending", "none", FileName(s, c, p)))}

ReadResponse(s, c, p) ==
    {To(Taken(s, c, p), Tx(c, p, "read_response", StatusName(p), "none", "none"))}

WriteRequest(s, c, p) ==
    {To(Parked(s, c, p, "none"), Tx(c, p, "write_request", "request_pending", "none", FileName(s, c, p)))}

WriteResponse(s, c, p) ==
    {To(Taken(s, c, p), Tx(c, p, "write_response", StatusName(p), "none", "none"))}

\* classify_pipe_transceive
PipeSeverity(name) == IF name \in {"svcctl", "samr", "atsvc", "drsuapi"} THEN "high" ELSE "medium"

IoctlRequest(s, c, p) ==
    {To(Parked(s, c, p, "none"),
        If(p.ctl_code = "pipe_transceive" /\ p.file_id # "none", Anomaly(c, PipeSeverity(FileName(s, c, p))))
        \o Tx(c, p, "ioctl_request", "request_pending", TreePath(s, c, p), FileName(s, c, p)))}

IoctlResponse(s, c, p) ==
    {To(Taken(s, c, p), Tx(c, p, "ioctl_response", StatusName(p), "none", "none"))}

\* emit_simple
TreeDisconnect(s, c, p) ==
    {IF p.response
     THEN To(Taken(s, c, p), Tx(c, p, "tree_disconnect_response", StatusName(p), "none", "none"))
     ELSE To(Parked(s, c, p, "none"), Tx(c, p, "tree_disconnect_request", "request_pending", "none", "none"))}

Command(s, c, p) ==
    CASE p.cmd = "negotiate" -> IF p.response THEN NegotiateResponse(s, c, p) ELSE NegotiateRequest(s, c, p)
      [] p.cmd = "session_setup" ->
            IF p.response THEN SessionSetupResponse(s, c, p) ELSE SessionSetupRequest(s, c, p)
      [] p.cmd = "logoff" -> IF p.response THEN LogoffResponse(s, c, p) ELSE LogoffRequest(s, c, p)
      [] p.cmd = "tree_connect" ->
            IF p.response THEN TreeConnectResponse(s, c, p) ELSE TreeConnectRequest(s, c, p)
      [] p.cmd = "tree_disconnect" -> TreeDisconnect(s, c, p)
      [] p.cmd = "create" -> IF p.response THEN CreateResponse(s, c, p) ELSE CreateRequest(s, c, p)
      [] p.cmd = "close" -> IF p.response THEN CloseResponse(s, c, p) ELSE CloseRequest(s, c, p)
      [] p.cmd = "read" -> IF p.response THEN ReadResponse(s, c, p) ELSE ReadRequest(s, c, p)
      [] p.cmd = "write" -> IF p.response THEN WriteResponse(s, c, p) ELSE WriteRequest(s, c, p)
      [] p.cmd = "ioctl" -> IF p.response THEN IoctlResponse(s, c, p) ELSE IoctlRequest(s, c, p)
      [] OTHER -> {To(s, Anomaly(c, "low"))}

DataCommands == {"tree_connect", "create", "read", "write", "ioctl"}

DecodePdu(s, c, p) ==
    LET out == If(p.null_session /\ ~p.response /\ p.cmd \in DataCommands, Anomaly(c, "medium"))
    IN  {To(r.state, out \o r.out) : r \in Command(s, c, p)}

\* The PDUs the walk over a compound chain decodes: it stops at the first that names no
\* successor, and before one that is cut short or whose structure size is wrong.
Decoded(pdus) ==
    LET stops == {i \in DOMAIN pdus : pdus[i].broken \/ pdus[i].next # "next"}
        last == IF stops = {} THEN Len(pdus) ELSE CHOOSE i \in stops : \A j \in stops : i <= j
    IN  SubSeq(pdus, 1, last)

\* decode_frame: a broken header, and a NextCommand inside the header, end the chain with an anomaly.
DecodeFrame(s, c, f) ==
    CASE f.sig = "smb2" ->
            Through(LAMBDA t, p : IF p.broken THEN {To(t, Anomaly(c, "low"))}
                                  ELSE {To(r.state, r.out \o If(p.next = "too_small", Anomaly(c, "low"))) :
                                            r \in DecodePdu(t, c, p)},
                    s, Decoded(f.pdus))
      [] f.sig \in {"smb1", "none"} -> {To(s, <<>>)}
      [] OTHER -> {To(s, Anomaly(c, "low"))}

OnStreamChunkUnbuffered(s, c) ==
    Through(LAMBDA t, f : DecodeFrame(t, c, f), [s EXCEPT !.buffers = Insert(@, c.session, <<>>)],
            Frames(c.payload, 1))

Smb2OnStreamChunk(s, c) ==
    LET buf == Lookup(s.buffers, c.session, <<>>) \o c.payload
    IN  Through(LAMBDA t, f : DecodeFrame(t, c, f),
                [s EXCEPT !.buffers = Insert(@, c.session, Remainder(buf, 1))], Frames(buf, 1))

-----------------------------------------------------------------------------
(***************************************************************************)
(* The LDAP decoder: messages reassembled per session from both of its     *)
(* directions, requests parked by session and message id, LDAPS sessions   *)
(* marked once.  A unit of a payload is the LDAPMessage that would start   *)
(* there; its size exceeds every buffer when its length cannot be told.    *)
(***************************************************************************)

LdapNewSession == [buf |-> <<>>, pending |-> <<>>, server_asset_emitted |-> FALSE]

LdapNew == [sessions |-> <<>>, ldaps_emitted |-> {}]

PairedRequests == {"bind", "search", "modify", "add", "del", "modify_dn", "compare", "extended"}

Responses == {"bind_response", "search_done", "modify_response", "add_response", "del_response",
              "modify_dn_response", "compare_response", "extended_response"}

Unpaired == {"unbind", "search_entry", "abandon"}

OpName(op) == IF op \in PairedRequests \cup Responses \cup Unpaired THEN op ELSE "unknown_op"

HandleLdaps(s, c) ==
    To([s EXCEPT !.ldaps_emitted = @ \cup {c.session}],
       If(c.session \notin s.ldaps_emitted, Asset(c, <<"ldaps", c.dst>>) \o Transaction(c, "ldap_tls_session", "observed")))

\* A response without a result code counts as a success.
NoResult == -1

Failed(m) == m.result \notin {NoResult, 0}

LdapStatus(sess, m) ==
    IF m.op \in PairedRequests THEN "request_only"
    ELSE IF m.op \notin Responses THEN "ok"
    ELSE IF Failed(m) THEN "error"
    ELSE IF m.id \in DOMAIN sess.pending THEN "ok"
    ELSE "response_only"

LdapPending(sess, c, m) ==
    IF m.op \in PairedRequests THEN Insert(sess.pending, m.id, [no |-> c.no])
    ELSE IF m.op \in Responses THEN Without(sess.pending, {m.id})
    ELSE sess.pending

Reported(c, m, status) ==
    If(m.op = "bind_response" /\ m.result = 49, Anomaly(c, "medium"))
    \o If(m.op = "extended" /\ m.starttls, Anomaly(c, "low"))
    \o If(m.op = "bind" /\ m.dn \notin {"none", ""}, Asset(c, <<"client", c.src>>))
    \o Transaction(c, OpName(m.op), status)

EmitMessage(s, c, m) ==
    LET sess == s.sessions[c.session]
    IN  To([s EXCEPT !.sessions[c.session] =
                [sess EXCEPT !.pending = LdapPending(sess, c, m), !.server_asset_emitted = TRUE]],
           If(~sess.server_asset_emitted, Asset(c, <<"server", c.dst>>)) \o Reported(c, m, LdapStatus(sess, m)))

\* A buffer that does not start with a SEQUENCE is thrown away; what is behind a complete
\* message is looked at only once that message is out.
Framed(buf) == [i \in DOMAIN buf |-> IF buf[i].sequence THEN buf[i] ELSE [buf[i] EXCEPT !.size = Len(buf) + 1]]

HandleLdapPlaintext(s, c) ==
    LET sess == Lookup(s.sessions, c.session, LdapNewSession)
        buf == Framed(sess.buf \o c.payload)
        rest == Remainder(buf, 1)
        lost == rest # <<>> /\ ~Head(rest).sequence
        kept == [sess EXCEPT !.buf = IF lost THEN <<>> ELSE rest]
    IN  {To(r.state, r.out \o If(lost, Anomaly(c, "low"))) :
            r \in Through(LAMBDA t, m : {IF m.malformed THEN To(t, Anomaly(c, "low")) ELSE EmitMessage(t, c, m)},
                          [s EXCEPT !.sessions = Insert(@, c.session, kept)], Frames(buf, 1))}

LdapOnStreamChunk(s, c) ==
    IF 636 \in {c.dport, c.sport} THEN {HandleLdaps(s, c)} ELSE HandleLdapPlaintext(s, c)

=============================================================================
