----------------------------- MODULE ReapiClient -----------------------------
(***************************************************************************)
(* The REAPI client's setup (src/reapi/reapi.go) as a caller such as the  *)
(* proxy subcommand runs it: Option.UpdateProjectID, CheckValid, NeedCred *)
(* (with cred.New when it holds), New, which dials the execution          *)
(* connection and, with a separate CAS address, the CAS connection        *)
(* (newConn), then NewFromConn, which fetches the server's capabilities,  *)
(* picks the blob compressor and parses -reapi_version_to_use; finally    *)
(* Close.                                                                  *)
(*                                                                         *)
(* Addresses are abstracted to what the code tests of them: empty,        *)
(* Google RBE, another *.googleapis.com:443 service, or another server.   *)
(* An instance is a record: the project it is under ("none" when it does  *)
(* not start with projects/) and its name.  Every dial, file read and RPC *)
(* may fail.                                                               *)
(***************************************************************************)
EXTENDS Naturals

CONSTANTS
    Addrs,        \* -reapi_address values
    CasAddrs,     \* -reapi_cas_address values ("" shares the connection)
    Instances,    \* -reapi_instance values
    ProjIDs,      \* project IDs passed to UpdateProjectID
    Versions,     \* -reapi_version_to_use: "" or [major, minor], or "bad"
    ServerHigh    \* the server's high API versions

NoAddr == "none"
\* isGoogleRBE (lines 147-149), and the *.googleapis.com:443 suffix test
\* of newConn (line 387).
IsGoogleRBE(a) == a = "rbe"
IsGoogleapis(a) == a \in {"rbe", "googleapis"}

NoClient == [compressor |-> "none", apiVersion |-> "none"]

Inst(p, nm) == [proj |-> p, name |-> nm]
EmptyInst == Inst("none", "")

VARIABLES
    step,    \* the caller: "update", "check", "dial", "dialCas", "caps",
             \* "ready", "closed", "failed"
    opt,     \* the Option: addr, cas, instance, insecure, cert, key,
             \* grpcComp, compBlob, version
    projOut, \* UpdateProjectID's result
    conns,   \* "conn", "cas" -> "none", "insecure", "secure", "closed"
    server,  \* the server's capabilities: compressors, high version
    client   \* the Client: compressor, apiVersion; NoClient before New

rcVars == <<step, opt, projOut, conns, server, client>>

Options ==
    [addr: Addrs, cas: CasAddrs, instance: Instances, insecure: BOOLEAN,
     cert: BOOLEAN, key: BOOLEAN, grpcComp: BOOLEAN,
     compBlob: {0, 1024}, version: Versions]

Servers == [compressors: {{}, {"zstd"}}, high: ServerHigh]

Init ==
    /\ step = "update"
    /\ opt \in Options
    /\ projOut = ""
    /\ conns = [c \in {"conn", "cas"} |-> "none"]
    /\ server \in Servers
    /\ client = NoClient

Fail == step' = "failed"

\* UpdateProjectID (lines 170-186): only for RBE; a project puts a bare
\* instance under it, an instance under a project gives the project, and
\* neither makes the option invalid.
UpdateProjectID ==
    /\ step = "update"
    /\ \E projID \in ProjIDs :
          LET under == opt.instance.proj # "none"
          IN /\ opt' = IF ~IsGoogleRBE(opt.addr) THEN opt
                       ELSE CASE projID # "" /\ ~under ->
                                   [opt EXCEPT !.instance = Inst(projID, opt.instance.name)]
                              [] projID = "" /\ ~under ->
                                   [opt EXCEPT !.instance = EmptyInst]
                              [] OTHER -> opt
             /\ projOut' = CASE ~IsGoogleRBE(opt.addr) -> ""
                             [] projID = "" /\ under -> opt.instance.proj
                             [] OTHER -> projID
    /\ step' = "check"
    /\ UNCHANGED <<conns, server, client>>

\* CheckValid (lines 188-197).
Valid(o) == o.addr # NoAddr /\ ~(IsGoogleRBE(o.addr) /\ o.instance = EmptyInst)

\* NeedCred (lines 199-215).
NeedCred(o) == o.addr # NoAddr /\ Valid(o) /\ ~o.insecure /\ ~o.cert /\ ~o.key

\* The caller (fscmd flush, proxy, logout, ps) runs CheckValid and, when
\* NeedCred, cred.New, which may fail, before New.
CheckAndCred ==
    /\ step = "check"
    /\ IF ~Valid(opt) THEN Fail
       ELSE IF NeedCred(opt) THEN step' \in {"dial", "failed"} ELSE step' = "dial"
    /\ UNCHANGED <<opt, projOut, conns, server, client>>

\* newConn (lines 364-449) for one address: the insecure path refuses a
\* googleapis address and dials without TLS; otherwise the CA file (when
\* given) and the mTLS pair are loaded, a cert without key or key without cert refused,
\* and the pool dialed.  Any step may fail.  Setting CompressedBlob to 0
\* under gRPC compression (lines 375-381) writes newConn's own copy of
\* the Option, so it changes nothing here.  The result: "insecure",
\* "secure" or "error".
DialOutcomes(a) ==
    IF opt.insecure
    THEN IF IsGoogleapis(a) THEN {"error"} ELSE {"insecure", "error"}
    ELSE IF opt.cert # opt.key THEN {"error"} ELSE {"secure", "error"}

\* New (lines 340-362): its own address and instance checks, then the
\* connection.
DialConn ==
    /\ step = "dial"
    /\ IF opt.addr = NoAddr \/ (IsGoogleRBE(opt.addr) /\ opt.instance = EmptyInst)
       THEN Fail /\ UNCHANGED conns
       ELSE \E r \in DialOutcomes(opt.addr) :
              IF r = "error" THEN Fail /\ UNCHANGED conns
              ELSE /\ conns' = [conns EXCEPT !["conn"] = r]
                   /\ step' = IF opt.cas = NoAddr THEN "caps" ELSE "dialCas"
    /\ UNCHANGED <<opt, projOut, server, client>>

\* The CAS connection; on error New closes conn (lines 353-360).
DialCas ==
    /\ step = "dialCas"
    /\ \E r \in DialOutcomes(opt.cas) :
          IF r = "error"
          THEN conns' = [conns EXCEPT !["conn"] = "closed"] /\ Fail
          ELSE conns' = [conns EXCEPT !["cas"] = r] /\ step' = "caps"
    /\ UNCHANGED <<opt, projOut, server, client>>

\* selectCompressor: a compressor the server supports, if any (the Option
\* comment, line 62).
SelectCompressor(cs) == IF "zstd" \in cs THEN "zstd" ELSE "identity"

\* NewFromConn (lines 451-501): GetCapabilities, on error conn is closed;
\* then the compressor when CompressedBlob > 0, and the requested API
\* version when it parses (a version outside the server's range is only
\* logged).
NewFromConn ==
    /\ step = "caps"
    /\ \/ /\ conns' = [conns EXCEPT !["conn"] = "closed"]
          /\ Fail
          /\ UNCHANGED client
       \/ /\ client' = [compressor |-> IF opt.compBlob > 0
                                       THEN SelectCompressor(server.compressors)
                                       ELSE "identity",
                        apiVersion |-> IF opt.version \in {"", "bad"} THEN "none"
                                       ELSE opt.version]
          /\ step' = "ready"
          /\ UNCHANGED conns
    /\ UNCHANGED <<opt, projOut, server>>

\* Close (lines 503-506): closes conn.
Close ==
    /\ step = "ready"
    /\ conns' = [conns EXCEPT !["conn"] = "closed"]
    /\ step' = "closed"
    /\ UNCHANGED <<opt, projOut, server, client>>

Finished ==
    /\ step \in {"closed", "failed"}
    /\ UNCHANGED rcVars

Next ==
    \/ UpdateProjectID \/ CheckAndCred \/ DialConn \/ DialCas \/ NewFromConn
    \/ Close \/ Finished

Spec == Init /\ [][Next]_rcVars

----------------------------------------------------------------------------
TypeOK ==
    /\ step \in {"update", "check", "dial", "dialCas", "caps", "ready", "closed", "failed"}
    /\ opt \in [addr: Addrs, cas: CasAddrs, instance: Instances \cup
                  {Inst(p, i.name) : p \in ProjIDs \ {""}, i \in Instances} \cup {EmptyInst},
                insecure: BOOLEAN, cert: BOOLEAN, key: BOOLEAN,
                grpcComp: BOOLEAN, compBlob: {0, 1024}, version: Versions]
    /\ conns \in [{"conn", "cas"} -> {"none", "insecure", "secure", "closed"}]
    /\ client.compressor \in {"none", "zstd", "identity"}

\* The Option comment (lines 67-68) and the flag's help (line 127): with gRPC
\* compression enabled, blob-level compression is forcibly disabled, so
\* a client never picks a blob compressor.
BlobCompressionOffUnderGrpc ==
    client # NoClient /\ opt.grpcComp => client.compressor = "identity"

\* Close's comment (line 502), "Close closes the client": once the client
\* is closed, or its setup has failed, no connection New dialed for it,
\* the execution one or the CAS one, is left open.
ConnectionsReleased ==
    step \in {"closed", "failed"} => \A c \in {"conn", "cas"} : conns[c] \in {"none", "closed"}

====
