------------------------------ MODULE Requests ------------------------------
(***************************************************************************)
(* One outgoing request and its retries: the clients of worker/src/net --  *)
(* through a proxy, or direct with redirects -- and the connectivity check *)
(* of worker/src/validation around the first of them.                      *)
(*                                                                         *)
(* A request waits for its peer at one place at a time, `stage`, under one *)
(* timer, `left`, but for TLS through a tunnel, which has none.  An event  *)
(* -- an answer, a part of one, the end of the stream, an error, the timer *)
(* -- is one step: the code runs from it to its next wait without          *)
(* interruption.  The peer, the network and the name servers do what they  *)
(* like, in any order.                                                     *)
(*                                                                         *)
(* Bytes are abstracted: an answer of the handshake is complete or cut     *)
(* short; a body has a size in units, the largest accepted being MaxBytes. *)
(***************************************************************************)
EXTENDS Integers, FiniteSets

CONSTANTS
    Timeout,        \* timeoutMs of a request, in ticks
    ConnectTimeout, \* connectTimeoutMs
    Grace,          \* the 250 ms after which no connect is waited for
    MaxBytes,       \* maxResponseBytes, in units of a body
    MaxPieces,      \* pieces a head or a line may come in: its limit in bytes
    Attempts,       \* VALIDATION_RETRIES, the first attempt included
    MaxRedirects,   \* redirects followed by the direct client
    RequireEcho,    \* VALIDATION_REQUIRE_EGRESS_ECHO
    AllowPrivate,   \* ALLOW_PRIVATE_ENDPOINTS
    Statuses,       \* statuses a peer answers with
    Accepted,       \* VALIDATION_SUCCESS_STATUSES
    Jobs            \* the requests that may be asked for

Protocols == {"http", "https", "socks4", "socks5"}

\* Classes of addresses: `private` stands for every range but the metadata's.
Addresses == {"public", "private", "metadata"}
Hosts == Addresses \cup {"name"}

\* secure: the target is https; refused: the policy on targets refuses it.
Job == [client : {"proxied", "direct"}, protocol : Protocols, auth : BOOLEAN,
        secure : BOOLEAN, refused : BOOLEAN, host : Hosts]

ASSUME RequestAssumption ==
    /\ {Timeout, ConnectTimeout, Attempts} \subseteq Nat \ {0}
    /\ {Grace, MaxBytes, MaxPieces, MaxRedirects} \subseteq Nat
    /\ {RequireEcho, AllowPrivate} \subseteq BOOLEAN
    /\ Statuses \subseteq 100 .. 599 /\ Accepted \subseteq 100 .. 599
    /\ Jobs \subseteq Job

VARIABLES
    job,      \* what was asked for
    host,     \* the host to dial: of the proxy, or of the current URL
    nth,      \* attempts begun (proxied), redirects followed (direct)
    stage,    \* what is waited for
    left,     \* ticks until the timer of this wait fires; 0 where it has none
    budget,   \* ticks until the deadline of the request
    ended,    \* the peer has closed its side
    early,    \* bytes behind the last answer of the handshake are buffered
    answer,   \* the head of the response
    got,      \* units of its body that were read
    pieces,   \* pieces of the current head or line
    result,   \* what the latest request returned
    verdict,  \* the outcome of the whole
    pin,      \* the address the resolver's cache has for the name
    open,     \* attempts whose socket is open
    dialled,  \* not in the code: addresses that were connected to
    short,    \* not in the code: this attempt took a cut answer for a whole one
    late      \* not in the code: ticks of silence since the deadline

connection == <<ended, early, answer, got, pieces, open>>
history == <<dialled, short, late>>
vars == <<job, host, nth, stage, left, budget, connection, result, verdict, pin, history>>

Larger(m, n) == IF m >= n THEN m ELSE n
Smaller(m, n) == IF m <= n THEN m ELSE n

Connecting == {"resolving", "connecting", "connectTls"}
Handshake == {"greeting", "auth", "reply", "domain", "address", "socks4", "connect"}
Reading == {"head", "size", "chunk", "trailer", "body"}
Waiting == Connecting \cup Handshake \cup {"tls"} \cup Reading
Timed == Waiting \ {"tls"}

Codes == {"none", "blocked_by_policy", "connect_refused", "connect_reset", "timeout",
          "dns_error", "proxy_unreachable", "tls_error", "protocol_error", "unknown",
          "proxy_auth_failed", "proxy_bad_gateway", "too_many_redirects"}

Framings == {"length", "chunked", "close"}
NoAnswer == [status |-> 0, framing |-> "close", size |-> 0]
\* The size matters where it is declared.
Answers == {a \in [status : Statuses, framing : Framings, size : 0 .. MaxBytes + 1] :
               a.framing # "length" => a.size = 0}

NoResult == [code |-> "none", status |-> 0, truncated |-> FALSE, got |-> 0]
Result == [code : Codes, status : Statuses \cup {0}, truncated : BOOLEAN, got : 0 .. MaxBytes]

Failures == {"unexpected_status", "response_too_large", "no_egress_echo", "egress_local"}
NoVerdict == [reachable |-> FALSE, code |-> "none"]
Verdict == [reachable : BOOLEAN, code : Codes \cup Failures]

TypeOK ==
    /\ job \in Jobs /\ host \in Hosts
    /\ nth \in 0 .. Larger(Attempts, MaxRedirects)
    /\ stage \in Waiting \cup {"ready", "backoff", "over"}
    /\ left \in Nat /\ budget \in 0 .. Timeout
    /\ {ended, early, short} \subseteq BOOLEAN
    /\ answer \in Answers \cup {NoAnswer}
    /\ got \in 0 .. MaxBytes /\ pieces \in 0 .. MaxPieces
    /\ result \in Result /\ verdict \in Verdict
    /\ pin \in Addresses \cup {"none"}
    /\ open \subseteq 0 .. Larger(Attempts, MaxRedirects)
    /\ dialled \subseteq Addresses
    /\ late \in 0 .. 2

Init ==
    /\ job \in Jobs
    /\ host = job.host
    /\ nth = 0
    /\ stage = "ready"
    /\ left = 0 /\ budget = Timeout
    /\ ended = FALSE /\ early = FALSE /\ short = FALSE
    /\ answer = NoAnswer /\ got = 0 /\ pieces = 0
    /\ result = NoResult /\ verdict = NoVerdict
    /\ pin = "none"
    /\ open = {} /\ dialled = {}
    /\ late = 0

Proxied == job.client = "proxied"

-----------------------------------------------------------------------------
(* What a request returns, and what its caller makes of it.                *)

\* The failures worth another attempt.
Retryable == {"timeout", "connect_reset", "protocol_error", "dns_error", "tls_error"}

Ok(r) == r.code = "none" /\ r.status \in 200 .. 399 /\ (Proxied => ~r.truncated)

\* What a response may say of the address it was sent from.
Egress(r) == IF RequireEcho /\ r.got > 0 THEN {"unknown", "local", "public"} ELSE {"unknown"}

Judged(r, egress) ==
    LET answered == Ok(r) /\ r.status \in Accepted
        reachable == answered /\ (RequireEcho => egress = "public")
    IN  [reachable |-> reachable,
         code |-> CASE reachable                           -> "none"
                    [] answered /\ egress = "unknown"      -> "no_egress_echo"
                    [] answered /\ egress = "local"        -> "egress_local"
                    [] r.truncated                         -> "response_too_large"
                    [] r.code # "none"                     -> r.code
                    [] r.status = 407                      -> "proxy_auth_failed"
                    [] r.status \notin Accepted            -> "unexpected_status"
                    [] OTHER                               -> "none"]

\* Mutant: the socket of a request that is over is forgotten.
ClosedNever == open

Closed == open \ {nth}

\* Another attempt follows, or the outcome is known.
Return(r) ==
    /\ result' = r
    /\ IF Proxied /\ r.code \in Retryable /\ nth < Attempts
       THEN stage' = "backoff" /\ UNCHANGED verdict
       ELSE /\ stage' = "over"
            /\ \E egress \in Egress(r) :
                  verdict' = IF Proxied THEN Judged(r, egress)
                             ELSE [reachable |-> Ok(r), code |-> r.code]

Failed(code) == [code |-> code, status |-> 0, truncated |-> FALSE, got |-> 0]

\* The request fails, and its socket is closed unless it `stays` open.
Fail(code, stays) ==
    /\ Return(Failed(code))
    /\ open' = IF stays THEN open ELSE Closed
    /\ UNCHANGED <<host, nth, answer, got, pieces>>

\* Nothing more is known of the socket than that it waits at another place.
Await(place, time) ==
    /\ stage' = place
    /\ left' = time
    /\ UNCHANGED <<host, nth, answer, got, pieces, open, result, verdict>>

\* Mutant: every wait gets the whole time again.
RearmedWhole == Timeout + 1

\* A wait past the deadline gets the least a timer can have.
Rearmed == Larger(1, budget)

-----------------------------------------------------------------------------
(* readHttpResponse: where the reader is after an event.                   *)

At(place, units) == [at |-> place, got |-> units, truncated |-> FALSE, code |-> "none"]
Done(units, cut) == [At("done", units) EXCEPT !.truncated = cut]
Broken(code) == [At("done", 0) EXCEPT !.code = code]

Bodyless(status) == status \in 100 .. 199 \cup {204, 304}

\* Mutant: the declared length is believed.
WantedAll(a) == a.size

\* Units that are waited for when the length is declared.
Wanted(a) == Smaller(a.size, MaxBytes)

\* The head is complete.
HeadRead(a) ==
    IF Bodyless(a.status) THEN Done(0, FALSE)
    ELSE IF a.framing = "chunked" THEN At("size", 0)
    ELSE IF a.framing = "length" /\ Wanted(a) = 0 THEN Done(0, a.size > MaxBytes)
    ELSE At("body", 0)

\* Mutant: a body that ends with the stream has no limit.
UnitReadUncapped(place, a, n) ==
    CASE place = "size" -> {At("trailer", n), Broken("unknown"), Done(n, TRUE)}
      [] place = "body" -> {At("body", n)}
      [] OTHER -> {Done(n, FALSE)}

\* A unit of a body that is not chunked.
BodyRead(a, n) ==
    IF a.framing = "length"
    THEN IF n + 1 = Wanted(a) THEN Done(n + 1, a.size > MaxBytes) ELSE At("body", n + 1)
    ELSE IF n + 1 > MaxBytes THEN Done(n, TRUE) ELSE At("body", n + 1)

\* What was waited for has arrived: the size of a chunk, a chunk of any size that
\* was not too large, a line behind the last one, or a unit of a body with another
\* framing.
UnitRead(place, a, n) ==
    CASE place = "size" -> {At("trailer", n), Broken("unknown"), Done(n, TRUE)} \cup
                           (IF n < MaxBytes THEN {At("chunk", n)} ELSE {})
      [] place = "chunk" -> {At("size", m) : m \in n + 1 .. MaxBytes}
      [] place = "trailer" -> {At("trailer", n), Done(n, FALSE)}
      [] OTHER -> {BodyRead(a, n)}

\* The peer has closed instead.  A number may be complete without its last
\* digits, and a body that is cut short is taken for a whole one.
CloseRead(place, a, n) ==
    CASE place = "head" -> {Broken("protocol_error")}
      [] place = "size" -> {Broken("unknown"), Done(n, FALSE), Done(n, TRUE)}
      [] place = "chunk" -> {Done(m, FALSE) : m \in n .. MaxBytes}
      [] OTHER -> {Done(n, a.size > MaxBytes)}

\* A head that is none is classified by the words in it.
NoHead == {"unknown", "timeout", "protocol_error", "tls_error"}

\* The direct client follows a redirect, whose target is dialled like the first.
Redirected ==
    /\ nth < MaxRedirects
    /\ nth' = nth + 1
    /\ host' \in Hosts
    /\ stage' = "ready"
    /\ UNCHANGED <<result, verdict>>

\* The response is over.  Its socket is closed, but for the redirect too many.
Finish(a, p) ==
    \/ /\ p.code # "none"
       /\ Return(Failed(p.code))
       /\ open' = Closed
       /\ UNCHANGED <<host, nth>>
    \/ /\ p.code = "none"
       /\ Return([code |-> "none", status |-> a.status, truncated |-> p.truncated,
                  got |-> p.got])
       /\ open' = Closed
       /\ UNCHANGED <<host, nth>>
    \/ /\ p.code = "none" /\ ~Proxied /\ a.status \in 300 .. 399
       /\ \/ Redirected /\ open' = Closed
          \/ /\ nth = MaxRedirects
             /\ Return(Failed("too_many_redirects"))
             /\ open' = IF p.truncated THEN Closed ELSE open
             /\ UNCHANGED <<host, nth>>

\* The reader has come to p.  The wait for a declared length is one wait.
Reach(a, p) ==
    /\ answer' = a /\ got' = p.got /\ pieces' = 0
    /\ IF p.at = "done"
       THEN Finish(a, p) /\ UNCHANGED left
       ELSE /\ stage' = p.at
            /\ left' = IF stage = "body" /\ a.framing = "length" THEN left ELSE Rearmed
            /\ UNCHANGED <<host, nth, open, result, verdict>>

\* Mutant: the request is written to a stream that has ended, and waits.
WriteBlindly(buffered, closed) ==
    IF buffered THEN \E a \in Answers : Reach(a, HeadRead(a)) ELSE Await("head", Rearmed)

\* The request has been written.  Bytes left over from the handshake come first.
Write(buffered, closed) ==
    IF buffered THEN \E a \in Answers : Reach(a, HeadRead(a))
    ELSE IF closed THEN Fail("protocol_error", FALSE) /\ UNCHANGED left
    ELSE Await("head", Rearmed)

-----------------------------------------------------------------------------
(* The dial                                                                *)

Allowed(address) == address = "public" \/ (AllowPrivate /\ address = "private")

Refused == job.refused \/ (host # "name" /\ ~Allowed(host))

\* How long a socket may take to connect.
DialTime == IF Proxied THEN ConnectTimeout ELSE Larger(Grace, budget)

Begun == IF Proxied THEN nth + 1 ELSE nth

\* The policy refuses a literal address or the target: no socket is opened.
Reject ==
    /\ stage = "ready" /\ Refused
    /\ nth' = Begun
    /\ result' = Failed("blocked_by_policy")
    /\ verdict' = [reachable |-> FALSE, code |-> "blocked_by_policy"]
    /\ stage' = "over"
    /\ UNCHANGED <<job, host, left, budget, connection, pin, history>>

Dial ==
    /\ stage = "ready" /\ ~Refused
    /\ nth' = Begun
    /\ budget' = IF Proxied THEN Timeout ELSE budget
    /\ left' = DialTime
    /\ ended' = FALSE /\ early' = FALSE /\ answer' = NoAnswer /\ got' = 0 /\ pieces' = 0
    /\ open' = open \cup {Begun}
    /\ short' = FALSE /\ late' = 0
    /\ IF host = "name" THEN stage' = "resolving" /\ UNCHANGED dialled
       ELSE stage' = "connecting" /\ dialled' = dialled \cup {host}
    /\ UNCHANGED <<job, host, result, verdict, pin>>

ConnectTo(address) ==
    /\ Await("connecting", left)
    /\ dialled' = dialled \cup {address}

\* safeResolve with a cached address, which was allowed when it was stored.
ResolveCached ==
    /\ stage = "resolving" /\ pin # "none"
    /\ ConnectTo(pin)
    /\ UNCHANGED <<job, budget, ended, early, pin, short, late>>

\* Mutant: any address of the answer is dialled.
PinnedAny(records) == records

\* The address of an answer that is dialled: the first one that is allowed.
Pinned(records) == {a \in records : Allowed(a)}

Blocked(records) == Pinned(records) = {} \/ ("metadata" \in records /\ ~AllowPrivate)

\* safeResolve with the records of the name servers, which change as they like.
Resolve ==
    /\ stage = "resolving" /\ pin = "none"
    /\ \E records \in SUBSET Addresses :
          \/ /\ records = {}
             /\ Fail("dns_error", FALSE)
             /\ UNCHANGED <<left, pin, dialled>>
          \/ /\ records # {} /\ Blocked(records)
             /\ Fail("blocked_by_policy", FALSE)
             /\ UNCHANGED <<left, pin, dialled>>
          \/ /\ ~Blocked(records)
             /\ \E a \in Pinned(records) : pin' = a /\ ConnectTo(a)
    /\ UNCHANGED <<job, budget, ended, early, short, late>>

\* The time to live of a cache entry is over.
PinExpires ==
    /\ pin # "none" /\ stage # "over"
    /\ pin' = "none"
    /\ UNCHANGED <<job, host, nth, stage, left, budget, connection, result, verdict, history>>

NeedsTls == IF Proxied THEN job.protocol = "https" ELSE job.secure
NeedsTunnel == Proxied /\ (job.secure \/ job.protocol \in {"socks4", "socks5"})

FirstReply == CASE job.protocol = "socks5" -> "greeting"
                [] job.protocol = "socks4" -> "socks4"
                [] OTHER -> "connect"

\* The socket is connected.  Its idle timer starts again for TLS; the other one,
\* which ends `Grace` later, does not.
Connected ==
    /\ stage = "connecting" \/ stage = "connectTls"
    /\ IF stage = "connecting" /\ NeedsTls
       THEN \E more \in 0 .. Grace : Await("connectTls", left + more)
       ELSE Await(IF NeedsTunnel THEN FirstReply ELSE "head", Rearmed)
    /\ UNCHANGED <<job, budget, ended, early, pin, dialled, short>>
    /\ late' = 0

-----------------------------------------------------------------------------
(* The handshake                                                           *)

Socks5Verdict == {"tunnel", "proxy_bad_gateway", "connect_refused", "timeout", "protocol_error"}

\* What a whole answer leads to: the next one, the tunnel or a failure.
Replies(place) ==
    CASE place = "greeting" -> {"reply", "proxy_auth_failed", "protocol_error"} \cup
                               (IF job.auth THEN {"auth"} ELSE {})
      [] place = "auth"     -> {"reply", "proxy_auth_failed", "protocol_error"}
      [] place = "reply"    -> {"domain", "address"} \cup Socks5Verdict
      [] place = "domain"   -> {"address"}
      [] place = "address"  -> Socks5Verdict
      [] place = "socks4"   -> {"tunnel", "connect_refused", "proxy_auth_failed",
                                "proxy_bad_gateway", "protocol_error"}
      [] place = "connect"  -> {"tunnel", "proxy_auth_failed", "proxy_bad_gateway"} \cup NoHead

\* What an answer that is cut short leads to.
CutReplies(place) ==
    CASE place = "greeting" -> {"protocol_error"}
      [] place = "auth"     -> {"protocol_error", "proxy_auth_failed"}
      [] place = "domain"   -> {"proxy_bad_gateway"}
      [] place = "connect"  -> {"protocol_error"}
      [] OTHER              -> Replies(place) \ Handshake

\* The handshake is over: TLS with the target, or the request at once.  The wait
\* for TLS has no timer: tls.connect applies `timeout` only to sockets it makes
\* itself, and the one of the base socket was cleared when it was connected.
Tunnelled(buffered, closed) ==
    IF job.secure
    THEN Await("tls", 0) /\ early' = buffered /\ ended' = closed
    ELSE Write(buffered, closed) /\ UNCHANGED <<early, ended>>

\* Only an answer to CONNECT that refuses closes the socket.
Hangs(code) == ~(stage = "connect" /\ code \in {"proxy_auth_failed", "proxy_bad_gateway"})

Reply ==
    /\ stage \in Handshake
    /\ \E next \in Replies(stage) :
          \/ /\ next \in Handshake
             /\ Await(next, Rearmed)
             /\ UNCHANGED <<early, ended>>
          \/ /\ next = "tunnel"
             /\ \E more \in BOOLEAN : Tunnelled(more, FALSE)
          \/ /\ next \in Codes
             /\ Fail(next, Hangs(next))
             /\ UNCHANGED <<left, early, ended>>
    /\ late' = 0
    /\ UNCHANGED <<job, budget, pin, dialled, short>>

\* The proxy closes in the middle; Node then closes this side.
CutReply ==
    /\ stage \in Handshake
    /\ \/ /\ "tunnel" \in CutReplies(stage)
          /\ Tunnelled(FALSE, TRUE)
          /\ short' = TRUE
       \/ /\ \E code \in CutReplies(stage) \cap Codes : Fail(code, FALSE)
          /\ UNCHANGED <<left, early, ended, short>>
    /\ late' = 0
    /\ UNCHANGED <<job, budget, pin, dialled>>

\* TLS through the tunnel; a tunnel that is closed carries none.
Secured ==
    /\ stage = "tls" /\ ~ended
    /\ Write(early, FALSE)
    /\ late' = 0
    /\ UNCHANGED <<job, budget, ended, early, pin, dialled, short>>

-----------------------------------------------------------------------------
(* The response                                                            *)

\* The head is whole, or is none.
Head ==
    /\ stage = "head"
    /\ \/ \E a \in Answers : Reach(a, HeadRead(a))
       \/ \E code \in NoHead : Fail(code, FALSE) /\ UNCHANGED left
    /\ late' = 0
    /\ UNCHANGED <<job, budget, ended, early, pin, dialled, short>>

InBody == stage \in Reading \ {"head"}

Body ==
    /\ InBody
    /\ \E p \in UnitRead(stage, answer, got) : Reach(answer, p)
    /\ late' = IF stage = "body" /\ answer.framing = "length" THEN late ELSE 0
    /\ UNCHANGED <<job, budget, ended, early, pin, dialled, short>>

\* The peer closes its side.
Close ==
    /\ stage \in Reading
    /\ \E p \in CloseRead(stage, answer, got) : Reach(answer, p)
    /\ late' = 0
    /\ UNCHANGED <<job, budget, ended, early, pin, dialled, short>>

\* A piece of a head or line.  A wait that asks for one byte more starts anew
\* with every piece, up to the limit on their bytes.
Trickle ==
    /\ stage \in {"connect", "head", "size", "trailer"}
    /\ \/ /\ pieces < MaxPieces
          /\ pieces' = pieces + 1 /\ left' = Rearmed
          /\ UNCHANGED <<host, nth, stage, answer, got, open, result, verdict>>
       \/ /\ pieces = MaxPieces
          /\ Fail("unknown", stage = "connect") /\ UNCHANGED left
    /\ late' = 0
    /\ UNCHANGED <<job, budget, ended, early, pin, dialled, short>>

-----------------------------------------------------------------------------
(* Errors, timers and the retry                                            *)

Errors ==
    CASE stage = "connecting" -> {"connect_refused", "connect_reset", "timeout",
                                  "proxy_unreachable", "unknown"}
      [] stage \in {"connectTls", "tls"} -> {"tls_error", "protocol_error", "connect_reset",
                                             "timeout", "unknown"}
      [] OTHER -> {"connect_reset", "timeout", "proxy_unreachable", "unknown"}

\* The socket reports an error, and is closed by it.
Error ==
    /\ stage \in Waiting \ {"resolving"}
    /\ \E code \in Errors : Fail(code, FALSE)
    /\ UNCHANGED <<job, left, budget, ended, early, pin, history>>

\* The timer of the wait.  One of the handshake leaves its socket open.
TimeOut ==
    /\ stage \in Timed /\ left = 0
    /\ Fail("timeout", stage \in Handshake)
    /\ UNCHANGED <<job, left, budget, ended, early, pin, history>>

Tick ==
    /\ stage \in Waiting /\ (stage = "tls" \/ left > 0)
    /\ left' = Larger(0, left - 1)
    /\ budget' = Larger(0, budget - 1)
    /\ late' = IF budget = 0 /\ stage \notin Connecting THEN Smaller(2, late + 1) ELSE late
    /\ UNCHANGED <<job, host, nth, stage, connection, result, verdict, pin, dialled, short>>

\* The delay before another attempt is over.
Retry ==
    /\ stage = "backoff"
    /\ stage' = "ready"
    /\ UNCHANGED <<job, host, nth, left, budget, connection, result, verdict, pin, history>>

\* A peer closes a socket that was left open.
HangUp(n) ==
    /\ n \in open /\ (n # nth \/ stage \in {"backoff", "over"})
    /\ open' = open \ {n}
    /\ UNCHANGED <<job, host, nth, stage, left, budget, ended, early, answer, got, pieces,
                   result, verdict, pin, history>>

Peer == Connected \/ Reply \/ CutReply \/ Secured \/ Head \/ Body \/ Close \/ Trickle \/ Error

Next ==
    \/ Reject \/ Dial \/ ResolveCached \/ Resolve \/ PinExpires
    \/ Peer \/ TimeOut \/ Tick \/ Retry
    \/ \E n \in open : HangUp(n)

Spec == Init /\ [][Next]_vars

\* Nothing is assumed of the peer; timers fire where there are any, and a lookup
\* ends.
FairSpec ==
    /\ Spec
    /\ WF_vars(Reject \/ Dial) /\ WF_vars(ResolveCached \/ Resolve)
    /\ WF_vars(TimeOut) /\ WF_vars(Tick) /\ WF_vars(Retry)

-----------------------------------------------------------------------------
(* Properties                                                              *)

\* No socket is opened to an address the policy forbids: not through a name
\* whose records change between its check and the connection, not through a
\* redirect or a cache entry (safe-lookup.ts, url-policy.ts, ip.ts).
OnlyApprovedDialled ==
    /\ "metadata" \notin dialled
    /\ "private" \in dialled => AllowPrivate

\* A proxy counts as reachable only for an answer with a whole head that came
\* through a whole handshake: neither a handshake cut short nor a body beyond the
\* limit nor a status out of range makes one (socks.ts, http-response.ts,
\* checker.ts).  A body cut short does: the reader returns what there is.
ReachableMeansAnswered ==
    stage = "over" /\ verdict.reachable =>
        /\ ~short /\ ~job.refused /\ dialled # {}
        /\ result.code = "none" /\ answer.status \in 200 .. 399
        /\ Proxied => /\ answer.status \in Accepted
                      /\ answer.size <= MaxBytes \/ Bodyless(answer.status)
                      /\ RequireEcho => got > 0

\* Once a request is over its socket is closed, but for the one of a handshake
\* that failed and the one of a redirect too many, which wait for their peer
\* to close them (proxy-client.ts:402, direct-fetch.ts:107-137).
AnsweredSocketsClosed ==
    /\ ~Proxied => open \subseteq {nth}
    /\ stage \in {"backoff", "over"} /\ nth \in open =>
           \/ result.code = "too_many_redirects"
           \/ Proxied /\ NeedsTunnel /\ answer = NoAnswer

\* Beyond its deadline a request never waits through more than one tick of
\* silence, except for TLS through a tunnel (http-response.ts:35,
\* stream-buffer.ts:124, proxy-client.ts:283).
SilenceBounded == stage \in Timed => late <= 1

\* A request and its retries end, whatever the peer does, unless it opens a
\* tunnel and then stays silent for ever, or sends lines behind the last chunk
\* for ever: neither is limited (concurrency.ts:80-108, proxy-client.ts:283-295,
\* http-response.ts:76-81).
ChecksEnd ==
    \/ <>(stage = "over")
    \/ <>[](stage = "tls")
    \/ []<><<stage = "trailer" /\ Body>>_vars
=============================================================================
