--------------------------- MODULE Requests_proofs ---------------------------
(***************************************************************************)
(* What a request never does, for any limits, statuses and policies, and   *)
(* whatever the peer, the network and the name servers do.                 *)
(***************************************************************************)
EXTENDS Requests, TLAPS

USE RequestAssumption

\* The reader may be at this place of the answer a, n units of its body read.
Within(place, a, n) ==
    /\ place \in {"size", "chunk", "trailer"} => a.framing = "chunked"
    /\ place = "body" => a.framing # "chunked"
    /\ place = "chunk" => n < MaxBytes
    /\ place = "body" /\ a.framing = "length" => n < Wanted(a)

\* The reader's place agrees with the answer it reads, and attempts are counted.
Places ==
    /\ InBody => answer \in Answers /\ Within(stage, answer, got)
    /\ stage \in Waiting /\ ~InBody => answer = NoAnswer
    /\ Proxied /\ stage \in {"ready", "backoff"} => nth < Attempts
    /\ stage = "backoff" => Proxied
    /\ ~Proxied => nth <= MaxRedirects
    /\ stage \in Handshake => NeedsTunnel

\* The resolver's cache and the sockets hold allowed addresses only.
Approved ==
    /\ pin # "none" => Allowed(pin)
    /\ \A a \in dialled : Allowed(a)

\* A timer is never armed beyond the deadline, but for the least a timer can have.
Times ==
    /\ stage \in Connecting => late = 0
    /\ stage \in Timed \ Connecting => /\ budget > 0 => late = 0 /\ left <= budget
                                       /\ budget = 0 => left + late <= 1

\* A handshake that was cut short leads to a tunnel that carries nothing.
Carried == short /\ stage \in Waiting => stage = "tls" /\ ended

\* What a result that counts as reachable rests on.
Whole ==
    /\ stage \in Waiting => ~job.refused
    /\ stage \in Waiting \ {"resolving"} => dialled # {}
    /\ stage # "over" => ~verdict.reachable
    /\ Carried
    /\ ReachableMeansAnswered

\* Sockets belong to attempts that were made; a redirect leaves none.
Sockets ==
    /\ \A n \in open : n <= nth
    /\ ~Proxied => open \subseteq {nth}
    /\ ~Proxied /\ stage = "ready" => open = {}
    /\ AnsweredSocketsClosed

IInv == TypeOK /\ Places /\ Approved /\ Times /\ Whole /\ Sockets

-----------------------------------------------------------------------------
(* What the parts of a step do                                             *)

LEMMA LargerIsNat == ASSUME NEW m \in Nat, NEW n \in Nat PROVE Larger(m, n) \in Nat
BY DEF Larger

LEMMA RearmedWithin ==
    ASSUME budget \in Nat
    PROVE  /\ Rearmed \in Nat
           /\ budget > 0 => Rearmed <= budget
           /\ budget = 0 => Rearmed <= 1
BY DEF Rearmed, Larger

LEMMA FailedIsResult ==
    ASSUME NEW code \in Codes
    PROVE  Failed(code) \in Result /\ Failed(code).code = code
<1>1. Failed(code) = [code |-> code, status |-> 0, truncated |-> FALSE, got |-> 0]
  BY DEF Failed
<1>2. 0 \in 0 .. MaxBytes
  OBVIOUS
<1> QED BY <1>1, <1>2 DEF Result

LEMMA VerdictTyped ==
    ASSUME NEW r \in Result, NEW egress \in Egress(r)
    PROVE  /\ Judged(r, egress) \in Verdict
           /\ Judged(r, egress).reachable =>
                 Ok(r) /\ r.status \in Accepted /\ (RequireEcho => r.got > 0)
<1> DEFINE v == Judged(r, egress)
<1>1. v.reachable \in BOOLEAN
  BY DEF Judged
<1>2. v.code \in Codes \cup Failures
  BY DEF Judged, Result, Failures, Codes
<1>3. v = [reachable |-> v.reachable, code |-> v.code]
  BY DEF Judged
<1>4. v.reachable => Ok(r) /\ r.status \in Accepted /\ (RequireEcho => egress = "public")
  BY DEF Judged
<1>5. egress = "public" => r.got > 0
  BY DEF Egress
<1> QED BY <1>1, <1>2, <1>3, <1>4, <1>5 DEF Verdict

LEMMA ReturnEffect ==
    ASSUME NEW r \in Result, Return(r)
    PROVE  /\ result' = r
           /\ stage' \in {"backoff", "over"}
           /\ stage' = "backoff" => Proxied /\ nth < Attempts /\ verdict' = verdict
           /\ stage' = "over" =>
                 /\ verdict' \in Verdict
                 /\ verdict'.reachable =>
                       /\ Ok(r)
                       /\ Proxied => r.status \in Accepted /\ (RequireEcho => r.got > 0)
<1>1. CASE Proxied /\ r.code \in Retryable /\ nth < Attempts
  BY <1>1 DEF Return
<1>2. CASE ~(Proxied /\ r.code \in Retryable /\ nth < Attempts)
  <2>1. PICK egress \in Egress(r) :
           verdict' = IF Proxied THEN Judged(r, egress) ELSE [reachable |-> Ok(r), code |-> r.code]
    BY <1>2 DEF Return
  <2>2. Ok(r) \in BOOLEAN /\ r.code \in Codes
    BY DEF Ok, Result
  <2>3. [reachable |-> Ok(r), code |-> r.code] \in Verdict
    BY <2>2 DEF Verdict
  <2> QED BY <1>2, <2>1, <2>3, VerdictTyped DEF Return
<1> QED BY <1>1, <1>2

LEMMA FailEffect ==
    ASSUME NEW code \in Codes \ {"none"}, NEW stays \in BOOLEAN, Fail(code, stays)
    PROVE  /\ result' = Failed(code) /\ result' \in Result /\ result'.code # "none"
           /\ stage' \in {"backoff", "over"}
           /\ stage' = "backoff" => Proxied /\ nth < Attempts /\ verdict' = verdict
           /\ stage' = "over" => verdict' \in Verdict /\ ~verdict'.reachable
           /\ open' = IF stays THEN open ELSE open \ {nth}
           /\ UNCHANGED <<host, nth, answer, got, pieces>>
<1>1. Failed(code) \in Result /\ Failed(code).code = code /\ ~Ok(Failed(code))
  BY FailedIsResult DEF Ok
<1>2. Return(Failed(code)) /\ open' = IF stays THEN open ELSE open \ {nth}
  BY DEF Fail, Closed
<1>3. UNCHANGED <<host, nth, answer, got, pieces>>
  BY DEF Fail
<1> QED BY <1>1, <1>2, <1>3, ReturnEffect

-----------------------------------------------------------------------------
(* The reader                                                              *)

\* A position the reader may come to in the answer a.
Legit(a, p) ==
    /\ p.got \in 0 .. MaxBytes /\ p.truncated \in BOOLEAN /\ p.code \in Codes
    /\ p.at = "done" /\ p.code = "none" /\ ~p.truncated =>
           a.size <= MaxBytes \/ Bodyless(a.status)
    /\ p.at # "done" => p.at \in {"size", "chunk", "trailer", "body"} /\ Within(p.at, a, p.got)

LEMMA AtFields ==
    ASSUME NEW place, NEW n
    PROVE  /\ At(place, n).at = place /\ At(place, n).got = n
           /\ At(place, n).truncated = FALSE /\ At(place, n).code = "none"
BY DEF At

LEMMA DoneFields ==
    ASSUME NEW n, NEW cut
    PROVE  /\ Done(n, cut).at = "done" /\ Done(n, cut).got = n
           /\ Done(n, cut).truncated = cut /\ Done(n, cut).code = "none"
BY DEF Done, At

LEMMA BrokenFields ==
    ASSUME NEW code
    PROVE  /\ Broken(code).at = "done" /\ Broken(code).got = 0
           /\ Broken(code).truncated = FALSE /\ Broken(code).code = code
BY DEF Broken, At

\* The sizes of answers.
LEMMA AnswerSizes ==
    ASSUME NEW a \in Answers
    PROVE  /\ a.size \in Nat /\ a.status \in Statuses /\ a.framing \in Framings
           /\ Wanted(a) \in 0 .. MaxBytes
           /\ a.framing # "length" => a.size = 0
           /\ a.size <= MaxBytes => Wanted(a) = a.size
<1>1. a.size \in 0 .. MaxBytes + 1 /\ a.status \in Statuses /\ a.framing \in Framings
  BY DEF Answers
<1>2. a.framing # "length" => a.size = 0
  BY DEF Answers
<1> QED BY <1>1, <1>2 DEF Wanted, Smaller

LEMMA LegitAt ==
    ASSUME NEW a, NEW place \in {"size", "chunk", "trailer", "body"}, NEW n \in 0 .. MaxBytes,
           place # "body" <=> a.framing = "chunked",
           place = "chunk" => n < MaxBytes,
           place = "body" /\ a.framing = "length" => n < Wanted(a)
    PROVE  Legit(a, At(place, n))
BY DEF Legit, Within, At, Codes

LEMMA LegitWhole ==
    ASSUME NEW a, NEW n \in 0 .. MaxBytes, a.size <= MaxBytes
    PROVE  Legit(a, Done(n, FALSE)) /\ Done(n, FALSE).at = "done"
BY DEF Legit, Done, At, Codes

\* Nothing is declared of a size in another framing.
LEMMA LegitEmpty ==
    ASSUME NEW a, NEW n \in 0 .. MaxBytes, a.size = 0
    PROVE  Legit(a, Done(n, FALSE)) /\ Done(n, FALSE).at = "done"
<1>1. a.size <= MaxBytes
  OBVIOUS
<1> QED BY <1>1, LegitWhole

LEMMA LegitBodyless ==
    ASSUME NEW a, Bodyless(a.status)
    PROVE  Legit(a, Done(0, FALSE)) /\ Done(0, FALSE).at = "done"
BY DEF Legit, Done, At, Codes

LEMMA LegitCut ==
    ASSUME NEW a, NEW n \in 0 .. MaxBytes
    PROVE  Legit(a, Done(n, TRUE)) /\ Done(n, TRUE).at = "done"
BY DEF Legit, Done, At, Codes

\* Whether the declared size is beyond the limit decides whether it is cut.
LEMMA LegitSized ==
    ASSUME NEW a \in Answers, NEW n \in 0 .. MaxBytes
    PROVE  Legit(a, Done(n, a.size > MaxBytes)) /\ Done(n, a.size > MaxBytes).at = "done"
<1>1. a.size \in Nat
  BY AnswerSizes
<1>2. CASE a.size > MaxBytes
  <2>1. (a.size > MaxBytes) = TRUE
    BY <1>2
  <2> QED BY <2>1, LegitCut
<1>3. CASE a.size <= MaxBytes
  <2>1. (a.size > MaxBytes) = FALSE
    BY <1>1, <1>3
  <2> QED BY <1>3, <2>1, LegitWhole
<1> QED BY <1>1, <1>2, <1>3

LEMMA LegitBroken ==
    ASSUME NEW a, NEW code \in Codes \ {"none"}
    PROVE  /\ Legit(a, Broken(code))
           /\ Broken(code).at = "done" /\ Broken(code).code # "none"
BY DEF Legit, Broken, At, Codes

LEMMA HeadLegit == ASSUME NEW a \in Answers PROVE Legit(a, HeadRead(a))
<1>1. Bodyless(a.status) => Legit(a, Done(0, FALSE))
  BY LegitBodyless
<1>2. a.framing = "chunked" => Legit(a, At("size", 0))
  BY LegitAt
<1>3. Legit(a, Done(0, a.size > MaxBytes))
  BY LegitSized
<1>4. a.framing # "chunked" /\ ~(a.framing = "length" /\ Wanted(a) = 0) => Legit(a, At("body", 0))
  BY AnswerSizes, LegitAt
<1>5. Bodyless(a.status) \in BOOLEAN
  BY DEF Bodyless
<1>6. CASE Bodyless(a.status)
  <2>1. HeadRead(a) = Done(0, FALSE)
    BY <1>6 DEF HeadRead
  <2> QED BY <1>1, <1>6, <2>1
<1>7. CASE ~Bodyless(a.status)
  BY <1>2, <1>3, <1>4, <1>7 DEF HeadRead
<1> QED BY <1>6, <1>7

LEMMA BodyLegit ==
    ASSUME NEW a \in Answers, a.framing # "chunked", NEW n \in 0 .. MaxBytes,
           a.framing = "length" => n < Wanted(a)
    PROVE  Legit(a, BodyRead(a, n))
<1>1. Wanted(a) \in 0 .. MaxBytes
  BY AnswerSizes
<1>2. CASE a.framing = "length"
  <2>1. n + 1 \in 0 .. MaxBytes
    BY <1>1, <1>2
  <2>2. Legit(a, Done(n + 1, a.size > MaxBytes))
    BY <2>1, LegitSized
  <2>3. n + 1 # Wanted(a) => Legit(a, At("body", n + 1))
    BY <1>1, <1>2, <2>1, LegitAt
  <2> QED BY <1>2, <2>2, <2>3 DEF BodyRead
<1>3. CASE a.framing # "length"
  <2>1. Legit(a, Done(n, TRUE))
    BY LegitCut
  <2>2. ~(n + 1 > MaxBytes) => Legit(a, At("body", n + 1))
    BY <1>3, LegitAt
  <2> QED BY <1>3, <2>1, <2>2 DEF BodyRead
<1> QED BY <1>2, <1>3

LEMMA UnitLegit ==
    ASSUME InBody, Places, got \in 0 .. MaxBytes, NEW p \in UnitRead(stage, answer, got)
    PROVE  Legit(answer, p)
<1>1. answer \in Answers /\ stage \in {"size", "chunk", "trailer", "body"}
  BY DEF InBody, Reading, Places
<1>2. "unknown" \in Codes \ {"none"}
  BY DEF Codes
<1>3. CASE stage = "size"
  <2>1. answer.framing = "chunked"
    BY <1>3 DEF Places, Within, InBody, Reading
  <2>2. Legit(answer, At("trailer", got)) /\ Legit(answer, Broken("unknown"))
        /\ Legit(answer, Done(got, TRUE))
    BY <1>2, <2>1, LegitAt, LegitBroken, LegitCut
  <2>3. got < MaxBytes => Legit(answer, At("chunk", got))
    BY <2>1, LegitAt
  <2>4. \/ p \in {At("trailer", got), Broken("unknown"), Done(got, TRUE)}
        \/ got < MaxBytes /\ p = At("chunk", got)
    BY <1>3 DEF UnitRead
  <2> QED BY <2>2, <2>3, <2>4
<1>4. CASE stage = "chunk"
  <2>1. PICK m \in got + 1 .. MaxBytes : p = At("size", m)
    BY <1>4 DEF UnitRead
  <2>2. answer.framing = "chunked" /\ m \in 0 .. MaxBytes
    BY <1>4 DEF Places, Within, InBody, Reading
  <2> QED BY <2>1, <2>2, LegitAt
<1>5. CASE stage = "trailer"
  <2>1. answer.framing = "chunked" /\ answer.size = 0
    BY <1>1, <1>5, AnswerSizes DEF Places, Within, InBody, Reading
  <2>2. Legit(answer, At("trailer", got))
    BY <2>1, LegitAt
  <2>3. Legit(answer, Done(got, FALSE))
    BY <2>1, LegitEmpty, Zenon
  <2> QED BY <1>5, <2>2, <2>3 DEF UnitRead
<1>6. CASE stage = "body"
  <2>1. answer.framing # "chunked"
    BY <1>6 DEF Places, Within, InBody, Reading
  <2>2. Legit(answer, BodyRead(answer, got))
    BY <1>1, <1>6, <2>1, BodyLegit DEF Places, Within, InBody, Reading
  <2> QED BY <1>6, <2>2 DEF UnitRead
<1> QED BY <1>1, <1>3, <1>4, <1>5, <1>6

LEMMA CloseLegit ==
    ASSUME stage \in Reading, Places, got \in 0 .. MaxBytes,
           NEW p \in CloseRead(stage, answer, got)
    PROVE  Legit(answer, p) /\ p.at = "done" /\ (~InBody => p.code # "none")
<1> DEFINE Over(q) == Legit(answer, q) /\ q.at = "done"
<1>1. CASE stage = "head"
  <2>1. Over(Broken("protocol_error")) /\ Broken("protocol_error").code # "none"
    BY LegitBroken DEF Codes
  <2> QED BY <1>1, <2>1 DEF CloseRead
<1>2. CASE stage # "head"
  <2>1. InBody /\ answer \in Answers
    BY <1>2 DEF InBody, Places
  <2>2. CASE stage = "size"
    <3>1. answer.size = 0
      BY <2>1, <2>2, AnswerSizes DEF Places, Within, InBody, Reading
    <3>2. Over(Broken("unknown"))
      BY LegitBroken DEF Codes
    <3>3. Over(Done(got, FALSE))
      BY <3>1, LegitEmpty, Zenon
    <3>4. Over(Done(got, TRUE))
      BY LegitCut
    <3> QED BY <2>1, <2>2, <3>2, <3>3, <3>4 DEF CloseRead
  <2>3. CASE stage = "chunk"
    <3>1. PICK m \in got .. MaxBytes : p = Done(m, FALSE)
      BY <2>3 DEF CloseRead
    <3>2. answer.size = 0 /\ m \in 0 .. MaxBytes
      BY <2>1, <2>3, AnswerSizes DEF Places, Within, InBody, Reading
    <3>3. Over(Done(m, FALSE))
      BY <3>2, LegitEmpty, Zenon
    <3> QED BY <2>1, <3>1, <3>3
  <2>4. CASE stage \notin {"size", "chunk"}
    <3>1. Over(Done(got, answer.size > MaxBytes))
      BY <2>1, LegitSized
    <3> QED BY <1>2, <2>1, <2>4, <3>1 DEF CloseRead
  <2> QED BY <2>2, <2>3, <2>4
<1> QED BY <1>1, <1>2
-----------------------------------------------------------------------------
(* What an event of a wait leads to                                        *)

Frame ==
    /\ UNCHANGED <<job, budget, pin, dialled>>
    /\ {ended', early', short'} \subseteq BOOLEAN

Typed == answer' \in Answers \cup {NoAnswer} /\ got' \in 0 .. MaxBytes /\ pieces' \in 0 .. MaxPieces

\* The request waits at another place, or for more at the same one.
Onward ==
    /\ Frame /\ Typed /\ UNCHANGED <<host, nth, open, result, verdict>>
    /\ stage \in Waiting \ {"resolving"} /\ stage' \in Waiting \ Connecting
    /\ stage' \in Handshake => NeedsTunnel
    /\ IF stage' \in Reading \ {"head"}
       THEN answer' \in Answers /\ Within(stage', answer', got') ELSE answer' = NoAnswer
    /\ \/ left' \in {0, Rearmed} /\ late' = 0
       \/ stage = "body" /\ left' = left /\ late' = late
    /\ short' => stage' = "tls" /\ ended'

\* A result that may count as reachable.
Earned ==
    /\ stage # "resolving" /\ ~short' /\ result'.code = "none" /\ answer'.status \in 200 .. 399
    /\ Proxied => /\ answer'.status \in Accepted
                  /\ answer'.size <= MaxBytes \/ Bodyless(answer'.status)
                  /\ RequireEcho => got' > 0

\* The attempt is over.
Over ==
    /\ Frame /\ Typed /\ UNCHANGED <<host, nth, left>> /\ stage \in Waiting
    /\ stage' \in {"backoff", "over"} /\ result' \in Result
    /\ stage' = "backoff" => Proxied /\ nth < Attempts /\ verdict' = verdict
    /\ stage' = "over" => verdict' \in Verdict
    /\ stage' = "over" /\ verdict'.reachable => Earned
    /\ open' \subseteq open
    /\ nth \in open' =>
          \/ result'.code = "too_many_redirects"
          \/ Proxied /\ NeedsTunnel /\ answer' = NoAnswer
    /\ late' \in {0, late}

\* The direct client goes on with another URL.
Follows ==
    /\ Frame /\ Typed /\ UNCHANGED <<left, result, verdict>> /\ stage \in Waiting
    /\ ~Proxied /\ nth < MaxRedirects /\ nth' = nth + 1 /\ host' \in Hosts
    /\ stage' = "ready" /\ open' = open \ {nth}
    /\ late' \in {0, late}

Outcome == Onward \/ Over \/ Follows

LEMMA FailOutcome ==
    ASSUME TypeOK, Places, stage \in Waiting, NEW code \in Codes \ {"none"}, NEW stays \in BOOLEAN,
           Fail(code, stays), Frame, left' = left, late' \in {0, late},
           stays => stage \in Handshake
    PROVE  Over
<1>1. /\ result' \in Result /\ result'.code # "none"
      /\ stage' \in {"backoff", "over"}
      /\ stage' = "backoff" => Proxied /\ nth < Attempts /\ verdict' = verdict
      /\ stage' = "over" => verdict' \in Verdict /\ ~verdict'.reachable
      /\ open' = IF stays THEN open ELSE open \ {nth}
      /\ UNCHANGED <<host, nth, answer, got, pieces>>
  BY FailEffect
<1>2. Typed
  BY <1>1 DEF TypeOK, Typed
<1>3. stage \in Handshake => Proxied /\ NeedsTunnel /\ answer = NoAnswer
  BY DEF Places, InBody, Reading, Handshake, NeedsTunnel
<1> QED BY <1>1, <1>2, <1>3 DEF Over

LEMMA AwaitOutcome ==
    ASSUME TypeOK, Places, stage \in Waiting \ {"resolving"}, ~InBody,
           NEW place \in {"head"} \cup (Waiting \ (Connecting \cup Reading)),
           place \in Handshake => NeedsTunnel,
           Await(place, Rearmed) \/ Await(place, 0), Frame, late' = 0,
           short' => place = "tls" /\ ended'
    PROVE  Onward
<1>1. /\ stage' = place /\ left' \in {0, Rearmed}
      /\ UNCHANGED <<host, nth, answer, got, pieces, open, result, verdict>>
  BY DEF Await
<1>2. Typed
  BY <1>1 DEF TypeOK, Typed
<1>3. answer = NoAnswer
  BY DEF Places
<1>4. stage' \in Waiting \ Connecting /\ stage' \notin Reading \ {"head"}
  BY <1>1 DEF Waiting, Connecting, Handshake, Reading
<1> QED BY <1>1, <1>2, <1>3, <1>4 DEF Onward

LEMMA ReturnOutcome ==
    ASSUME TypeOK, stage \in Waiting, stage # "resolving", NEW r \in Result, Return(r), Frame, Typed,
           UNCHANGED <<host, nth, left>>, late' \in {0, late}, open' \subseteq open,
           nth \in open' => r.code = "too_many_redirects",
           ~short',
           r.code = "none" => /\ r.status = answer'.status /\ r.got = got'
                              /\ r.truncated \/ answer'.size <= MaxBytes \/ Bodyless(answer'.status)
    PROVE  Over
<1>1. /\ result' = r
      /\ stage' \in {"backoff", "over"}
      /\ stage' = "backoff" => Proxied /\ nth < Attempts /\ verdict' = verdict
      /\ stage' = "over" =>
            /\ verdict' \in Verdict
            /\ verdict'.reachable =>
                  /\ Ok(r)
                  /\ Proxied => r.status \in Accepted /\ (RequireEcho => r.got > 0)
  BY ReturnEffect
<1>2. ASSUME stage' = "over", verdict'.reachable PROVE Earned
  BY <1>1, <1>2 DEF Earned, Ok
<1>3. stage' = "over" => verdict' \in Verdict
  BY <1>1
<1>4. result' \in Result /\ (nth \in open' => result'.code = "too_many_redirects")
  BY <1>1
<1>5. /\ stage' \in {"backoff", "over"}
      /\ stage' = "backoff" => Proxied /\ nth < Attempts /\ verdict' = verdict
  BY <1>1
<1> QED BY <1>2, <1>3, <1>4, <1>5 DEF Over

LEMMA ReachOutcome ==
    ASSUME TypeOK, stage \in Waiting \ Connecting, Frame, ~short',
           NEW a \in Answers \cup {NoAnswer}, NEW p, Legit(a, p),
           p.at # "done" \/ p.code = "none" => a \in Answers,
           Reach(a, p),
           late' \in {0, late},
           p.at # "done" => late' = IF stage = "body" /\ a.framing = "length" THEN late ELSE 0
    PROVE  Outcome
<1>1. /\ answer' = a /\ got' = p.got /\ pieces' = 0 /\ p.got \in 0 .. MaxBytes
      /\ p.code \in Codes /\ p.truncated \in BOOLEAN
      /\ stage # "resolving"
  BY DEF Reach, Legit, Connecting
<1>2. Typed
  BY <1>1 DEF Typed
<1>3. ASSUME p.at # "done" PROVE Onward
  <2>1. /\ stage' = p.at
        /\ left' = IF stage = "body" /\ a.framing = "length" THEN left ELSE Rearmed
        /\ UNCHANGED <<host, nth, open, result, verdict>>
    BY <1>3 DEF Reach
  <2>2. stage' \in {"size", "chunk", "trailer", "body"} /\ Within(stage', answer', got')
    BY <1>1, <1>3, <2>1 DEF Legit
  <2>3. \/ left' = Rearmed /\ late' = 0
        \/ stage = "body" /\ left' = left /\ late' = late
    BY <1>3, <2>1
  <2>4. stage' \in Waiting \ Connecting /\ stage' \in Reading \ {"head"} /\ stage' \notin Handshake
    BY <2>2 DEF Waiting, Connecting, Reading, Handshake
  <2> QED BY <1>1, <1>2, <1>3, <2>1, <2>2, <2>3, <2>4 DEF Onward
<1>4. ASSUME p.at = "done" PROVE Over \/ Follows
  <2>1. Finish(a, p) /\ left' = left
    BY <1>4 DEF Reach
  <2>2. CASE /\ p.code # "none" /\ Return(Failed(p.code))
             /\ open' = Closed /\ UNCHANGED <<host, nth>>
    <3>1. Failed(p.code) \in Result /\ Failed(p.code).code # "none"
      BY <1>1, <2>2, FailedIsResult
    <3>2. open' \subseteq open /\ nth \notin open'
      BY <2>2 DEF Closed
    <3> QED BY <1>1, <1>2, <2>1, <2>2, <3>1, <3>2, ReturnOutcome
  <2>3. CASE /\ p.code = "none"
             /\ Return([code |-> "none", status |-> a.status, truncated |-> p.truncated,
                        got |-> p.got])
             /\ open' = Closed /\ UNCHANGED <<host, nth>>
    <3> DEFINE r == [code |-> "none", status |-> a.status, truncated |-> p.truncated, got |-> p.got]
    <3>1. a \in Answers /\ a.status \in Statuses
      BY <2>3, AnswerSizes
    <3>2. r \in Result
      BY <1>1, <3>1 DEF Result, Codes
    <3>3. /\ r.code = "none" /\ r.status = answer'.status /\ r.got = got'
          /\ r.truncated = p.truncated
      BY <1>1
    <3>4. p.truncated \/ answer'.size <= MaxBytes \/ Bodyless(answer'.status)
      BY <1>1, <1>4, <2>3 DEF Legit
    <3>5. open' \subseteq open /\ nth \notin open'
      BY <2>3 DEF Closed
    <3> HIDE DEF r
    <3>6. Return(r)
      BY <2>3 DEF r
    <3> QED BY <1>1, <1>2, <2>1, <2>3, <3>2, <3>3, <3>4, <3>5, <3>6, ReturnOutcome
  <2>4. CASE ~Proxied /\ Redirected /\ open' = Closed
    BY <1>2, <2>1, <2>4 DEF Follows, Redirected, Closed
  <2>5. CASE /\ Return(Failed("too_many_redirects"))
             /\ open' = IF p.truncated THEN Closed ELSE open
             /\ UNCHANGED <<host, nth>>
    <3>1. /\ Failed("too_many_redirects") \in Result
          /\ Failed("too_many_redirects").code = "too_many_redirects"
      BY FailedIsResult DEF Codes
    <3>2. open' \subseteq open
      BY <2>5 DEF Closed
    <3> QED BY <1>1, <1>2, <2>1, <2>5, <3>1, <3>2, ReturnOutcome
  <2> QED BY <2>1, <2>2, <2>3, <2>4, <2>5 DEF Finish
<1> QED BY <1>3, <1>4 DEF Outcome
-----------------------------------------------------------------------------
(* Every event of a wait has one of these outcomes                         *)

LEMMA StagesApart ==
    /\ Handshake \subseteq Waiting \ (Connecting \cup Reading)
    /\ Reading \subseteq Waiting \ (Connecting \cup Handshake)
    /\ "tls" \in Waiting \ (Connecting \cup Handshake \cup Reading)
    /\ Connecting \subseteq Waiting
    /\ InBody <=> stage \in Reading /\ stage # "head"
    /\ "resolving" \in Connecting
BY DEF Handshake, Waiting, Connecting, Reading, InBody

LEMMA WriteOutcome ==
    ASSUME TypeOK, Places, stage \in Handshake \cup {"tls"}, NEW buffered \in BOOLEAN,
           Write(buffered, FALSE), Frame, ~short', late' = 0
    PROVE  Outcome
<1>1. stage \in Waiting \ Connecting /\ stage # "body" /\ ~InBody /\ stage # "resolving"
  BY StagesApart DEF Reading
<1>2. CASE buffered
  <2>1. PICK a \in Answers : Reach(a, HeadRead(a))
    BY <1>2 DEF Write
  <2>2. Legit(a, HeadRead(a))
    BY HeadLegit
  <2> QED BY <1>1, <2>1, <2>2, ReachOutcome
<1>3. CASE ~buffered
  <2>1. Await("head", Rearmed)
    BY <1>3 DEF Write
  <2>2. "head" \in {"head"} \cup (Waiting \ (Connecting \cup Reading)) /\ "head" \notin Handshake
    BY DEF Handshake
  <2> QED BY <1>1, <2>1, <2>2, AwaitOutcome DEF Outcome
<1> QED BY <1>2, <1>3

LEMMA RepliesAreFailures ==
    ASSUME stage \in Handshake
    PROVE  "none" \notin Replies(stage) /\ "none" \notin CutReplies(stage)
<1>1. "none" \notin Replies(stage)
  BY DEF Handshake, Replies, Socks5Verdict, NoHead
<1>2. "none" \notin CutReplies(stage)
  BY <1>1 DEF Handshake, CutReplies
<1> QED BY <1>1, <1>2

LEMMA ReplyOutcome == ASSUME TypeOK, Places, Carried, Reply PROVE Outcome
<1>1. /\ stage \in Waiting \ {"resolving"} /\ ~InBody /\ stage \in Handshake
      /\ ~short /\ late' = 0
  BY StagesApart DEF Reply, Carried
<1>2. NeedsTunnel
  BY <1>1 DEF Places
<1>3. PICK next \in Replies(stage) :
          \/ /\ next \in Handshake
             /\ Await(next, Rearmed)
             /\ UNCHANGED <<early, ended>>
          \/ /\ next = "tunnel"
             /\ \E more \in BOOLEAN : Tunnelled(more, FALSE)
          \/ /\ next \in Codes
             /\ Fail(next, Hangs(next))
             /\ UNCHANGED <<left, early, ended>>
  BY DEF Reply
<1>4. UNCHANGED <<job, budget, pin, dialled>> /\ ~short' /\ short' \in BOOLEAN
  BY <1>1 DEF Reply, TypeOK
<1>5. CASE next \in Handshake /\ Await(next, Rearmed) /\ UNCHANGED <<early, ended>>
  <2>1. Frame
    BY <1>4, <1>5 DEF Frame, TypeOK
  <2>2. next \in {"head"} \cup (Waiting \ (Connecting \cup Reading))
    BY <1>5, StagesApart
  <2>3. Await(next, Rearmed)
    BY <1>5
  <2> QED BY <1>1, <1>2, <1>4, <2>1, <2>2, <2>3, AwaitOutcome DEF Outcome
<1>6. CASE \E more \in BOOLEAN : Tunnelled(more, FALSE)
  <2>1. PICK more \in BOOLEAN : Tunnelled(more, FALSE)
    BY <1>6
  <2>2. CASE job.secure
    <3>1. Await("tls", 0) /\ early' = more /\ ended' = FALSE
      BY <2>1, <2>2 DEF Tunnelled
    <3>2. Frame
      BY <1>4, <3>1 DEF Frame
    <3> QED BY <1>1, <1>4, <3>1, <3>2, StagesApart, AwaitOutcome DEF Outcome
  <2>3. CASE ~job.secure
    <3>1. Write(more, FALSE) /\ UNCHANGED <<early, ended>>
      BY <2>1, <2>3 DEF Tunnelled
    <3>2. Frame
      BY <1>4, <3>1 DEF Frame, TypeOK
    <3> QED BY <1>1, <1>4, <3>1, <3>2, WriteOutcome
  <2> QED BY <2>2, <2>3
<1>7. CASE next \in Codes /\ Fail(next, Hangs(next)) /\ UNCHANGED <<left, early, ended>>
  <2>1. Frame
    BY <1>4, <1>7 DEF Frame, TypeOK
  <2>2. next \in Codes \ {"none"} /\ Hangs(next) \in BOOLEAN
    BY <1>1, <1>7, RepliesAreFailures DEF Hangs
  <2>3. Fail(next, Hangs(next)) /\ left' = left /\ late' \in {0, late}
    BY <1>1, <1>7
  <2> QED BY <1>1, <2>1, <2>2, <2>3, FailOutcome DEF Outcome
<1> QED BY <1>3, <1>5, <1>6, <1>7

LEMMA CutReplyOutcome == ASSUME TypeOK, Places, Carried, CutReply PROVE Outcome
<1>1. stage \in Waiting \ {"resolving"} /\ ~InBody /\ stage \in Handshake /\ late' = 0
  BY StagesApart DEF CutReply
<1>2. UNCHANGED <<job, budget, pin, dialled>> /\ late' \in {0, late}
  BY DEF CutReply
<1>3. CASE Tunnelled(FALSE, TRUE) /\ short' = TRUE
  <2>1. CASE job.secure
    <3>1. Await("tls", 0) /\ early' = FALSE /\ ended' = TRUE
      BY <1>3, <2>1 DEF Tunnelled
    <3>2. Frame
      BY <1>2, <1>3, <3>1 DEF Frame
    <3> QED BY <1>1, <3>1, <3>2, StagesApart, AwaitOutcome DEF Outcome
  <2>2. CASE ~job.secure
    <3>1. Fail("protocol_error", FALSE) /\ UNCHANGED <<left, early, ended>>
      BY <1>3, <2>2 DEF Tunnelled, Write
    <3>2. Frame
      BY <1>2, <1>3, <3>1 DEF Frame, TypeOK
    <3>3. "protocol_error" \in Codes \ {"none"}
      BY DEF Codes
    <3> QED BY <1>1, <1>2, <3>1, <3>2, <3>3, FailOutcome DEF Outcome
  <2> QED BY <2>1, <2>2
<1>4. CASE \E code \in CutReplies(stage) \cap Codes :
              Fail(code, FALSE) /\ UNCHANGED <<left, early, ended, short>>
  <2>1. PICK code \in Codes \ {"none"} : Fail(code, FALSE) /\ UNCHANGED <<left, early, ended, short>>
    BY <1>1, <1>4, RepliesAreFailures
  <2>2. Frame
    BY <1>2, <2>1 DEF Frame, TypeOK
  <2> QED BY <1>1, <1>2, <2>1, <2>2, FailOutcome DEF Outcome
<1> QED BY <1>3, <1>4 DEF CutReply
LEMMA SecuredOutcome == ASSUME TypeOK, Places, Carried, Secured PROVE Outcome
<1>1. stage = "tls" /\ ~short /\ late' = 0 /\ Write(early, FALSE) /\ early \in BOOLEAN
  BY StagesApart DEF Secured, Carried, TypeOK
<1>2. Frame /\ ~short'
  BY <1>1 DEF Secured, Frame, TypeOK
<1> QED BY <1>1, <1>2, WriteOutcome

LEMMA HeadOutcome == ASSUME TypeOK, Places, Carried, Head PROVE Outcome
<1>1. stage = "head" /\ stage \in Waiting \ Connecting /\ ~InBody /\ ~short /\ late' = 0
  BY StagesApart DEF Head, Carried, Reading
<1>2. Frame /\ ~short'
  BY <1>1 DEF Head, Frame, TypeOK
<1>3. CASE \E a \in Answers : Reach(a, HeadRead(a))
  <2>1. PICK a \in Answers : Reach(a, HeadRead(a))
    BY <1>3
  <2>2. Legit(a, HeadRead(a))
    BY HeadLegit
  <2> QED BY <1>1, <1>2, <2>1, <2>2, ReachOutcome
<1>4. CASE \E code \in NoHead : Fail(code, FALSE) /\ UNCHANGED left
  <2>0. NoHead \subseteq Codes \ {"none"}
    BY DEF NoHead, Codes
  <2>1. PICK code \in Codes \ {"none"} : Fail(code, FALSE) /\ left' = left
    BY <1>4, <2>0
  <2> QED BY <1>1, <1>2, <2>1, FailOutcome DEF Outcome
<1> QED BY <1>3, <1>4 DEF Head

LEMMA BodyOutcome == ASSUME TypeOK, Places, Carried, Body PROVE Outcome
<1>1. /\ stage \in Waiting \ Connecting /\ InBody /\ ~short
      /\ answer \in Answers /\ got \in 0 .. MaxBytes
  BY StagesApart DEF Body, Carried, Places, TypeOK, Reading
<1>2. Frame /\ ~short'
  BY <1>1 DEF Body, Frame, TypeOK
<1>3. late' = IF stage = "body" /\ answer.framing = "length" THEN late ELSE 0
  BY DEF Body
<1>4. PICK p \in UnitRead(stage, answer, got) : Reach(answer, p)
  BY DEF Body
<1>5. Legit(answer, p)
  BY <1>1, <1>4, UnitLegit
<1>6. late' \in {0, late}
  BY <1>3
<1> QED BY <1>1, <1>2, <1>3, <1>4, <1>5, <1>6, ReachOutcome

LEMMA CloseOutcome == ASSUME TypeOK, Places, Carried, Close PROVE Outcome
<1>1. /\ stage \in Waiting \ Connecting /\ ~short /\ late' = 0
      /\ answer \in Answers \cup {NoAnswer} /\ got \in 0 .. MaxBytes
      /\ InBody => answer \in Answers
  BY StagesApart DEF Close, Carried, TypeOK, Places, Reading
<1>2. Frame /\ ~short'
  BY <1>1 DEF Close, Frame, TypeOK
<1>3. PICK p \in CloseRead(stage, answer, got) : Reach(answer, p)
  BY DEF Close
<1>4. Legit(answer, p) /\ p.at = "done" /\ (~InBody => p.code # "none")
  BY <1>1, <1>3, CloseLegit DEF Close
<1> QED BY <1>1, <1>2, <1>3, <1>4, ReachOutcome

LEMMA TrickleOutcome == ASSUME TypeOK, Places, Carried, Trickle PROVE Outcome
<1>1. stage \in Waiting \ Connecting /\ stage \in {"connect", "head", "size", "trailer"} /\ ~short /\ late' = 0
  BY DEF Trickle, Carried, Waiting, Connecting, Handshake, Reading
<1>2. Frame /\ ~short'
  BY <1>1 DEF Trickle, Frame, TypeOK
<1>3. CASE /\ pieces < MaxPieces /\ pieces' = pieces + 1 /\ left' = Rearmed
           /\ UNCHANGED <<host, nth, stage, answer, got, open, result, verdict>>
  <2>1. Typed
    BY <1>3 DEF Typed, TypeOK
  <2>2. IF stage' \in Reading \ {"head"}
        THEN answer' \in Answers /\ Within(stage', answer', got') ELSE answer' = NoAnswer
    BY <1>1, <1>3, StagesApart DEF Places
  <2>3. stage' \in Handshake => NeedsTunnel
    BY <1>3 DEF Places
  <2> QED BY <1>1, <1>2, <1>3, <2>1, <2>2, <2>3 DEF Onward, Outcome
<1>4. CASE Fail("unknown", stage = "connect") /\ UNCHANGED left
  <2>1. "unknown" \in Codes \ {"none"} /\ (stage = "connect") \in BOOLEAN /\ "connect" \in Handshake
    BY DEF Codes, Handshake
  <2> QED BY <1>1, <1>2, <1>4, <2>1, FailOutcome DEF Outcome
<1> QED BY <1>3, <1>4 DEF Trickle

LEMMA ErrorOutcome == ASSUME TypeOK, Places, Error PROVE Outcome
<1>1. PICK code \in Errors : Fail(code, FALSE)
  BY DEF Error
<1>2. code \in Codes \ {"none"}
  BY <1>1 DEF Errors, Codes
<1>3. Frame /\ stage \in Waiting /\ left' = left /\ late' \in {0, late}
  BY DEF Error, Frame, TypeOK, history
<1> QED BY <1>1, <1>2, <1>3, FailOutcome DEF Outcome

LEMMA TimeOutOutcome == ASSUME TypeOK, Places, TimeOut PROVE Outcome
<1>1. Frame /\ stage \in Waiting /\ left' = left /\ late' \in {0, late}
  BY DEF TimeOut, Timed, Frame, TypeOK, history
<1>2. "timeout" \in Codes \ {"none"} /\ (stage \in Handshake) \in BOOLEAN
  BY DEF Codes
<1> QED BY <1>1, <1>2, FailOutcome DEF TimeOut, Outcome

LEMMA EventOutcome ==
    ASSUME TypeOK, Places, Carried,
           Reply \/ CutReply \/ Secured \/ Head \/ Body \/ Close \/ Trickle \/ Error \/ TimeOut
    PROVE  Outcome
BY ReplyOutcome, CutReplyOutcome, SecuredOutcome, HeadOutcome, BodyOutcome, CloseOutcome,
   TrickleOutcome, ErrorOutcome, TimeOutOutcome
-----------------------------------------------------------------------------
(* An outcome keeps the invariant                                          *)

LEMMA OnwardKeeps == ASSUME IInv, Onward PROVE IInv'
<1> USE DEF IInv
<1>1. TypeOK'
  <2>1. Rearmed \in Nat
    BY RearmedWithin DEF TypeOK
  <2>2. late' \in 0 .. 2
    BY DEF Onward, TypeOK
  <2> QED BY <2>1, <2>2 DEF Onward, Frame, Typed, TypeOK
<1>2. Places'
  <2>1. stage' \in Waiting /\ stage' \notin {"ready", "backoff"}
    BY DEF Onward, Waiting, Connecting, Handshake, Reading
  <2> QED BY <2>1 DEF Onward, Frame, Places, InBody, Proxied, NeedsTunnel
<1>3. Approved'
  BY DEF Onward, Frame, Approved, Allowed
<1>4. Times'
  <2>1. stage' \in Waiting \ Connecting /\ budget' = budget /\ budget \in Nat /\ Rearmed \in Nat
    BY RearmedWithin DEF Onward, Frame, TypeOK
  <2>2. CASE left' \in {0, Rearmed} /\ late' = 0
    <3>1. (budget > 0 => Rearmed <= budget) /\ (budget = 0 => Rearmed <= 1)
      BY <2>1, RearmedWithin
    <3>2. (budget > 0 => 0 <= budget) /\ 0 + 0 <= 1 /\ Rearmed + 0 = Rearmed
      BY <2>1
    <3> QED BY <2>1, <2>2, <3>1, <3>2 DEF Times
  <2>3. CASE stage = "body" /\ left' = left /\ late' = late
    <3>1. stage \in Timed \ Connecting
      BY <2>3 DEF Timed, Waiting, Connecting, Handshake, Reading
    <3> QED BY <2>1, <2>3, <3>1 DEF Times
  <2> QED BY <2>2, <2>3 DEF Onward
<1>5. Whole'
  <2>1. stage' \in Waiting /\ stage' # "over" /\ stage # "over"
    BY DEF Onward, Waiting, Connecting, Handshake, Reading
  <2> QED BY <2>1 DEF Onward, Frame, Whole, Carried, ReachableMeansAnswered
<1>6. Sockets'
  <2>1. stage' \notin {"ready", "backoff", "over"}
    BY DEF Onward, Waiting, Connecting, Handshake, Reading
  <2> QED BY <2>1 DEF Onward, Frame, Sockets, AnsweredSocketsClosed, Proxied
<1> QED BY <1>1, <1>2, <1>3, <1>4, <1>5, <1>6

LEMMA OverKeeps == ASSUME IInv, Over PROVE IInv'
<1> USE DEF IInv
<1>0. stage' \notin Waiting /\ stage' \notin Handshake /\ stage' # "ready" /\ stage # "over" /\ ~InBody'
  BY DEF Over, Waiting, Connecting, Handshake, Reading, InBody
<1>1. TypeOK'
  <2>1. late' \in 0 .. 2
    BY DEF Over, TypeOK
  <2>2. verdict' \in Verdict
    BY DEF Over, TypeOK
  <2> QED BY <2>1, <2>2 DEF Over, Frame, Typed, TypeOK
<1>2. Places'
  BY <1>0 DEF Over, Frame, Places, Proxied
<1>3. Approved'
  BY DEF Over, Frame, Approved, Allowed
<1>4. Times'
  BY <1>0, StagesApart DEF Times, Timed
<1>5. Whole'
  <2>1. stage' = "backoff" => ~verdict'.reachable
    BY <1>0 DEF Over, Whole
  <2>2. ReachableMeansAnswered'
    <3>1. SUFFICES ASSUME stage' = "over", verdict'.reachable
          PROVE  /\ ~short' /\ ~job.refused /\ dialled # {}
                 /\ result'.code = "none" /\ answer'.status \in 200 .. 399
                 /\ Proxied => /\ answer'.status \in Accepted
                               /\ answer'.size <= MaxBytes \/ Bodyless(answer'.status)
                               /\ RequireEcho => got' > 0
      BY DEF ReachableMeansAnswered, Over, Frame, Proxied, Bodyless
    <3>2. Earned /\ stage \in Waiting
      BY <3>1 DEF Over
    <3> QED BY <3>2 DEF Earned, Whole
  <2> QED BY <1>0, <2>1, <2>2 DEF Whole, Carried, Over
<1>6. Sockets'
  BY <1>0 DEF Over, Frame, Sockets, AnsweredSocketsClosed, Proxied, NeedsTunnel
<1> QED BY <1>1, <1>2, <1>3, <1>4, <1>5, <1>6

LEMMA FollowsKeeps == ASSUME IInv, Follows PROVE IInv'
<1> USE DEF IInv
<1>0. stage' \notin Waiting /\ stage' \notin Handshake /\ stage # "over" /\ ~InBody' /\ ~Proxied'
  BY DEF Follows, Frame, Waiting, Connecting, Handshake, Reading, InBody, Proxied
<1>1. TypeOK'
  <2>1. late' \in 0 .. 2
    BY DEF Follows, TypeOK
  <2>2. nth' \in 0 .. Larger(Attempts, MaxRedirects)
    BY DEF Follows, TypeOK, Larger
  <2> QED BY <2>1, <2>2 DEF Follows, Frame, Typed, TypeOK
<1>2. Places'
  BY <1>0 DEF Follows, Places, TypeOK
<1>3. Approved'
  BY DEF Follows, Frame, Approved, Allowed
<1>4. Times'
  BY <1>0, StagesApart DEF Times, Timed
<1>5. Whole'
  BY <1>0 DEF Follows, Frame, Whole, Carried, ReachableMeansAnswered
<1>6. Sockets'
  <2>1. open' = {}
    BY DEF Follows, Sockets
  <2> QED BY <1>0, <2>1 DEF Sockets, AnsweredSocketsClosed
<1> QED BY <1>1, <1>2, <1>3, <1>4, <1>5, <1>6

LEMMA OutcomeKeeps == ASSUME IInv, Outcome PROVE IInv'
BY OnwardKeeps, OverKeeps, FollowsKeeps DEF Outcome
-----------------------------------------------------------------------------
(* The other steps                                                         *)

LEMMA InitKeeps == ASSUME Init PROVE IInv
<1>1. "ready" \notin Waiting /\ "ready" \notin Handshake /\ ~InBody /\ 0 <= Larger(Attempts, MaxRedirects)
  BY DEF Init, Waiting, Connecting, Handshake, Reading, InBody, Larger
<1>2. TypeOK
  <2>1. job \in Job
    BY DEF Init
  <2>2. host \in Hosts
    BY <2>1 DEF Init, Job
  <2>3. NoResult \in Result /\ NoVerdict \in Verdict
    BY DEF NoResult, Result, Codes, NoVerdict, Verdict
  <2>4. Larger(Attempts, MaxRedirects) \in Nat /\ Timeout \in Nat
    BY DEF Larger
  <2>5. job \in Jobs /\ stage \in {"ready"} /\ nth \in 0 .. Larger(Attempts, MaxRedirects)
    BY <2>4 DEF Init
  <2>6. left \in Nat /\ budget \in 0 .. Timeout /\ late \in 0 .. 2
    BY <2>4 DEF Init
  <2>7. got \in 0 .. MaxBytes /\ pieces \in 0 .. MaxPieces
    BY DEF Init
  <2>8. /\ {ended, early, short} \subseteq BOOLEAN /\ answer = NoAnswer /\ open = {} /\ dialled = {}
        /\ pin = "none" /\ result \in Result /\ verdict \in Verdict
    BY <2>3 DEF Init
  <2> QED BY <2>2, <2>5, <2>6, <2>7, <2>8 DEF TypeOK
<1>3. Places
  BY <1>1 DEF Init, Places
<1>4. Approved
  BY DEF Init, Approved
<1>5. Times
  BY <1>1, StagesApart DEF Init, Times
<1>6. Whole
  BY <1>1 DEF Init, Whole, Carried, ReachableMeansAnswered, NoVerdict
<1>7. Sockets
  BY DEF Init, Sockets, AnsweredSocketsClosed
<1> QED BY <1>2, <1>3, <1>4, <1>5, <1>6, <1>7 DEF IInv

LEMMA BegunCounts ==
    ASSUME IInv, stage = "ready"
    PROVE  /\ Begun \in 0 .. Larger(Attempts, MaxRedirects)
           /\ ~Proxied => Begun = nth /\ nth <= MaxRedirects
           /\ Proxied => Begun = nth + 1
           /\ \A n \in open : n < Begun
           /\ open \in SUBSET Int
<1>1. nth \in Nat /\ (Proxied => nth < Attempts) /\ (~Proxied => nth <= MaxRedirects)
  BY DEF IInv, TypeOK, Places
<1>2. /\ open \in SUBSET Int /\ \A n \in open : n <= nth
      /\ ~Proxied => open = {}
  BY DEF IInv, TypeOK, Sockets
<1>3. CASE Proxied
  BY <1>1, <1>2, <1>3 DEF Begun, Larger
<1>4. CASE ~Proxied
  BY <1>1, <1>2, <1>4 DEF Begun, Larger
<1> QED BY <1>3, <1>4

LEMMA RejectKeeps == ASSUME IInv, Reject PROVE IInv'
<1> USE DEF IInv, connection, history
<1>1. /\ stage = "ready" /\ stage' = "over" /\ nth' = Begun
      /\ stage' \notin Waiting /\ stage' \notin Handshake /\ ~InBody'
  BY DEF Reject, Waiting, Connecting, Handshake, Reading, InBody
<1>2. result' \in Result /\ verdict' \in Verdict /\ ~verdict'.reachable
  BY FailedIsResult DEF Reject, Codes, Verdict
<1>3. TypeOK'
  BY <1>1, <1>2, BegunCounts DEF Reject, TypeOK
<1>4. Places'
  BY <1>1, BegunCounts DEF Reject, Places, Proxied
<1>5. Approved'
  BY DEF Reject, Approved, Allowed
<1>6. Times'
  BY <1>1, StagesApart DEF Reject, Times, Timed
<1>7. Whole'
  BY <1>1, <1>2 DEF Whole, Carried, ReachableMeansAnswered
<1>8. Sockets'
  <2>1. nth' \notin open' /\ open' = open /\ (~Proxied' => open' = {}) /\ \A n \in open' : n <= nth'
    BY <1>1, BegunCounts DEF Reject, Proxied, Sockets
  <2> QED BY <1>1, <2>1 DEF Sockets, AnsweredSocketsClosed
<1> QED BY <1>3, <1>4, <1>5, <1>6, <1>7, <1>8

LEMMA DialKeeps == ASSUME IInv, Dial PROVE IInv'
<1> USE DEF IInv
<1>1. /\ stage = "ready" /\ stage' \in {"resolving", "connecting"} /\ nth' = Begun
      /\ stage' \in Waiting /\ stage' \in Connecting /\ stage' \notin Handshake /\ ~InBody'
      /\ stage' \notin {"ready", "backoff", "over"}
  BY DEF Dial, Waiting, Connecting, Handshake, Reading, InBody
<1>2. open' = open \cup {Begun} /\ UNCHANGED <<job, host, pin, verdict>>
  BY DEF Dial
<1>3. TypeOK'
  <2>1. DialTime \in Nat
    BY LargerIsNat DEF DialTime, TypeOK
  <2>2. dialled' \subseteq Addresses
    BY DEF Dial, TypeOK, Hosts
  <2>3. /\ ended' = FALSE /\ early' = FALSE /\ short' = FALSE /\ answer' = NoAnswer
        /\ got' \in 0 .. MaxBytes /\ pieces' \in 0 .. MaxPieces /\ late' \in 0 .. 2
        /\ left' \in Nat
    BY <2>1 DEF Dial
  <2>4. budget' \in 0 .. Timeout
    BY DEF Dial, TypeOK
  <2>5. UNCHANGED <<job, host, result, verdict, pin>>
    BY DEF Dial
  <2>6. nth' \in 0 .. Larger(Attempts, MaxRedirects) /\ open' \subseteq 0 .. Larger(Attempts, MaxRedirects)
    BY <1>1, <1>2, BegunCounts DEF TypeOK
  <2> QED BY <1>1, <2>2, <2>3, <2>4, <2>5, <2>6 DEF TypeOK
<1>4. Places'
  BY <1>1, <1>2, BegunCounts DEF Dial, Places, Proxied
<1>5. Approved'
  <2>1. host # "name" => Allowed(host)
    BY DEF Dial, Refused
  <2> QED BY <2>1 DEF Dial, Approved, Allowed
<1>6. Times'
  BY <1>1 DEF Dial, Times
<1>7. Whole'
  BY <1>1 DEF Dial, Refused, Whole, Carried, ReachableMeansAnswered
<1>8. Sockets'
  <2>1. Proxied' <=> Proxied
    BY <1>2 DEF Proxied
  <2>2. ~Proxied => open = {}
    BY <1>1 DEF Sockets
  <2>3. \A n \in open' : n <= nth'
    BY <1>1, <1>2, BegunCounts
  <2> QED BY <1>1, <1>2, <2>1, <2>2, <2>3 DEF Sockets, AnsweredSocketsClosed
<1> QED BY <1>3, <1>4, <1>5, <1>6, <1>7, <1>8

\* A name leads to a connect to an allowed address.
LEMMA ConnectKeeps ==
    ASSUME IInv, stage = "resolving", NEW a \in Addresses, Allowed(a), ConnectTo(a),
           UNCHANGED <<job, budget, ended, early, short, late>>, pin' \in {pin, a}
    PROVE  IInv'
<1> USE DEF IInv
<1>1. /\ stage' = "connecting" /\ dialled' = dialled \cup {a}
      /\ UNCHANGED <<host, nth, left, answer, got, pieces, open, result, verdict>>
      /\ stage \in Waiting /\ stage \in Connecting /\ ~InBody
      /\ stage' \in Waiting /\ stage' \in Connecting /\ stage' \notin Handshake /\ ~InBody'
      /\ stage' \notin {"ready", "backoff", "over"} /\ stage # "over" /\ stage # "tls"
  BY DEF ConnectTo, Await, Waiting, Connecting, Handshake, Reading, InBody
<1>2. TypeOK'
  BY <1>1 DEF TypeOK
<1>3. Places'
  BY <1>1 DEF Places, Proxied
<1>4. Approved'
  BY <1>1 DEF Approved, Allowed
<1>5. Times'
  BY <1>1 DEF Times
<1>6. Whole'
  BY <1>1 DEF Whole, Carried, ReachableMeansAnswered
<1>7. Sockets'
  BY <1>1 DEF Sockets, AnsweredSocketsClosed, Proxied
<1> QED BY <1>2, <1>3, <1>4, <1>5, <1>6, <1>7
LEMMA ResolveCachedKeeps == ASSUME IInv, ResolveCached PROVE IInv'
<1>1. pin \in Addresses /\ Allowed(pin) /\ stage = "resolving" /\ ConnectTo(pin)
  BY DEF ResolveCached, IInv, TypeOK, Approved
<1>2. UNCHANGED <<job, budget, ended, early, short, late>> /\ pin' \in {pin}
  BY DEF ResolveCached
<1> QED BY <1>1, <1>2, ConnectKeeps

LEMMA ResolveKeeps == ASSUME IInv, Resolve PROVE IInv'
<1>1. stage = "resolving" /\ stage \in Waiting /\ UNCHANGED <<job, budget, ended, early, short, late>>
  BY StagesApart DEF Resolve
<1>2. CASE \E code \in {"dns_error", "blocked_by_policy"} :
              Fail(code, FALSE) /\ UNCHANGED <<left, pin, dialled>>
  <2>1. PICK code \in Codes \ {"none"} : Fail(code, FALSE) /\ UNCHANGED <<left, pin, dialled>>
    BY <1>2 DEF Codes
  <2>2. Frame
    BY <1>1, <2>1 DEF Frame, IInv, TypeOK
  <2>3. TypeOK /\ Places
    BY DEF IInv
  <2>4. Over
    BY <1>1, <2>1, <2>2, <2>3, FailOutcome
  <2> QED BY <2>4, OverKeeps
<1>3. CASE \E records \in SUBSET Addresses : \E a \in Pinned(records) : pin' = a /\ ConnectTo(a)
  <2>1. PICK a \in Addresses : Allowed(a) /\ pin' = a /\ ConnectTo(a)
    BY <1>3 DEF Pinned
  <2> QED BY <1>1, <2>1, ConnectKeeps
<1> QED BY <1>2, <1>3 DEF Resolve

LEMMA PinExpiresKeeps == ASSUME IInv, PinExpires PROVE IInv'
<1> USE DEF PinExpires, IInv, connection, history
<1>1. TypeOK'
  BY DEF TypeOK
<1>2. Places'
  BY DEF Places, InBody, Proxied, NeedsTunnel
<1>3. Approved'
  BY DEF Approved, Allowed
<1>4. Times'
  BY DEF Times
<1>5. Whole'
  BY DEF Whole, Carried, ReachableMeansAnswered, Proxied, Bodyless
<1>6. Sockets'
  BY DEF Sockets, AnsweredSocketsClosed, Proxied, NeedsTunnel
<1> QED BY <1>1, <1>2, <1>3, <1>4, <1>5, <1>6

LEMMA ConnectedKeeps == ASSUME IInv, Connected PROVE IInv'
<1> USE DEF IInv
<1>1. /\ stage \in {"connecting", "connectTls"} /\ stage \in Waiting \ {"resolving"}
      /\ stage \in Connecting /\ ~InBody /\ ~short
      /\ UNCHANGED <<job, budget, ended, early, pin, dialled, short>> /\ late' = 0
  BY DEF Connected, Connecting, Waiting, Handshake, Reading, InBody, Whole, Carried
<1>2. CASE \E more \in 0 .. Grace : Await("connectTls", left + more)
  <2>1. PICK more \in 0 .. Grace : Await("connectTls", left + more)
    BY <1>2
  <2>2. /\ stage' = "connectTls" /\ left' = left + more /\ left' \in Nat
        /\ UNCHANGED <<host, nth, answer, got, pieces, open, result, verdict>>
        /\ stage' \in Waiting \ {"resolving"} /\ stage' \in Connecting /\ stage' \notin Handshake
        /\ ~InBody' /\ stage' \notin {"ready", "backoff", "over"} /\ stage # "over"
    BY <1>1, <2>1 DEF Await, TypeOK, Connecting, Waiting, Handshake, Reading, InBody
  <2>3. TypeOK'
    BY <1>1, <2>2 DEF TypeOK
  <2>4. Places'
    BY <1>1, <2>2 DEF Places, Proxied
  <2>5. Approved'
    BY <1>1 DEF Approved, Allowed
  <2>6. Times'
    BY <1>1, <2>2 DEF Times
  <2>7. Whole'
    BY <1>1, <2>2 DEF Whole, Carried, ReachableMeansAnswered
  <2>8. Sockets'
    BY <1>1, <2>2 DEF Sockets, AnsweredSocketsClosed, Proxied
  <2> QED BY <2>3, <2>4, <2>5, <2>6, <2>7, <2>8
<1>3. CASE Await(IF NeedsTunnel THEN FirstReply ELSE "head", Rearmed)
  <2> DEFINE place == IF NeedsTunnel THEN FirstReply ELSE "head"
  <2>1. FirstReply \in Handshake
    BY DEF FirstReply, Handshake
  <2>2. /\ place \in {"head"} \cup (Waiting \ (Connecting \cup Reading))
        /\ place \in Handshake => NeedsTunnel
    BY <2>1, StagesApart DEF Reading
  <2>3. Frame
    BY <1>1 DEF Frame, TypeOK
  <2> HIDE DEF place
  <2>4. Await(place, Rearmed)
    BY <1>3 DEF place
  <2>5. Onward
    BY <1>1, <2>2, <2>3, <2>4, AwaitOutcome
  <2> QED BY <2>5, OnwardKeeps
<1> QED BY <1>2, <1>3 DEF Connected

LEMMA TickKeeps == ASSUME IInv, Tick PROVE IInv'
<1> USE DEF IInv
<1>1. /\ stage \in Waiting /\ left \in Nat /\ left' \in Nat
      /\ stage \in Timed => left > 0 /\ left' = left - 1
      /\ budget \in 0 .. Timeout /\ budget' = (IF budget > 0 THEN budget - 1 ELSE 0)
      /\ late \in 0 .. 2
      /\ late' = IF budget = 0 /\ stage \notin Connecting THEN Smaller(2, late + 1) ELSE late
      /\ UNCHANGED <<job, host, nth, stage, connection, result, verdict, pin, dialled, short>>
  BY DEF Tick, Timed, TypeOK, Larger
<1> USE DEF connection
<1>2. /\ stage \in Connecting => late' = 0
      /\ stage \in Timed \ Connecting => /\ budget' > 0 => late' = 0 /\ left' <= budget'
                                         /\ budget' = 0 => left' + late' <= 1
  <2>1. CASE stage \in Connecting
    BY <1>1, <2>1, StagesApart DEF Times, Timed
  <2>2. CASE stage \notin Connecting /\ budget > 0
    <3>1. ASSUME stage \in Timed
          PROVE  late' = 0 /\ left' \in Nat /\ budget' \in Nat /\ left' <= budget'
      <4>1. late = 0 /\ left <= budget
        BY <2>2, <3>1 DEF Times
      <4>2. left' = left - 1 /\ budget' = budget - 1 /\ late' = late
        BY <1>1, <2>2, <3>1
      <4> QED BY <1>1, <2>2, <4>1, <4>2
    <3>2. stage \in Timed => (budget' = 0 => left' + late' <= 1)
      BY <3>1
    <3> QED BY <2>2, <3>1, <3>2
  <2>3. CASE stage \notin Connecting /\ budget = 0
    <3>1. ASSUME stage \in Timed
          PROVE  left' + late' <= 1
      <4>1. left + late <= 1
        BY <2>3, <3>1 DEF Times
      <4>2. left' = left - 1 /\ left > 0
        BY <1>1, <3>1
      <4>3. late' <= late + 1 /\ late' \in Nat
        BY <1>1, <2>3 DEF Smaller
      <4> QED BY <1>1, <4>1, <4>2, <4>3
    <3>2. budget' = 0
      BY <1>1, <2>3
    <3> QED BY <2>3, <3>1, <3>2
  <2> QED BY <1>1, <2>1, <2>2, <2>3
<1>3. TypeOK'
  <2>1. left' \in Nat /\ budget' \in 0 .. Timeout /\ late' \in 0 .. 2
    BY <1>1 DEF Smaller
  <2> QED BY <1>1, <2>1 DEF TypeOK
<1>4. Places'
  BY <1>1 DEF Places, InBody, Proxied, NeedsTunnel
<1>5. Approved'
  BY <1>1 DEF Approved, Allowed
<1>6. Times'
  BY <1>1, <1>2 DEF Times
<1>7. Whole'
  BY <1>1 DEF Whole, Carried, ReachableMeansAnswered, Proxied, Bodyless
<1>8. Sockets'
  BY <1>1 DEF Sockets, AnsweredSocketsClosed, Proxied, NeedsTunnel
<1> QED BY <1>3, <1>4, <1>5, <1>6, <1>7, <1>8

LEMMA RetryKeeps == ASSUME IInv, Retry PROVE IInv'
<1> USE DEF IInv, connection, history
<1>1. /\ stage = "backoff" /\ stage' = "ready" /\ Proxied
      /\ stage' \notin Waiting /\ stage' \notin Handshake /\ ~InBody'
  BY DEF Retry, Places, Waiting, Connecting, Handshake, Reading, InBody
<1>2. UNCHANGED <<job, host, nth, left, budget, connection, result, verdict, pin, history>>
  BY DEF Retry
<1>3. TypeOK'
  BY <1>1, <1>2 DEF TypeOK
<1>4. Places'
  BY <1>1, <1>2 DEF Places, Proxied
<1>5. Approved'
  BY <1>2 DEF Approved, Allowed
<1>6. Times'
  BY <1>1, <1>2, StagesApart DEF Times, Timed
<1>7. Whole'
  BY <1>1, <1>2 DEF Whole, Carried, ReachableMeansAnswered
<1>8. Sockets'
  BY <1>1, <1>2 DEF Sockets, AnsweredSocketsClosed, Proxied
<1> QED BY <1>3, <1>4, <1>5, <1>6, <1>7, <1>8

LEMMA HangUpKeeps == ASSUME IInv, NEW n \in open, HangUp(n) PROVE IInv'
<1> USE DEF IInv, history
<1>1. /\ open' = open \ {n}
      /\ UNCHANGED <<job, host, nth, stage, left, budget, ended, early, answer, got, pieces,
                     result, verdict, pin, history>>
  BY DEF HangUp
<1>2. TypeOK'
  BY <1>1 DEF TypeOK
<1>3. Places'
  BY <1>1 DEF Places, InBody, Proxied, NeedsTunnel
<1>4. Approved'
  BY <1>1 DEF Approved, Allowed
<1>5. Times'
  BY <1>1 DEF Times
<1>6. Whole'
  BY <1>1 DEF Whole, Carried, ReachableMeansAnswered, Proxied, Bodyless
<1>7. Sockets'
  BY <1>1 DEF Sockets, AnsweredSocketsClosed, Proxied, NeedsTunnel
<1> QED BY <1>2, <1>3, <1>4, <1>5, <1>6, <1>7

LEMMA StutterKeeps == ASSUME IInv, UNCHANGED vars PROVE IInv'
<1> USE DEF IInv, vars, connection, history
<1>1. TypeOK'
  BY DEF TypeOK
<1>2. Places'
  BY DEF Places, InBody, Proxied, NeedsTunnel
<1>3. Approved'
  BY DEF Approved, Allowed
<1>4. Times'
  BY DEF Times
<1>5. Whole'
  BY DEF Whole, Carried, ReachableMeansAnswered, Proxied, Bodyless
<1>6. Sockets'
  BY DEF Sockets, AnsweredSocketsClosed, Proxied, NeedsTunnel
<1> QED BY <1>1, <1>2, <1>3, <1>4, <1>5, <1>6

-----------------------------------------------------------------------------
LEMMA StepKeeps == ASSUME IInv, [Next]_vars PROVE IInv'
<1>1. CASE Reject
  BY <1>1, RejectKeeps
<1>2. CASE Dial
  BY <1>2, DialKeeps
<1>3. CASE ResolveCached
  BY <1>3, ResolveCachedKeeps
<1>4. CASE Resolve
  BY <1>4, ResolveKeeps
<1>5. CASE PinExpires
  BY <1>5, PinExpiresKeeps
<1>6. CASE Connected
  BY <1>6, ConnectedKeeps
<1>7. CASE Reply \/ CutReply \/ Secured \/ Head \/ Body \/ Close \/ Trickle \/ Error \/ TimeOut
  <2>1. TypeOK /\ Places /\ Carried
    BY DEF IInv, Whole
  <2> QED BY <1>7, <2>1, EventOutcome, OutcomeKeeps
<1>8. CASE Tick
  BY <1>8, TickKeeps
<1>9. CASE Retry
  BY <1>9, RetryKeeps
<1>10. CASE \E n \in open : HangUp(n)
  BY <1>10, HangUpKeeps
<1>11. CASE UNCHANGED vars
  BY <1>11, StutterKeeps
<1> QED BY <1>1, <1>2, <1>3, <1>4, <1>5, <1>6, <1>7, <1>8, <1>9, <1>10, <1>11 DEF Next, Peer

\* The strengthened invariant: what is read agrees with where the request is,
\* and what the cache, the sockets and the timers hold agrees with the policy.
THEOREM Invariant == Spec => []IInv
<1>1. Init => IInv
  BY InitKeeps
<1>2. IInv /\ [Next]_vars => IInv'
  BY StepKeeps
<1> QED BY <1>1, <1>2, PTL DEF Spec

\* Every variable of a request stays in its type (worker/src/net).
THEOREM Typing == Spec => []TypeOK
<1>1. IInv => TypeOK
  BY DEF IInv
<1> QED BY <1>1, Invariant, PTL

\* No socket is opened to an address the policy forbids, for any policy and any
\* records the name servers give (safe-lookup.ts, url-policy.ts, ip.ts).
THEOREM ApprovedOnly == Spec => []OnlyApprovedDialled
<1>1. IInv => OnlyApprovedDialled
  BY DEF IInv, Approved, Allowed, OnlyApprovedDialled
<1> QED BY <1>1, Invariant, PTL

\* A reachable proxy gave a whole answer through a whole handshake, for any
\* limits and accepted statuses (socks.ts, http-response.ts, checker.ts).
THEOREM AnsweredIfReachable == Spec => []ReachableMeansAnswered
<1>1. IInv => ReachableMeansAnswered
  BY DEF IInv, Whole
<1> QED BY <1>1, Invariant, PTL

\* A request that is over has closed its socket, but for the two kinds of
\* failure named there, for any number of attempts and redirects
\* (proxy-client.ts, direct-fetch.ts).
THEOREM SocketsAreClosed == Spec => []AnsweredSocketsClosed
<1>1. IInv => AnsweredSocketsClosed
  BY DEF IInv, Sockets
<1> QED BY <1>1, Invariant, PTL

\* Beyond its deadline a request waits through one tick of silence at most
\* wherever its wait has a timer, which is everywhere but in TLS through a
\* tunnel, for any deadline and limit (http-response.ts, stream-buffer.ts).
THEOREM SilenceIsBounded == Spec => []SilenceBounded
<1>1. IInv => SilenceBounded
  BY DEF IInv, TypeOK, Times, SilenceBounded
<1> QED BY <1>1, Invariant, PTL
=============================================================================
