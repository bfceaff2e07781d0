---------------------------- MODULE Access_proofs ----------------------------
(***************************************************************************)
(* Whatever administrators, requests and the provider do at once: a key    *)
(* authenticates only while it is active and unexpired, a revoked key      *)
(* stays revoked and is reported so, a withdrawn signing key is refused    *)
(* when its cached set has ended, and a published one is accepted; and no  *)
(* limit lets more through than it promises.                               *)
(***************************************************************************)
EXTENDS Access, FiniteSetTheorems, TLAPS

Places == {"idle", "answered", "lookup", "use", "expire", "keys", "refresh", "fetch",
           "failed", "quota"}
Arrivals == (UNION {Calls[m] : m \in Modes}) \cup {NoCall}
Request == [pc : Places, call : Arrivals, taken : Nat, seen : Nat, forced : BOOLEAN,
            outage : BOOLEAN, answer : Nat]
Row == [status : {"absent", "active", "revoked", "expired"}, version : Nat, expires : Nat]

(* Only a token or a probe is ever looked up in the key sets.              *)
OfTokens(r) == r.pc \in {"keys", "refresh", "fetch"} => r.call.credential.kind # "key"
OfKeys(r) == r.pc \in {"lookup", "use", "expire"} => r.call.credential.id \in Keys
RequestsInv ==
    /\ request \in [Clients -> Request]
    /\ \A c \in Clients : OfTokens(request[c]) /\ OfKeys(request[c])

(* A revoked key has its audit event, and only a new version of its row    *)
(* can be revoked.                                                         *)
RowInv(k) ==
    /\ credential[k].status = "absent" => credential[k].version = 0
    /\ credential[k].status = "revoked" => audits[k] = 1
RowsInv ==
    /\ credential \in [Keys -> Row] /\ audits \in [Keys -> {0, 1}]
    /\ \A k \in Keys : RowInv(k)
RowGrows(k) ==
    /\ credential'[k].version >= credential[k].version
    /\ credential[k].status = "revoked" => credential'[k].status = "revoked"
    /\ credential'[k].status = "revoked" =>
           \/ credential[k].status = "revoked"
           \/ credential'[k].version > credential[k].version
RowsGrow == \A k \in Keys : RowGrows(k)

AccessInv ==
    /\ now \in Nat
    /\ config.mode \in Modes
    /\ RowsInv
    /\ RequestsInv

(* Who authenticates, over one step.                                       *)
StillUsable(k, c) == credential[k].status = "active" /\ credential[k].expires > request[c].taken
OnlyUsable == \A k \in Keys, c \in Clients : Authenticates(c, k) => StillUsable(k, c)

(* One request becomes r, the others stay as they are.                     *)
LEMMA OneRequest ==
    ASSUME RequestsInv, NEW c \in Clients, NEW r \in Request,
           request' = [request EXCEPT ![c] = r], OfTokens(r), OfKeys(r),
           config' = config,
           \A k \in Keys : (/\ config.mode # "disabled" /\ r.pc = "quota"
                            /\ request[c].pc # "quota"
                            /\ r.call.credential.kind = "key" /\ r.call.credential.id = k)
                           => StillUsable(k, c)
    PROVE  RequestsInv' /\ OnlyUsable
<1>1. request'[c] = r /\ \A d \in Clients \ {c} : request'[d] = request[d]
  BY DEF RequestsInv
<1>2. request' \in [Clients -> Request]
  BY DEF RequestsInv
<1>3. RequestsInv'
  BY <1>1, <1>2 DEF RequestsInv, OfTokens, OfKeys
<1>4. OnlyUsable
  BY <1>1 DEF OnlyUsable, Authenticates
<1> QED BY <1>3, <1>4

(* No request changes.                                                     *)
LEMMA NoRequestChanges ==
    ASSUME RequestsInv, request' = request, config' = config
    PROVE  RequestsInv' /\ OnlyUsable
BY DEF RequestsInv, OnlyUsable, Authenticates, OfTokens, OfKeys

(* The edits of a request that the actions make.                           *)
LEMMA EditPc ==
    ASSUME NEW r \in Request, NEW pc \in Places
    PROVE  /\ [r EXCEPT !.pc = pc] \in Request
           /\ [r EXCEPT !.pc = pc].pc = pc /\ [r EXCEPT !.pc = pc].call = r.call
BY DEF Request

LEMMA EditAccepted ==
    ASSUME NEW r \in Request, NEW n \in Nat
    PROVE  /\ [r EXCEPT !.pc = "quota", !.taken = n, !.forced = FALSE] \in Request
           /\ [r EXCEPT !.pc = "quota", !.taken = n, !.forced = FALSE].pc = "quota"
           /\ [r EXCEPT !.pc = "quota", !.taken = n, !.forced = FALSE].call = r.call
<1>1. "quota" \in Places
  BY DEF Places
<1> QED BY <1>1 DEF Request

LEMMA EditFailed ==
    ASSUME NEW r \in Request, NEW pc \in Places, NEW b \in BOOLEAN
    PROVE  /\ [r EXCEPT !.pc = pc, !.seen = 0, !.taken = 0, !.forced = FALSE, !.outage = b]
                 \in Request
           /\ [r EXCEPT !.pc = pc, !.seen = 0, !.taken = 0, !.forced = FALSE, !.outage = b].pc
                 = pc
BY DEF Request

LEMMA NoRequestType == NoRequest \in Request
<1>1. NoCall \in Arrivals /\ "idle" \in Places
  BY DEF Arrivals, Places
<1> QED BY <1>1 DEF Request, NoRequest

LEMMA EditAnswered ==
    ASSUME NEW r \in Request, NEW pc \in Places, NEW n \in Nat
    PROVE  /\ [r EXCEPT !.pc = pc, !.answer = n] \in Request
           /\ [r EXCEPT !.pc = pc, !.answer = n].pc = pc
BY DEF Request

(***************************************************************************)
(* The steps of a request                                                  *)
(***************************************************************************)
LEMMA AnswerStep ==
    ASSUME AccessInv, NEW c \in Clients, NEW status \in Nat, Answer(c, status), config' = config
    PROVE  RequestsInv' /\ OnlyUsable
<1>1. PICK r \in Request : /\ r = [NoRequest EXCEPT !.pc = "answered", !.answer = status]
                           /\ r.pc = "answered"
  <2>1. "answered" \in Places
    BY DEF Places
  <2>2. /\ [NoRequest EXCEPT !.pc = "answered", !.answer = status] \in Request
        /\ [NoRequest EXCEPT !.pc = "answered", !.answer = status].pc = "answered"
    BY <2>1, NoRequestType, EditAnswered
  <2> QED BY <2>2
<1> QED BY <1>1, OneRequest DEF AccessInv, Answer, OfTokens, OfKeys

LEMMA FailStep ==
    ASSUME AccessInv, NEW c \in Clients, NEW b \in BOOLEAN, Fail(c, b), config' = config
    PROVE  RequestsInv' /\ OnlyUsable
<1> DEFINE r == [request[c] EXCEPT !.pc = "failed", !.seen = 0, !.taken = 0, !.forced = FALSE,
                                   !.outage = b]
<1>1. r \in Request /\ r.pc = "failed"
  <2>1. "failed" \in Places /\ request[c] \in Request
    BY DEF Places, AccessInv, RequestsInv
  <2> QED BY <2>1, EditFailed
<1>2. request' = [request EXCEPT ![c] = r]
  BY DEF Fail, AccessInv, RequestsInv
<1> HIDE DEF r
<1> QED BY <1>1, <1>2, OneRequest DEF AccessInv, OfTokens, OfKeys

LEMMA GotoStep ==
    ASSUME AccessInv, NEW c \in Clients, NEW pc \in Places, Goto(c, pc), config' = config,
           pc \in {"keys", "refresh", "fetch"} => request[c].call.credential.kind # "key",
           pc \in {"lookup", "use", "expire"} => request[c].call.credential.id \in Keys,
           pc = "quota" => \A k \in Keys : request[c].call.credential.id = k => StillUsable(k, c)
    PROVE  RequestsInv' /\ OnlyUsable
<1> DEFINE r == [request[c] EXCEPT !.pc = pc]
<1>1. r \in Request /\ r.pc = pc /\ r.call = request[c].call
  BY EditPc DEF AccessInv, RequestsInv
<1>2. request' = [request EXCEPT ![c] = r]
  BY DEF Goto, AccessInv, RequestsInv
<1> HIDE DEF r
<1> QED BY <1>1, <1>2, OneRequest DEF AccessInv, OfTokens, OfKeys

LEMMA AcceptStep ==
    ASSUME AccessInv, NEW c \in Clients, NEW time \in Nat, Accept(c, time), config' = config,
           request[c].call.credential.kind # "key"
    PROVE  RequestsInv' /\ OnlyUsable
<1> DEFINE r == [request[c] EXCEPT !.pc = "quota", !.taken = time, !.forced = FALSE]
<1>1. CASE Answer(c, 200)
  BY <1>1, AnswerStep
<1>2. CASE Fail(c, FALSE)
  BY <1>2, FailStep
<1>3. CASE request' = [request EXCEPT ![c].pc = "quota", ![c].taken = time, ![c].forced = FALSE]
  <2>1. request[c] \in Request
    BY DEF AccessInv, RequestsInv
  <2>3. r \in Request /\ r.pc = "quota" /\ r.call = request[c].call
    BY <2>1, EditAccepted
  <2>2. request' = [request EXCEPT ![c] = r]
    BY <1>3 DEF AccessInv, RequestsInv
  <2> HIDE DEF r
  <2> QED BY <2>2, <2>3, OneRequest DEF AccessInv, OfTokens, OfKeys
<1> QED BY <1>1, <1>2, <1>3 DEF Accept

LEMMA MissStep ==
    ASSUME AccessInv, NEW c \in Clients, Miss(c), config' = config,
           request[c].call.credential.kind # "key"
    PROVE  RequestsInv' /\ OnlyUsable
<1>1. CASE Fail(c, FALSE)
  BY <1>1, FailStep
<1>2. CASE Goto(c, "refresh")
  <2>1. "refresh" \in Places
    BY DEF Places
  <2> QED BY <1>2, <2>1, GotoStep
<1> QED BY <1>1, <1>2 DEF Miss

LEMMA DecideStep ==
    ASSUME AccessInv, NEW c \in Clients, Decide(c), config' = config
    PROVE  RequestsInv' /\ OnlyUsable
BY AnswerStep DEF Decide

LEMMA ArriveStep ==
    ASSUME AccessInv, NEW c \in Clients, NEW call \in Calls[config.mode],
           Arrive(c, call) \/ ArriveUnlimited(c, call)
    PROVE  RequestsInv' /\ OnlyUsable
<1>1. config' = config /\ call \in Arrivals
  BY DEF Arrive, ArriveUnlimited, Arrival, outside, Arrivals, AccessInv
<1>2. BoundaryAnswer(call) \in Nat
  BY DEF BoundaryAnswer
<1>3. ASSUME NEW status \in Nat, Answer(c, status) PROVE RequestsInv' /\ OnlyUsable
  BY <1>1, <1>3, AnswerStep
<1>4. ASSUME NEW pc \in Places, Begin(c, call, pc),
             pc \in {"keys", "refresh", "fetch"} => call.credential.kind # "key",
             pc \in {"lookup", "use", "expire"} => call.credential.id \in Keys,
             pc = "quota" => config.mode = "disabled"
      PROVE  RequestsInv' /\ OnlyUsable
  <2> DEFINE r == [NoRequest EXCEPT !.pc = pc, !.call = call]
  <2>1. r \in Request /\ r.pc = pc /\ r.call = call
    <3>1. NoRequest \in Request /\ call \in Arrivals /\ pc \in Places
      BY <1>1, NoRequestType
    <3> QED BY <3>1 DEF Request
  <2>2. request' = [request EXCEPT ![c] = r]
    BY <1>4 DEF Begin
  <2> HIDE DEF r
  <2> QED BY <1>1, <1>4, <2>1, <2>2, OneRequest DEF AccessInv, OfTokens, OfKeys
<1>5. call.credential.kind = "key" => call.credential.id \in Keys
  BY AccessAssumption DEF AccessInv
<1>6. CASE Begin(c, call, "keys") /\ call.credential.kind = "probe"
  <2>1. "keys" \in Places
    BY DEF Places
  <2> QED BY <1>4, <1>6, <2>1
<1>7. CASE Begin(c, call, Entrance(call))
  <2>1. /\ Entrance(call) \in {"quota", "lookup", "keys", "failed"}
        /\ Entrance(call) = "keys" => call.credential.kind = "token"
        /\ Entrance(call) = "lookup" => call.credential.kind = "key"
        /\ Entrance(call) = "quota" => config.mode = "disabled"
    BY DEF Entrance
  <2>2. Entrance(call) \in Places
    BY <2>1 DEF Places
  <2> HIDE DEF Entrance
  <2> QED BY <1>4, <1>5, <1>7, <2>1, <2>2
<1>8. \/ Answer(c, BoundaryAnswer(call)) \/ Answer(c, 429) \/ Answer(c, 413) \/ Answer(c, 503)
      \/ Begin(c, call, "keys") /\ call.credential.kind = "probe"
      \/ Begin(c, call, Entrance(call))
  BY DEF Arrive, ArriveUnlimited
<1> QED BY <1>2, <1>3, <1>6, <1>7, <1>8

LEMMA LookUpStep ==
    ASSUME AccessInv, NEW c \in Clients, LookUp(c)
    PROVE  RequestsInv' /\ OnlyUsable
<1> DEFINE k == request[c].call.credential.id
           pc == IF credential[k].status # "active" THEN "failed"
                 ELSE IF credential[k].expires <= now THEN "expire" ELSE "use"
           r == [request[c] EXCEPT !.pc = pc, !.taken = now, !.seen = credential[k].version]
<1>1. /\ k \in Keys /\ config' = config /\ request[c] \in Request /\ now \in Nat
  BY DEF LookUp, At, outside, AccessInv, RequestsInv, OfKeys
<1>2. credential[k].version \in Nat
  BY <1>1 DEF AccessInv, RowsInv, Row
<1>3. pc \in Places /\ pc \in {"failed", "expire", "use"}
  BY DEF Places
<1>4. request' = [request EXCEPT ![c] = r]
  BY DEF LookUp, AccessInv, RequestsInv
<1> HIDE DEF pc
<1>5. r \in Request /\ r.pc = pc /\ r.call = request[c].call
  BY <1>1, <1>2, <1>3 DEF Request
<1> HIDE DEF r
<1> QED BY <1>1, <1>3, <1>4, <1>5, OneRequest DEF AccessInv, OfTokens, OfKeys

LEMMA UseKeyStep ==
    ASSUME AccessInv, NEW c \in Clients, UseKey(c)
    PROVE  RequestsInv' /\ OnlyUsable
<1>1. config' = config
  BY DEF UseKey, outside
<1>2. CASE Fail(c, FALSE)
  BY <1>1, <1>2, FailStep
<1>3. CASE Goto(c, "quota") /\ Usable(credential[request[c].call.credential.id], request[c].taken)
  <2>1. "quota" \in Places
    BY DEF Places
  <2>2. \A k \in Keys : request[c].call.credential.id = k => StillUsable(k, c)
    BY <1>3 DEF Usable, StillUsable
  <2> QED BY <1>1, <1>3, <2>1, <2>2, GotoStep
<1> QED BY <1>2, <1>3 DEF UseKey

LEMMA TokenStep ==
    ASSUME AccessInv, NEW c \in Clients,
           UseCachedKeys(c) \/ StartFetch(c) \/ FetchAnswered(c) \/ FetchFails(c)
    PROVE  RequestsInv' /\ OnlyUsable
<1>1. /\ config' = config /\ now \in Nat /\ request[c] \in Request
      /\ request[c].taken \in Nat /\ request[c].call.credential.kind # "key"
  BY DEF UseCachedKeys, StartFetch, FetchAnswered, FetchFails, outside, At, AccessInv,
         RequestsInv, Request, OfTokens
<1>2. CASE UseCachedKeys(c) \/ FetchAnswered(c)
  <2>1. \/ Accept(c, now) \/ Accept(c, request[c].taken) \/ Miss(c)
    BY <1>2 DEF UseCachedKeys, FetchAnswered
  <2> QED BY <1>1, <2>1, AcceptStep, MissStep
<1>3. CASE StartFetch(c)
  <2> DEFINE b == At(c, "refresh")
             r == [request[c] EXCEPT !.pc = "fetch", !.taken = now, !.forced = b]
  <2>1. "fetch" \in Places /\ b \in BOOLEAN
    BY DEF Places, At
  <2>2. r \in Request /\ r.pc = "fetch" /\ r.call = request[c].call
    <3> HIDE DEF b
    <3> QED BY <1>1, <2>1 DEF Request
  <2>3. request' = [request EXCEPT ![c] = r]
    BY <1>3 DEF StartFetch, AccessInv, RequestsInv
  <2> HIDE DEF r
  <2> QED BY <1>1, <2>2, <2>3, OneRequest DEF AccessInv, OfTokens, OfKeys
<1>4. CASE FetchFails(c)
  <2>1. Answer(c, 503) \/ Fail(c, TRUE)
    BY <1>4 DEF FetchFails
  <2>2. CASE Answer(c, 503)
    BY <1>1, <2>2, AnswerStep
  <2>3. CASE Fail(c, TRUE)
    BY <1>1, <2>3, FailStep
  <2> QED BY <2>1, <2>2, <2>3
<1> QED BY <1>2, <1>3, <1>4

LEMMA ServeStep ==
    ASSUME AccessInv, NEW c \in Clients, Serve(c)
    PROVE  RequestsInv' /\ OnlyUsable
<1>1. config' = config
  BY DEF Serve, LookUp, UseKey, ExpireKey, DatabaseFails, UseCachedKeys, StartFetch, FetchAnswered,
         FetchFails, RefuseCredential, Quota, LimiterDown, outside
<1>2. CASE LookUp(c)
  BY <1>2, LookUpStep
<1>3. CASE UseKey(c)
  BY <1>3, UseKeyStep
<1>4. CASE ExpireKey(c) \/ DatabaseFails(c)
  BY <1>1, <1>4, FailStep DEF ExpireKey, DatabaseFails
<1>5. CASE UseCachedKeys(c) \/ StartFetch(c) \/ FetchAnswered(c) \/ FetchFails(c)
  BY <1>5, TokenStep
<1>6. CASE RefuseCredential(c)
  BY <1>1, <1>6, AnswerStep DEF RefuseCredential
<1>7. CASE Quota(c)
  BY <1>1, <1>7, AnswerStep, DecideStep DEF Quota
<1>8. CASE LimiterDown(c)
  BY <1>1, <1>8, AnswerStep DEF LimiterDown
<1> QED BY <1>2, <1>3, <1>4, <1>5, <1>6, <1>7, <1>8 DEF Serve

(***************************************************************************)
(* The rows of the credentials                                             *)
(***************************************************************************)
LEMMA EditRow ==
    ASSUME NEW r \in Row
    PROVE  /\ [r EXCEPT !.version = @ + 1] \in Row
           /\ [r EXCEPT !.version = @ + 1].status = r.status
           /\ [r EXCEPT !.version = @ + 1].version > r.version
           /\ [r EXCEPT !.status = "expired", !.version = @ + 1] \in Row
           /\ [r EXCEPT !.status = "expired", !.version = @ + 1].status = "expired"
           /\ [r EXCEPT !.status = "expired", !.version = @ + 1].version > r.version
           /\ [r EXCEPT !.status = "revoked", !.version = @ + 1] \in Row
           /\ [r EXCEPT !.status = "revoked", !.version = @ + 1].status = "revoked"
           /\ [r EXCEPT !.status = "revoked", !.version = @ + 1].version > r.version
<1> DEFINE n == r.version + 1
<1>1. n \in Nat /\ n > r.version
  BY DEF Row
<1> HIDE DEF n
<1>2. /\ [r EXCEPT !.version = n] \in Row /\ [r EXCEPT !.version = n].status = r.status
      /\ [r EXCEPT !.version = n].version = n
  BY <1>1 DEF Row
<1>3. /\ [r EXCEPT !.status = "expired", !.version = n] \in Row
      /\ [r EXCEPT !.status = "expired", !.version = n].status = "expired"
      /\ [r EXCEPT !.status = "expired", !.version = n].version = n
  BY <1>1 DEF Row
<1>4. /\ [r EXCEPT !.status = "revoked", !.version = n] \in Row
      /\ [r EXCEPT !.status = "revoked", !.version = n].status = "revoked"
      /\ [r EXCEPT !.status = "revoked", !.version = n].version = n
  BY <1>1 DEF Row
<1> QED BY <1>1, <1>2, <1>3, <1>4 DEF n

(* One row becomes r, a later version of it.                               *)
LEMMA OneRow ==
    ASSUME RowsInv, NEW k \in Keys, NEW r \in Row,
           credential' = [credential EXCEPT ![k] = r],
           audits' = audits \/ audits' = [audits EXCEPT ![k] = 1],
           r.status # "absent", r.version > credential[k].version,
           credential[k].status = "revoked" => r.status = "revoked",
           r.status = "revoked" => credential[k].status = "revoked" \/ audits'[k] = 1
    PROVE  RowsInv' /\ RowsGrow
<1>1. credential' \in [Keys -> Row] /\ audits' \in [Keys -> {0, 1}]
  BY DEF RowsInv
<1>2. \A l \in Keys : l # k => credential'[l] = credential[l] /\ audits'[l] = audits[l]
  BY DEF RowsInv
<1>3. credential'[k] = r /\ (audits[k] = 1 => audits'[k] = 1)
  BY DEF RowsInv
<1>4. \A l \in Keys : RowGrows(l)
  BY <1>2, <1>3 DEF RowsInv, RowGrows, Row
<1>5. \A l \in Keys : RowInv(l)'
  BY <1>2, <1>3 DEF RowsInv, RowInv
<1> QED BY <1>1, <1>4, <1>5 DEF RowsInv, RowsGrow

LEMMA NoRowChanges ==
    ASSUME RowsInv, credential' = credential, audits' = audits
    PROVE  RowsInv' /\ RowsGrow
BY DEF RowsInv, RowInv, RowsGrow, RowGrows, Row

LEMMA RowStep ==
    ASSUME AccessInv, AccessNext
    PROVE  RowsInv' /\ RowsGrow
<1>1. RowsInv
  BY DEF AccessInv
<1>2. CASE credential' = credential /\ audits' = audits
  BY <1>1, <1>2, NoRowChanges
<1>3. ASSUME NEW c \in Clients, UseKey(c), credential' # credential
      PROVE  RowsInv' /\ RowsGrow
  <2> DEFINE k == request[c].call.credential.id
             r == [credential[k] EXCEPT !.version = @ + 1]
  <2>1. /\ credential' = [credential EXCEPT ![k] = r] /\ audits' = audits
        /\ credential[k].status = "active"
    BY <1>1, <1>3 DEF UseKey, Usable, RowsInv
  <2>2. k \in Keys
    BY <1>1, <1>3, <2>1 DEF RowsInv
  <2>3. r \in Row /\ r.status = credential[k].status /\ r.version > credential[k].version
    BY <1>1, <2>2, EditRow DEF RowsInv
  <2> HIDE DEF k, r
  <2> QED BY <1>1, <2>1, <2>2, <2>3, OneRow
<1>4. ASSUME NEW c \in Clients, ExpireKey(c), credential' # credential
      PROVE  RowsInv' /\ RowsGrow
  <2> DEFINE k == request[c].call.credential.id
             r == [credential[k] EXCEPT !.status = "expired", !.version = @ + 1]
  <2>1. /\ credential' = [credential EXCEPT ![k] = r] /\ audits' = audits
        /\ credential[k].status = "active"
    BY <1>1, <1>4 DEF ExpireKey, RowsInv
  <2>2. k \in Keys
    BY <1>1, <1>4, <2>1 DEF RowsInv
  <2>3. r \in Row /\ r.status = "expired" /\ r.version > credential[k].version
    BY <1>1, <2>2, EditRow DEF RowsInv
  <2> HIDE DEF k, r
  <2> QED BY <1>1, <2>1, <2>2, <2>3, OneRow
<1>5. ASSUME NEW a \in Admins, WriteRevoke(a), credential' # credential
      PROVE  RowsInv' /\ RowsGrow
  <2> DEFINE k == revoker[a].key
             r == [credential[k] EXCEPT !.status = "revoked", !.version = @ + 1]
  <2>1. /\ credential' = [credential EXCEPT ![k] = r]
        /\ audits' = [audits EXCEPT ![k] = 1]
    <3>1. CASE Wins(credential[k], revoker[a].seen)
      <4>1. /\ credential' = [credential EXCEPT ![k].status = "revoked", ![k].version = @ + 1]
            /\ audits' = [audits EXCEPT ![k] = 1]
        BY <1>5, <3>1 DEF WriteRevoke
      <4> QED BY <1>1, <4>1 DEF RowsInv
    <3>2. CASE ~Wins(credential[k], revoker[a].seen)
      BY <1>5, <3>2 DEF WriteRevoke, records
    <3> QED BY <3>1, <3>2
  <2>2. k \in Keys
    BY <1>1, <1>5, <2>1 DEF RowsInv
  <2>3. r \in Row /\ r.status = "revoked" /\ r.version > credential[k].version
    BY <1>1, <2>2, EditRow DEF RowsInv
  <2>4. audits'[k] = 1
    BY <1>1, <2>1, <2>2 DEF RowsInv
  <2> HIDE DEF k, r
  <2> QED BY <1>1, <2>1, <2>2, <2>3, <2>4, OneRow
<1>6. ASSUME NEW k \in Keys, NEW expires \in Expiries, CreateKey(k, expires)
      PROVE  RowsInv' /\ RowsGrow
  <2> DEFINE r == [status |-> "active", version |-> 1, expires |-> expires]
  <2>1. /\ credential' = [credential EXCEPT ![k] = r] /\ audits' = audits
        /\ credential[k].status = "absent"
    BY <1>6 DEF CreateKey
  <2>2. r \in Row /\ r.status = "active" /\ r.version = 1
    BY AccessAssumption DEF Row
  <2>3. r.version > credential[k].version
    BY <1>1, <2>1, <2>2 DEF RowsInv, RowInv
  <2> HIDE DEF r
  <2> QED BY <1>1, <2>1, <2>2, <2>3, OneRow
<1>7. \/ credential' = credential /\ audits' = audits
      \/ credential' # credential /\ \E c \in Clients : UseKey(c) \/ ExpireKey(c)
      \/ credential' # credential /\ \E a \in Admins : WriteRevoke(a)
      \/ \E k \in Keys, expires \in Expiries : CreateKey(k, expires)
  <2>1. ASSUME NEW c \in Clients, UseKey(c) \/ ExpireKey(c) PROVE audits' = audits
    BY <2>1 DEF UseKey, ExpireKey
  <2>2. ASSUME NEW a \in Admins, WriteRevoke(a), credential' = credential
        PROVE  audits' = audits
    <3>1. CASE Wins(credential[revoker[a].key], revoker[a].seen)
      <4> DEFINE k == revoker[a].key
                 r == [credential[k] EXCEPT !.status = "revoked", !.version = @ + 1]
      <4>1. /\ credential' = [credential EXCEPT ![k] = r]
            /\ audits' = [audits EXCEPT ![k] = 1]
        BY <1>1, <2>2, <3>1 DEF WriteRevoke, RowsInv
      <4>2. CASE k \in Keys
        <5>1. r.status = "revoked" /\ credential[k].status # "revoked"
          BY <1>1, <3>1, <4>2, EditRow DEF Wins, RowsInv
        <5> QED BY <1>1, <2>2, <4>1, <4>2, <5>1 DEF RowsInv
      <4>3. CASE k \notin Keys
        BY <1>1, <4>1, <4>3 DEF RowsInv
      <4> QED BY <4>2, <4>3
    <3>2. CASE ~Wins(credential[revoker[a].key], revoker[a].seen)
      BY <2>2, <3>2 DEF WriteRevoke, records
    <3> QED BY <3>1, <3>2
  <2>3. \/ credential' = credential /\ audits' = audits
        \/ \E c \in Clients : UseKey(c) \/ ExpireKey(c)
        \/ \E a \in Admins : WriteRevoke(a)
        \/ \E k \in Keys, expires \in Expiries : CreateKey(k, expires)
    <3>1. ASSUME NEW c \in Clients, Serve(c), ~UseKey(c), ~ExpireKey(c)
          PROVE  credential' = credential /\ audits' = audits
      BY <3>1 DEF Serve, LookUp, DatabaseFails, UseCachedKeys, StartFetch, FetchAnswered,
                  FetchFails, RefuseCredential, Quota, LimiterDown, records
    <3>2. ASSUME NEW c \in Clients, NEW call \in Calls[config.mode],
                 Arrive(c, call) \/ ArriveUnlimited(c, call)
          PROVE  credential' = credential /\ audits' = audits
      BY <3>2 DEF Arrive, ArriveUnlimited, Arrival, records
    <3>3. ASSUME NEW a \in Admins, Revoke(a), ~WriteRevoke(a)
          PROVE  credential' = credential /\ audits' = audits
      BY <3>3 DEF Revoke, ReadForRevoke, RevokeFails, records
    <3>4. ASSUME NEW a \in Admins, NEW k \in Keys, BeginRevoke(a, k)
          PROVE  credential' = credential /\ audits' = audits
      BY <3>4 DEF BeginRevoke, records
    <3>5. ASSUME (\E k \in Kids : Publish(k) \/ Withdraw(k)) \/ Tick
          PROVE  credential' = credential /\ audits' = audits
      BY <3>5 DEF Publish, Withdraw, Tick, records
    <3> QED BY <3>1, <3>2, <3>3, <3>4, <3>5 DEF AccessNext
  <2> QED BY <2>1, <2>2, <2>3
<1> QED BY <1>2, <1>3, <1>4, <1>5, <1>6, <1>7

LEMMA RequestStep ==
    ASSUME AccessInv, AccessNext
    PROVE  RequestsInv' /\ OnlyUsable
<1>1. ASSUME NEW c \in Clients, Serve(c) PROVE RequestsInv' /\ OnlyUsable
  BY <1>1, ServeStep
<1>2. ASSUME NEW c \in Clients, NEW call \in Calls[config.mode],
             Arrive(c, call) \/ ArriveUnlimited(c, call)
      PROVE  RequestsInv' /\ OnlyUsable
  BY <1>2, ArriveStep
<1>3. CASE request' = request /\ config' = config
  BY <1>3, NoRequestChanges DEF AccessInv
<1>4. \/ \E c \in Clients : Serve(c)
      \/ \E c \in Clients : \E call \in Calls[config.mode] :
             Arrive(c, call) \/ ArriveUnlimited(c, call)
      \/ request' = request /\ config' = config
  BY DEF AccessNext, Revoke, ReadForRevoke, WriteRevoke, RevokeFails, BeginRevoke, CreateKey,
         Publish, Withdraw, Tick, outside
<1> QED BY <1>1, <1>2, <1>3, <1>4

LEMMA InitialInv == AccessInit => AccessInv
<1> SUFFICES ASSUME AccessInit PROVE AccessInv
  OBVIOUS
<1>1. now \in Nat /\ config.mode \in Modes
  BY DEF AccessInit
<1>2. RowsInv
  BY DEF AccessInit, NoKey, Row, RowsInv, RowInv
<1>3. NoRequest.pc = "idle"
  BY DEF NoRequest
<1>4. RequestsInv
  BY <1>3, NoRequestType DEF AccessInit, RequestsInv, OfTokens, OfKeys
<1> QED BY <1>1, <1>2, <1>4 DEF AccessInv

LEMMA NextInv ==
    ASSUME AccessInv, [AccessNext]_vars
    PROVE  AccessInv' /\ RowsGrow /\ OnlyUsable
<1>1. CASE AccessNext
  <2>1. (now' = now \/ Tick) /\ config' = config
    <3>1. ASSUME NEW c \in Clients, Serve(c) PROVE now' = now /\ config' = config
      BY <3>1 DEF Serve, LookUp, UseKey, ExpireKey, DatabaseFails, UseCachedKeys, StartFetch,
            FetchAnswered, FetchFails, RefuseCredential, Quota, LimiterDown, outside
    <3>2. ASSUME NEW c \in Clients, NEW call, Arrive(c, call) \/ ArriveUnlimited(c, call)
          PROVE  now' = now /\ config' = config
      BY <3>2 DEF Arrive, ArriveUnlimited, Arrival, outside
    <3>3. ASSUME NEW a \in Admins, Revoke(a) \/ \E k \in Keys : BeginRevoke(a, k)
          PROVE  now' = now /\ config' = config
      BY <3>3 DEF Revoke, ReadForRevoke, WriteRevoke, RevokeFails, BeginRevoke
    <3>4. CASE \/ \E k \in Keys, expires \in Expiries : CreateKey(k, expires)
               \/ \E k \in Kids : Publish(k) \/ Withdraw(k)
      BY <3>4 DEF CreateKey, Publish, Withdraw, outside
    <3>5. CASE Tick
      BY <3>5 DEF Tick
    <3> QED BY <1>1, <3>1, <3>2, <3>3, <3>4, <3>5 DEF AccessNext
  <2>2. now' \in Nat
    BY <2>1 DEF Tick, AccessInv
  <2> QED BY <1>1, <2>1, <2>2, RowStep, RequestStep DEF AccessInv
<1>2. CASE UNCHANGED vars
  BY <1>2, NoRequestChanges, NoRowChanges DEF vars, AccessInv
<1> QED BY <1>1, <1>2

(* A token or a probe is the only thing the key sets are asked for, and    *)
(* rows and requests are what the code takes them for.                     *)
THEOREM AccessInvariant == AccessSpec => []AccessInv
<1>1. AccessInv /\ [AccessNext]_vars => AccessInv'
  BY NextInv
<1> QED BY <1>1, InitialInv, PTL DEF AccessSpec

(* For any number of clients, administrators and keys, and any             *)
(* interleaving of their reads and conditional updates: CredentialsRespected.*)
THEOREM KeysAreRespected == AccessSpec => CredentialsRespected
<1>1. AccessInv /\ [AccessNext]_vars =>
        [\A k \in Keys :
            /\ credential[k].status = "revoked" => credential'[k].status = "revoked"
            /\ \A c \in Clients : Authenticates(c, k) =>
                   credential[k].status = "active" /\ credential[k].expires > request[c].taken]_vars
  BY NextInv DEF RowsGrow, RowGrows, OnlyUsable, StillUsable
<1> QED BY <1>1, AccessInvariant, PTL DEF AccessSpec, CredentialsRespected

(***************************************************************************)
(* Revocations.  A command expects the version it read, which is at least  *)
(* as many changes away from where it began as it has lost tries.          *)
(***************************************************************************)
Command == [pc : {"idle", "read", "write", "revoked", "conflict", "failed"},
            key : Keys \cup {"none"}, seen : Nat, tries : Nat, attempts : Nat, began : Nat]
OfRow(r, row) ==
    /\ r.pc = "read" => row.version >= r.began + r.tries
    /\ r.pc = "write" => /\ r.seen >= r.began + r.tries
                         /\ row.version >= r.seen
                         /\ row.status = "revoked" => row.version > r.seen
    /\ r.pc = "revoked" => row.status = "revoked"
    /\ r.pc = "conflict" => row.version >= r.began + RevokeTries
Supported(r) == r.pc # "idle" => r.key \in Keys /\ OfRow(r, credential[r.key])
RevokersInv ==
    /\ revoker \in [Admins -> Command]
    /\ \A a \in Admins : Supported(revoker[a])

(* A row that grows goes on supporting what a command believes of it.      *)
LEMMA StillSupported ==
    ASSUME RowsInv, RowsInv', RowsGrow, NEW r \in Command, Supported(r)
    PROVE  r.pc # "idle" => r.key \in Keys /\ OfRow(r, credential'[r.key])
<1> SUFFICES ASSUME r.pc # "idle" PROVE r.key \in Keys /\ OfRow(r, credential'[r.key])
  OBVIOUS
<1>1. r.key \in Keys /\ OfRow(r, credential[r.key])
  BY DEF Supported
<1> DEFINE old == credential[r.key]
           new == credential'[r.key]
<1>2. old \in Row /\ new \in Row
  BY <1>1 DEF RowsInv
<1>3. /\ new.version >= old.version
      /\ old.status = "revoked" => new.status = "revoked"
      /\ new.status = "revoked" => old.status = "revoked" \/ new.version > old.version
  BY <1>1 DEF RowsGrow, RowGrows
<1>4. /\ old.version \in Nat /\ new.version \in Nat
      /\ r.seen \in Nat /\ r.began \in Nat /\ r.tries \in Nat /\ RevokeTries \in Nat
  BY <1>2, AccessAssumption DEF Row, Command
<1>5. OfRow(r, old)
  BY <1>1
<1> HIDE DEF old, new
<1>6. OfRow(r, new)
  BY <1>3, <1>4, <1>5 DEF OfRow
<1> QED BY <1>1, <1>6 DEF new

(* One command becomes r, the others stay as they are.                     *)
LEMMA OneCommand ==
    ASSUME RevokersInv, RowsInv, RowsInv', RowsGrow, NEW a \in Admins, NEW r \in Command,
           revoker' = [revoker EXCEPT ![a] = r],
           r.pc # "idle" => r.key \in Keys /\ OfRow(r, credential'[r.key])
    PROVE  RevokersInv'
<1>1. revoker' \in [Admins -> Command]
  BY DEF RevokersInv
<1>2. ASSUME NEW b \in Admins PROVE Supported(revoker[b])'
  <2>1. CASE b = a
    <3>1. revoker'[b] = r
      BY <2>1 DEF RevokersInv
    <3> QED BY <3>1 DEF Supported
  <2>2. CASE b # a
    <3>1. revoker'[b] = revoker[b]
      BY <2>2 DEF RevokersInv
    <3>2. revoker[b] \in Command /\ Supported(revoker[b])
      BY DEF RevokersInv
    <3> QED BY <3>1, <3>2, StillSupported DEF Supported
  <2> QED BY <2>1, <2>2
<1> QED BY <1>1, <1>2 DEF RevokersInv

LEMMA ReadForRevokeStep ==
    ASSUME RevokersInv, RowsInv, RowsInv', RowsGrow, NEW a \in Admins, ReadForRevoke(a)
    PROVE  RevokersInv'
<1> DEFINE row == credential[revoker[a].key]
           pc == IF AlreadyRevoked(row) THEN "revoked" ELSE "write"
           r == [revoker[a] EXCEPT !.pc = pc, !.seen = row.version]
<1>1. /\ revoker[a] \in Command /\ revoker[a].pc = "read" /\ credential' = credential
      /\ Supported(revoker[a])
  BY DEF ReadForRevoke, RevokersInv, records
<1>2. revoker[a].key \in Keys /\ row \in Row /\ row.version >= revoker[a].began + revoker[a].tries
  BY <1>1 DEF Supported, OfRow, RowsInv
<1>3. row.version \in Nat /\ (row.status = "revoked" <=> pc = "revoked") /\ pc \in {"revoked", "write"}
  BY <1>2 DEF Row, AlreadyRevoked
<1>4. revoker' = [revoker EXCEPT ![a] = r]
  BY DEF ReadForRevoke, RevokersInv
<1> HIDE DEF pc, row
<1>5. /\ r \in Command /\ r.pc = pc /\ r.key = revoker[a].key /\ r.seen = row.version
      /\ r.began = revoker[a].began /\ r.tries = revoker[a].tries
  BY <1>1, <1>3 DEF Command
<1> HIDE DEF r
<1>6. OfRow(r, row)
  BY <1>2, <1>3, <1>5 DEF OfRow
<1>7. r.key \in Keys /\ credential'[r.key] = row
  BY <1>1, <1>2, <1>5 DEF row
<1> QED BY <1>4, <1>5, <1>6, <1>7, OneCommand

LEMMA WriteRevokeStep ==
    ASSUME RevokersInv, RowsInv, RowsInv', RowsGrow, NEW a \in Admins, WriteRevoke(a)
    PROVE  RevokersInv'
<1>1. revoker[a] \in Command /\ revoker[a].pc = "write" /\ Supported(revoker[a])
  BY DEF WriteRevoke, RevokersInv
<1> DEFINE k == revoker[a].key
           row == credential[k]
<1>2. /\ k \in Keys /\ row \in Row /\ row.version \in Nat
      /\ revoker[a].seen >= revoker[a].began + revoker[a].tries
      /\ row.version >= revoker[a].seen
      /\ row.status = "revoked" => row.version > revoker[a].seen
  BY <1>1 DEF Supported, OfRow, RowsInv, Row
<1>3. CASE Wins(row, revoker[a].seen)
  <2> DEFINE r == [revoker[a] EXCEPT !.pc = "revoked"]
             new == [row EXCEPT !.status = "revoked", !.version = @ + 1]
  <2>0. /\ revoker' = [revoker EXCEPT ![a].pc = "revoked"]
        /\ credential' = [credential EXCEPT ![k].status = "revoked", ![k].version = @ + 1]
    BY <1>3 DEF WriteRevoke
  <2>1. revoker' = [revoker EXCEPT ![a] = r] /\ credential' = [credential EXCEPT ![k] = new]
    <3>1. revoker' = [revoker EXCEPT ![a] = r]
      BY <2>0 DEF RevokersInv
    <3>2. credential' = [credential EXCEPT ![k] = new]
      BY <2>0 DEF RowsInv
    <3> QED BY <3>1, <3>2
  <2>2. r \in Command /\ r.pc = "revoked" /\ r.key = k
    BY <1>1 DEF Command
  <2>3. credential'[k].status = "revoked"
    BY <1>2, <2>1, EditRow DEF RowsInv
  <2> HIDE DEF r, k, new
  <2> QED BY <1>2, <2>1, <2>2, <2>3, OneCommand DEF OfRow
<1>4. CASE ~Wins(row, revoker[a].seen)
  <2> DEFINE n == revoker[a].tries + 1
             pc == IF n = RevokeTries THEN "conflict" ELSE "read"
             r == [revoker[a] EXCEPT !.pc = pc, !.tries = n]
  <2>1. revoker' = [revoker EXCEPT ![a] = r] /\ credential' = credential
    BY <1>4 DEF WriteRevoke, RevokersInv, records
  <2>2. n \in Nat /\ revoker[a].began \in Nat /\ revoker[a].tries \in Nat /\ revoker[a].seen \in Nat
    BY <1>1 DEF Command
  <2>3. row.version >= revoker[a].began + n
    <3>1. row.version > revoker[a].seen
      BY <1>2, <1>4, <2>2 DEF Wins
    <3> QED BY <1>2, <2>2, <3>1
  <2>4. pc \in {"conflict", "read"} /\ (pc = "conflict" => n = RevokeTries)
    OBVIOUS
  <2> HIDE DEF pc, n
  <2>5. r \in Command /\ r.pc = pc /\ r.key = k /\ r.tries = n /\ r.began = revoker[a].began
    BY <1>1, <2>2, <2>4 DEF Command
  <2> HIDE DEF r
  <2>6. OfRow(r, row)
    BY <2>3, <2>4, <2>5 DEF OfRow
  <2> QED BY <1>2, <2>1, <2>5, <2>6, OneCommand
<1> QED BY <1>3, <1>4

LEMMA RevokeFailsStep ==
    ASSUME RevokersInv, RowsInv, RowsInv', RowsGrow, NEW a \in Admins, RevokeFails(a)
    PROVE  RevokersInv'
<1> DEFINE n == revoker[a].attempts + 1
           pc == IF n = RevokeAttempts THEN "failed" ELSE "read"
           r == [revoker[a] EXCEPT !.pc = pc, !.tries = 0, !.attempts = n]
           row == credential[revoker[a].key]
<1>1. /\ revoker[a] \in Command /\ revoker[a].pc \in {"read", "write"} /\ Supported(revoker[a])
      /\ credential' = credential
  BY DEF RevokeFails, RevokersInv, records
<1>2. n \in Nat /\ pc \in {"failed", "read"} /\ revoker[a].began \in Nat
      /\ revoker[a].tries \in Nat /\ revoker[a].seen \in Nat
  BY <1>1 DEF Command
<1>3. revoker[a].key \in Keys /\ row \in Row /\ row.version \in Nat
  BY <1>1 DEF Supported, RowsInv, Row
<1>4. row.version >= revoker[a].began + 0
  BY <1>1, <1>2, <1>3 DEF Supported, OfRow
<1>5. revoker' = [revoker EXCEPT ![a] = r]
  BY DEF RevokeFails, RevokersInv
<1> HIDE DEF pc, n
<1>6. r \in Command /\ r.pc = pc /\ r.key = revoker[a].key /\ r.tries = 0 /\ r.began = revoker[a].began
  BY <1>1, <1>2 DEF Command
<1> HIDE DEF r
<1>7. OfRow(r, row)
  BY <1>2, <1>4, <1>6 DEF OfRow
<1> QED BY <1>1, <1>3, <1>5, <1>6, <1>7, OneCommand

LEMMA BeginRevokeStep ==
    ASSUME RevokersInv, RowsInv, RowsInv', RowsGrow, NEW a \in Admins, NEW k \in Keys,
           BeginRevoke(a, k)
    PROVE  RevokersInv'
<1> DEFINE n == credential[k].version
           r == [NoRevoker EXCEPT !.pc = "read", !.key = k, !.began = n]
<1>1. revoker' = [revoker EXCEPT ![a] = r] /\ credential' = credential
  BY DEF BeginRevoke, records
<1>2. n \in Nat
  BY DEF RowsInv, Row
<1>3. r \in Command /\ r.pc = "read" /\ r.key = k /\ r.tries = 0 /\ r.began = n
  <2> HIDE DEF n
  <2> QED BY <1>2 DEF Command, NoRevoker
<1> HIDE DEF r
<1>4. OfRow(r, credential'[k])
  BY <1>1, <1>2, <1>3 DEF OfRow
<1> QED BY <1>1, <1>3, <1>4, OneCommand

LEMMA RevokerStep ==
    ASSUME AccessInv, AccessNext, RevokersInv
    PROVE  RevokersInv'
<1>1. RowsInv /\ RowsInv' /\ RowsGrow
  BY RowStep DEF AccessInv
<1>2. CASE revoker' = revoker
  <2>1. ASSUME NEW a \in Admins PROVE Supported(revoker[a])'
    <3>1. revoker[a] \in Command /\ Supported(revoker[a]) /\ revoker'[a] = revoker[a]
      BY <1>2 DEF RevokersInv
    <3> QED BY <1>1, <3>1, StillSupported DEF Supported
  <2> QED BY <1>2, <2>1 DEF RevokersInv
<1>3. ASSUME NEW a \in Admins, Revoke(a) PROVE RevokersInv'
  BY <1>1, <1>3, ReadForRevokeStep, WriteRevokeStep, RevokeFailsStep DEF Revoke
<1>4. ASSUME NEW a \in Admins, NEW k \in Keys, BeginRevoke(a, k) PROVE RevokersInv'
  BY <1>1, <1>4, BeginRevokeStep
<1>5. \/ revoker' = revoker
      \/ \E a \in Admins : Revoke(a) \/ \E k \in Keys : BeginRevoke(a, k)
  <2>1. ASSUME NEW c \in Clients, Serve(c) PROVE revoker' = revoker
    <3>1. LookUp(c) \/ UseKey(c) \/ ExpireKey(c) \/ DatabaseFails(c) => revoker' = revoker
      BY DEF LookUp, UseKey, ExpireKey, DatabaseFails, outside
    <3>2. UseCachedKeys(c) \/ StartFetch(c) => revoker' = revoker
      BY DEF UseCachedKeys, StartFetch, outside
    <3>3. FetchAnswered(c) \/ FetchFails(c) => revoker' = revoker
      BY DEF FetchAnswered, FetchFails, outside
    <3>4. RefuseCredential(c) \/ Quota(c) \/ LimiterDown(c) => revoker' = revoker
      BY DEF RefuseCredential, Quota, LimiterDown, outside
    <3> QED BY <2>1, <3>1, <3>2, <3>3, <3>4 DEF Serve
  <2>2. ASSUME NEW c \in Clients, NEW call \in Calls[config.mode],
               Arrive(c, call) \/ ArriveUnlimited(c, call)
        PROVE  revoker' = revoker
    BY <2>2 DEF Arrive, ArriveUnlimited, Arrival, outside
  <2>3. ASSUME NEW k \in Keys, NEW expires \in Expiries, CreateKey(k, expires)
        PROVE  revoker' = revoker
    BY <2>3 DEF CreateKey, outside
  <2>4. ASSUME (\E k \in Kids : Publish(k) \/ Withdraw(k)) \/ Tick PROVE revoker' = revoker
    BY <2>4 DEF Publish, Withdraw, Tick
  <2>5. \/ \E c \in Clients : Serve(c)
        \/ \E c \in Clients : \E call \in Calls[config.mode] :
               Arrive(c, call) \/ ArriveUnlimited(c, call)
        \/ \E a \in Admins : Revoke(a) \/ \E k \in Keys : BeginRevoke(a, k)
        \/ \E k \in Keys, expires \in Expiries : CreateKey(k, expires)
        \/ (\E k \in Kids : Publish(k) \/ Withdraw(k)) \/ Tick
    BY DEF AccessNext
  <2> QED BY <2>1, <2>2, <2>3, <2>4, <2>5
<1> QED BY <1>2, <1>3, <1>4, <1>5

(* However commands interleave with each other, with requests that touch   *)
(* the row and with failures of the database: RevocationReported.          *)
THEOREM RevocationIsReported == AccessSpec => []RevocationReported
<1>1. AccessInit => RevokersInv
  BY DEF AccessInit, RevokersInv, NoRevoker, Command, Supported
<1>2. AccessInv /\ RevokersInv /\ [AccessNext]_vars => RevokersInv'
  <2>1. ASSUME RevokersInv, UNCHANGED vars PROVE RevokersInv'
    BY <2>1 DEF vars, RevokersInv, Supported
  <2> QED BY <2>1, RevokerStep
<1>3. AccessInv /\ RevokersInv => RevocationReported
  BY DEF AccessInv, RowsInv, RowInv, RevokersInv, Supported, OfRow, RevocationReported
<1> QED BY <1>1, <1>2, <1>3, AccessInvariant, PTL DEF AccessSpec

(***************************************************************************)
(* Key sets.  What is cached was published when its fetch began, and is    *)
(* used for JwksTtl from then on.                                          *)
(***************************************************************************)
KeySetsInv ==
    /\ now <= Horizon[config.mode]
    /\ published \subseteq Kids /\ withdrawn \in [Kids -> Nat]
    /\ \A k \in published : withdrawn[k] = Never
    /\ jwks.keys \subseteq Kids /\ jwks.ends \in Nat
    /\ jwks.ends <= now + JwksTtl
    /\ \A k \in jwks.keys : jwks.ends <= withdrawn[k] + JwksTtl
LookupsInv == \A c \in Clients :
    /\ request[c].pc = "fetch" => request[c].taken <= now
    /\ request[c].pc = "keys" => ~request[c].forced

LEMMA NeverType == Never \in Nat
BY SMT DEF Never

LEMMA Times ==
    ASSUME AccessInv
    PROVE  /\ now \in Nat /\ JwksTtl \in Nat /\ Never \in Nat
           /\ Horizon[config.mode] \in Nat /\ Horizon[config.mode] <= Never
           /\ \A c \in Clients : request[c].taken \in Nat
<1>1. config.mode \in Modes
  BY DEF AccessInv
<1>2. Horizon[config.mode] \in 0 .. Never
  BY <1>1, AccessAssumption
<1>3. JwksTtl \in Nat
  BY AccessAssumption
<1>4. now \in Nat /\ \A c \in Clients : request[c].taken \in Nat
  BY DEF AccessInv, RequestsInv, Request
<1> QED BY <1>2, <1>3, <1>4, NeverType

LEMMA AnswerOutcome ==
    ASSUME RequestsInv, NEW c \in Clients, NEW status, Answer(c, status)
    PROVE  request'[c].pc = "answered" /\ \A d \in Clients \ {c} : request'[d] = request[d]
<1>1. request \in [Clients -> Request]
  BY DEF RequestsInv
<1> QED BY <1>1 DEF Answer, NoRequest

(* What a thread may do to its request, and to no other, in one step.      *)
LEMMA ServeChanges ==
    ASSUME RequestsInv, NEW c \in Clients, Serve(c)
    PROVE  /\ now' = now /\ config' = config /\ published' = published /\ withdrawn' = withdrawn
           /\ \A d \in Clients \ {c} : request'[d] = request[d]
           /\ request'[c].pc # "keys"
           /\ request'[c].pc = "fetch" => request'[c].taken = now
<1>1. request[c] \in Request /\ request \in [Clients -> Request]
  BY DEF RequestsInv
<1>2. ASSUME NEW status, Answer(c, status)
      PROVE  request'[c].pc = "answered" /\ \A d \in Clients \ {c} : request'[d] = request[d]
  BY <1>2, AnswerOutcome
<1>3. ASSUME NEW b, Fail(c, b)
      PROVE  request'[c].pc = "failed" /\ \A d \in Clients \ {c} : request'[d] = request[d]
  BY <1>1, <1>3 DEF Fail, Request
<1>4. ASSUME NEW pc \in {"quota", "refresh"}, Goto(c, pc)
      PROVE  request'[c].pc = pc /\ \A d \in Clients \ {c} : request'[d] = request[d]
  BY <1>1, <1>4 DEF Goto, Request
<1>5. ASSUME NEW time, Accept(c, time)
      PROVE  /\ request'[c].pc \in {"answered", "failed", "quota"}
             /\ \A d \in Clients \ {c} : request'[d] = request[d]
  <2>1. CASE request' = [request EXCEPT ![c].pc = "quota", ![c].taken = time, ![c].forced = FALSE]
    BY <1>1, <2>1 DEF Request
  <2> QED BY <1>2, <1>3, <1>5, <2>1 DEF Accept
<1>6. ASSUME Miss(c)
      PROVE  /\ request'[c].pc \in {"failed", "refresh"}
             /\ \A d \in Clients \ {c} : request'[d] = request[d]
  BY <1>3, <1>4, <1>6 DEF Miss
<1>7. CASE LookUp(c)
  <2> DEFINE k == request[c].call.credential.id
             pc == IF credential[k].status # "active" THEN "failed"
                   ELSE IF credential[k].expires <= now THEN "expire" ELSE "use"
  <2>1. pc \in {"failed", "expire", "use"}
    OBVIOUS
  <2>2. request' = [request EXCEPT ![c].pc = pc, ![c].taken = now,
                                   ![c].seen = credential[k].version]
    BY <1>7 DEF LookUp
  <2> HIDE DEF pc
  <2>3. request'[c].pc = pc /\ \A d \in Clients \ {c} : request'[d] = request[d]
    BY <1>1, <2>2 DEF Request
  <2> QED BY <1>7, <2>1, <2>3 DEF LookUp, outside
<1>8. CASE UseKey(c)
  BY <1>3, <1>4, <1>8 DEF UseKey, outside
<1>9. CASE ExpireKey(c) \/ DatabaseFails(c)
  BY <1>3, <1>9 DEF ExpireKey, DatabaseFails, outside
<1>10. CASE UseCachedKeys(c) \/ FetchAnswered(c)
  BY <1>5, <1>6, <1>10 DEF UseCachedKeys, FetchAnswered, outside
<1>11. CASE StartFetch(c)
  <2>1. /\ request'[c].pc = "fetch" /\ request'[c].taken = now
        /\ \A d \in Clients \ {c} : request'[d] = request[d]
    BY <1>1, <1>11 DEF StartFetch, Request
  <2> QED BY <1>11, <2>1 DEF StartFetch, outside
<1>12. CASE FetchFails(c)
  <2>1. Answer(c, 503) \/ Fail(c, TRUE)
    BY <1>12 DEF FetchFails
  <2>2. /\ request'[c].pc \in {"answered", "failed"}
        /\ \A d \in Clients \ {c} : request'[d] = request[d]
    BY <1>2, <1>3, <2>1
  <2> QED BY <1>12, <2>2 DEF FetchFails, outside
<1>13. CASE RefuseCredential(c) \/ LimiterDown(c)
  BY <1>2, <1>13 DEF RefuseCredential, LimiterDown, outside
<1>14. CASE Quota(c)
  BY <1>2, <1>14 DEF Quota, Decide, outside
<1> QED BY <1>7, <1>8, <1>9, <1>10, <1>11, <1>12, <1>13, <1>14 DEF Serve

LEMMA ArriveChanges ==
    ASSUME RequestsInv, NEW c \in Clients, NEW call, Arrive(c, call) \/ ArriveUnlimited(c, call)
    PROVE  /\ now' = now /\ config' = config /\ published' = published /\ withdrawn' = withdrawn
           /\ jwks' = jwks
           /\ \A d \in Clients \ {c} : request'[d] = request[d]
           /\ request[c].pc \in {"idle", "answered"}
           /\ request'[c].pc # "fetch"
           /\ request'[c].pc = "keys" => ~request'[c].forced
<1>1. request \in [Clients -> Request]
  BY DEF RequestsInv
<1>2. ASSUME NEW status, Answer(c, status)
      PROVE  request'[c].pc = "answered" /\ \A d \in Clients \ {c} : request'[d] = request[d]
  BY <1>2, AnswerOutcome
<1>3. ASSUME NEW pc, Begin(c, call, pc)
      PROVE  /\ request'[c].pc = pc /\ ~request'[c].forced
             /\ \A d \in Clients \ {c} : request'[d] = request[d]
  BY <1>1, <1>3 DEF Begin, NoRequest
<1>4. Entrance(call) \in {"quota", "lookup", "keys", "failed"}
  BY DEF Entrance
<1>5. /\ now' = now /\ config' = config /\ published' = published /\ withdrawn' = withdrawn
      /\ jwks' = jwks /\ request[c].pc \in {"idle", "answered"}
  BY DEF Arrive, ArriveUnlimited, Arrival, outside, keyring
<1> HIDE DEF Entrance
<1>6. \/ \E status : Answer(c, status)
      \/ \E pc \in {"quota", "lookup", "keys", "failed"} : Begin(c, call, pc)
  BY <1>4 DEF Arrive, ArriveUnlimited
<1> QED BY <1>2, <1>3, <1>5, <1>6

LEMMA LookupsStep ==
    ASSUME AccessInv, AccessNext, LookupsInv
    PROVE  LookupsInv'
<1>1. RequestsInv /\ now \in Nat
  BY DEF AccessInv
<1>2. ASSUME NEW c \in Clients, Serve(c) PROVE LookupsInv'
  BY <1>1, <1>2, ServeChanges DEF LookupsInv
<1>3. ASSUME NEW c \in Clients, NEW call, Arrive(c, call) \/ ArriveUnlimited(c, call)
      PROVE  LookupsInv'
  BY <1>1, <1>3, ArriveChanges DEF LookupsInv
<1>4. CASE request' = request /\ (now' = now \/ Tick)
  BY <1>1, <1>4, Times DEF LookupsInv, Tick
<1>5. \/ \E c \in Clients : Serve(c)
      \/ \E c \in Clients : \E call \in Calls[config.mode] :
             Arrive(c, call) \/ ArriveUnlimited(c, call)
      \/ request' = request /\ (now' = now \/ Tick)
  BY DEF AccessNext, Revoke, ReadForRevoke, WriteRevoke, RevokeFails, BeginRevoke, CreateKey,
         Publish, Withdraw, Tick, outside
<1> QED BY <1>2, <1>3, <1>4, <1>5

LEMMA KeySetsStep ==
    ASSUME AccessInv, AccessNext, LookupsInv, KeySetsInv
    PROVE  KeySetsInv'
<1> USE Times
<1>1. RequestsInv
  BY DEF AccessInv
<1>2. CASE UNCHANGED <<config, now, published, withdrawn, jwks>>
  BY <1>2 DEF KeySetsInv
<1>3. ASSUME NEW c \in Clients, FetchAnswered(c) PROVE KeySetsInv'
  <2>1. /\ request[c].taken <= now /\ request[c].taken \in Nat
        /\ jwks' = [keys |-> published, ends |-> request[c].taken + JwksTtl]
        /\ UNCHANGED <<config, now, published, withdrawn>>
    BY <1>3 DEF FetchAnswered, At, LookupsInv, outside
  <2>2. now <= Never
    BY DEF KeySetsInv
  <2> QED BY <2>1, <2>2 DEF KeySetsInv
<1>4. ASSUME NEW k \in Kids, Publish(k) PROVE KeySetsInv'
  BY <1>4 DEF Publish, KeySetsInv, keyring
<1>5. ASSUME NEW k \in Kids, Withdraw(k) PROVE KeySetsInv'
  <2>1. /\ published' = published \ {k} /\ withdrawn' = [withdrawn EXCEPT ![k] = now]
        /\ UNCHANGED <<config, now, jwks>>
    BY <1>5 DEF Withdraw, keyring
  <2> QED BY <2>1 DEF KeySetsInv
<1>6. CASE Tick
  BY <1>6 DEF Tick, KeySetsInv, keyring
<1>7. \/ UNCHANGED <<config, now, published, withdrawn, jwks>>
      \/ \E c \in Clients : FetchAnswered(c)
      \/ \E k \in Kids : Publish(k) \/ Withdraw(k)
      \/ Tick
  <2>1. ASSUME NEW c \in Clients, Serve(c), ~FetchAnswered(c)
        PROVE  UNCHANGED <<config, now, published, withdrawn, jwks>>
    BY <1>1, <2>1, ServeChanges DEF Serve, LookUp, UseKey, ExpireKey, DatabaseFails,
         UseCachedKeys, StartFetch, FetchFails, KeysAfterFailure, RefuseCredential, Quota,
         LimiterDown, keyring
  <2>2. ASSUME NEW c \in Clients, NEW call, Arrive(c, call) \/ ArriveUnlimited(c, call)
        PROVE  UNCHANGED <<config, now, published, withdrawn, jwks>>
    BY <1>1, <2>2, ArriveChanges
  <2>3. ASSUME \/ \E a \in Admins : Revoke(a) \/ \E k \in Keys : BeginRevoke(a, k)
               \/ \E k \in Keys, expires \in Expiries : CreateKey(k, expires)
        PROVE  UNCHANGED <<config, now, published, withdrawn, jwks>>
    BY <2>3 DEF Revoke, ReadForRevoke, WriteRevoke, RevokeFails, BeginRevoke, CreateKey, outside,
         keyring
  <2> QED BY <2>1, <2>2, <2>3 DEF AccessNext
<1> QED BY <1>2, <1>3, <1>4, <1>5, <1>6, <1>7

LEMMA InitialKeySets == AccessInit => LookupsInv /\ KeySetsInv
<1> SUFFICES ASSUME AccessInit PROVE LookupsInv /\ KeySetsInv
  OBVIOUS
<1>1. AccessInv
  BY InitialInv
<1>2. LookupsInv
  BY DEF AccessInit, LookupsInv, NoRequest
<1>3. KeySetsInv
  BY <1>1, Times DEF AccessInit, KeySetsInv
<1> QED BY <1>2, <1>3

THEOREM KeySetsInvariant == AccessSpec => [](LookupsInv /\ KeySetsInv)
<1>1. AccessInv /\ LookupsInv /\ KeySetsInv /\ [AccessNext]_vars => (LookupsInv /\ KeySetsInv)'
  <2>1. ASSUME LookupsInv, KeySetsInv, UNCHANGED vars PROVE (LookupsInv /\ KeySetsInv)'
    BY <2>1 DEF vars, LookupsInv, KeySetsInv
  <2> QED BY <2>1, LookupsStep, KeySetsStep
<1> QED BY <1>1, InitialKeySets, AccessInvariant, PTL DEF AccessSpec

(* Only its own steps take a request out of the resolver.                  *)
LEMMA ResolverStep ==
    ASSUME AccessInv, AccessNext, NEW c \in Clients,
           request[c].pc \in {"keys", "refresh", "fetch"}, request'[c].pc # request[c].pc
    PROVE  UseCachedKeys(c) \/ StartFetch(c) \/ FetchAnswered(c) \/ FetchFails(c)
<1>1. RequestsInv
  BY DEF AccessInv
<1>2. ASSUME NEW d \in Clients, Serve(d) PROVE Serve(c)
  BY <1>1, <1>2, ServeChanges
<1>3. ASSUME NEW d \in Clients, NEW call, Arrive(d, call) \/ ArriveUnlimited(d, call)
      PROVE  FALSE
  BY <1>1, <1>3, ArriveChanges
<1>4. \/ \E d \in Clients : Serve(d)
      \/ \E d \in Clients : \E call \in Calls[config.mode] :
             Arrive(d, call) \/ ArriveUnlimited(d, call)
      \/ request' = request
  BY DEF AccessNext, Revoke, ReadForRevoke, WriteRevoke, RevokeFails, BeginRevoke, CreateKey,
         Publish, Withdraw, Tick
<1>5. Serve(c)
  BY <1>2, <1>3, <1>4
<1> QED BY <1>5 DEF Serve, At, LookUp, UseKey, ExpireKey, DatabaseFails, RefuseCredential, Quota,
        LimiterDown

LEMMA AcceptOutcome ==
    ASSUME RequestsInv, NEW c \in Clients, NEW time, Accept(c, time)
    PROVE  /\ request'[c].pc = "quota" =>
                  /\ request'[c].taken = time /\ request'[c].call = request[c].call
                  /\ request[c].call.credential.kind # "probe"
           /\ request'[c].pc = "failed" =>
                  request'[c].call = request[c].call /\ ~request[c].call.credential.claims
<1>1. request[c] \in Request /\ request \in [Clients -> Request]
  BY DEF RequestsInv
<1>2. CASE request[c].call.credential.kind = "probe"
  BY <1>2, AnswerOutcome DEF Accept
<1>3. CASE request[c].call.credential.kind # "probe" /\ ~request[c].call.credential.claims
  BY <1>1, <1>3 DEF Accept, Fail, Request
<1>4. CASE request[c].call.credential.kind # "probe" /\ request[c].call.credential.claims
  BY <1>1, <1>4 DEF Accept, Request
<1> QED BY <1>2, <1>3, <1>4

LEMMA MissOutcome ==
    ASSUME RequestsInv, NEW c \in Clients, Miss(c)
    PROVE  /\ request'[c].pc # "quota"
           /\ request'[c].pc = "failed" => request'[c].call = request[c].call /\ request[c].forced
<1>1. request[c] \in Request /\ request \in [Clients -> Request]
  BY DEF RequestsInv
<1>2. CASE request[c].forced
  BY <1>1, <1>2 DEF Miss, Fail, Request
<1>3. CASE ~request[c].forced
  BY <1>1, <1>3 DEF Miss, Goto, Request
<1> QED BY <1>2, <1>3

LEMMA FetchFailsOutcome ==
    ASSUME RequestsInv, NEW c \in Clients, FetchFails(c)
    PROVE  request'[c].pc # "quota" /\ (request'[c].pc = "failed" => request'[c].outage)
<1>1. request[c] \in Request /\ request \in [Clients -> Request]
  BY DEF RequestsInv
<1>2. CASE request[c].call.credential.kind = "probe"
  BY <1>2, AnswerOutcome DEF FetchFails
<1>3. CASE request[c].call.credential.kind # "probe"
  BY <1>1, <1>3 DEF FetchFails, Fail, Request
<1> QED BY <1>2, <1>3

(* For any number of threads, withdrawals and fetches that overlap:        *)
(* WithdrawnKeyRefused.  The cached set ends JwksTtl after a moment its    *)
(* keys were all published at.                                             *)
THEOREM WithdrawnKeysAreRefused == AccessSpec => WithdrawnKeyRefused
<1> DEFINE Refused == \A c \in Clients :
              LET call == request'[c].call
              IN  /\ request[c].pc \in {"keys", "fetch"} /\ request'[c].pc = "quota"
                  => request'[c].taken < withdrawn[call.credential.id] + JwksTtl
<1>1. ASSUME AccessInv, LookupsInv, KeySetsInv, AccessNext PROVE Refused
  <2> SUFFICES ASSUME NEW c \in Clients, request[c].pc \in {"keys", "fetch"},
                      request'[c].pc = "quota"
               PROVE  request'[c].taken < withdrawn[request'[c].call.credential.id] + JwksTtl
    OBVIOUS
  <2> DEFINE id == request[c].call.credential.id
  <2>1. RequestsInv
    BY <1>1 DEF AccessInv
  <2>2. UseCachedKeys(c) \/ FetchAnswered(c)
    <3>1. ~StartFetch(c)
      <4>1. ASSUME StartFetch(c) PROVE request'[c].pc = "fetch"
        BY <2>1, <4>1 DEF StartFetch, RequestsInv, Request
      <4> QED BY <4>1
    <3>2. ~FetchFails(c)
      BY <2>1, FetchFailsOutcome
    <3>3. request'[c].pc # request[c].pc
      OBVIOUS
    <3> QED BY <1>1, <3>1, <3>2, <3>3, ResolverStep
  <2>3. /\ now \in Nat /\ JwksTtl \in Nat \ {0} /\ Never \in Nat /\ request[c].taken \in Nat
        /\ now <= Never
    BY <1>1, Times, AccessAssumption DEF KeySetsInv
  <2>4. CASE UseCachedKeys(c)
    <3>1. Accept(c, now) /\ Selected(request[c].call, jwks.keys) /\ now < jwks.ends
      BY <2>1, <2>4, MissOutcome DEF UseCachedKeys, Fresh
    <3>2. request'[c].taken = now /\ request'[c].call = request[c].call /\ id \in jwks.keys
      BY <2>1, <3>1, AcceptOutcome DEF Selected
    <3>3. jwks.ends <= withdrawn[id] + JwksTtl /\ withdrawn[id] \in Nat /\ jwks.ends \in Nat
      BY <1>1, <3>2 DEF KeySetsInv
    <3> QED BY <2>3, <3>1, <3>2, <3>3
  <2>5. CASE FetchAnswered(c)
    <3>1. Accept(c, request[c].taken) /\ Selected(request[c].call, published)
      BY <2>1, <2>5, MissOutcome DEF FetchAnswered
    <3>2. /\ request'[c].taken = request[c].taken /\ request'[c].call = request[c].call
          /\ id \in published
      BY <2>1, <3>1, AcceptOutcome DEF Selected
    <3>3. withdrawn[id] = Never
      BY <1>1, <3>2 DEF KeySetsInv
    <3>4. request[c].taken <= now
      BY <1>1, <2>5 DEF LookupsInv, FetchAnswered, At
    <3> QED BY <2>3, <3>2, <3>3, <3>4
  <2> QED BY <2>2, <2>4, <2>5
<1>2. AccessInv /\ LookupsInv /\ KeySetsInv /\ [AccessNext]_vars => [Refused]_vars
  BY <1>1
<1> QED BY <1>2, AccessInvariant, KeySetsInvariant, PTL DEF AccessSpec, WithdrawnKeyRefused

(* A token that is in order leaves the resolver refused only when a fetch  *)
(* it forced did not bring its key, whatever other threads cached          *)
(* meanwhile: RotatedKeyAccepted.                                          *)
THEOREM RotatedKeysAreAccepted == AccessSpec => RotatedKeyAccepted
<1> DEFINE Kept == \A c \in Clients :
              LET call == request'[c].call
              IN  /\ request[c].pc \in {"keys", "refresh", "fetch"} /\ request'[c].pc = "failed"
                  /\ call.credential.claims /\ ~request'[c].outage
                  => call.credential.id \notin published
<1>1. ASSUME AccessInv, LookupsInv, AccessNext PROVE Kept
  <2> SUFFICES ASSUME NEW c \in Clients, request[c].pc \in {"keys", "refresh", "fetch"},
                      request'[c].pc = "failed", request'[c].call.credential.claims,
                      ~request'[c].outage
               PROVE  request'[c].call.credential.id \notin published
    OBVIOUS
  <2>1. RequestsInv
    BY <1>1 DEF AccessInv
  <2>2. UseCachedKeys(c) \/ FetchAnswered(c)
    <3>1. ~StartFetch(c)
      <4>1. ASSUME StartFetch(c) PROVE request'[c].pc = "fetch"
        BY <2>1, <4>1 DEF StartFetch, RequestsInv, Request
      <4> QED BY <4>1
    <3>2. ~FetchFails(c)
      BY <2>1, FetchFailsOutcome
    <3>3. request'[c].pc # request[c].pc
      OBVIOUS
    <3> QED BY <1>1, <3>1, <3>2, <3>3, ResolverStep
  <2>3. \A time : ~Accept(c, time)
    BY <2>1, AcceptOutcome
  <2>4. Miss(c) /\ request'[c].call = request[c].call /\ request[c].forced
    BY <2>1, <2>2, <2>3, MissOutcome DEF UseCachedKeys, FetchAnswered
  <2>5. ~UseCachedKeys(c)
    BY <1>1, <2>4 DEF UseCachedKeys, At, LookupsInv
  <2> QED BY <2>2, <2>3, <2>4, <2>5 DEF FetchAnswered, Selected
<1>2. AccessInv /\ LookupsInv /\ [AccessNext]_vars => [Kept]_vars
  BY <1>1
<1> QED BY <1>2, AccessInvariant, KeySetsInvariant, PTL DEF AccessSpec, RotatedKeyAccepted

-----------------------------------------------------------------------------
(***************************************************************************)
(* However requests, threads and refusals fall into the windows of either  *)
(* limiter: no address and no principal is let through more often, in any  *)
(* stretch of one window, than the limit allows for the windows that the   *)
(* stretch can meet.                                                       *)
(***************************************************************************)

AtMost(S, n) == IsFiniteSet(S) /\ Cardinality(S) <= n

Shared == config.backend = "redis"
Half == Window \div 2

(* The least that a window can last.  In memory it lasts as long as it is  *)
(* said to.  In Redis a refusal cuts off a half second that is left over,  *)
(* and half a second later again; not in the last second, though, in which *)
(* the window would be renewed.                                            *)
Shortest == IF Shared THEN Half + 1 ELSE Window

(* The counter y, at the time t, of a window that was opened at s.         *)
Timing(y, s, t) ==
    /\ s <= t /\ t < y.ends /\ y.ends <= t + Window
    /\ s + Shortest <= y.ends
    /\ IF Shared THEN 2 * s + Window + ((y.ends - t) % 2) <= y.ends + t
                 ELSE y.ends = s + Window

(* Of the admissions S of the last window, those from the time s on, and   *)
(* those before; the ones before go back to at most one earlier window in  *)
(* memory and to two in Redis, the last of which was opened at p.          *)
From(S, s) == {e \in S : e.at >= s}
Earlier(S, s) == {e \in S : e.at < s}
Past(S, s, limit) == \E p \in Int :
    /\ p + Shortest <= s
    /\ AtMost(Earlier(From(S, p), s), limit)
    /\ AtMost(Earlier(S, p), IF Shared THEN limit ELSE 0)

Current(y, S, s, t, limit) ==
    /\ y.count \in 1 .. limit + 1 /\ Timing(y, s, t)
    /\ AtMost(From(S, s), Smaller(y.count, limit))

(* No window is open, or one that was opened at s.                         *)
Metered(y, S, t, limit) ==
    \/ y.count = 0 /\ Earlier(S, t) = S /\ Past(S, t, limit)
    \/ \E s \in Int : Current(y, S, s, t, limit) /\ Past(S, s, limit)

Counter == [count : Nat, ends : Nat]
Entry == [at : Nat, nth : Nat, allowed : BOOLEAN]

(* The history: consumptions of one instant are told apart by their number.*)
Logged(S, t) ==
    /\ S \subseteq Entry /\ IsFiniteSet(S)
    /\ \A e \in S : e.at <= t
    /\ \A e \in S : e.at = t => e.nth < Cardinality({d \in S : d.at = t})

LimitsInv ==
    /\ windows \in [Buckets -> Counter]
    /\ DOMAIN log = Buckets /\ \A w \in Buckets : Logged(log[w], now)
    /\ \A w \in Buckets : w[1] \notin TrustedProxies =>
           Metered(windows[w], Admitted(log[w]), now, Limits[w[2]])

(* Whoever is served made one of the calls that the mode knows.            *)
CallsInv == \A c \in Clients :
    request[c].pc \in {"idle", "answered"} \/ request[c].call \in Calls[config.mode]

(***************************************************************************)
(* Bounded sets                                                            *)
(***************************************************************************)
LEMMA AtMostSubset ==
    ASSUME NEW S, NEW T \in SUBSET S, NEW n \in Nat, AtMost(S, n)
    PROVE  AtMost(T, n)
<1>1. IsFiniteSet(T) /\ Cardinality(T) <= Cardinality(S)
  BY FS_Subset DEF AtMost
<1>2. Cardinality(T) \in Nat /\ Cardinality(S) \in Nat
  BY <1>1, FS_CardinalityType DEF AtMost
<1> QED BY <1>1, <1>2 DEF AtMost

LEMMA AtMostMore ==
    ASSUME NEW S, NEW n \in Nat, AtMost(S, n), NEW m \in Nat, n <= m
    PROVE  AtMost(S, m)
<1>1. Cardinality(S) \in Nat
  BY FS_CardinalityType DEF AtMost
<1> QED BY <1>1 DEF AtMost

LEMMA AtMostOneMore ==
    ASSUME NEW S, NEW x, NEW n \in Nat, AtMost(S, n)
    PROVE  AtMost(S \cup {x}, n + 1)
<1>1. /\ IsFiniteSet(S \cup {x}) /\ Cardinality(S) \in Nat
      /\ Cardinality(S \cup {x}) \in {Cardinality(S), Cardinality(S) + 1}
  BY FS_AddElement, FS_CardinalityType DEF AtMost
<1> QED BY <1>1 DEF AtMost

LEMMA AtMostUnion ==
    ASSUME NEW S, NEW T, NEW m \in Nat, NEW n \in Nat, AtMost(S, m), AtMost(T, n)
    PROVE  AtMost(S \cup T, m + n)
<1>1. /\ IsFiniteSet(S \cup T) /\ IsFiniteSet(S \cap T)
      /\ Cardinality(S \cup T) = Cardinality(S) + Cardinality(T) - Cardinality(S \cap T)
  BY FS_Union, FS_Intersection DEF AtMost
<1>2. /\ Cardinality(S) \in Nat /\ Cardinality(T) \in Nat /\ Cardinality(S \cap T) \in Nat
  BY <1>1, FS_CardinalityType DEF AtMost
<1> QED BY <1>1, <1>2 DEF AtMost

LEMMA AtMostNone == AtMost({}, 0)
BY FS_EmptySet DEF AtMost

(***************************************************************************)
(* Counters                                                                *)
(***************************************************************************)
LEMMA WindowLength ==
    /\ Window \in Nat /\ Window >= 2 /\ Half \in Nat /\ Half >= 1 /\ Window = 2 * Half
<1>1. Window \in Nat \ {0, 1} /\ Window % 2 = 0
  BY AccessAssumption
<1> QED BY <1>1 DEF Half

LEMMA LimitType ==
    ASSUME NEW b \in Buckets
    PROVE  b[2] \in Categories /\ Limits[b[2]] \in Nat /\ Limits[b[2]] >= 1
<1>1. b[2] \in Categories
  BY DEF Buckets
<1> QED BY <1>1, AccessAssumption

LEMMA Halves ==
    ASSUME NEW d \in Nat
    PROVE  /\ d \div 2 \in Nat /\ d % 2 \in {0, 1} /\ d = 2 * (d \div 2) + (d % 2)
           /\ (2 * (d \div 2)) % 2 = 0
OBVIOUS

LEMMA SmallerOf ==
    ASSUME NEW a \in Nat, NEW b \in Nat, a <= b
    PROVE  Smaller(a, b) = a
BY DEF Smaller

(* The first request of a window opens it.                                 *)
LEMMA FirstCount ==
    ASSUME NEW b \in Buckets, windows[b] \in Counter, now \in Nat, windows[b].count = 0
    PROVE  Counted(b).count = 1 /\ Timing(Counted(b), now, now) /\ Counted(b) \in Counter
<1> DEFINE limit == Limits[b[2]]
<1>1. limit \in Nat /\ limit >= 1
  BY LimitType
<1> HIDE DEF limit
<1>2. CASE Shared
  <2>1. (now + Window - now) \div 2 = Half
    BY WindowLength DEF Half
  <2>2. CountInRedis(windows[b], limit) = [count |-> 1, ends |-> now + Window]
    BY <1>1, <2>1, WindowLength DEF CountInRedis
  <2>3. Counted(b) = [count |-> 1, ends |-> now + Window]
    BY <1>2, <2>2 DEF Counted, Shared, limit
  <2>4. (now + Window - now) % 2 = 0
    BY WindowLength
  <2> QED BY <1>2, <2>3, <2>4, WindowLength DEF Timing, Shortest, Counter
<1>3. CASE ~Shared
  <2>1. CountInMemory(windows[b], limit) = [count |-> 1, ends |-> now + Window]
    BY <1>1 DEF CountInMemory, Smaller
  <2>2. Counted(b) = [count |-> 1, ends |-> now + Window]
    BY <1>3, <2>1 DEF Counted, Shared, limit
  <2> QED BY <1>3, <2>2, WindowLength DEF Timing, Shortest, Counter
<1> QED BY <1>2, <1>3

(* A later one is counted up to one above the limit, and the window keeps  *)
(* its least length.                                                       *)
LEMMA NextCount ==
    ASSUME NEW b \in Buckets, windows[b] \in Counter, now \in Nat, NEW s \in Int,
           windows[b].count \in 1 .. Limits[b[2]] + 1, Timing(windows[b], s, now)
    PROVE  /\ Counted(b).count = Smaller(windows[b].count, Limits[b[2]]) + 1
           /\ Timing(Counted(b), s, now) /\ Counted(b) \in Counter
<1> DEFINE limit == Limits[b[2]]
           ends == windows[b].ends
           count == windows[b].count
<1>1. limit \in Nat /\ limit >= 1
  BY LimitType
<1>2. count \in 1 .. limit + 1 /\ ends \in Nat /\ count \in Nat
  BY DEF Counter
<1>3. /\ s <= now /\ now < ends /\ ends <= now + Window /\ s + Shortest <= ends
  BY DEF Timing
<1>4. CASE Shared
  <2> DEFINE odd == (ends - now) % 2
             ttl == (ends - now) \div 2
             renewed == ttl < 1 \/ 2 * ttl > Window
             left == IF renewed THEN Window ELSE 2 * ttl
  <2>1. ttl \in Nat /\ odd \in {0, 1} /\ ends - now = 2 * ttl + odd /\ (2 * ttl) % 2 = 0
    <3>1. ends - now \in Nat
      BY <1>2, <1>3
    <3> QED BY <3>1, Halves
  <2>2. 2 * s + Window + odd <= ends + now
    BY <1>4 DEF Timing
  <2>3. Counted(b) = CountInRedis(windows[b], limit)
    BY <1>4 DEF Counted, Shared
  <2> HIDE DEF limit
  <2>4. Counted(b) = IF count > limit THEN [count |-> limit + 1, ends |-> now + left]
                     ELSE [count |-> count + 1,
                           ends |-> IF renewed THEN now + Window ELSE ends]
    BY <1>2, <2>3 DEF CountInRedis
  <2> HIDE DEF odd, ttl, count, ends
  <2>5. CASE renewed
    <3>1. Counted(b).ends = now + Window
      BY <2>4, <2>5
    <3>2. (now + Window - now) % 2 = 0
      BY WindowLength
    <3>3. Timing(Counted(b), s, now)
      BY <1>3, <1>4, <3>1, <3>2, WindowLength DEF Timing, Shortest
    <3>4. Counted(b).count = Smaller(count, limit) + 1 /\ Counted(b) \in Counter
      BY <1>1, <1>2, <2>4, <2>5, WindowLength DEF Smaller, Counter
    <3> QED BY <3>3, <3>4 DEF limit, count
  <2>6. CASE ~renewed /\ count > limit
    <3>1. Counted(b) = [count |-> limit + 1, ends |-> now + 2 * ttl]
      BY <2>4, <2>6
    <3>2. ttl >= 1 /\ (now + 2 * ttl - now) % 2 = 0
      <4>1. now + 2 * ttl - now = 2 * ttl
        BY <2>1
      <4> QED BY <2>1, <2>6, <4>1
    <3>3. 2 * s + Window <= now + 2 * ttl + now
      BY <1>2, <2>1, <2>2, WindowLength
    <3>4. now + 2 * ttl <= ends
      BY <1>2, <2>1
    <3>5. s + Half + 1 <= now + 2 * ttl
      BY <3>2, <3>3, <2>1, WindowLength
    <3>6. Timing(Counted(b), s, now)
      BY <1>2, <1>3, <1>4, <2>1, <3>1, <3>2, <3>3, <3>4, <3>5, WindowLength
         DEF Timing, Shortest
    <3>7. Counted(b).count = Smaller(count, limit) + 1 /\ Counted(b) \in Counter
      BY <1>1, <1>2, <2>1, <2>6, <3>1 DEF Smaller, Counter
    <3> QED BY <3>6, <3>7 DEF limit, count
  <2>7. CASE ~renewed /\ ~(count > limit)
    <3>1. Counted(b) = [count |-> count + 1, ends |-> ends]
      BY <2>4, <2>7
    <3>2. Timing(Counted(b), s, now)
      <4>1. Counted(b).ends = windows[b].ends
        BY <3>1 DEF ends
      <4> QED BY <4>1 DEF Timing
    <3>3. Counted(b).count = Smaller(count, limit) + 1 /\ Counted(b) \in Counter
      BY <1>1, <1>2, <2>7, <3>1 DEF Smaller, Counter
    <3> QED BY <3>2, <3>3 DEF limit, count
  <2> QED BY <2>5, <2>6, <2>7
<1>5. CASE ~Shared
  <2>1. Counted(b) = [count |-> Smaller(count, limit) + 1, ends |-> ends]
    BY <1>2, <1>5 DEF Counted, CountInMemory, Shared
  <2>2. Timing(Counted(b), s, now)
    BY <1>5, <2>1 DEF Timing
  <2>3. Counted(b) \in Counter
    BY <1>1, <1>2, <2>1 DEF Smaller, Counter
  <2> QED BY <2>1, <2>2, <2>3
<1> QED BY <1>4, <1>5

(***************************************************************************)
(* Consumptions                                                            *)
(***************************************************************************)
(* The admissions of all windows that a stretch can meet.                  *)
LEMMA MeteredBound ==
    ASSUME NEW y, NEW S, NEW t \in Nat, NEW limit \in Nat, S \subseteq Entry,
           Metered(y, S, t, limit)
    PROVE  AtMost(S, WindowsMet * limit)
<1> DEFINE old == IF Shared THEN limit ELSE 0
<1>1. ASSUME NEW s \in Int, Past(S, s, limit)
      PROVE  AtMost(Earlier(S, s), limit + old)
  <2>1. PICK p \in Int : /\ AtMost(Earlier(From(S, p), s), limit)
                         /\ AtMost(Earlier(S, p), old)
    BY <1>1 DEF Past
  <2>2. AtMost(Earlier(From(S, p), s) \cup Earlier(S, p), limit + old)
    <3>1. old \in Nat
      OBVIOUS
    <3> HIDE DEF old
    <3> QED BY <2>1, <3>1, AtMostUnion
  <2>3. Earlier(S, s) \subseteq Earlier(From(S, p), s) \cup Earlier(S, p)
    BY DEF Earlier, From, Entry
  <2>4. limit + old \in Nat
    OBVIOUS
  <2> HIDE DEF old
  <2> QED BY <2>2, <2>3, <2>4, AtMostSubset
<1>2. limit + old \in Nat /\ limit + old <= WindowsMet * limit
      /\ limit + (limit + old) = WindowsMet * limit
  BY DEF WindowsMet, Shared
<1> HIDE DEF old
<1>3. CASE Earlier(S, t) = S /\ Past(S, t, limit)
  <2>1. AtMost(S, limit + old)
    BY <1>1, <1>3
  <2>2. WindowsMet * limit \in Nat
    BY DEF WindowsMet
  <2> QED BY <1>2, <2>1, <2>2, AtMostMore
<1>4. ASSUME NEW s \in Int, Current(y, S, s, t, limit), Past(S, s, limit)
      PROVE  AtMost(S, WindowsMet * limit)
  <2>1. y.count \in Nat /\ Smaller(y.count, limit) \in Nat /\ Smaller(y.count, limit) <= limit
    BY <1>4 DEF Current, Smaller
  <2>2. AtMost(From(S, s), limit)
    BY <1>4, <2>1, AtMostMore DEF Current
  <2>3. AtMost(From(S, s) \cup Earlier(S, s), limit + (limit + old))
    BY <1>1, <1>2, <1>4, <2>2, AtMostUnion
  <2>4. S \subseteq From(S, s) \cup Earlier(S, s)
    BY DEF From, Earlier, Entry
  <2>5. S = From(S, s) \cup Earlier(S, s)
    BY <2>4 DEF From, Earlier
  <2> QED BY <1>2, <2>3, <2>5
<1> QED BY <1>3, <1>4 DEF Metered

(* A consumption of a bucket moves its counter on; whoever is admitted is  *)
(* the only one more.                                                      *)
LEMMA MeteredConsumption ==
    ASSUME NEW b \in Buckets, windows[b] \in Counter, now \in Nat,
           NEW S, S \subseteq Entry, \A e \in S : e.at <= now,
           Metered(windows[b], S, now, Limits[b[2]]),
           NEW R, NEW x \in Entry, x.at = now,
           R = S \/ (Allowed(b) /\ R = S \cup {x})
    PROVE  Metered(Counted(b), R, now, Limits[b[2]]) /\ Counted(b) \in Counter
<1> DEFINE limit == Limits[b[2]]
<1>1. limit \in Nat /\ limit >= 1
  BY LimitType
<1>2. Allowed(b) => Counted(b).count <= limit
  BY DEF Allowed
<1> HIDE DEF limit
<1>3. ASSUME NEW s \in Int, s <= now, Past(S, s, limit) PROVE Past(R, s, limit)
  <2>1. PICK p \in Int : /\ p + Shortest <= s
                         /\ AtMost(Earlier(From(S, p), s), limit)
                         /\ AtMost(Earlier(S, p), IF Shared THEN limit ELSE 0)
    BY <1>3 DEF Past
  <2>2. Shortest \in Nat /\ p <= now
    BY <1>3, <2>1, WindowLength DEF Shortest
  <2>3. Earlier(From(R, p), s) = Earlier(From(S, p), s) /\ Earlier(R, p) = Earlier(S, p)
    BY <1>3, <2>2 DEF Earlier, From, Entry
  <2> QED BY <2>1, <2>3 DEF Past
<1>4. CASE windows[b].count = 0 /\ Earlier(S, now) = S /\ Past(S, now, limit)
  <2>1. Counted(b).count = 1 /\ Timing(Counted(b), now, now) /\ Counted(b) \in Counter
    BY <1>4, FirstCount
  <2>2. From(R, now) \subseteq {x}
    BY <1>4 DEF From, Earlier, Entry
  <2>3. AtMost({} \cup {x}, 0 + 1)
    BY AtMostNone, AtMostOneMore
  <2>4. AtMost(From(R, now), 1)
    BY <2>2, <2>3, AtMostSubset
  <2>5. Smaller(1, limit) = 1
    BY <1>1 DEF Smaller
  <2>6. Past(R, now, limit)
    BY <1>3, <1>4
  <2>7. Current(Counted(b), R, now, now, limit)
    BY <1>1, <2>1, <2>4, <2>5 DEF Current
  <2> QED BY <2>1, <2>6, <2>7 DEF Metered, limit
<1>5. ASSUME NEW s \in Int, Current(windows[b], S, s, now, limit), Past(S, s, limit)
      PROVE  Metered(Counted(b), R, now, limit) /\ Counted(b) \in Counter
  <2> DEFINE count == windows[b].count
  <2>1. count \in 1 .. limit + 1 /\ Timing(windows[b], s, now)
    BY <1>5 DEF Current
  <2>2. /\ Counted(b).count = Smaller(count, limit) + 1
        /\ Timing(Counted(b), s, now) /\ Counted(b) \in Counter
    BY <2>1, NextCount DEF limit
  <2>3. s <= now
    BY <2>1 DEF Timing
  <2>4. AtMost(From(S, s), Smaller(count, limit))
    BY <1>5 DEF Current
  <2> HIDE DEF count
  <2>5. /\ Smaller(count, limit) \in Nat /\ Smaller(count, limit) <= limit
        /\ Smaller(count, limit) + 1 \in 1 .. limit + 1
    BY <1>1, <2>1 DEF Smaller
  <2>6. AtMost(From(R, s), Smaller(Smaller(count, limit) + 1, limit))
    <3>1. CASE R = S
      <4>1. /\ Smaller(Smaller(count, limit) + 1, limit) \in Nat
            /\ Smaller(count, limit) <= Smaller(Smaller(count, limit) + 1, limit)
        BY <1>1, <2>1 DEF Smaller
      <4> QED BY <2>4, <2>5, <3>1, <4>1, AtMostMore
    <3>2. CASE Allowed(b) /\ R = S \cup {x}
      <4>1. From(R, s) = From(S, s) \cup {x}
        BY <2>3, <3>2 DEF From, Entry
      <4>2. Smaller(count, limit) + 1 <= limit
        BY <1>2, <2>2, <3>2
      <4>3. Smaller(Smaller(count, limit) + 1, limit) = Smaller(count, limit) + 1
        BY <1>1, <2>5, <4>2, SmallerOf
      <4>4. AtMost(From(S, s) \cup {x}, Smaller(count, limit) + 1)
        BY <2>4, <2>5, AtMostOneMore
      <4> QED BY <4>1, <4>3, <4>4
    <3> QED BY <3>1, <3>2
  <2>7. Current(Counted(b), R, s, now, limit)
    BY <2>2, <2>5, <2>6 DEF Current
  <2>8. Past(R, s, limit)
    BY <1>3, <1>5, <2>3
  <2> QED BY <2>2, <2>7, <2>8 DEF Metered
<1> QED BY <1>4, <1>5 DEF Metered, limit

LEMMA CountedType ==
    ASSUME NEW b \in Buckets, windows[b] \in Counter, now \in Nat
    PROVE  Counted(b) \in Counter
<1> DEFINE limit == Limits[b[2]]
           ends == IF windows[b].count = 0 THEN now + Window ELSE windows[b].ends
           ttl == (ends - now) \div 2
           renewed == ttl < 1 \/ 2 * ttl > Window
           left == IF renewed THEN Window ELSE 2 * ttl
<1>1. limit \in Nat /\ windows[b].count \in Nat /\ windows[b].ends \in Nat
  BY LimitType DEF Counter
<1>2. ends \in Nat
  BY <1>1, WindowLength
<1> HIDE DEF limit
<1>3. CASE Shared
  <2>1. Counted(b) = CountInRedis(windows[b], limit)
    BY <1>3 DEF Counted, Shared, limit
  <2>2. Counted(b) = IF windows[b].count > limit
                     THEN [count |-> limit + 1, ends |-> now + left]
                     ELSE [count |-> windows[b].count + 1,
                           ends |-> IF renewed THEN now + Window ELSE ends]
    BY <2>1 DEF CountInRedis
  <2> HIDE DEF ends
  <2>3. ttl \in Int
    BY <1>2
  <2> HIDE DEF ttl
  <2>4. left \in Nat
    BY <2>3, WindowLength
  <2> HIDE DEF left, renewed
  <2> QED BY <1>1, <1>2, <2>2, <2>4, WindowLength DEF Counter
<1>4. CASE ~Shared
  <2>1. Counted(b) = CountInMemory(windows[b], limit)
    BY <1>4 DEF Counted, Shared, limit
  <2>2. CountInMemory(windows[b], limit) = [count |-> Smaller(windows[b].count, limit) + 1,
                                            ends |-> ends]
    BY DEF CountInMemory
  <2>3. Smaller(windows[b].count, limit) + 1 \in Nat
    BY <1>1 DEF Smaller
  <2> HIDE DEF ends
  <2> QED BY <1>2, <2>1, <2>2, <2>3 DEF Counter
<1> QED BY <1>3, <1>4

(* The history gains an entry, which is a new one.                         *)
LEMMA LoggedEntry ==
    ASSUME NEW S, now \in Nat, Logged(S, now), NEW yes \in BOOLEAN, NEW x,
           x = [at |-> now, nth |-> AtOnce(S), allowed |-> yes]
    PROVE  x \in Entry /\ Logged(S \cup {x}, now)
<1> DEFINE T == {e \in S : e.at = now}
           R == {e \in S \cup {x} : e.at = now}
<1>1. IsFiniteSet(T) /\ Cardinality(T) \in Nat
  BY FS_Subset, FS_CardinalityType DEF Logged
<1>2. AtOnce(S) = Cardinality(T)
  BY DEF AtOnce
<1>3. x \in Entry /\ x.at = now /\ x.nth = Cardinality(T)
  BY <1>1, <1>2 DEF Entry
<1>4. x \notin T
  BY <1>1, <1>3 DEF Logged
<1>5. R = T \cup {x}
  BY <1>3
<1> HIDE DEF T, R
<1>6. Cardinality(R) = Cardinality(T) + 1
  BY <1>1, <1>4, <1>5, FS_AddElement
<1>7. \A e \in S \cup {x} : e.at = now => e.nth < Cardinality(R)
  <2>1. ASSUME NEW e \in S, e.at = now PROVE e.nth < Cardinality(R)
    <3>1. e.nth \in Nat /\ e.nth < Cardinality(T)
      BY <2>1 DEF Logged, Entry, T
    <3> QED BY <1>1, <1>6, <3>1
  <2>2. x.nth < Cardinality(R)
    BY <1>1, <1>3, <1>6
  <2> QED BY <2>1, <2>2
<1>8. /\ S \cup {x} \subseteq Entry /\ IsFiniteSet(S \cup {x})
      /\ \A e \in S \cup {x} : e.at <= now
  <2>1. IsFiniteSet(S \cup {x})
    BY FS_AddElement DEF Logged
  <2> QED BY <1>3, <2>1 DEF Logged
<1> QED BY <1>3, <1>7, <1>8 DEF Logged, R

LEMMA ConsumeKeeps ==
    ASSUME LimitsInv, now \in Nat, NEW b \in Buckets, NEW o \in Owners,
           o \notin TrustedProxies => b[1] = o,
           Consume(b, o), now' = now, config' = config
    PROVE  LimitsInv'
<1> DEFINE w == <<o, b[2]>>
           x == [at |-> now, nth |-> AtOnce(log[w]), allowed |-> Allowed(b)]
<1>1. /\ w \in Buckets /\ w[1] = o /\ b = <<b[1], b[2]>>
      /\ o \notin TrustedProxies => w = b
  BY DEF Buckets
<1>2. /\ windows \in [Buckets -> Counter] /\ DOMAIN log = Buckets
      /\ \A v \in Buckets : Logged(log[v], now)
  BY DEF LimitsInv
<1>3. Counted(b) \in Counter
  BY <1>2, CountedType
<1>4. windows' = [windows EXCEPT ![b] = Counted(b)]
  BY DEF Consume
<1>5. log' = log \/ log' = [log EXCEPT ![w] = @ \cup {x}]
  BY DEF Consume
<1>6. Allowed(b) \in BOOLEAN
  BY DEF Allowed
<1>7. x \in Entry /\ x.at = now /\ x.allowed = Allowed(b) /\ Logged(log[w] \cup {x}, now)
  BY <1>1, <1>2, <1>6, LoggedEntry
<1> HIDE DEF w, x
<1>8. windows' \in [Buckets -> Counter] /\ windows'[b] = Counted(b)
      /\ \A v \in Buckets \ {b} : windows'[v] = windows[v]
  BY <1>2, <1>3, <1>4
<1>9. /\ DOMAIN log' = Buckets /\ \A v \in Buckets \ {w} : log'[v] = log[v]
      /\ log'[w] = log[w] \/ log'[w] = log[w] \cup {x}
  BY <1>1, <1>2, <1>5
<1>10. \A v \in Buckets : Logged(log'[v], now')
  BY <1>2, <1>7, <1>9
<1>11. ASSUME NEW v \in Buckets, v[1] \notin TrustedProxies
       PROVE  Metered(windows'[v], Admitted(log'[v]), now, Limits[v[2]])
  <2>1. Metered(windows[v], Admitted(log[v]), now, Limits[v[2]])
    BY <1>11 DEF LimitsInv
  <2>2. CASE v # b
    <3>1. v # w
      BY <1>1, <1>11, <2>2
    <3> QED BY <1>8, <1>9, <2>1, <2>2, <3>1
  <2>3. CASE v = b
    <3> DEFINE S == Admitted(log[b])
               R == Admitted(log'[b])
    <3>1. R = S \/ (Allowed(b) /\ R = S \cup {x})
      BY <1>1, <1>7, <1>9 DEF Admitted
    <3>2. S \subseteq Entry /\ \A e \in S : e.at <= now
      BY <1>2 DEF Admitted, Logged
    <3>3. windows[b] \in Counter /\ Metered(windows[b], S, now, Limits[b[2]])
      BY <1>2, <2>1, <2>3
    <3> HIDE DEF S, R
    <3>4. Metered(Counted(b), R, now, Limits[b[2]])
      BY <1>7, <3>1, <3>2, <3>3, MeteredConsumption
    <3> QED BY <1>8, <2>3, <3>4 DEF R
  <2> QED BY <2>2, <2>3
<1>12. \A v \in Buckets : v[1] \notin TrustedProxies =>
           Metered(windows[v], Admitted(log[v]), now, Limits[v[2]])'
  <2> SUFFICES ASSUME NEW v \in Buckets, v[1] \notin TrustedProxies
               PROVE  Metered(windows[v], Admitted(log[v]), now, Limits[v[2]])'
    OBVIOUS
  <2>1. Metered(windows'[v], Admitted(log'[v]), now, Limits[v[2]])
    BY <1>11
  <2> QED BY <2>1 DEF Metered, Current, Past, Timing, Shortest, Shared, Admitted
<1> QED BY <1>8, <1>9, <1>10, <1>12 DEF LimitsInv

(***************************************************************************)
(* The clock                                                               *)
(***************************************************************************)
LEMMA LoggedLater ==
    ASSUME NEW S, now \in Nat, Logged(S, now)
    PROVE  Logged(Recent(S), now + 1)
<1>1. Recent(S) \subseteq S
  BY DEF Recent
<1>2. IsFiniteSet(Recent(S))
  BY <1>1, FS_Subset DEF Logged
<1>3. \A e \in S : e.at \in Nat /\ e.at <= now
  BY DEF Logged, Entry
<1>4. \A e \in S : e.at <= now + 1 /\ e.at # now + 1
  BY <1>3
<1> QED BY <1>1, <1>2, <1>4 DEF Logged

(* Of the admissions in sight when a window ends, those before it were     *)
(* opened are those of the window before, or none.                         *)
LEMMA WindowEnds ==
    ASSUME now \in Nat, NEW S, S \subseteq Entry, \A e \in S : e.at <= now,
           NEW y, NEW s \in Int, NEW limit \in Nat, y.ends \in Nat, y.ends <= now + 1,
           Current(y, S, s, now, limit), Past(S, s, limit)
    PROVE  Past(Recent(S), now + 1, limit) /\ Earlier(Recent(S), now + 1) = Recent(S)
<1>1. Recent(S) \subseteq S /\ \A e \in S : e.at \in Nat /\ e.at <= now
  BY DEF Recent, Entry
<1>2. Earlier(Recent(S), now + 1) = Recent(S)
  BY <1>1 DEF Earlier
<1>3. /\ s <= now /\ s + Shortest <= y.ends
      /\ ~Shared => y.ends = s + Window
  BY DEF Current, Timing
<1>4. AtMost(Earlier(From(Recent(S), s), now + 1), limit)
  <2>1. y.count \in Nat /\ Smaller(y.count, limit) \in Nat /\ Smaller(y.count, limit) <= limit
    BY DEF Current, Smaller
  <2>2. AtMost(From(S, s), limit)
    BY <2>1, AtMostMore DEF Current
  <2>3. Earlier(From(Recent(S), s), now + 1) \subseteq From(S, s)
    BY <1>1 DEF Earlier, From
  <2> QED BY <2>2, <2>3, AtMostSubset
<1>5. PICK p \in Int : /\ p + Shortest <= s
                       /\ AtMost(Earlier(From(S, p), s), limit)
  BY DEF Past
<1>6. AtMost(Earlier(Recent(S), s), IF Shared THEN limit ELSE 0)
  <2>1. CASE Shared
    <3>1. Shortest = Half + 1
      BY <2>1 DEF Shortest
    <3>2. ASSUME NEW e \in Recent(S), e.at < s PROVE e.at >= p
      <4>1. e.at \in Nat /\ e.at + Window > now + 1
        BY <1>1 DEF Recent
      <4> QED BY <1>3, <1>5, <3>1, <3>2, <4>1, WindowLength
    <3>3. Earlier(Recent(S), s) \subseteq Earlier(From(S, p), s)
      BY <1>1, <3>2 DEF Earlier, From
    <3> QED BY <1>5, <2>1, <3>3, AtMostSubset
  <2>2. CASE ~Shared
    <3>1. ASSUME NEW e \in Recent(S), e.at < s PROVE FALSE
      <4>1. e.at \in Nat /\ e.at + Window > now + 1
        BY <1>1 DEF Recent
      <4> QED BY <1>3, <2>2, <3>1, <4>1, WindowLength
    <3>2. Earlier(Recent(S), s) = {}
      BY <3>1 DEF Earlier
    <3> QED BY <2>2, <3>2, AtMostNone
  <2> QED BY <2>1, <2>2
<1>7. s + Shortest <= now + 1
  BY <1>3, WindowLength DEF Shortest
<1> QED BY <1>2, <1>4, <1>6, <1>7 DEF Past

LEMMA MeteredLater ==
    ASSUME now \in Nat, NEW S, S \subseteq Entry, \A e \in S : e.at <= now,
           NEW y \in Counter, NEW limit \in Nat, Metered(y, S, now, limit),
           NEW z, z = IF y.ends <= now + 1 THEN NoWindow ELSE y
    PROVE  Metered(z, Recent(S), now + 1, limit)
<1>1. Recent(S) \subseteq S /\ \A e \in S : e.at \in Nat /\ e.at <= now
  BY DEF Recent, Entry
<1>2. NoWindow.count = 0 /\ y.ends \in Nat /\ (IF Shared THEN limit ELSE 0) \in Nat
  BY DEF NoWindow, Counter
<1>3. ASSUME NEW s \in Int, Past(S, s, limit) PROVE Past(Recent(S), s, limit)
  <2>1. PICK p \in Int : /\ p + Shortest <= s
                         /\ AtMost(Earlier(From(S, p), s), limit)
                         /\ AtMost(Earlier(S, p), IF Shared THEN limit ELSE 0)
    BY <1>3 DEF Past
  <2>2. /\ Earlier(From(Recent(S), p), s) \subseteq Earlier(From(S, p), s)
        /\ Earlier(Recent(S), p) \subseteq Earlier(S, p)
    BY <1>1 DEF Earlier, From
  <2>3. AtMost(Earlier(From(Recent(S), p), s), limit)
    BY <2>1, <2>2, AtMostSubset
  <2>4. AtMost(Earlier(Recent(S), p), IF Shared THEN limit ELSE 0)
    BY <1>2, <2>1, <2>2, AtMostSubset
  <2> QED BY <2>1, <2>3, <2>4 DEF Past
<1>4. CASE y.count = 0 /\ Earlier(S, now) = S /\ Past(S, now, limit)
  <2>1. z.count = 0
    BY <1>2, <1>4
  <2>2. Earlier(Recent(S), now + 1) = Recent(S)
    BY <1>1 DEF Earlier
  <2>3. PICK p \in Int : /\ p + Shortest <= now
                         /\ AtMost(Earlier(From(Recent(S), p), now), limit)
                         /\ AtMost(Earlier(Recent(S), p), IF Shared THEN limit ELSE 0)
    BY <1>3, <1>4 DEF Past
  <2>4. \A e \in Recent(S) : e.at < now
    BY <1>1, <1>4 DEF Earlier
  <2>5. Earlier(From(Recent(S), p), now + 1) = Earlier(From(Recent(S), p), now)
    BY <1>1, <2>4 DEF Earlier, From
  <2>6. p + Shortest <= now + 1
    BY <2>3, WindowLength DEF Shortest
  <2>7. Past(Recent(S), now + 1, limit)
    BY <2>3, <2>5, <2>6 DEF Past
  <2> QED BY <2>1, <2>2, <2>7 DEF Metered
<1>5. ASSUME NEW s \in Int, Current(y, S, s, now, limit), Past(S, s, limit)
      PROVE  Metered(z, Recent(S), now + 1, limit)
  <2>1. CASE y.ends <= now + 1
    <3>1. Past(Recent(S), now + 1, limit) /\ Earlier(Recent(S), now + 1) = Recent(S)
      BY <1>2, <1>5, <2>1, WindowEnds
    <3>2. z.count = 0
      BY <1>2, <2>1
    <3> QED BY <3>1, <3>2 DEF Metered
  <2>2. CASE ~(y.ends <= now + 1)
    <3>1. z = y /\ now + 1 < y.ends
      BY <1>2, <2>2
    <3>2. Timing(y, s, now) /\ y.count \in 1 .. limit + 1
      BY <1>5 DEF Current
    <3>3. /\ y.ends - now \in Nat /\ y.ends - (now + 1) \in Nat
          /\ y.ends - now = (y.ends - (now + 1)) + 1
      BY <1>2, <3>1
    <3>4. (y.ends - (now + 1)) % 2 <= ((y.ends - now) % 2) + 1
      BY <3>3, Halves
    <3>5. Timing(y, s, now + 1)
      <4>1. s <= now + 1 /\ y.ends <= now + 1 + Window /\ s + Shortest <= y.ends
        BY <1>2, <3>2, WindowLength DEF Timing, Shortest
      <4>2. CASE Shared
        <5> DEFINE old == (y.ends - now) % 2
                   new == (y.ends - (now + 1)) % 2
        <5>1. 2 * s + Window + old <= y.ends + now
          BY <3>2, <4>2 DEF Timing
        <5>2. old \in {0, 1} /\ new \in {0, 1} /\ new <= old + 1
          BY <3>3, <3>4, Halves
        <5> HIDE DEF old, new
        <5>3. 2 * s + Window + new <= y.ends + (now + 1)
          BY <1>2, <5>1, <5>2, WindowLength
        <5> QED BY <3>1, <4>1, <4>2, <5>3 DEF Timing, new
      <4>3. CASE ~Shared
        BY <3>1, <3>2, <4>1, <4>3 DEF Timing
      <4> QED BY <4>2, <4>3
    <3>6. Smaller(y.count, limit) \in Nat
      BY <3>2 DEF Smaller
    <3>7. AtMost(From(Recent(S), s), Smaller(y.count, limit))
      <4>1. From(Recent(S), s) \subseteq From(S, s)
        BY <1>1 DEF From
      <4> QED BY <1>5, <3>6, <4>1, AtMostSubset DEF Current
    <3>8. Current(z, Recent(S), s, now + 1, limit)
      BY <3>1, <3>2, <3>5, <3>7 DEF Current
    <3> QED BY <1>3, <1>5, <3>8 DEF Metered
  <2> QED BY <2>1, <2>2
<1> QED BY <1>4, <1>5 DEF Metered

LEMMA TickKeeps ==
    ASSUME LimitsInv, now \in Nat, Tick
    PROVE  LimitsInv'
<1>1. /\ windows \in [Buckets -> Counter] /\ DOMAIN log = Buckets
      /\ \A v \in Buckets : Logged(log[v], now)
  BY DEF LimitsInv
<1>2. /\ now' = now + 1 /\ config' = config
      /\ windows' = [b \in Buckets |->
                         IF windows[b].ends <= now + 1 THEN NoWindow ELSE windows[b]]
      /\ log' = [w \in Buckets |-> Recent(log[w])]
  BY <1>1 DEF Tick
<1>3. NoWindow \in Counter
  BY DEF NoWindow, Counter
<1>4. windows' \in [Buckets -> Counter] /\ DOMAIN log' = Buckets
  BY <1>1, <1>2, <1>3
<1>5. \A v \in Buckets : Logged(log'[v], now + 1)
  BY <1>1, <1>2, LoggedLater
<1>6. ASSUME NEW v \in Buckets, v[1] \notin TrustedProxies
      PROVE  Metered(windows'[v], Admitted(log'[v]), now + 1, Limits[v[2]])
  <2> DEFINE S == Admitted(log[v])
             y == windows[v]
             z == IF y.ends <= now + 1 THEN NoWindow ELSE y
  <2>1. Metered(y, S, now, Limits[v[2]])
    BY <1>6 DEF LimitsInv
  <2>2. S \subseteq Entry /\ \A e \in S : e.at <= now
    BY <1>1 DEF Admitted, Logged
  <2>3. y \in Counter /\ Limits[v[2]] \in Nat
    BY <1>1, LimitType
  <2>4. Admitted(log'[v]) = Recent(S) /\ windows'[v] = z
    BY <1>2 DEF Admitted, Recent
  <2> HIDE DEF S, y
  <2>5. Metered(z, Recent(S), now + 1, Limits[v[2]])
    BY <2>1, <2>2, <2>3, MeteredLater
  <2> QED BY <2>4, <2>5
<1>7. \A v \in Buckets : v[1] \notin TrustedProxies =>
          Metered(windows[v], Admitted(log[v]), now, Limits[v[2]])'
  <2> SUFFICES ASSUME NEW v \in Buckets, v[1] \notin TrustedProxies
               PROVE  Metered(windows[v], Admitted(log[v]), now, Limits[v[2]])'
    OBVIOUS
  <2>1. Metered(windows'[v], Admitted(log'[v]), now', Limits[v[2]])
    BY <1>2, <1>6
  <2> QED BY <1>2, <2>1 DEF Metered, Current, Past, Timing, Shortest, Shared, Admitted
<1> QED BY <1>2, <1>4, <1>5, <1>7 DEF LimitsInv

(* Neither the clock nor a limiter has moved.                              *)
LEMMA LimitsFrame ==
    ASSUME LimitsInv, config' = config, now' = now, windows' = windows, log' = log
    PROVE  LimitsInv'
<1> SUFFICES ASSUME NEW v \in Buckets, v[1] \notin TrustedProxies
             PROVE  Metered(windows[v], Admitted(log[v]), now, Limits[v[2]])'
  BY DEF LimitsInv
<1>1. Metered(windows'[v], Admitted(log'[v]), now', Limits[v[2]])
  BY DEF LimitsInv
<1> QED BY <1>1 DEF Metered, Current, Past, Timing, Shortest, Shared, Admitted

(***************************************************************************)
(* Who is counted, and where                                               *)
(***************************************************************************)
(* An address that is not a trusted proxy is counted as itself.            *)
LEMMA CountedAddress ==
    ASSUME NEW call \in Call
    PROVE  /\ ClientAddress(call) \in Owners /\ call.peer \in Owners
           /\ call.peer \notin TrustedProxies => ClientAddress(call) = call.peer
<1> DEFINE claims == {call.forwarded, call.xForwarded} \ {"absent"}
<1>1. call.peer \in Addresses
  BY DEF Call
<1>2. ASSUME claims \subseteq Addresses, Cardinality(claims) = 1
      PROVE  (CHOOSE a \in claims : TRUE) \in Addresses
  <2>1. claims # {}
    BY <1>2, FS_EmptySet
  <2> QED BY <1>2, <2>1
<1>3. ClientAddress(call) \in Addresses \cup {"anonymous"}
  <2> HIDE DEF claims
  <2>1. ClientAddress(call) =
            IF call.peer \notin TrustedProxies \/ claims = {} THEN call.peer
            ELSE IF claims \subseteq Addresses /\ Cardinality(claims) = 1
                 THEN CHOOSE a \in claims : TRUE
                 ELSE "anonymous"
    BY DEF ClientAddress, claims
  <2> QED BY <1>1, <1>2, <2>1
<1>4. call.peer \notin TrustedProxies => ClientAddress(call) = call.peer
  BY DEF ClientAddress
<1> QED BY <1>1, <1>3, <1>4 DEF Owners

LEMMA CountedPrincipal ==
    ASSUME config.mode \in Modes, NEW call \in Calls[config.mode]
    PROVE  Principal(call) \in Owners
<1>1. call.credential.kind = "key" => call.credential.id \in Keys
  BY AccessAssumption
<1> QED BY <1>1 DEF Principal, Owners

LEMMA ArriveKeepsLimits ==
    ASSUME AccessInv, LimitsInv, NEW c \in Clients, NEW call \in Calls[config.mode],
           Arrive(c, call) \/ ArriveUnlimited(c, call)
    PROVE  LimitsInv'
<1>1. call \in Call /\ now \in Nat
  BY AccessAssumption DEF AccessInv
<1>2. now' = now /\ config' = config
  BY DEF Arrive, ArriveUnlimited, Arrival, outside
<1> DEFINE b == <<ClientAddress(call), "general">>
<1>3. b \in Buckets /\ b[1] = ClientAddress(call)
  BY <1>1, CountedAddress DEF Buckets, Categories
<1>4. limiting' = limiting \/ Consume(b, call.peer)
  BY DEF Arrive, ArriveUnlimited
<1> HIDE DEF b
<1>5. CASE limiting' = limiting
  BY <1>2, <1>5, LimitsFrame DEF limiting
<1>6. CASE Consume(b, call.peer)
  <2>1. call.peer \in Owners /\ (call.peer \notin TrustedProxies => b[1] = call.peer)
    BY <1>1, <1>3, CountedAddress
  <2> QED BY <1>1, <1>2, <1>3, <1>6, <2>1, ConsumeKeeps
<1> QED BY <1>4, <1>5, <1>6

LEMMA ServeKeepsLimits ==
    ASSUME AccessInv, CallsInv, LimitsInv, NEW c \in Clients, Serve(c)
    PROVE  LimitsInv'
<1> DEFINE call == request[c].call
<1>1. now' = now /\ config' = config /\ now \in Nat /\ config.mode \in Modes
  BY ServeChanges DEF AccessInv
<1>2. CASE RefuseCredential(c)
  <2> DEFINE b == <<ClientAddress(call), "authentication_failure">>
  <2>1. call \in Calls[config.mode] /\ call \in Call
    BY <1>1, <1>2, AccessAssumption DEF RefuseCredential, At, CallsInv
  <2>2. Consume(b, call.peer)
    BY <1>2 DEF RefuseCredential
  <2>3. b \in Buckets /\ b[1] = ClientAddress(call)
    BY <2>1, CountedAddress DEF Buckets, Categories
  <2>4. call.peer \in Owners /\ (call.peer \notin TrustedProxies => b[1] = call.peer)
    BY <2>1, <2>3, CountedAddress
  <2> HIDE DEF b, call
  <2> QED BY <1>1, <2>2, <2>3, <2>4, ConsumeKeeps
<1>3. CASE Quota(c)
  <2> DEFINE b == <<Principal(call), call.category>>
  <2>1. call \in Calls[config.mode] /\ call \in Call
    BY <1>1, <1>3, AccessAssumption DEF Quota, At, CallsInv
  <2>2. \/ limiting' = limiting
        \/ call.category # "none" /\ Consume(b, Principal(call))
    BY <1>3 DEF Quota
  <2>3. CASE limiting' = limiting
    BY <1>1, <2>3, LimitsFrame DEF limiting
  <2>4. CASE call.category # "none" /\ Consume(b, Principal(call))
    <3>1. Principal(call) \in Owners
      BY <1>1, <2>1, CountedPrincipal
    <3>2. b \in Buckets /\ b[1] = Principal(call)
      BY <2>1, <2>4, <3>1 DEF Buckets, Call
    <3> HIDE DEF b, call
    <3> QED BY <1>1, <2>4, <3>1, <3>2, ConsumeKeeps
  <2> QED BY <2>2, <2>3, <2>4
<1>4. ASSUME ~RefuseCredential(c), ~Quota(c) PROVE limiting' = limiting
  <2>1. LookUp(c) \/ UseKey(c) \/ ExpireKey(c) \/ DatabaseFails(c) => limiting' = limiting
    BY DEF LookUp, UseKey, ExpireKey, DatabaseFails, limiting
  <2>2. UseCachedKeys(c) \/ StartFetch(c) => limiting' = limiting
    BY DEF UseCachedKeys, StartFetch, limiting
  <2>3. FetchAnswered(c) \/ FetchFails(c) \/ LimiterDown(c) => limiting' = limiting
    BY DEF FetchAnswered, FetchFails, LimiterDown, limiting
  <2> QED BY <1>4, <2>1, <2>2, <2>3 DEF Serve
<1>5. ASSUME limiting' = limiting PROVE LimitsInv'
  BY <1>1, <1>5, LimitsFrame DEF limiting
<1> QED BY <1>2, <1>3, <1>4, <1>5

(* The call of a request stays what it was until it is answered.           *)
LEMMA ServeKeepsCall ==
    ASSUME RequestsInv, NEW c \in Clients, Serve(c)
    PROVE  /\ request[c].pc \notin {"idle", "answered"}
           /\ request'[c].pc = "answered" \/ request'[c].call = request[c].call
<1> DEFINE Kept == request'[c].pc = "answered" \/ request'[c].call = request[c].call
<1>1. request[c] \in Request /\ request \in [Clients -> Request]
  BY DEF RequestsInv
<1>2. ASSUME NEW status, Answer(c, status) PROVE Kept
  BY <1>2, AnswerOutcome
<1>3. ASSUME NEW b, Fail(c, b) PROVE Kept
  BY <1>1, <1>3 DEF Fail, Request
<1>4. ASSUME NEW pc, Goto(c, pc) PROVE Kept
  BY <1>1, <1>4 DEF Goto, Request
<1>5. ASSUME NEW time, Accept(c, time) PROVE Kept
  <2>1. CASE request' = [request EXCEPT ![c].pc = "quota", ![c].taken = time, ![c].forced = FALSE]
    BY <1>1, <2>1 DEF Request
  <2> QED BY <1>2, <1>3, <1>5, <2>1 DEF Accept
<1>6. ASSUME Miss(c) PROVE Kept
  BY <1>3, <1>4, <1>6 DEF Miss
<1>7. CASE LookUp(c)
  <2>1. PICK pc : request' = [request EXCEPT ![c].pc = pc, ![c].taken = now,
                                 ![c].seen = credential[request[c].call.credential.id].version]
    BY <1>7 DEF LookUp
  <2>2. request'[c].call = request[c].call
    BY <1>1, <2>1 DEF Request
  <2> QED BY <1>7, <2>2 DEF LookUp, At
<1>8. CASE UseKey(c)
  BY <1>3, <1>4, <1>8 DEF UseKey, At
<1>9. CASE ExpireKey(c) \/ DatabaseFails(c)
  BY <1>3, <1>9 DEF ExpireKey, DatabaseFails, At
<1>10. CASE UseCachedKeys(c) \/ FetchAnswered(c)
  BY <1>5, <1>6, <1>10 DEF UseCachedKeys, FetchAnswered, At
<1>11. CASE StartFetch(c)
  <2>1. request'[c].call = request[c].call
    BY <1>1, <1>11 DEF StartFetch, Request
  <2> QED BY <1>11, <2>1 DEF StartFetch, At
<1>12. CASE FetchFails(c)
  BY <1>2, <1>3, <1>12 DEF FetchFails, At
<1>13. CASE RefuseCredential(c) \/ LimiterDown(c)
  BY <1>2, <1>13 DEF RefuseCredential, LimiterDown, At
<1>14. CASE Quota(c)
  BY <1>2, <1>14 DEF Quota, Decide, At
<1> QED BY <1>7, <1>8, <1>9, <1>10, <1>11, <1>12, <1>13, <1>14 DEF Serve

LEMMA ArriveKeepsCalls ==
    ASSUME RequestsInv, CallsInv, NEW c \in Clients, NEW call \in Calls[config.mode],
           Arrive(c, call) \/ ArriveUnlimited(c, call)
    PROVE  CallsInv'
<1>1. request \in [Clients -> Request]
  BY DEF RequestsInv
<1>2. config' = config /\ \A d \in Clients \ {c} : request'[d] = request[d]
  BY ArriveChanges
<1>3. \/ \E status : Answer(c, status)
      \/ \E pc : Begin(c, call, pc)
  BY DEF Arrive, ArriveUnlimited
<1>4. request'[c].pc = "answered" \/ request'[c].call = call
  <2>1. ASSUME NEW pc, Begin(c, call, pc) PROVE request'[c].call = call
    BY <1>1, <2>1 DEF Begin, NoRequest
  <2> QED BY <1>3, <2>1, AnswerOutcome
<1> QED BY <1>2, <1>4 DEF CallsInv

(***************************************************************************)
(* The theorem                                                             *)
(***************************************************************************)
LEMMA LimitsStep ==
    ASSUME AccessInv, CallsInv, LimitsInv, [AccessNext]_vars
    PROVE  CallsInv' /\ LimitsInv'
<1>1. CASE UNCHANGED vars
  BY <1>1, LimitsFrame DEF vars, CallsInv
<1>2. ASSUME NEW c \in Clients, Serve(c) PROVE CallsInv' /\ LimitsInv'
  <2>1. /\ config' = config /\ \A d \in Clients \ {c} : request'[d] = request[d]
        /\ request[c].pc \notin {"idle", "answered"}
        /\ request'[c].pc = "answered" \/ request'[c].call = request[c].call
    BY <1>2, ServeChanges, ServeKeepsCall DEF AccessInv
  <2> QED BY <1>2, <2>1, ServeKeepsLimits DEF CallsInv
<1>3. ASSUME NEW c \in Clients, NEW call \in Calls[config.mode],
             Arrive(c, call) \/ ArriveUnlimited(c, call)
      PROVE  CallsInv' /\ LimitsInv'
  BY <1>3, ArriveKeepsCalls, ArriveKeepsLimits DEF AccessInv
<1>4. CASE Tick
  <2>1. config' = config /\ request' = request
    BY <1>4 DEF Tick
  <2> QED BY <1>4, <2>1, TickKeeps DEF CallsInv, AccessInv
<1>5. ASSUME request' = request, config' = config, now' = now, limiting' = limiting
      PROVE  CallsInv' /\ LimitsInv'
  BY <1>5, LimitsFrame DEF CallsInv, limiting
<1>6. ASSUME NEW a \in Admins, Revoke(a) PROVE CallsInv' /\ LimitsInv'
  <2>1. /\ request' = request /\ config' = config /\ now' = now /\ limiting' = limiting
    BY <1>6 DEF Revoke, ReadForRevoke, WriteRevoke, RevokeFails
  <2> QED BY <1>5, <2>1
<1>7. ASSUME NEW a \in Admins, NEW k \in Keys, BeginRevoke(a, k) PROVE CallsInv' /\ LimitsInv'
  BY <1>5, <1>7 DEF BeginRevoke
<1>8. ASSUME NEW k \in Keys, NEW expires \in Expiries, CreateKey(k, expires)
      PROVE  CallsInv' /\ LimitsInv'
  BY <1>5, <1>8 DEF CreateKey, outside
<1>9. ASSUME NEW k \in Kids, Publish(k) \/ Withdraw(k) PROVE CallsInv' /\ LimitsInv'
  BY <1>5, <1>9 DEF Publish, Withdraw
<1> QED BY <1>1, <1>2, <1>3, <1>4, <1>6, <1>7, <1>8, <1>9 DEF AccessNext

LEMMA InitialLimits == AccessInit => CallsInv /\ LimitsInv
<1> SUFFICES ASSUME AccessInit PROVE CallsInv /\ LimitsInv
  OBVIOUS
<1>1. CallsInv
  BY DEF AccessInit, CallsInv, NoRequest
<1>2. /\ windows = [b \in Buckets |-> NoWindow] /\ NoWindow \in Counter /\ now = 0
      /\ log = [w \in Buckets |-> {}]
  BY DEF AccessInit, Buckets, NoWindow, Counter
<1>3. Logged({}, 0)
  BY FS_EmptySet DEF Logged
<1>4. ASSUME NEW limit \in Nat PROVE Metered(NoWindow, {}, 0, limit)
  <2> DEFINE p == 0 - Shortest
  <2>1. p \in Int /\ p + Shortest <= 0
    BY WindowLength DEF Shortest
  <2>2. Earlier(From({}, p), 0) = {} /\ Earlier({}, p) = {} /\ Earlier({}, 0) = {}
    BY DEF Earlier, From
  <2>3. AtMost({}, limit) /\ AtMost({}, IF Shared THEN limit ELSE 0)
    BY AtMostNone, AtMostMore
  <2> HIDE DEF p
  <2>4. Past({}, 0, limit)
    BY <2>1, <2>2, <2>3 DEF Past
  <2> QED BY <2>2, <2>4 DEF Metered, NoWindow
<1>5. \A v \in Buckets : Metered(NoWindow, Admitted({}), 0, Limits[v[2]])
  <2>1. Admitted({}) = {}
    BY DEF Admitted
  <2> QED BY <1>4, <2>1, LimitType
<1> QED BY <1>1, <1>2, <1>3, <1>5 DEF LimitsInv

(* What each counter stands for, in memory and in Redis: the window it     *)
(* counts, how long that lasts at least, and whom it let through.          *)
THEOREM LimitsInvariant == AccessSpec => [](CallsInv /\ LimitsInv)
<1>1. AccessInv /\ (CallsInv /\ LimitsInv) /\ [AccessNext]_vars => (CallsInv /\ LimitsInv)'
  BY LimitsStep
<1> QED BY <1>1, InitialLimits, AccessInvariant, PTL DEF AccessSpec

(* However long the windows, whatever the headers say and whoever shares   *)
(* the bucket: AdmissionsBounded.                                          *)
THEOREM AdmissionsAreBounded == AccessSpec => []AdmissionsBounded
<1>1. LimitsInv /\ AccessInv => AdmissionsBounded
  <2> SUFFICES ASSUME LimitsInv, AccessInv, NEW w \in Owners \X Categories,
                      w[1] \notin TrustedProxies
               PROVE  Cardinality(Admitted(log[w])) <= WindowsMet * Limits[w[2]]
    BY DEF AdmissionsBounded
  <2>1. w \in Buckets /\ now \in Nat /\ Limits[w[2]] \in Nat
    BY LimitType DEF Buckets, AccessInv
  <2>2. Admitted(log[w]) \subseteq Entry
    BY <2>1 DEF LimitsInv, Logged, Admitted
  <2>3. Metered(windows[w], Admitted(log[w]), now, Limits[w[2]])
    BY <2>1 DEF LimitsInv
  <2>4. AtMost(Admitted(log[w]), WindowsMet * Limits[w[2]])
    BY <2>1, <2>2, <2>3, MeteredBound
  <2> QED BY <2>4 DEF AtMost
<1> QED BY <1>1, LimitsInvariant, AccessInvariant, PTL
=============================================================================
