---------------------------- MODULE QuotesProofs ----------------------------
(***************************************************************************)
(* One confirmed quote becomes one job, on what the quote showed and under *)
(* one configuration, for any number of requests, keys, quotes and edits.  *)
(***************************************************************************)
EXTENDS Quotes, TLAPS

QuoteRow == [kind : {"quote"}, hash : Hash, bound : Bounds, expired : BOOLEAN,
             confirmedBy : Requests \cup {Nobody}, consumed : BOOLEAN]
JobRow == [kind : {"job"}, frozen : Hash, reserved : Bounds, running : BOOLEAN]
BodyRow == [quote : QuoteIds, limit : Bounds]
KeyRow == [kind : {"record"}, body : BodyRow, job : QuoteIds]

Results == {None, [kind |-> "refused"], [kind |-> "error"], [kind |-> "conflict"]}
             \cup [kind : {"quote", "confirmed"}, quote : QuoteIds]
JobResults == [kind : {"job"}, quote : QuoteIds]

PricingRow == [step : {"pricing", "answered"}, quote : QuoteIds, bound : Bounds,
               hash : Hash, result : Results]
ConfirmRow == [step : {"confirming", "answered"}, quote : QuoteIds, result : Results]
CreateRow == [step : {"checking", "fingerprint", "committing", "consumed", "answered"},
              key : Keys, quote : QuoteIds, limit : Bounds,
              result : Results \cup JobResults]

InputsTyped ==
    /\ itemRev \in Nat /\ 1 <= itemRev /\ itemRev <= edits + 1
    /\ content \in [Photos -> Hashes] /\ compatible \in BOOLEAN
    /\ edits \in 0 .. MaxEdits
    /\ config \in [rev : 0 .. MaxConfig, saved : Providers, active : Providers]

RowsTyped ==
    /\ quotes \in [QuoteIds -> QuoteRow \cup {None}]
    /\ jobs \in [QuoteIds -> JobRow \cup {None}]
    /\ idem \in [Keys -> KeyRow \cup {None}]
    /\ DOMAIN request = Requests

\* A fingerprint belongs to a configuration that was saved, and one of the
\* present revision names the settings saved with it.
Estimated(hash) ==
    /\ hash.config <= config.rev
    /\ hash.config = config.rev => hash.providers = config.saved

\* What a creation that passed its checks may rely on.
Creatable(row) ==
    /\ Stored(row.quote) /\ quotes[row.quote].confirmedBy # Nobody
    /\ quotes[row.quote].bound <= row.limit
    /\ quotes[row.quote].hash.config = config.rev /\ ~Pending

\* A job was answered: it is the one recorded with key and body.
Recorded(row) ==
    /\ idem[row.key] # None
    /\ idem[row.key].body = [quote |-> row.quote, limit |-> row.limit]
    /\ idem[row.key].job = row.result.quote

\* Where a handler may stand, and what is then true.
Fits(row) ==
    \/ row = Waiting
    \/ row \in PricingRow /\ (row.step = "pricing" => ~Stored(row.quote) /\ Estimated(row.hash))
    \/ row \in ConfirmRow /\ (row.step = "confirming" => Stored(row.quote))
    \/ /\ row \in CreateRow
       /\ row.step \in {"fingerprint", "committing"} => Creatable(row)
       /\ row.step = "answered" /\ row.result.kind = "job" => Recorded(row)

HandlersFit == \A r \in Requests : Fits(request[r])

\* No two estimates are being stored under one id.
PricingApart ==
    \A r, s \in Requests :
        At(r, "pricing") /\ At(s, "pricing") /\ request[r].quote = request[s].quote
        => r = s

QuotesEstimated == \A q \in QuoteIds : Stored(q) => Estimated(quotes[q].hash)

\* A job and its consumed quote.
JobsMatch ==
    \A q \in QuoteIds :
        /\ jobs[q] # None <=> Stored(q) /\ quotes[q].consumed
        /\ jobs[q] # None =>
             /\ jobs[q].frozen = quotes[q].hash
             /\ jobs[q].reserved = quotes[q].bound
             /\ \E k \in Keys : idem[k] # None /\ idem[k].job = q
             /\ jobs[q].running => /\ jobs[q].frozen.config = config.rev
                                   /\ jobs[q].frozen.providers = config.active

\* A key and its job.
KeysMatch ==
    \A k \in Keys : idem[k] # None =>
        LET q == idem[k].job
        IN  /\ jobs[q] # None
            /\ idem[k].body.quote = q
            /\ quotes[q].confirmedBy # Nobody
            /\ quotes[q].bound <= idem[k].body.limit
            /\ \A l \in Keys \ {k} : idem[l] # None => idem[l].job # q

QuotesInv ==
    /\ InputsTyped
    /\ RowsTyped
    /\ HandlersFit
    /\ PricingApart
    /\ QuotesEstimated
    /\ JobsMatch
    /\ KeysMatch

-----------------------------------------------------------------------------
\* Initially nothing is stored and nobody asks.
LEMMA QuotesBegin == QuotesInit => QuotesInv
<1> SUFFICES ASSUME QuotesInit PROVE QuotesInv
  OBVIOUS
<1>1. InputsTyped
  <2>1. (CHOOSE h \in Hashes : TRUE) \in Hashes
    BY QuotesAssumption
  <2> QED
    BY <2>1, QuotesAssumption DEF QuotesInit, InputsTyped
<1>2. RowsTyped
  BY DEF QuotesInit, RowsTyped
<1>3. \A r \in Requests : request[r] = Waiting
  BY DEF QuotesInit
<1>4. HandlersFit
  BY <1>3 DEF HandlersFit, Fits
<1>5. PricingApart
  BY <1>3 DEF PricingApart, At, Waiting
<1>6. QuotesEstimated /\ JobsMatch /\ KeysMatch
  BY DEF QuotesInit, QuotesEstimated, JobsMatch, KeysMatch, Stored
<1> QED
  BY <1>1, <1>2, <1>4, <1>5, <1>6 DEF QuotesInv

\* The fingerprint of the moment is a hash of the present configuration.
LEMMA FingerprintType ==
    ASSUME InputsTyped
    PROVE  /\ Fingerprint \in Hash
           /\ Fingerprint.config = config.rev
           /\ Fingerprint.providers = config.active
<1>1. itemRev \in 1 .. MaxEdits + 1
  BY QuotesAssumption DEF InputsTyped
<1> QED
  BY <1>1 DEF InputsTyped, Fingerprint, Hash

\* A handler moves to a place where it fits, and all else stays.
LEMMA MoveKeeps ==
    ASSUME QuotesInv, NEW r \in Requests, NEW row,
           request' = [request EXCEPT ![r] = row],
           Fits(row),
           row.step = "pricing" =>
               \A s \in Requests \ {r} :
                   ~(At(s, "pricing") /\ request[s].quote = row.quote),
           UNCHANGED <<inputVars, config, quotes, idem, jobs>>
    PROVE  QuotesInv'
<1>1. InputsTyped' /\ QuotesEstimated' /\ JobsMatch' /\ KeysMatch'
  BY DEF QuotesInv, inputVars, InputsTyped, QuotesEstimated, Estimated, Stored, JobsMatch,
         KeysMatch
<1>2. RowsTyped'
  BY DEF QuotesInv, RowsTyped
<1>3. request'[r] = row /\ \A s \in Requests \ {r} : request'[s] = request[s]
  BY DEF QuotesInv, RowsTyped
<1>4. \A any : Fits(any)' <=> Fits(any)
  BY DEF Fits, Estimated, Creatable, Recorded, Stored, Pending
<1>5. HandlersFit'
  BY <1>3, <1>4 DEF QuotesInv, HandlersFit
<1>6. PricingApart'
  BY <1>3 DEF QuotesInv, PricingApart, At
<1> QED
  BY <1>1, <1>2, <1>5, <1>6 DEF QuotesInv

-----------------------------------------------------------------------------
\* Handlers that read and answer.

LEMMA CreateSteps ==
    ASSUME NEW row, Fits(row),
           row.step \in {"checking", "fingerprint", "committing", "consumed"}
    PROVE  row \in CreateRow
  BY DEF Fits, Waiting, PricingRow, ConfirmRow

\* A creation that is answered without a job fits anywhere.
LEMMA AnsweredFits ==
    ASSUME NEW row \in CreateRow, NEW result \in Results
    PROVE  Fits([row EXCEPT !.step = "answered", !.result = result])
<1> DEFINE new == [row EXCEPT !.step = "answered", !.result = result]
<1>1. new \in CreateRow
  BY DEF CreateRow
<1>2. result.kind # "job"
  BY DEF Results, None
<1>3. new.step = "answered" /\ new.result = result
  BY DEF CreateRow
<1> QED
  BY <1>1, <1>2, <1>3 DEF Fits

\* A replay names the job recorded with the same key and body, or a conflict.
LEMMA ReplayFits ==
    ASSUME RowsTyped, NEW r \in Requests, NEW row \in CreateRow, idem[row.key] # None,
           NEW body, body = [quote |-> row.quote, limit |-> row.limit]
    PROVE  Fits([row EXCEPT !.step = "answered", !.result = Replay(r, row.key, body)])
<1> DEFINE new == [row EXCEPT !.step = "answered", !.result = Replay(r, row.key, body)]
<1>1. row.key \in Keys /\ idem[row.key] \in KeyRow
  BY DEF RowsTyped, CreateRow
<1>2. CASE idem[row.key].body = body
  <2>1. Replay(r, row.key, body) = [kind |-> "job", quote |-> idem[row.key].job]
    BY <1>2 DEF Replay
  <2>2. Replay(r, row.key, body) \in JobResults
    BY <2>1, <1>1 DEF JobResults, KeyRow
  <2>3. /\ new \in CreateRow /\ new.step = "answered"
        /\ new.key = row.key /\ new.quote = row.quote /\ new.limit = row.limit
        /\ new.result = Replay(r, row.key, body)
    BY <2>2 DEF CreateRow
  <2>4. new.result.quote = idem[row.key].job
    BY <2>1, <2>3
  <2> HIDE DEF new
  <2>5. Fits(new)
    BY <1>2, <2>3, <2>4 DEF Fits, Recorded
  <2> QED
    BY <2>5 DEF new
<1>3. CASE idem[row.key].body # body
  <2>1. Replay(r, row.key, body) = [kind |-> "conflict"]
    BY <1>3 DEF Replay
  <2> QED
    BY <2>1, AnsweredFits DEF Results
<1> QED
  BY <1>2, <1>3

LEMMA StartEstimateKeeps ==
    ASSUME QuotesInv, NEW r \in Requests, NEW q \in QuoteIds, NEW b \in Bounds,
           StartEstimate(r, q, b)
    PROVE  QuotesInv'
<1> DEFINE row == [step |-> "pricing", quote |-> q, bound |-> b,
                   hash |-> Fingerprint, result |-> None]
<1>1. row \in PricingRow /\ Estimated(row.hash)
  <2>1. /\ Fingerprint \in Hash /\ Fingerprint.config = config.rev
        /\ Fingerprint.providers = config.saved
    BY FingerprintType DEF QuotesInv, StartEstimate, Pending
  <2>2. config.rev <= config.rev
    BY DEF QuotesInv, InputsTyped
  <2> QED
    BY <2>1, <2>2 DEF PricingRow, Results, Estimated
<1>2. Fits(row)
  BY <1>1 DEF Fits, StartEstimate
<1>3. request' = [request EXCEPT ![r] = row]
  BY DEF StartEstimate, Step
<1>4. \A s \in Requests \ {r} : ~(At(s, "pricing") /\ request[s].quote = row.quote)
  BY DEF StartEstimate
<1>5. UNCHANGED <<inputVars, config, quotes, idem, jobs>>
  BY DEF StartEstimate
<1> HIDE DEF row
<1> QED
  BY <1>2, <1>3, <1>4, <1>5, MoveKeeps

LEMMA StartConfirmKeeps ==
    ASSUME QuotesInv, NEW r \in Requests, NEW q \in QuoteIds, StartConfirm(r, q)
    PROVE  QuotesInv'
<1> DEFINE row == [step |-> IF quotes[q].confirmedBy = Nobody
                            THEN "confirming" ELSE "answered",
                   quote |-> q, result |-> [kind |-> "confirmed", quote |-> q]]
<1>1. row \in ConfirmRow
  BY DEF ConfirmRow, Results
<1>2. Fits(row) /\ row.step # "pricing"
  BY <1>1 DEF Fits, StartConfirm
<1>3. request' = [request EXCEPT ![r] = row] /\ UNCHANGED <<inputVars, config, quotes, idem, jobs>>
  BY DEF StartConfirm, Step
<1> HIDE DEF row
<1> QED
  BY <1>2, <1>3, MoveKeeps

LEMMA StartCreateKeeps ==
    ASSUME QuotesInv, NEW r \in Requests, NEW k \in Keys, NEW q \in QuoteIds,
           NEW b \in Bounds, StartCreate(r, k, q, b)
    PROVE  QuotesInv'
<1> DEFINE body == [quote |-> q, limit |-> b]
           new  == [step |-> "checking", key |-> k, quote |-> q, limit |-> b,
                    result |-> None]
           row  == IF idem[k] = None THEN new
                   ELSE [new EXCEPT !.step = "answered", !.result = Replay(r, k, body)]
<1>1. /\ new \in CreateRow /\ new.step = "checking" /\ new.key = k
      /\ body = [quote |-> new.quote, limit |-> new.limit]
  BY DEF CreateRow, Results
<1>2. request' = [request EXCEPT ![r] = row] /\ UNCHANGED <<inputVars, config, quotes, idem, jobs>>
  BY DEF StartCreate, Step
<1> HIDE DEF new, body
<1>3. Fits(row) /\ row.step # "pricing"
  <2>1. CASE idem[k] = None
    BY <1>1, <2>1 DEF Fits
  <2>2. CASE idem[k] # None
    <3>1. Fits([new EXCEPT !.step = "answered", !.result = Replay(r, k, body)])
      BY <1>1, <2>2, ReplayFits DEF QuotesInv
    <3>2. [new EXCEPT !.step = "answered", !.result = Replay(r, k, body)].step = "answered"
      BY <1>1 DEF CreateRow
    <3> QED
      BY <2>2, <3>1, <3>2
  <2> QED
    BY <2>1, <2>2
<1> HIDE DEF row
<1> QED
  BY <1>2, <1>3, MoveKeeps

LEMMA CheckQuoteKeeps ==
    ASSUME QuotesInv, NEW r \in Requests, CheckQuote(r)
    PROVE  QuotesInv'
<1> DEFINE old == request[r]
           at(step) == [old EXCEPT !.step = step]
<1>1. old \in CreateRow
  BY CreateSteps DEF CheckQuote, At, QuotesInv, HandlersFit
<1>2. UNCHANGED <<inputVars, config, quotes, idem, jobs>>
  BY DEF CheckQuote
<1>3. PICK row : Step(r, row) /\ Fits(row) /\ row.step # "pricing"
  <2>1. CASE Refuse(r)
    <3>1. Step(r, [old EXCEPT !.step = "answered", !.result = [kind |-> "refused"]])
      BY <2>1 DEF Refuse, Answer
    <3>2. Fits([old EXCEPT !.step = "answered", !.result = [kind |-> "refused"]])
      BY <1>1, AnsweredFits DEF Results
    <3>3. [old EXCEPT !.step = "answered", !.result = [kind |-> "refused"]].step = "answered"
      BY <1>1 DEF CreateRow
    <3> QED
      BY <3>1, <3>2, <3>3
  <2>2. CASE Step(r, at("consumed"))
    <3>1. at("consumed") \in CreateRow /\ at("consumed").step = "consumed"
      BY <1>1 DEF CreateRow
    <3>2. Fits(at("consumed"))
      BY <3>1 DEF Fits
    <3> QED
      BY <2>2, <3>1, <3>2
  <2>3. CASE /\ Step(r, at("fingerprint"))
             /\ Stored(old.quote) /\ ConfigUnchanged(quotes[old.quote].hash)
             /\ QuoteUsable(quotes[old.quote], old.limit)
    <3>1. /\ at("fingerprint") \in CreateRow /\ at("fingerprint").step = "fingerprint"
          /\ at("fingerprint").quote = old.quote /\ at("fingerprint").limit = old.limit
      BY <1>1 DEF CreateRow
    <3>2. old.limit \in Nat /\ quotes[old.quote].bound \in Nat
      BY <1>1, <2>3, QuotesAssumption DEF CreateRow, QuotesInv, RowsTyped, QuoteRow, Stored
    <3>3. Creatable(at("fingerprint"))
      BY <2>3, <3>1, <3>2 DEF Creatable, ConfigUnchanged, QuoteUsable
    <3>4. Fits(at("fingerprint"))
      BY <3>1, <3>3 DEF Fits
    <3> QED
      BY <2>3, <3>1, <3>4
  <2> QED
    BY <2>1, <2>2, <2>3 DEF CheckQuote
<1> QED
  BY <1>2, <1>3, MoveKeeps DEF Step

LEMMA CheckInputsKeeps ==
    ASSUME QuotesInv, NEW r \in Requests, CheckInputs(r)
    PROVE  QuotesInv'
<1> DEFINE old == request[r]
           next == [old EXCEPT !.step = "committing"]
<1>1. old \in CreateRow /\ Creatable(old)
  <2>1. Fits(old) /\ old.step = "fingerprint"
    BY DEF CheckInputs, At, QuotesInv, HandlersFit
  <2> QED
    BY <2>1, CreateSteps DEF Fits, Waiting, PricingRow, ConfirmRow
<1>2. UNCHANGED <<inputVars, config, quotes, idem, jobs>>
  BY DEF CheckInputs
<1>3. PICK row : Step(r, row) /\ Fits(row) /\ row.step # "pricing"
  <2>1. CASE Refuse(r)
    <3>1. Step(r, [old EXCEPT !.step = "answered", !.result = [kind |-> "refused"]])
      BY <2>1 DEF Refuse, Answer
    <3>2. Fits([old EXCEPT !.step = "answered", !.result = [kind |-> "refused"]])
      BY <1>1, AnsweredFits DEF Results
    <3>3. [old EXCEPT !.step = "answered", !.result = [kind |-> "refused"]].step = "answered"
      BY <1>1 DEF CreateRow
    <3> QED
      BY <3>1, <3>2, <3>3
  <2>2. CASE Step(r, next)
    <3>1. /\ next \in CreateRow /\ next.step = "committing"
          /\ next.quote = old.quote /\ next.limit = old.limit
      BY <1>1 DEF CreateRow
    <3>2. Fits(next)
      BY <1>1, <3>1 DEF Fits, Creatable
    <3> QED
      BY <2>2, <3>1, <3>2
  <2> QED
    BY <2>1, <2>2 DEF CheckInputs
<1> QED
  BY <1>2, <1>3, MoveKeeps DEF Step

LEMMA ReadBackKeeps ==
    ASSUME QuotesInv, NEW r \in Requests, ReadBack(r)
    PROVE  QuotesInv'
<1> DEFINE old == request[r]
           with(result) == [old EXCEPT !.step = "answered", !.result = result]
<1>1. old \in CreateRow
  BY CreateSteps DEF ReadBack, At, QuotesInv, HandlersFit
<1>2. UNCHANGED <<inputVars, config, quotes, idem, jobs>>
  BY DEF ReadBack
<1>3. \A result : with(result).step = "answered"
  BY <1>1 DEF CreateRow
<1>4. PICK row : Step(r, row) /\ Fits(row) /\ row.step # "pricing"
  <2>1. CASE idem[old.key] = None
    <3>1. Step(r, with([kind |-> "refused"]))
      BY <2>1 DEF ReadBack, Refuse, Answer
    <3>2. Fits(with([kind |-> "refused"]))
      BY <1>1, AnsweredFits DEF Results
    <3> QED
      BY <1>3, <3>1, <3>2
  <2>2. CASE idem[old.key] # None
    <3>1. Step(r, with(Replay(r, old.key, Body(r))))
      BY <2>2 DEF ReadBack, Answer
    <3>2. Fits(with(Replay(r, old.key, Body(r))))
      BY <1>1, <2>2, ReplayFits DEF QuotesInv, Body
    <3> QED
      BY <1>3, <3>1, <3>2
  <2> QED
    BY <2>1, <2>2
<1> QED
  BY <1>2, <1>4, MoveKeeps DEF Step

LEMMA EndsKeep ==
    ASSUME QuotesInv, NEW r \in Requests, FailRequest(r) \/ NextCall(r)
    PROVE  QuotesInv'
<1> DEFINE old == request[r]
           failed == [old EXCEPT !.step = "answered", !.result = [kind |-> "error"]]
<1>1. UNCHANGED <<inputVars, config, quotes, idem, jobs>>
  BY DEF FailRequest, NextCall
<1>2. PICK row : Step(r, row) /\ Fits(row) /\ row.step # "pricing"
  <2>1. CASE NextCall(r)
    <3>1. Fits(Waiting) /\ Waiting.step # "pricing"
      BY DEF Fits, Waiting
    <3> QED
      BY <2>1, <3>1 DEF NextCall
  <2>2. CASE FailRequest(r)
    <3>1. old.step \notin {"idle", "answered"} /\ Fits(old) /\ Step(r, failed)
      BY <2>2 DEF FailRequest, Readers, QuotesInv, HandlersFit
    <3>2. [kind |-> "error"] \in Results
      BY DEF Results
    <3>3. CASE old \in PricingRow
      <4>1. failed \in PricingRow /\ failed.step = "answered"
        BY <3>2, <3>3 DEF PricingRow
      <4> QED
        BY <3>1, <4>1 DEF Fits
    <3>4. CASE old \in ConfirmRow
      <4>1. failed \in ConfirmRow /\ failed.step = "answered"
        BY <3>2, <3>4 DEF ConfirmRow
      <4> QED
        BY <3>1, <4>1 DEF Fits
    <3>5. CASE old \in CreateRow
      <4>1. Fits(failed)
        BY <3>2, <3>5, AnsweredFits
      <4>2. failed.step = "answered"
        BY <3>5 DEF CreateRow
      <4> QED
        BY <3>1, <4>1, <4>2
    <3> QED
      BY <3>1, <3>3, <3>4, <3>5 DEF Fits, Waiting
  <2> QED
    BY <2>1, <2>2
<1> QED
  BY <1>1, <1>2, MoveKeeps DEF Step

-----------------------------------------------------------------------------
\* Steps that write.

LEMMA StoreQuoteKeeps ==
    ASSUME QuotesInv, NEW r \in Requests, StoreQuote(r)
    PROVE  QuotesInv'
<1> DEFINE old == request[r]
           q == old.quote
           new == [kind |-> "quote", hash |-> old.hash, bound |-> old.bound,
                   expired |-> FALSE, confirmedBy |-> Nobody, consumed |-> FALSE]
           result == [kind |-> "quote", quote |-> q]
           done == [old EXCEPT !.step = "answered", !.result = result]
<1>1. old \in PricingRow /\ old.step = "pricing" /\ ~Stored(q) /\ Estimated(old.hash)
  <2>1. Fits(old) /\ old.step = "pricing"
    BY DEF StoreQuote, At, QuotesInv, HandlersFit
  <2> QED
    BY <2>1 DEF Fits, Waiting, ConfirmRow, CreateRow
<1>2. q \in QuoteIds /\ new \in QuoteRow /\ new.hash = old.hash /\ ~new.consumed
  BY <1>1 DEF PricingRow, QuoteRow
<1>3. done \in PricingRow /\ done.step = "answered"
  BY <1>1 DEF PricingRow, Results
<1>4. /\ quotes' = [quotes EXCEPT ![q] = new]
      /\ request' = [request EXCEPT ![r] = done]
      /\ UNCHANGED <<inputVars, config, idem, jobs>>
  BY DEF StoreQuote, Answer, Step
<1> HIDE DEF new, done
<1>5. new # None
  BY <1>2 DEF QuoteRow, None
<1>6. /\ quotes'[q] = new /\ \A p \in QuoteIds \ {q} : quotes'[p] = quotes[p]
      /\ request'[r] = done /\ \A s \in Requests \ {r} : request'[s] = request[s]
  BY <1>2, <1>4 DEF QuotesInv, RowsTyped
<1>7. InputsTyped' /\ RowsTyped'
  BY <1>2, <1>4 DEF QuotesInv, InputsTyped, inputVars, RowsTyped
<1>8. \A s \in Requests \ {r} : Fits(request[s])'
  <2> SUFFICES ASSUME NEW s \in Requests \ {r} PROVE Fits(request[s])'
    OBVIOUS
  <2>1. Fits(request[s]) /\ request'[s] = request[s]
    BY <1>6 DEF QuotesInv, HandlersFit
  <2>2. request[s].step = "pricing" => request[s].quote # q
    BY <1>1 DEF QuotesInv, PricingApart, At
  <2>3. CASE request[s] \in PricingRow
    BY <2>1, <2>2, <2>3, <1>4, <1>6 DEF Fits, PricingRow, Stored, Estimated, Waiting,
                                      ConfirmRow, CreateRow
  <2>4. CASE request[s] \in ConfirmRow
    BY <2>1, <2>4, <1>5, <1>6 DEF Fits, ConfirmRow, Stored, Waiting, PricingRow, CreateRow
  <2>5. CASE request[s] \in CreateRow
    <3>1. /\ request[s].quote \in QuoteIds
          /\ request[s].step \in {"fingerprint", "committing"} => Creatable(request[s])
          /\ request[s].step = "answered" /\ request[s].result.kind = "job"
                => Recorded(request[s])
      BY <2>1, <2>5 DEF Fits, Waiting, PricingRow, ConfirmRow, CreateRow, Results, None
    <3>2. Creatable(request[s]) => request[s].quote # q
      BY <1>1 DEF Creatable
    <3>3. request[s].step \in {"fingerprint", "committing"} => Creatable(request[s])'
      BY <3>1, <3>2, <2>1, <1>4, <1>6 DEF Creatable, Stored, Pending
    <3>4. request[s].step = "answered" /\ request[s].result.kind = "job"
             => Recorded(request[s])'
      BY <3>1, <2>1, <1>4 DEF Recorded
    <3> QED
      BY <2>1, <2>5, <3>3, <3>4 DEF Fits
  <2> QED
    BY <2>1, <2>3, <2>4, <2>5 DEF Fits
<1>9. HandlersFit'
  <2>1. Fits(request[r])'
    BY <1>3, <1>6 DEF Fits
  <2> QED
    BY <1>8, <2>1 DEF HandlersFit
<1>10. PricingApart'
  BY <1>3, <1>6 DEF QuotesInv, PricingApart, At
<1>11. QuotesEstimated'
  BY <1>1, <1>2, <1>4, <1>6 DEF QuotesInv, QuotesEstimated, Stored, Estimated
<1>12. JobsMatch'
  <2>1. jobs[q] = None
    BY <1>1, <1>2 DEF QuotesInv, JobsMatch
  <2> SUFFICES ASSUME NEW p \in QuoteIds
               PROVE  /\ jobs'[p] # None <=> Stored(p)' /\ quotes'[p].consumed
                      /\ jobs'[p] # None =>
                           /\ jobs'[p].frozen = quotes'[p].hash
                           /\ jobs'[p].reserved = quotes'[p].bound
                           /\ \E k \in Keys : idem'[k] # None /\ idem'[k].job = p
                           /\ jobs'[p].running => /\ jobs'[p].frozen.config = config'.rev
                                                 /\ jobs'[p].frozen.providers = config'.active
    BY DEF JobsMatch
  <2>2. CASE p = q
    BY <2>1, <2>2, <1>2, <1>4, <1>6
  <2>3. CASE p # q
    BY <2>3, <1>4, <1>6 DEF QuotesInv, JobsMatch, Stored
  <2> QED
    BY <2>2, <2>3
<1>13. KeysMatch'
  <2>1. jobs[q] = None
    BY <1>1, <1>2 DEF QuotesInv, JobsMatch
  <2>2. \A k \in Keys : idem[k] # None => idem[k].job \in QuoteIds /\ idem[k].job # q
    BY <2>1 DEF QuotesInv, KeysMatch, RowsTyped, KeyRow
  <2> QED
    BY <2>2, <1>4, <1>6 DEF QuotesInv, KeysMatch
<1> QED
  BY <1>7, <1>9, <1>10, <1>11, <1>12, <1>13 DEF QuotesInv

\* A stored quote changes only in who confirmed it first and whether it has
\* expired: what was frozen or checked stands.
QuoteKept(q) ==
    /\ Stored(q)' <=> Stored(q)
    /\ Stored(q) => /\ quotes'[q] \in QuoteRow
                    /\ quotes'[q].hash = quotes[q].hash
                    /\ quotes'[q].bound = quotes[q].bound
                    /\ quotes'[q].consumed = quotes[q].consumed
                    /\ quotes[q].confirmedBy # Nobody => quotes'[q].confirmedBy # Nobody

LEMMA QuoteKeptKeeps ==
    ASSUME QuotesInv, DOMAIN quotes' = QuoteIds, quotes' = [q \in QuoteIds |-> quotes'[q]],
           \A q \in QuoteIds : QuoteKept(q),
           DOMAIN request' = Requests,
           \A r \in Requests : \/ request'[r] = request[r]
                               \/ request'[r] \in ConfirmRow /\ request'[r].step = "answered",
           UNCHANGED <<inputVars, config, idem, jobs>>
    PROVE  QuotesInv'
<1>1. InputsTyped'
  BY DEF QuotesInv, InputsTyped, inputVars
<1>2. RowsTyped'
  <2>1. \A q \in QuoteIds : quotes'[q] \in QuoteRow \cup {None}
    BY DEF QuoteKept, Stored
  <2> QED
    BY <2>1 DEF QuotesInv, RowsTyped
<1>3. HandlersFit'
  <2> SUFFICES ASSUME NEW r \in Requests PROVE Fits(request[r])'
    BY DEF HandlersFit
  <2>1. CASE request'[r] \in ConfirmRow /\ request'[r].step = "answered"
    BY <2>1 DEF Fits
  <2>2. CASE request'[r] = request[r]
    <3>1. Fits(request[r])
      BY DEF QuotesInv, HandlersFit
    <3>2. CASE request[r] = Waiting
      BY <2>2, <3>2 DEF Fits
    <3>3. CASE request[r] \in PricingRow
      <4>1. request[r].quote \in QuoteIds
        BY <3>3 DEF PricingRow
      <4>2. request[r].step = "pricing" => ~Stored(request[r].quote) /\ Estimated(request[r].hash)
        BY <3>1, <3>3 DEF Fits, PricingRow, Waiting, ConfirmRow, CreateRow
      <4> QED
        BY <2>2, <3>3, <4>1, <4>2 DEF Fits, QuoteKept, Estimated
    <3>4. CASE request[r] \in ConfirmRow
      <4>1. request[r].quote \in QuoteIds
        BY <3>4 DEF ConfirmRow
      <4>2. request[r].step = "confirming" => Stored(request[r].quote)
        BY <3>1, <3>4 DEF Fits, PricingRow, Waiting, ConfirmRow, CreateRow
      <4> QED
        BY <2>2, <3>4, <4>1, <4>2 DEF Fits, QuoteKept
    <3>5. CASE request[r] \in CreateRow
      <4>1. request[r].quote \in QuoteIds
        BY <3>5 DEF CreateRow
      <4>2. /\ request[r].step \in {"fingerprint", "committing"} => Creatable(request[r])
            /\ request[r].step = "answered" /\ request[r].result.kind = "job"
                  => Recorded(request[r])
        BY <3>1, <3>5 DEF Fits, Waiting, PricingRow, ConfirmRow, CreateRow, Results, None
      <4>3. request[r].step \in {"fingerprint", "committing"} => Creatable(request[r])'
        BY <4>1, <4>2, <2>2 DEF Creatable, QuoteKept, Pending
      <4>4. request[r].step = "answered" /\ request[r].result.kind = "job"
               => Recorded(request[r])'
        BY <4>2, <2>2 DEF Recorded
      <4> QED
        BY <2>2, <3>5, <4>3, <4>4 DEF Fits
    <3> QED
      BY <3>1, <3>2, <3>3, <3>4, <3>5 DEF Fits
  <2> QED
    BY <2>1, <2>2
<1>4. PricingApart'
  BY DEF QuotesInv, PricingApart, At
<1>5. QuotesEstimated'
  BY DEF QuotesInv, QuotesEstimated, QuoteKept, Estimated
<1>6. JobsMatch'
  BY DEF QuotesInv, JobsMatch, QuoteKept
<1>7. KeysMatch'
  <2>1. \A k \in Keys : idem[k] # None =>
          /\ idem[k].job \in QuoteIds /\ Stored(idem[k].job)
    BY DEF QuotesInv, KeysMatch, JobsMatch, RowsTyped, KeyRow
  <2> QED
    BY <2>1 DEF QuotesInv, KeysMatch, QuoteKept
<1> QED
  BY <1>1, <1>2, <1>3, <1>4, <1>5, <1>6, <1>7 DEF QuotesInv

LEMMA StoreConfirmationKeeps ==
    ASSUME QuotesInv, NEW r \in Requests, StoreConfirmation(r)
    PROVE  QuotesInv'
<1> DEFINE old == request[r]
           q == old.quote
           done == [old EXCEPT !.step = "answered"]
<1>1. old \in ConfirmRow /\ old.step = "confirming" /\ Stored(q)
  <2>1. Fits(old) /\ old.step = "confirming"
    BY DEF StoreConfirmation, At, QuotesInv, HandlersFit
  <2> QED
    BY <2>1 DEF Fits, Waiting, PricingRow, CreateRow
<1>2. q \in QuoteIds /\ done \in ConfirmRow /\ done.step = "answered"
  BY <1>1 DEF ConfirmRow
<1>3. request' = [request EXCEPT ![r] = done] /\ UNCHANGED <<inputVars, config, idem, jobs>>
  BY DEF StoreConfirmation, Step
<1>4. quotes[q] \in QuoteRow
  BY <1>1, <1>2 DEF QuotesInv, RowsTyped, Stored
<1> DEFINE new == [quotes[q] EXCEPT !.confirmedBy = IF @ = Nobody THEN r ELSE @]
<1>5. /\ new \in QuoteRow /\ new.hash = quotes[q].hash /\ new.bound = quotes[q].bound
      /\ new.consumed = quotes[q].consumed /\ new.confirmedBy # Nobody
  BY <1>4, QuotesAssumption DEF QuoteRow
<1>6. quotes' = [quotes EXCEPT ![q] = new]
  BY DEF StoreConfirmation
<1> HIDE DEF new, done
<1>7. new # None
  BY <1>5 DEF QuoteRow, None
<1>8. \A p \in QuoteIds : QuoteKept(p)
  BY <1>1, <1>2, <1>5, <1>6, <1>7 DEF QuoteKept, Stored, QuotesInv, RowsTyped
<1> QED
  BY <1>2, <1>3, <1>6, <1>8, QuoteKeptKeeps DEF QuotesInv, RowsTyped

LEMMA ExpireKeeps ==
    ASSUME QuotesInv, NEW q \in QuoteIds, Expire(q)
    PROVE  QuotesInv'
<1> DEFINE new == [quotes[q] EXCEPT !.expired = TRUE]
<1>1. quotes[q] \in QuoteRow
  BY DEF Expire, QuotesInv, RowsTyped, Stored
<1>2. /\ new \in QuoteRow /\ new.hash = quotes[q].hash /\ new.bound = quotes[q].bound
      /\ new.consumed = quotes[q].consumed /\ new.confirmedBy = quotes[q].confirmedBy
  BY <1>1 DEF QuoteRow
<1>3. quotes' = [quotes EXCEPT ![q] = new] /\ UNCHANGED <<inputVars, config, idem, jobs, request>>
  BY DEF Expire
<1> HIDE DEF new
<1>4. new # None
  BY <1>2 DEF QuoteRow, None
<1>5. \A p \in QuoteIds : QuoteKept(p)
  BY <1>2, <1>3, <1>4 DEF QuoteKept, Stored, QuotesInv, RowsTyped, Expire
<1> QED
  BY <1>3, <1>5, QuoteKeptKeeps DEF QuotesInv, RowsTyped

LEMMA CommitJobKeeps ==
    ASSUME QuotesInv, NEW r \in Requests, CommitJob(r)
    PROVE  QuotesInv'
<1> DEFINE old == request[r]
           q == old.quote
           k == old.key
<1>1. old \in CreateRow /\ old.step = "committing" /\ Creatable(old)
  <2>1. Fits(old) /\ old.step = "committing"
    BY DEF CommitJob, At, QuotesInv, HandlersFit
  <2> QED
    BY <2>1, CreateSteps DEF Fits, Waiting, PricingRow, ConfirmRow
<1>2. q \in QuoteIds /\ k \in Keys /\ old.limit \in Bounds
  BY <1>1 DEF CreateRow
<1>3. quotes[q] \in QuoteRow
  BY <1>1, <1>2 DEF QuotesInv, RowsTyped, Creatable, Stored
<1>4. CASE Spent(q, k)
  <2> DEFINE row == [old EXCEPT !.step = "consumed"]
  <2>1. row \in CreateRow /\ row.step = "consumed"
    BY <1>1 DEF CreateRow
  <2>2. request' = [request EXCEPT ![r] = row]
        /\ UNCHANGED <<inputVars, config, quotes, idem, jobs>>
    BY <1>4 DEF CommitJob, Step
  <2> HIDE DEF row
  <2>3. Fits(row) /\ row.step # "pricing"
    BY <2>1 DEF Fits
  <2> QED
    BY <2>2, <2>3, MoveKeeps
<1>5. CASE ~Spent(q, k)
  <2> DEFINE job == [kind |-> "job", frozen |-> quotes[q].hash,
                     reserved |-> quotes[q].bound, running |-> TRUE]
             quote == [quotes[q] EXCEPT !.consumed = TRUE]
             body == [quote |-> q, limit |-> old.limit]
             record == [kind |-> "record", body |-> body, job |-> q]
             result == [kind |-> "job", quote |-> q]
             done == [old EXCEPT !.step = "answered", !.result = result]
  <2>1. job \in JobRow /\ job # None
    BY <1>3 DEF QuoteRow, JobRow, None
  <2>2. /\ quote \in QuoteRow /\ quote.hash = quotes[q].hash /\ quote.bound = quotes[q].bound
        /\ quote.confirmedBy = quotes[q].confirmedBy /\ quote.consumed
    BY <1>3 DEF QuoteRow
  <2>3. quote # None
    BY <2>2 DEF QuoteRow, None
  <2>4. /\ record \in KeyRow /\ record # None
        /\ record.job = q /\ record.body = body /\ record.body.quote = q
        /\ record.body.limit = old.limit
    BY <1>2 DEF KeyRow, BodyRow, None
  <2>5. /\ done \in CreateRow /\ done.step = "answered" /\ done.key = k
        /\ done.quote = q /\ done.limit = old.limit /\ done.result.quote = q
    BY <1>1, <1>2 DEF CreateRow, JobResults
  <2>6. /\ jobs' = [jobs EXCEPT ![q] = job] /\ quotes' = [quotes EXCEPT ![q] = quote]
        /\ idem' = [idem EXCEPT ![k] = record] /\ request' = [request EXCEPT ![r] = done]
        /\ UNCHANGED <<inputVars, config>>
    BY <1>5 DEF CommitJob, Answer, Step, Body
  <2>7. job.frozen = quote.hash /\ job.reserved = quote.bound
    BY <2>2
  <2>8. idem[k] = None /\ ~quotes[q].consumed /\ jobs[q] = None
    BY <1>2, <1>5 DEF Spent, QuotesInv, JobsMatch
  <2> HIDE DEF job, quote, record, done
  <2>9. /\ jobs'[q] = job /\ \A p \in QuoteIds \ {q} : jobs'[p] = jobs[p]
        /\ quotes'[q] = quote /\ \A p \in QuoteIds \ {q} : quotes'[p] = quotes[p]
        /\ idem'[k] = record /\ \A l \in Keys \ {k} : idem'[l] = idem[l]
        /\ request'[r] = done /\ \A s \in Requests \ {r} : request'[s] = request[s]
    BY <1>2, <2>6 DEF QuotesInv, RowsTyped
  <2>10. InputsTyped' /\ RowsTyped'
    BY <2>1, <2>2, <2>4, <2>6 DEF QuotesInv, InputsTyped, inputVars, RowsTyped
  <2>11. HandlersFit'
    <3> SUFFICES ASSUME NEW s \in Requests PROVE Fits(request[s])'
      BY DEF HandlersFit
    <3>1. CASE s = r
      <4>1. Recorded(request[r])'
        BY <2>4, <2>5, <2>9 DEF Recorded
      <4>2. request'[r] \in CreateRow /\ request'[r].step = "answered"
        BY <2>5, <2>9
      <4> QED
        BY <3>1, <4>1, <4>2 DEF Fits
    <3>2. CASE s # r
      <4>1. Fits(request[s]) /\ request'[s] = request[s]
        BY <3>2, <2>9 DEF QuotesInv, HandlersFit
      <4>2. \A p \in QuoteIds : /\ Stored(p)' <=> Stored(p)
                                /\ quotes'[p].bound = quotes[p].bound
                                /\ quotes'[p].hash = quotes[p].hash
                                /\ quotes'[p].confirmedBy = quotes[p].confirmedBy
        BY <1>1, <2>2, <2>3, <2>9 DEF Stored, Creatable
      <4>3. CASE request[s] = Waiting
        BY <4>1, <4>3 DEF Fits
      <4>4. CASE request[s] \in PricingRow
        BY <4>1, <4>2, <4>4, <2>6 DEF Fits, PricingRow, Estimated, Waiting, ConfirmRow, CreateRow
      <4>5. CASE request[s] \in ConfirmRow
        BY <4>1, <4>2, <4>5 DEF Fits, ConfirmRow, Waiting, PricingRow, CreateRow
      <4>6. CASE request[s] \in CreateRow
        <5>1. /\ request[s].quote \in QuoteIds /\ request[s].key \in Keys
              /\ request[s].step \in {"fingerprint", "committing"} => Creatable(request[s])
              /\ request[s].step = "answered" /\ request[s].result.kind = "job"
                    => Recorded(request[s])
          BY <4>1, <4>6 DEF Fits, Waiting, PricingRow, ConfirmRow, CreateRow, Results, None
        <5>2. request[s].step \in {"fingerprint", "committing"} => Creatable(request[s])'
          BY <5>1, <4>1, <4>2, <2>6 DEF Creatable, Pending
        <5>3. request[s].step = "answered" /\ request[s].result.kind = "job"
                 => Recorded(request[s])'
          BY <5>1, <4>1, <2>8, <2>9 DEF Recorded
        <5> QED
          BY <4>1, <4>6, <5>2, <5>3 DEF Fits
      <4> QED
        BY <4>1, <4>3, <4>4, <4>5, <4>6 DEF Fits
    <3> QED
      BY <3>1, <3>2
  <2>12. PricingApart'
    BY <2>5, <2>9 DEF QuotesInv, PricingApart, At
  <2>13. QuotesEstimated'
    BY <1>1, <2>2, <2>6, <2>9 DEF QuotesInv, QuotesEstimated, Stored, Estimated, Creatable
  <2>14. JobsMatch'
    <3> SUFFICES ASSUME NEW p \in QuoteIds
                 PROVE  /\ jobs'[p] # None <=> Stored(p)' /\ quotes'[p].consumed
                        /\ jobs'[p] # None =>
                             /\ jobs'[p].frozen = quotes'[p].hash
                             /\ jobs'[p].reserved = quotes'[p].bound
                             /\ \E l \in Keys : idem'[l] # None /\ idem'[l].job = p
                             /\ jobs'[p].running => /\ jobs'[p].frozen.config = config'.rev
                                                   /\ jobs'[p].frozen.providers = config'.active
      BY DEF JobsMatch
    <3>1. CASE p = q
      <4>1. quotes[q].hash.config = config.rev /\ quotes[q].hash.providers = config.active
        BY <1>1, <1>2 DEF Creatable, QuotesInv, QuotesEstimated, Estimated, Pending
      <4> QED
        BY <3>1, <4>1, <1>2, <2>1, <2>2, <2>3, <2>4, <2>6, <2>7, <2>9 DEF Stored
    <3>2. CASE p # q
      <4>1. jobs[p] # None => \E l \in Keys \ {k} : idem[l] # None /\ idem[l].job = p
        BY <2>8 DEF QuotesInv, JobsMatch
      <4> QED
        BY <3>2, <4>1, <2>6, <2>9 DEF QuotesInv, JobsMatch, Stored
    <3> QED
      BY <3>1, <3>2
  <2>15. KeysMatch'
    <3>1. \A l \in Keys : idem[l] # None => idem[l].job \in QuoteIds \ {q}
      BY <2>8 DEF QuotesInv, KeysMatch, RowsTyped, KeyRow
    <3>2. quote.confirmedBy # Nobody /\ quote.bound <= old.limit
      BY <1>1, <2>2 DEF Creatable
    <3> SUFFICES ASSUME NEW l \in Keys, idem'[l] # None
                 PROVE  /\ jobs'[idem'[l].job] # None
                        /\ idem'[l].body.quote = idem'[l].job
                        /\ quotes'[idem'[l].job].confirmedBy # Nobody
                        /\ quotes'[idem'[l].job].bound <= idem'[l].body.limit
                        /\ \A m \in Keys \ {l} : idem'[m] # None => idem'[m].job # idem'[l].job
      BY DEF KeysMatch
    <3>3. CASE l = k
      BY <3>1, <3>2, <3>3, <2>1, <2>4, <2>9
    <3>4. CASE l # k
      BY <3>1, <3>4, <2>4, <2>9 DEF QuotesInv, KeysMatch
    <3> QED
      BY <3>3, <3>4
  <2> QED
    BY <2>10, <2>11, <2>12, <2>13, <2>14, <2>15 DEF QuotesInv
<1> QED
  BY <1>4, <1>5

LEMMA EditInputsKeeps ==
    ASSUME QuotesInv, EditInputs
    PROVE  QuotesInv'
<1>1. UNCHANGED <<config, quotes, idem, jobs, request>> /\ edits < MaxEdits /\ edits' = edits + 1
  BY DEF EditInputs
<1>2. InputsTyped'
  <2>1. /\ itemRev' \in {itemRev, itemRev + 1}
        /\ content' \in [Photos -> Hashes] /\ compatible' \in BOOLEAN
    BY DEF EditInputs, QuotesInv, InputsTyped
  <2> QED
    BY <1>1, <2>1, QuotesAssumption DEF QuotesInv, InputsTyped
<1>3. \A any : Fits(any)' <=> Fits(any)
  BY <1>1 DEF Fits, Estimated, Creatable, Recorded, Stored, Pending
<1> QED
  BY <1>1, <1>2, <1>3 DEF QuotesInv, RowsTyped, HandlersFit, PricingApart, At, QuotesEstimated,
                     Estimated, Stored, JobsMatch, KeysMatch

\* A save finds no handler at work and no job running.
LEMMA SaveConfigKeeps ==
    ASSUME QuotesInv, SaveConfig
    PROVE  QuotesInv'
<1>1. PICK v \in Providers : config' = [config EXCEPT !.rev = @ + 1, !.saved = v]
  BY DEF SaveConfig
<1>2. /\ UNCHANGED <<inputVars, quotes, idem, jobs, request>>
      /\ config.rev < MaxConfig
      /\ \A q \in QuoteIds : jobs[q] # None => ~jobs[q].running
      /\ \A r \in Requests : request[r].step \in {"idle", "answered"}
  BY DEF SaveConfig, Readers
<1>3. InputsTyped' /\ config'.rev = config.rev + 1 /\ config'.active = config.active
  <2>1. config \in [rev : 0 .. MaxConfig, saved : Providers, active : Providers]
    BY DEF QuotesInv, InputsTyped
  <2>2. config.rev + 1 \in 0 .. MaxConfig
    BY <1>2, <2>1, QuotesAssumption
  <2>3. /\ config' \in [rev : 0 .. MaxConfig, saved : Providers, active : Providers]
        /\ config'.rev = config.rev + 1 /\ config'.active = config.active
    BY <1>1, <2>1, <2>2
  <2> QED
    BY <1>2, <2>3 DEF QuotesInv, InputsTyped, inputVars
<1>4. RowsTyped' /\ PricingApart' /\ KeysMatch'
  BY <1>2 DEF QuotesInv, RowsTyped, PricingApart, At, KeysMatch
<1>5. JobsMatch'
  BY <1>2 DEF QuotesInv, JobsMatch, Stored
<1>6. QuotesEstimated'
  <2>1. \A q \in QuoteIds : Stored(q) => quotes[q].hash.config \in Nat
    BY DEF QuotesInv, RowsTyped, QuoteRow, Hash, Stored
  <2> QED
    BY <1>2, <1>3, <2>1 DEF QuotesInv, InputsTyped, QuotesEstimated, Estimated, Stored
<1>7. HandlersFit'
  <2> SUFFICES ASSUME NEW r \in Requests PROVE Fits(request[r])'
    BY DEF HandlersFit
  <2>1. Fits(request[r]) /\ request'[r] = request[r] /\ request[r].step \in {"idle", "answered"}
    BY <1>2 DEF QuotesInv, HandlersFit
  <2>2. request[r] \in CreateRow /\ request[r].step = "answered"
        /\ request[r].result.kind = "job" => Recorded(request[r])
    BY <2>1 DEF Fits, Waiting, PricingRow, ConfirmRow, Results, None
  <2> QED
    BY <2>1, <2>2, <1>2 DEF Fits, Recorded
<1> QED
  BY <1>3, <1>4, <1>5, <1>6, <1>7 DEF QuotesInv

\* A restart puts the saved settings in force, which the running jobs were
\* quoted under.
LEMMA RestartKeeps ==
    ASSUME QuotesInv, Restart
    PROVE  QuotesInv'
<1>1. /\ config' = [config EXCEPT !.active = config.saved]
      /\ request' = [r \in Requests |-> Waiting]
      /\ UNCHANGED <<inputVars, quotes, idem, jobs>>
  BY DEF Restart
<1>2. InputsTyped' /\ config'.rev = config.rev /\ config'.saved = config.saved
      /\ config'.active = config.saved
  BY <1>1 DEF QuotesInv, InputsTyped, inputVars
<1>3. RowsTyped' /\ KeysMatch' /\ QuotesEstimated'
  BY <1>1, <1>2 DEF QuotesInv, RowsTyped, KeysMatch, QuotesEstimated, Estimated, Stored
<1>4. HandlersFit' /\ PricingApart'
  <2>1. \A r \in Requests : request'[r] = Waiting
    BY <1>1
  <2> QED
    BY <2>1 DEF HandlersFit, Fits, PricingApart, At, Waiting
<1>5. JobsMatch'
  <2>1. \A q \in QuoteIds : jobs[q] # None /\ jobs[q].running =>
            jobs[q].frozen.providers = config.saved
    BY DEF QuotesInv, JobsMatch, QuotesEstimated, Estimated
  <2> QED
    BY <2>1, <1>1, <1>2 DEF QuotesInv, JobsMatch, Stored
<1> QED
  BY <1>2, <1>3, <1>4, <1>5 DEF QuotesInv

LEMMA JobRunsKeep ==
    ASSUME QuotesInv, NEW q \in QuoteIds, EndJob(q) \/ RetryJob(q)
    PROVE  QuotesInv'
<1> DEFINE new(b) == [jobs[q] EXCEPT !.running = b]
<1>1. /\ jobs[q] # None /\ jobs[q] \in JobRow
      /\ UNCHANGED <<inputVars, config, quotes, idem, request>>
  BY DEF EndJob, RetryJob, QuotesInv, RowsTyped
<1>2. PICK b \in BOOLEAN : /\ jobs' = [jobs EXCEPT ![q] = new(b)]
                           /\ b => ConfigUnchanged(jobs[q].frozen)
  BY DEF EndJob, RetryJob
<1>3. /\ new(b) \in JobRow /\ new(b).frozen = jobs[q].frozen
      /\ new(b).reserved = jobs[q].reserved /\ new(b).running = b
  BY <1>1 DEF JobRow
<1> HIDE DEF new
<1>4. new(b) # None
  BY <1>3 DEF JobRow, None
<1>5. jobs'[q] = new(b) /\ \A p \in QuoteIds \ {q} : jobs'[p] = jobs[p]
  BY <1>2 DEF QuotesInv, RowsTyped
<1>6. InputsTyped' /\ RowsTyped'
  BY <1>1, <1>2, <1>3 DEF QuotesInv, InputsTyped, inputVars, RowsTyped
<1>7. \A any : Fits(any)' <=> Fits(any)
  BY <1>1 DEF Fits, Estimated, Creatable, Recorded, Stored, Pending
<1>8. HandlersFit' /\ PricingApart' /\ QuotesEstimated'
  BY <1>1, <1>7 DEF QuotesInv, HandlersFit, PricingApart, At, QuotesEstimated, Estimated, Stored
<1>9. JobsMatch'
  <2>1. b => jobs[q].frozen.config = config.rev /\ jobs[q].frozen.providers = config.active
    BY <1>1, <1>2 DEF ConfigUnchanged, Pending, QuotesInv, JobsMatch, QuotesEstimated, Estimated
  <2> QED
    BY <2>1, <1>1, <1>3, <1>4, <1>5 DEF QuotesInv, JobsMatch, Stored
<1>10. KeysMatch'
  <2>1. \A k \in Keys : idem[k] # None => idem[k].job \in QuoteIds
    BY DEF QuotesInv, RowsTyped, KeyRow
  <2> QED
    BY <2>1, <1>1, <1>4, <1>5 DEF QuotesInv, KeysMatch
<1> QED
  BY <1>6, <1>8, <1>9, <1>10 DEF QuotesInv

-----------------------------------------------------------------------------
\* Every step keeps the invariant.
LEMMA QuotesStep == QuotesInv /\ [QuotesNext]_quotesVars => QuotesInv'
<1> SUFFICES ASSUME QuotesInv, [QuotesNext]_quotesVars PROVE QuotesInv'
  OBVIOUS
<1>1. CASE UNCHANGED quotesVars
  <2>1. \A any : Fits(any)' <=> Fits(any)
    BY <1>1 DEF quotesVars, Fits, Estimated, Creatable, Recorded, Stored, Pending
  <2> QED
    BY <1>1, <2>1 DEF quotesVars, QuotesInv, InputsTyped, RowsTyped, HandlersFit, PricingApart, At,
                 QuotesEstimated, Estimated, Stored, JobsMatch, KeysMatch
<1>2. CASE QuotesNext
  BY <1>2, StartEstimateKeeps, StoreQuoteKeeps, StartConfirmKeeps, StoreConfirmationKeeps,
     StartCreateKeeps, CheckQuoteKeeps, CheckInputsKeeps, CommitJobKeeps, ReadBackKeeps,
     EndsKeep, ExpireKeeps, JobRunsKeep, EditInputsKeeps, SaveConfigKeeps, RestartKeeps
     DEF QuotesNext
<1> QED
  BY <1>1, <1>2

LEMMA QuotesAlways == QuotesSpec => []QuotesInv
  BY QuotesBegin, QuotesStep, PTL DEF QuotesSpec

\* Every variable of the quotes has its type.
THEOREM QuotesTyped == QuotesSpec => []QuotesTypeOK
<1>1. QuotesInv => QuotesTypeOK
  BY QuotesAssumption DEF QuotesInv, InputsTyped, RowsTyped, QuoteRow, JobRow, QuotesTypeOK, Stored
<1> QED
  BY <1>1, QuotesAlways, PTL

\* A job, its consumed quote and its key exist together, one to one, and one
\* key gives one answer (generation/jobs.rs, create_job and its replay).
THEOREM OneJobEach == QuotesSpec => []OneJobPerQuoteAndKey
<1>1. QuotesInv => OneJobPerQuoteAndKey
  <2> SUFFICES ASSUME QuotesInv PROVE OneJobPerQuoteAndKey
    OBVIOUS
  <2>1. \A q \in QuoteIds :
          /\ jobs[q] # None <=> Stored(q) /\ quotes[q].consumed
          /\ jobs[q] # None =>
               \E k \in Keys : /\ idem[k] # None /\ idem[k].job = q
                               /\ \A l \in Keys \ {k} : idem[l] # None => idem[l].job # q
    BY DEF QuotesInv, JobsMatch, KeysMatch
  <2>2. \A r \in Requests :
          request[r].step = "answered" /\ request[r].result.kind = "job" => Recorded(request[r])
    BY DEF QuotesInv, HandlersFit, Fits, Waiting, PricingRow, ConfirmRow, Results, None
  <2> QED
    BY <2>1, <2>2 DEF OneJobPerQuoteAndKey, Recorded, Body
<1> QED
  BY <1>1, QuotesAlways, PTL

\* What a job runs on is what its quote showed when it was confirmed
\* (create_job freezes the quote, not the item's present inputs).
THEOREM JobsAreAsConfirmed == QuotesSpec => []JobIsTheConfirmedQuote
<1>1. QuotesInv => JobIsTheConfirmedQuote
  BY DEF QuotesInv, JobsMatch, KeysMatch, JobIsTheConfirmedQuote, RowsTyped, KeyRow
<1> QED
  BY <1>1, QuotesAlways, PTL

\* A running job's settings are in force (ProviderConfigStore's lock, its
\* refusal to save beside jobs, and ensure_revision).
THEOREM JobsKeepTheirConfig == QuotesSpec => []JobsRunTheirConfig
<1>1. QuotesInv => JobsRunTheirConfig
  BY DEF QuotesInv, JobsMatch, JobsRunTheirConfig
<1> QED
  BY <1>1, QuotesAlways, PTL
=============================================================================
