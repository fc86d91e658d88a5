------------------------------- MODULE Quotes -------------------------------
(***************************************************************************)
(* From a quote to a job: estimate, confirm, create.  Nothing is bought by *)
(* an estimate; a job is created from a confirmed quote under an           *)
(* Idempotency-Key, in one transaction that freezes the inputs, reserves   *)
(* the upper bounds, consumes the quote and records the key.  What the     *)
(* transaction relies on was read before it: other requests, edits of the  *)
(* item and its photos, and the clock run in between.  The provider        *)
(* configuration does not: every handler here holds the read side of its   *)
(* lock from the first line to the last.                                   *)
(***************************************************************************)
EXTENDS Naturals, FiniteSets

CONSTANTS Requests,   \* concurrent HTTP requests
          Keys,       \* idempotency keys
          QuoteIds,   \* quotes that may be stored
          Photos,     \* photo ids of the item
          Hashes,     \* contents a photo may have
          Bounds,     \* amounts of money, for upper bounds and limits
          MaxEdits,   \* bound on edits of item and photos
          Providers,  \* effective provider settings (address, model, key)
          MaxConfig,  \* bound on saved configuration revisions
          Nobody      \* who confirmed a quote nobody confirmed yet

ASSUME QuotesAssumption ==
    /\ Bounds \subseteq Nat
    /\ MaxEdits \in Nat /\ MaxConfig \in Nat
    /\ Nobody \notin Requests /\ Hashes # {}

VARIABLES itemRev, content, compatible, edits, \* the inputs of a quote
          config,                              \* provider configuration
          quotes,                              \* stored quotes
          idem,                                \* idempotency records
          jobs,                                \* quote -> the job made of it
          request                              \* the handlers

inputVars == <<itemRev, content, compatible, edits>>
quotesVars == <<itemRev, content, compatible, edits, config, quotes, idem,
                jobs, request>>

None == [kind |-> "none"]
Waiting == [step |-> "idle"]

QuotesInit ==
    /\ itemRev = 1
    /\ content = [p \in Photos |-> CHOOSE h \in Hashes : TRUE]
    /\ compatible = TRUE
    /\ edits = 0
    /\ \E v \in Providers : config = [rev |-> 0, saved |-> v, active |-> v]
    /\ quotes = [q \in QuoteIds |-> None]
    /\ idem = [k \in Keys |-> None]
    /\ jobs = [q \in QuoteIds |-> None]
    /\ request = [r \in Requests |-> Waiting]

Step(r, s) == request' = [request EXCEPT ![r] = s]
Answer(r, result) == Step(r, [request[r] EXCEPT !.step = "answered",
                                                !.result = result])
Refuse(r) == Answer(r, [kind |-> "refused"])
At(r, step) == request[r].step = step

\* Handlers that hold the read lock of the provider configuration.
Readers == {r \in Requests : request[r].step \notin {"idle", "answered"}}

Stored(q) == quotes[q] # None

\* A saved configuration that would change something waits for a restart.
Pending == config.active # config.saved

\* Mutant: nothing waits, so nothing changed.
NothingPending(frozen) == ~Pending

\* ensure_revision: what was frozen belongs to the configuration in force.
ConfigUnchanged(frozen) == ~Pending /\ frozen.config = config.rev

Fingerprint == [rev |-> itemRev, photos |-> content,
                config |-> config.rev, providers |-> config.active]

-----------------------------------------------------------------------------
(* Estimating.                                                             *)

\* Refused while a saved configuration waits for a restart or the manual's
\* preparation cannot be used; otherwise the inputs are read.
StartEstimate(r, q, bound) ==
    /\ At(r, "idle")
    /\ ~Stored(q) /\ \A s \in Requests : ~(At(s, "pricing") /\ request[s].quote = q)
    /\ ~Pending /\ compatible
    /\ Step(r, [step |-> "pricing", quote |-> q, bound |-> bound,
                hash |-> Fingerprint, result |-> None])
    /\ UNCHANGED <<inputVars, config, quotes, idem, jobs>>

\* The quote is stored with the fingerprint that was read.
StoreQuote(r) ==
    /\ At(r, "pricing")
    /\ quotes' = [quotes EXCEPT ![request[r].quote] =
                    [kind |-> "quote", hash |-> request[r].hash,
                     bound |-> request[r].bound, expired |-> FALSE,
                     confirmedBy |-> Nobody, consumed |-> FALSE]]
    /\ Answer(r, [kind |-> "quote", quote |-> request[r].quote])
    /\ UNCHANGED <<inputVars, config, idem, jobs>>

(* Confirming what will be sent.                                           *)

\* A quote of another configuration, or an expired one, is not confirmed; a
\* confirmed one answers with its first confirmation.
StartConfirm(r, q) ==
    /\ At(r, "idle") /\ Stored(q)
    /\ ConfigUnchanged(quotes[q].hash) /\ ~quotes[q].expired
    /\ Step(r, [step |-> IF quotes[q].confirmedBy = Nobody
                         THEN "confirming" ELSE "answered",
                quote |-> q, result |-> [kind |-> "confirmed", quote |-> q]])
    /\ UNCHANGED <<inputVars, config, quotes, idem, jobs>>

\* mark_confirmed: the first confirmation wins, a later one writes nothing.
StoreConfirmation(r) ==
    /\ At(r, "confirming")
    /\ quotes' = [quotes EXCEPT ![request[r].quote].confirmedBy =
                    IF @ = Nobody THEN r ELSE @]
    /\ Step(r, [request[r] EXCEPT !.step = "answered"])
    /\ UNCHANGED <<inputVars, config, idem, jobs>>

-----------------------------------------------------------------------------
(* Creating the job.                                                       *)

Body(r) == [quote |-> request[r].quote, limit |-> request[r].limit]

\* replay_or_conflict: the same body gets the job of the key, another body a
\* conflict.
Replay(r, k, body) ==
    IF idem[k].body = body
    THEN [kind |-> "job", quote |-> idem[k].job]
    ELSE [kind |-> "conflict"]

\* The request arrives and looks for an earlier answer under its key.
StartCreate(r, k, q, limit) ==
    /\ At(r, "idle")
    /\ LET body == [quote |-> q, limit |-> limit]
           new  == [step |-> "checking", key |-> k, quote |-> q,
                    limit |-> limit, result |-> None]
       IN  Step(r, IF idem[k] = None THEN new
                   ELSE [new EXCEPT !.step = "answered",
                                    !.result = Replay(r, k, body)])
    /\ UNCHANGED <<inputVars, config, quotes, idem, jobs>>

\* Mutant: nobody needs to have confirmed.
QuoteUsableUnconfirmed(quote, limit) ==
    ~quote.expired /\ ~quote.consumed /\ limit >= quote.bound

\* check_quote_state, but for a consumed quote.
QuoteUsable(quote, limit) ==
    /\ ~quote.expired
    /\ ~quote.consumed
    /\ quote.confirmedBy # Nobody
    /\ limit >= quote.bound

\* The quote is read and checked.  A consumed one may have been consumed by
\* this very key a moment ago, so the key is looked up again.
CheckQuote(r) ==
    /\ At(r, "checking")
    /\ LET q == request[r].quote
       IN  IF ~Stored(q) \/ ~ConfigUnchanged(quotes[q].hash)
           THEN Refuse(r)
           ELSE IF ~quotes[q].expired /\ quotes[q].consumed
           THEN Step(r, [request[r] EXCEPT !.step = "consumed"])
           ELSE IF QuoteUsable(quotes[q], request[r].limit)
           THEN Step(r, [request[r] EXCEPT !.step = "fingerprint"])
           ELSE Refuse(r)
    /\ UNCHANGED <<inputVars, config, quotes, idem, jobs>>

\* The fingerprint is computed again from what the item holds now.
InputsUnchanged(quote) ==
    /\ compatible
    /\ quote.hash = [Fingerprint EXCEPT !.config = quote.hash.config,
                                        !.providers = quote.hash.providers]

CheckInputs(r) ==
    /\ At(r, "fingerprint")
    /\ IF InputsUnchanged(quotes[request[r].quote])
       THEN Step(r, [request[r] EXCEPT !.step = "committing"])
       ELSE Refuse(r)
    /\ UNCHANGED <<inputVars, config, quotes, idem, jobs>>

\* Mutant: only the key is compared again.
KeySpent(q, k) == idem[k] # None

\* The conditions of the consuming update and of the unique key.
Spent(q, k) == quotes[q].consumed \/ idem[k] # None

\* The transaction: snapshot and reservation out of the quote, the job, the
\* consumed quote and the key; a consumed quote or a used key rolls all of
\* it back.
CommitJob(r) ==
    /\ At(r, "committing")
    /\ LET q == request[r].quote
           k == request[r].key
       IN  IF Spent(q, k)
           THEN /\ Step(r, [request[r] EXCEPT !.step = "consumed"])
                /\ UNCHANGED <<quotes, idem, jobs>>
           ELSE /\ jobs' = [jobs EXCEPT ![q] =
                       [kind |-> "job", frozen |-> quotes[q].hash,
                        reserved |-> quotes[q].bound, running |-> TRUE]]
                /\ quotes' = [quotes EXCEPT ![q].consumed = TRUE]
                /\ idem' = [idem EXCEPT ![k] =
                       [kind |-> "record", body |-> Body(r), job |-> q]]
                /\ Answer(r, [kind |-> "job", quote |-> q])
    /\ UNCHANGED <<inputVars, config>>

\* The read-back after a lost race.
ReadBack(r) ==
    /\ At(r, "consumed")
    /\ LET k == request[r].key
       IN  IF idem[k] = None THEN Refuse(r) ELSE Answer(r, Replay(r, k, Body(r)))
    /\ UNCHANGED <<inputVars, config, quotes, idem, jobs>>

-----------------------------------------------------------------------------
(* What goes on around the handlers.                                       *)

\* A handler ends with a storage error (or its client goes away and the
\* future is dropped); an open transaction rolls back.
FailRequest(r) ==
    /\ r \in Readers
    /\ Step(r, [request[r] EXCEPT !.step = "answered",
                                  !.result = [kind |-> "error"]])
    /\ UNCHANGED <<inputVars, config, quotes, idem, jobs>>

\* The client has its answer, or lost it; it may send the request again.
NextCall(r) ==
    /\ At(r, "answered")
    /\ Step(r, Waiting)
    /\ UNCHANGED <<inputVars, config, quotes, idem, jobs>>

\* The clock passes expires_at.
Expire(q) ==
    /\ Stored(q) /\ ~quotes[q].expired
    /\ quotes' = [quotes EXCEPT ![q].expired = TRUE]
    /\ UNCHANGED <<inputVars, config, idem, jobs, request>>

\* Edits of the item, of a photo's content, or of the manual's files.
EditInputs ==
    /\ edits < MaxEdits
    /\ edits' = edits + 1
    /\ \/ itemRev' = itemRev + 1 /\ UNCHANGED <<content, compatible>>
       \/ \E p \in Photos : \E h \in Hashes \ {content[p]} :
             content' = [content EXCEPT ![p] = h] /\ UNCHANGED <<itemRev, compatible>>
       \/ compatible' = ~compatible /\ UNCHANGED <<itemRev, content>>
    /\ UNCHANGED <<config, quotes, idem, jobs, request>>

\* PUT provider settings, under the write lock: refused while any job or
\* provider operation is open; saved values wait for a restart.
SaveConfig ==
    /\ Readers = {}
    /\ \A q \in QuoteIds : jobs[q] # None => ~jobs[q].running
    /\ config.rev < MaxConfig
    /\ \E v \in Providers :
         config' = [config EXCEPT !.rev = @ + 1, !.saved = v]
    /\ UNCHANGED <<inputVars, quotes, idem, jobs, request>>

\* Restart: open handlers are gone, the saved configuration becomes active.
Restart ==
    /\ config' = [config EXCEPT !.active = config.saved]
    /\ request' = [r \in Requests |-> Waiting]
    /\ UNCHANGED <<inputVars, quotes, idem, jobs>>

\* The executor brings a job to its end.
EndJob(q) ==
    /\ jobs[q] # None /\ jobs[q].running
    /\ jobs' = [jobs EXCEPT ![q].running = FALSE]
    /\ UNCHANGED <<inputVars, config, quotes, idem, request>>

\* A retry of an ended job (control.rs) passes the same configuration gate,
\* under the same lock.
RetryJob(q) ==
    /\ jobs[q] # None /\ ~jobs[q].running
    /\ ConfigUnchanged(jobs[q].frozen)
    /\ jobs' = [jobs EXCEPT ![q].running = TRUE]
    /\ UNCHANGED <<inputVars, config, quotes, idem, request>>

QuotesNext ==
    \/ \E r \in Requests :
         \/ \E q \in QuoteIds, b \in Bounds : StartEstimate(r, q, b)
         \/ StoreQuote(r)
         \/ \E q \in QuoteIds : StartConfirm(r, q)
         \/ StoreConfirmation(r)
         \/ \E k \in Keys, q \in QuoteIds, b \in Bounds : StartCreate(r, k, q, b)
         \/ CheckQuote(r) \/ CheckInputs(r) \/ CommitJob(r) \/ ReadBack(r)
         \/ FailRequest(r) \/ NextCall(r)
    \/ \E q \in QuoteIds : Expire(q) \/ EndJob(q) \/ RetryJob(q)
    \/ EditInputs \/ SaveConfig \/ Restart

QuotesSpec == QuotesInit /\ [][QuotesNext]_quotesVars

-----------------------------------------------------------------------------
Hash == [rev : 1..MaxEdits + 1, photos : [Photos -> Hashes],
         config : 0..MaxConfig, providers : Providers]

QuotesTypeOK ==
    /\ itemRev \in 1..MaxEdits + 1 /\ content \in [Photos -> Hashes]
    /\ compatible \in BOOLEAN /\ edits \in 0..MaxEdits
    /\ config \in [rev : 0..MaxConfig, saved : Providers, active : Providers]
    /\ \A q \in QuoteIds :
         /\ Stored(q) => /\ quotes[q].hash \in Hash
                         /\ quotes[q].bound \in Bounds
         /\ jobs[q] # None => jobs[q].frozen \in Hash

\* However creations race, with one key or several, a job, its consumed quote
\* and its idempotency record exist together or not at all, and one to one:
\* no quote is spent twice and none is spent without an answer to replay.  Two
\* answers given to one key with one body name the same job, whichever of them
\* created it, replayed it or read it back after a lost race.
OneJobPerQuoteAndKey ==
    /\ \A q \in QuoteIds :
        /\ jobs[q] # None <=> Stored(q) /\ quotes[q].consumed
        /\ jobs[q] # None =>
             \E k \in Keys : /\ idem[k] # None /\ idem[k].job = q
                             /\ \A l \in Keys \ {k} :
                                    idem[l] # None => idem[l].job # q
    /\ \A r \in Requests :
        request[r].step = "answered" /\ request[r].result.kind = "job" =>
            /\ idem[request[r].key] # None
            /\ idem[request[r].key].body = Body(r)
            /\ idem[request[r].key].job = request[r].result.quote

\* The inputs, the amounts and the configuration a job runs on are those its
\* quote showed when it was confirmed, and within the limit that came with
\* the key, though all of them were read before the transaction.
JobIsTheConfirmedQuote ==
    \A k \in Keys : idem[k] # None =>
        LET q == idem[k].job
        IN  /\ idem[k].body.quote = q
            /\ quotes[q].confirmedBy # Nobody
            /\ jobs[q].frozen = quotes[q].hash
            /\ jobs[q].reserved = quotes[q].bound
            /\ jobs[q].reserved <= idem[k].body.limit

\* While a job runs, the provider settings in force are those it was quoted
\* under: a save waits for the job, a job for the restart, and the handlers'
\* read lock keeps a save from slipping in between check and commit.
JobsRunTheirConfig ==
    \A q \in QuoteIds :
        jobs[q] # None /\ jobs[q].running =>
            /\ jobs[q].frozen.config = config.rev
            /\ jobs[q].frozen.providers = config.active

=============================================================================
