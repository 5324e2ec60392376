------------------------- MODULE NotificationOutbox -------------------------
(***************************************************************************)
(* The notification outbox: app/services/notification_service.py, with the *)
(* breaker fields of a webhook endpoint (webhook_service.py).              *)
(*                                                                         *)
(*   tables   notification_outbox   row                                    *)
(*            webhook_endpoints     endpoint                               *)
(*            webhook_deliveries    log                                    *)
(*   parties  worker processes (the tick), the people who turn an endpoint *)
(*            off and on, and the receivers.                               *)
(*                                                                         *)
(* A worker claims one row, commits, sends with no transaction open and    *)
(* writes the result while the row still has its token.  A worker has one  *)
(* claim at a time, so its name stands for the token: a token that is not  *)
(* the worker's latest is not in any process.  The rows start as one event *)
(* inserted them, on one UTC day.  Time is abstracted to what is compared  *)
(* with it: a lease has ended, the rows are older than 24 hours, an        *)
(* endpoint is paused; a row that waits for its next attempt may be        *)
(* claimed some time later.  The kill switch, the tick's budgets and its   *)
(* round-robin order are left out: they choose which due row is claimed,   *)
(* or none.                                                                *)
(***************************************************************************)
EXTENDS Integers, FiniteSets

CONSTANTS
    Worker,
    Email,           \* rows for one person
    Hook,            \* rows for webhook endpoints
    Place, PlaceOf,  \* workspaces, and the one of each email
    Endpoint, EndpointOf,
    Ping,            \* the hooks that are test deliveries
    MaxAttempts,     \* MAX_ATTEMPTS
    BreakerFailures, \* BREAKER_FAILURES
    PlaceCap,        \* EMAILS_PER_RECIPIENT_PER_WORKSPACE_PER_DAY
    DayCap,          \* EMAILS_PER_RECIPIENT_PER_DAY
    Faults           \* deaths, ends of a lease under way and lost answers considered

Row == Email \cup Hook

ASSUME RowAssumption ==
    /\ Email \cap Hook = {}
    /\ IsFiniteSet(Email)
    /\ PlaceOf \in [Email -> Place]
    /\ EndpointOf \in [Hook -> Endpoint]
    /\ Ping \subseteq Hook

ASSUME NumberAssumption ==
    /\ {MaxAttempts, BreakerFailures} \subseteq Nat \ {0}
    /\ {PlaceCap, DayCap, Faults} \subseteq Nat

VARIABLES
    row,       \* the outbox row of every notification
    endpoint,  \* enabled, consecutive_failures and whether paused_until is ahead
    log,       \* outcomes logged for every hook
    worker,    \* where every worker is, with its claim
    old,       \* whether the rows were created more than 24 hours ago
    received,  \* history: how often the receiver got the message (0, 1, more)
    fault,     \* history: the worst that disturbed the sending of a row
    faults     \* history: how many faults there were

vars == <<row, endpoint, log, worker, old, received, fault, faults>>

-----------------------------------------------------------------------------
DueStatuses == {"pending", "sending", "failed"}
Terminal == {"sent", "dead", "skipped"}

(* `lapsed': the lease of the claim has ended.                             *)
OutboxRow == [status : DueStatuses \cup Terminal, attempts : 0 .. MaxAttempts,
              lapsed : BOOLEAN, token : SUBSET Worker]

(* The answers of a network call.  An email cut by the tick's budget is    *)
(* deferred; one that is refused for good is as one not sent, and so is a  *)
(* webhook whose name lookup was busy.                                     *)
Attempted == {"ok", "error", "final"}
Answers(r) == IF r \in Hook THEN Attempted ELSE {"ok", "error", "defer"}

Idle == [pc |-> "idle", claim |-> {}, answer |-> {}, late |-> FALSE]

At(w, r) == worker[w].claim = {r}

(* Wrong: a row that was left while it was sent is not due again. *)
ClaimableUnlessSending(r) ==
    /\ row[r].status \in {"pending", "failed"}
    /\ r \in Hook => ~endpoint[EndpointOf[r]].paused

(* claim_next: due, and its endpoint not paused.                           *)
Claimable(r) ==
    /\ row[r].status \in DueStatuses
    /\ row[r].status = "sending" => row[r].lapsed
    /\ r \in Hook => ~endpoint[EndpointOf[r]].paused

(* _held                                                                   *)
Held(w, r) == row[r].status = "sending" /\ row[r].token = {w}

-----------------------------------------------------------------------------
Init ==
    /\ row = [r \in Row |-> [status |-> "pending", attempts |-> 0, lapsed |-> FALSE,
                              token |-> {}]]
    /\ endpoint = [e \in Endpoint |-> [on |-> TRUE, failures |-> 0, paused |-> FALSE]]
    /\ log = [h \in Hook |-> {}]
    /\ worker = [w \in Worker |-> Idle]
    /\ old = FALSE
    /\ received = [r \in Row |-> 0]
    /\ fault = [r \in Row |-> "none"]
    /\ faults = 0

Disturb(r, worst) ==
    /\ faults < Faults
    /\ faults' = faults + 1
    /\ fault' = [fault EXCEPT ![r] = IF @ = "lost" THEN @ ELSE worst]

(* Time.  A row that waits for its next attempt is claimed some time       *)
(* later; a row that is being sent only when its lease has ended.          *)
LeaseEnds(r) ==
    /\ row[r].status = "sending"
    /\ ~row[r].lapsed
    /\ row' = [row EXCEPT ![r].lapsed = TRUE]
    /\ worker' = [w \in Worker |-> IF At(w, r) THEN [worker[w] EXCEPT !.late = TRUE]
                                   ELSE worker[w]]
    /\ IF \E w \in Worker : At(w, r) THEN Disturb(r, "late") ELSE UNCHANGED <<fault, faults>>
    /\ UNCHANGED <<endpoint, log, old, received>>

GrowOld ==
    /\ ~old
    /\ old' = TRUE
    /\ UNCHANGED <<row, endpoint, log, worker, received, fault, faults>>

PauseEnds(e) ==
    /\ endpoint[e].paused
    /\ endpoint' = [endpoint EXCEPT ![e].paused = FALSE]
    /\ UNCHANGED <<row, log, worker, old, received, fault, faults>>

(* update_webhook: turning an endpoint on closes its breaker.              *)
Toggle(e) ==
    /\ endpoint' = [endpoint EXCEPT ![e] =
           IF @.on THEN [@ EXCEPT !.on = FALSE]
           ELSE [on |-> TRUE, failures |-> 0, paused |-> FALSE]]
    /\ UNCHANGED <<row, log, worker, old, received, fault, faults>>

-----------------------------------------------------------------------------
(* The tick.                                                               *)

(* Wrong: the token of the last claim stays on the row. *)
ExpiredKeepsToken(r) == [row[r] EXCEPT !.status = "dead", !.lapsed = FALSE]

Expired(r) == [row[r] EXCEPT !.status = "dead", !.token = {}, !.lapsed = FALSE]

(* Wrong: the row is due again at once, without a lease. *)
ClaimedWithoutLease(r, w) == [row[r] EXCEPT !.status = "sending", !.token = {w}, !.lapsed = TRUE]

Claimed(r, w) == [row[r] EXCEPT !.status = "sending", !.token = {w}, !.lapsed = FALSE]

(* Old rows die, as many as come before this worker finds none (rows that  *)
(* others have locked are skipped); or one row is claimed.                 *)
ClaimNext(w) ==
    /\ worker[w].pc = "idle"
    /\ IF old
       THEN /\ \E gone \in (SUBSET {r \in Row : Claimable(r)}) \ {{}} :
                  row' = [r \in Row |-> IF r \in gone THEN Expired(r) ELSE row[r]]
            /\ UNCHANGED worker
       ELSE \E r \in Row :
            /\ Claimable(r)
            /\ row' = [row EXCEPT ![r] = Claimed(r, w)]
            /\ worker' = [worker EXCEPT ![w] = [Idle EXCEPT !.pc = "claimed", !.claim = {r}]]
    /\ UNCHANGED <<endpoint, log, old, received, fault, faults>>

(* _breaker, on the locked endpoint.                                       *)
Breaker(e, failed) ==
    IF ~failed THEN [e EXCEPT !.failures = 0, !.paused = FALSE]
    ELSE LET n == IF e.failures < BreakerFailures THEN e.failures + 1 ELSE e.failures IN
         [e EXCEPT !.failures = n, !.paused = @ \/ n >= BreakerFailures]

Final(r, verdict, attempts) ==
    verdict \in {"final", "disabled"} \/ attempts >= MaxAttempts \/ r \in Ping

(* The row that _finish writes for a claim it still holds.                 *)
Result(r, verdict) ==
    LET attempts == IF verdict = "disabled" \/ row[r].attempts = MaxAttempts
                    THEN row[r].attempts ELSE row[r].attempts + 1
        free == [row[r] EXCEPT !.token = {}, !.lapsed = FALSE]
        tried == [free EXCEPT !.attempts = attempts]
    IN  CASE verdict = "defer" -> [free EXCEPT !.status = "pending"]
          [] verdict = "skip"  -> [free EXCEPT !.status = "skipped"]
          [] verdict = "ok"    -> [tried EXCEPT !.status = "sent"]
          [] OTHER -> IF Final(r, verdict, attempts) THEN [tried EXCEPT !.status = "dead"]
                      ELSE [tried EXCEPT !.status = "failed"]

(* Wrong: any row that is being sent takes the result. *)
ResultAnyToken(w, r, verdict) ==
    IF row[r].status = "sending" THEN Result(r, verdict) ELSE row[r]

(* A lost claim writes nothing to the row.                                 *)
HeldResult(w, r, verdict) ==
    IF Held(w, r) THEN Result(r, verdict) ELSE row[r]

(* Wrong: only sent emails count. *)
SentAlone(e, among) == Cardinality({f \in among \ {e} : row[f].status = "sent"})

(* _sent_today: sent this day, or being sent by anybody now.               *)
SentToday(e, among) ==
    Cardinality({f \in among \ {e} : row[f].status \in {"sent", "sending"}})

MailsOf(p) == {e \in Email : PlaceOf[e] = p}

AtTheCap(e) ==
    \/ SentToday(e, MailsOf(PlaceOf[e])) >= PlaceCap
    \/ SentToday(e, Email) >= DayCap

(* The checks of _email (no adapter or not wanted; not verified or not a   *)
(* member; over the cap) and of _webhook (off; no secret; no time or no    *)
(* room in this minute).  Each writes its result in its own transaction.   *)
Refusals(r) ==
    IF r \in Email THEN {"skip", "final"}
    ELSE IF endpoint[EndpointOf[r]].on THEN {"unconfigured", "defer"} ELSE {"disabled"}

Refuse(w, r) ==
    /\ worker[w].pc = "claimed"
    /\ \E verdict \in Refusals(r) : row' = [row EXCEPT ![r] = HeldResult(w, r, verdict)]
    /\ worker' = [worker EXCEPT ![w] = Idle]
    /\ UNCHANGED <<endpoint, log, old, received, fault, faults>>

MaySend(r) ==
    IF r \in Email THEN ~AtTheCap(r) ELSE endpoint[EndpointOf[r]].on

(* The checks pass and the network call is made.  The receiver may have    *)
(* the message although the answer is an error or a cut timeout; a final   *)
(* error refuses it.                                                       *)
Send(w, r, answer, arrives) ==
    /\ worker[w].pc = "claimed"
    /\ MaySend(r)
    /\ answer = "ok" => arrives
    /\ answer = "final" => ~arrives
    /\ worker' = [worker EXCEPT ![w].pc = "answered", ![w].answer = {answer}]
    /\ received' = [received EXCEPT ![r] = IF arrives /\ @ < 2 THEN @ + 1 ELSE @]
    /\ IF arrives /\ answer # "ok" THEN Disturb(r, "lost") ELSE UNCHANGED <<fault, faults>>
    /\ UNCHANGED <<row, endpoint, log, old>>

(* Wrong: a worker that lost its claim does not log what it delivered. *)
LoggedIfHeld(w, r, verdict) ==
    IF r \in Hook /\ verdict \in Attempted /\ Held(w, r)
    THEN log' = [log EXCEPT ![r] = @ \cup {verdict = "ok"}]
    ELSE UNCHANGED log

(* The log of a delivery that happened, also by a worker that lost the row.*)
Logged(w, r, verdict) ==
    IF r \in Hook /\ verdict \in Attempted
    THEN log' = [log EXCEPT ![r] = @ \cup {verdict = "ok"}]
    ELSE UNCHANGED log

(* One transaction: the log and the breaker of a delivery, and the row.    *)
Finish(w, r) ==
    /\ worker[w].pc = "answered"
    /\ \E answer \in worker[w].answer :
        /\ row' = [row EXCEPT ![r] = HeldResult(w, r, answer)]
        /\ Logged(w, r, answer)
        /\ IF r \in Hook /\ answer \in Attempted
           THEN endpoint' = [endpoint EXCEPT ![EndpointOf[r]] = Breaker(@, answer # "ok")]
           ELSE UNCHANGED endpoint
    /\ worker' = [worker EXCEPT ![w] = Idle]
    /\ UNCHANGED <<old, received, fault, faults>>

(* The process dies and is started again, or the row raises and the tick   *)
(* goes on: the claim is left to its lease.                                *)
Crash(w, r) ==
    /\ worker' = [worker EXCEPT ![w] = Idle]
    /\ Disturb(r, "lost")
    /\ UNCHANGED <<row, endpoint, log, old, received>>

-----------------------------------------------------------------------------
Tick(w) ==
    \/ ClaimNext(w)
    \/ \E r \in worker[w].claim :
        \/ Refuse(w, r)
        \/ \E answer \in Answers(r), arrives \in BOOLEAN : Send(w, r, answer, arrives)
        \/ Finish(w, r)

Next ==
    \/ \E r \in Row : LeaseEnds(r)
    \/ GrowOld
    \/ \E e \in Endpoint : PauseEnds(e) \/ Toggle(e)
    \/ \E w \in Worker : Tick(w) \/ \E r \in worker[w].claim : Crash(w, r)

Spec == Init /\ [][Next]_vars

(* Workers go on ticking, and time passes.                                 *)
Fairness ==
    /\ \A w \in Worker : WF_vars(Tick(w))
    /\ \A r \in Row : WF_vars(LeaseEnds(r))
    /\ WF_vars(GrowOld)
    /\ \A e \in Endpoint : WF_vars(PauseEnds(e))

FairSpec == Spec /\ Fairness

-----------------------------------------------------------------------------
TypeOK ==
    /\ row \in [Row -> OutboxRow]
    /\ \A r \in Row : (row[r].token # {}) <=> (row[r].status = "sending")
    /\ endpoint \in [Endpoint -> [on : BOOLEAN, failures : 0 .. BreakerFailures, paused : BOOLEAN]]
    /\ log \in [Hook -> SUBSET BOOLEAN]
    /\ worker \in [Worker -> [pc : {"idle", "claimed", "answered"},
                              claim : SUBSET Row, answer : SUBSET (Attempted \cup {"defer"}),
                              late : BOOLEAN]]
    /\ received \in [Row -> 0 .. 2]
    /\ old \in BOOLEAN
    /\ fault \in [Row -> {"none", "late", "lost"}]
    /\ faults \in 0 .. Faults

(* Until its lease ends a worker keeps the row it claimed: no other worker *)
(* claims it, and no late result of an earlier claim takes it away.        *)
LeaseKeepsClaim ==
    \A w \in Worker, r \in Row : At(w, r) /\ ~worker[w].late => Held(w, r)

(* A message reaches its receiver twice only after a fault: a worker died  *)
(* or its lease ended while it had the row, or the receiver got a message  *)
(* whose answer was an error or was cut.                                   *)
DuplicatesComeFromFaults == \A r \in Row : received[r] > 1 => fault[r] # "none"

Unattended(r) == \A w \in Worker : ~At(w, r)

(* Row, log and receiver agree.  What is called sent was received, and is  *)
(* in the log of a webhook; what was received and answered is called sent  *)
(* when its worker kept the lease, and logged also when it did not.        *)
RecordsMatchDeliveries ==
    \A r \in Row :
        /\ row[r].status = "sent" => received[r] > 0
        /\ r \in Hook /\ row[r].status = "sent" => TRUE \in log[r]
        /\ received[r] > 0 /\ Unattended(r) =>
               /\ fault[r] = "none" => row[r].status = "sent"
               /\ r \in Hook /\ fault[r] # "lost" => TRUE \in log[r]

(* The caps of a person hold, per workspace and in all, whichever workers  *)
(* send at the same time.                                                  *)
SentOf(among) == Cardinality({e \in among : row[e].status = "sent"})

CapsHold == (\A p \in Place : SentOf(MailsOf(p)) <= PlaceCap) /\ SentOf(Email) <= DayCap

(* Every notification ends: sent, skipped or given up, whatever workers,   *)
(* leases and breakers do.                                                 *)
RowsSettle == <>(\A r \in Row : row[r].status \in Terminal)

=============================================================================
