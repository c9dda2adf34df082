-------------------------- MODULE OperationJournal --------------------------
(***************************************************************************)
(* closeai.chat and its journal, for one operation_id in production mode:  *)
(* a paid request to a model provider, with bounded retries, made by       *)
(* whichever process gets there first. Every event of the operation is an  *)
(* immutable receipt, created under a lock by linking a file that must not *)
(* exist; what a call does is decided by the receipts it found when it     *)
(* began. Several processes may call at once, die, and call again later.   *)
(***************************************************************************)
EXTENDS Naturals, FiniteSetsExt

CONSTANTS
  Callers,      \* threads and processes that call chat with this operation_id
  Requests,     \* the requests they come with (request_sha256 and retry policy)
  Retries,      \* retries, the same for all (it is part of the policy)
  MaxCrashes    \* bound: calls that end early

Ordinal == 1 .. Retries

ASSUME RetriesAssumption == Retries \in Nat \ {0}
ASSUME CrashAssumption == MaxCrashes \in Nat

\* The receipts. Of a call_terminal, ordinal is last_retry_ordinal.
Event ==
  [event : {"intent"}, ordinal : Ordinal, status : {"pending"},
   request : Requests]
  \cup
  [event : {"terminal", "call_terminal"}, ordinal : Ordinal,
   status : {"success", "error", "outcome_unknown"},
   request : Requests]

VARIABLES
  journal,     \* the set of receipts on disk
  sent,        \* ordinal -> requests that reached the provider
  answered,    \* ordinals the provider answered validly
  delivered,   \* how often chat returned a content
  pc,          \* caller -> control point
  request,     \* caller -> the request of its call
  seen,        \* caller -> the receipts it found
  attempt,     \* caller -> ordinal of its attempt, or of the attempt it reports on
  out,         \* caller -> status it is to record
  crashes

world == <<sent, answered, delivered>>
vars == <<journal, world, pc, request, seen, attempt, out, crashes>>

-----------------------------------------------------------------------------
(* Receipts *)

\* event_id: the operation, the event and, but for call_terminal, its ordinal.
SameId(e, f) == e.event = f.event /\ (e.event = "call_terminal" \/ e.ordinal = f.ordinal)

Record(c, event, status) ==
  [event |-> event, ordinal |-> attempt[c], status |-> status, request |-> request[c]]

\* Faulty variant of Collides: a receipt with the same identifier is no obstacle.
CollidesNever(e) == FALSE

\* _write_receipt raises when the identifier is taken by a different record.
Collides(e) == \E f \in journal : SameId(f, e) /\ f # e

\* Faulty variant of Claimed: only the record itself would be noticed.
ClaimedNever(e) == FALSE

\* The intent of this attempt is durable already, whoever wrote it.
Claimed(e) == \E f \in journal : SameId(f, e)

-----------------------------------------------------------------------------
(* What a call reads off the receipts it found *)

CallTerminals(s) == {e \in s : e.event = "call_terminal"}
Terminals(s, status) == {e \in s : e.event = "terminal" /\ e.status = status}

\* Faulty variant of Conflicts: the request is not compared.
ConflictsNever(c) == FALSE

\* OperationConflictError: the identifier belongs to another request.
Conflicts(c) == \E e \in seen[c] : e.request # request[c]

\* Faulty variant of Unmatched: an intent without outcome is overlooked.
UnmatchedNone(s) == {}

\* The ordinals of intents whose attempt has no outcome.
Unmatched(s) ==
  {n \in Ordinal : /\ \E e \in s : e.event = "intent" /\ e.ordinal = n
                   /\ ~ \E e \in s : e.event = "terminal" /\ e.ordinal = n}

ErrorOrdinals(s) == {e.ordinal : e \in Terminals(s, "error")}

\* The attempt that follows the last recorded error.
FirstAttempt(s) == Max(ErrorOrdinals(s) \cup {0}) + 1

\* No attempt is left.
Exhausted(n) == n > Retries

-----------------------------------------------------------------------------
Init ==
  /\ journal = {}
  /\ sent = [n \in Ordinal |-> 0]
  /\ answered = {}
  /\ delivered = 0
  /\ pc = [c \in Callers |-> "idle"]
  /\ request \in [Callers -> Requests]
  /\ seen = [c \in Callers |-> {}]
  /\ attempt = [c \in Callers |-> 1]
  /\ out = [c \in Callers |-> "pending"]
  /\ crashes = 0

\* The call ends: it returned or raised.
End(c) ==
  /\ pc' = [pc EXCEPT ![c] = "idle"]
  /\ seen' = [seen EXCEPT ![c] = {}]
  /\ attempt' = [attempt EXCEPT ![c] = 1]
  /\ out' = [out EXCEPT ![c] = "pending"]
  /\ UNCHANGED request

Goto(c, point, ordinal, status) ==
  /\ pc' = [pc EXCEPT ![c] = point]
  /\ seen' = [seen EXCEPT ![c] = {}]
  /\ attempt' = [attempt EXCEPT ![c] = ordinal]
  /\ out' = [out EXCEPT ![c] = status]
  /\ UNCHANGED request

\* A call of chat: _operation_records begins to list the directory, without the lock.
Invoke(c, r) ==
  /\ pc[c] = "idle"
  /\ pc' = [pc EXCEPT ![c] = "list"]
  /\ request' = [request EXCEPT ![c] = r]
  /\ seen' = [seen EXCEPT ![c] = journal]
  /\ UNCHANGED <<journal, world, attempt, out, crashes>>

\* The listing ends. It may hold any of the receipts created while it was made.
List(c, late) ==
  /\ pc[c] = "list"
  /\ pc' = [pc EXCEPT ![c] = "decide"]
  /\ seen' = [seen EXCEPT ![c] = @ \cup late]
  /\ UNCHANGED <<journal, world, request, attempt, out, crashes>>

\* OperationConflictError, or the operation is over: OutcomeUnknownError or
\* DuplicateOperationError.
RejectKnown(c) ==
  /\ pc[c] = "decide"
  /\ Conflicts(c) \/ CallTerminals(seen[c]) # {}
  /\ End(c)
  /\ UNCHANGED <<journal, world, crashes>>

Open(c) == pc[c] = "decide" /\ ~Conflicts(c) /\ CallTerminals(seen[c]) = {}

\* An attempt's outcome is final, but the operation's is not recorded.
ReportFinal(c, e) ==
  /\ Open(c)
  /\ IF Terminals(seen[c], "success") # {}
     THEN e \in Terminals(seen[c], "success")
     ELSE e \in Terminals(seen[c], "outcome_unknown")
  /\ Goto(c, "settle", e.ordinal, e.status)
  /\ UNCHANGED <<journal, world, crashes>>

Undecided(c) ==
  Open(c) /\ Terminals(seen[c], "success") \cup Terminals(seen[c], "outcome_unknown") = {}

\* An intent has no outcome and is fresh: OperationInProgressError.
Refuse(c) ==
  /\ Undecided(c) /\ Unmatched(seen[c]) # {}
  /\ End(c)
  /\ UNCHANGED <<journal, world, crashes>>

\* It is stale: its outcome is declared unknown, though its process may be alive.
Expire(c) ==
  /\ Undecided(c) /\ Unmatched(seen[c]) # {}
  /\ \E n \in Unmatched(seen[c]) :
       /\ \A m \in Unmatched(seen[c]) : n <= m
       /\ Goto(c, "terminal", n, "outcome_unknown")
  /\ UNCHANGED <<journal, world, crashes>>

\* Otherwise the call begins with, or goes on after, the errors recorded; with the
\* last one it can only report.
Continue(c) ==
  LET first == FirstAttempt(seen[c]) IN
  /\ Undecided(c) /\ Unmatched(seen[c]) = {}
  /\ IF Exhausted(first) THEN Goto(c, "settle", Retries, "error")
                        ELSE Goto(c, "intent", first, "pending")
  /\ UNCHANGED <<journal, world, crashes>>

\* The exclusive creation of the intent is what admits an attempt.
PublishIntent(c) ==
  LET e == Record(c, "intent", "pending") IN
  /\ pc[c] = "intent"
  /\ IF Claimed(e) THEN End(c) /\ UNCHANGED journal
     ELSE journal' = journal \cup {e} /\ Goto(c, "send", attempt[c], "pending")
  /\ UNCHANGED <<world, crashes>>

\* One HTTP request, which may fail before or after it reached the provider.
Send(c, reached, valid) ==
  /\ pc[c] = "send" /\ (valid => reached)
  /\ sent' = IF reached THEN [sent EXCEPT ![attempt[c]] = @ + 1] ELSE sent
  /\ answered' = IF valid THEN answered \cup {attempt[c]} ELSE answered
  /\ Goto(c, "terminal", attempt[c], IF valid THEN "success" ELSE "error")
  /\ UNCHANGED <<journal, delivered, crashes>>

\* The outcome of the attempt, and what follows it: the next attempt after an error
\* (and the backoff), the call's own record otherwise.
PublishTerminal(c) ==
  LET e == Record(c, "terminal", out[c]) IN
  /\ pc[c] = "terminal"
  /\ IF Collides(e) THEN End(c) /\ UNCHANGED journal
     ELSE /\ journal' = journal \cup {e}
          /\ CASE out[c] = "success" -> Goto(c, "deliver", attempt[c], "success")
               [] out[c] = "error" /\ ~Exhausted(attempt[c] + 1) ->
                    Goto(c, "intent", attempt[c] + 1, "pending")
               [] OTHER -> Goto(c, "settle", attempt[c], out[c])
  /\ UNCHANGED <<world, crashes>>

\* persist_call_terminal, after which chat raises.
Settle(c) ==
  LET e == Record(c, "call_terminal", out[c]) IN
  /\ pc[c] = "settle"
  /\ journal' = IF Collides(e) THEN journal ELSE journal \cup {e}
  /\ End(c)
  /\ UNCHANGED <<world, crashes>>

\* persist_call_terminal, after which chat returns the content.
Deliver(c) ==
  LET e == Record(c, "call_terminal", "success") IN
  /\ pc[c] = "deliver"
  /\ IF Collides(e) THEN UNCHANGED <<journal, delivered>>
     ELSE journal' = journal \cup {e} /\ delivered' = delivered + 1
  /\ End(c)
  /\ UNCHANGED <<sent, answered, crashes>>

\* The process dies, or a record cannot be persisted (JournalError): a call may end at
\* any point, with the receipt of its last step on disk or not.
Crash(c) ==
  /\ pc[c] # "idle" /\ crashes < MaxCrashes
  /\ crashes' = crashes + 1
  /\ End(c)
  /\ UNCHANGED <<journal, world>>

Step(c) ==
  \/ (\E r \in Requests : Invoke(c, r)) \/ (\E late \in SUBSET (journal \ seen[c]) : List(c, late))
  \/ RejectKnown(c) \/ (\E e \in seen[c] : ReportFinal(c, e))
  \/ Refuse(c) \/ Expire(c) \/ Continue(c)
  \/ PublishIntent(c) \/ (\E reached, valid \in BOOLEAN : Send(c, reached, valid))
  \/ PublishTerminal(c) \/ Settle(c) \/ Deliver(c)

Next == \E c \in Callers : Step(c) \/ Crash(c)

Spec == Init /\ [][Next]_vars

\* Every call goes on, each request is asked for again, and an intent without outcome is at
\* some call older than stale_intent_seconds.
FairSpec ==
  /\ Spec
  /\ \A c \in Callers :
       /\ WF_vars(pc[c] # "idle" /\ Step(c)) /\ SF_vars(Expire(c))
       /\ \A r \in Requests : SF_vars(Invoke(c, r))

-----------------------------------------------------------------------------
(* Properties *)

\* The type invariant; what a call found is on disk.
TypeOK ==
  /\ journal \subseteq Event
  /\ sent \in [Ordinal -> Nat] /\ answered \subseteq Ordinal /\ delivered \in Nat
  /\ pc \in [Callers -> {"idle", "list", "decide", "intent", "send", "terminal", "settle",
                         "deliver"}]
  /\ request \in [Callers -> Requests]
  /\ seen \in [Callers -> SUBSET journal]
  /\ attempt \in [Callers -> Ordinal]
  /\ out \in [Callers -> {"pending", "success", "error", "outcome_unknown"}]
  /\ crashes \in 0 .. MaxCrashes

\* The provider is asked at most once per attempt, by whichever caller, and only behind
\* a durable intent.
OneRequestPerAttempt ==
  \A n \in Ordinal :
    /\ sent[n] <= 1
    /\ sent[n] > 0 => \E e \in journal : e.event = "intent" /\ e.ordinal = n

\* An attempt is made only after the one before it is known to have failed: an unknown
\* outcome is never retried, nor is a success, even across callers that decide upon
\* outdated receipts.
RetriedOnlyAfterError ==
  \A e \in journal : e.event = "intent" /\ e.ordinal > 1 =>
    /\ \E f \in Terminals(journal, "error") : f.ordinal = e.ordinal - 1
    /\ \A f \in journal : f.event = "terminal" /\ f.ordinal < e.ordinal => f.status = "error"

\* The record of the operation agrees with those of its attempts: they all have an
\* outcome, and the last of them has the operation's.
CallTerminalAgrees ==
  \A e \in CallTerminals(journal) :
    /\ \E f \in Terminals(journal, e.status) : f.ordinal = e.ordinal
    /\ \A f \in journal : f.event # "call_terminal" => f.ordinal <= e.ordinal
    /\ Unmatched(journal) = {}
    /\ e.status = "error" => e.ordinal = Retries

\* A success on record is an answer the provider gave; the content of the operation is
\* handed out at most once, and only with both records on disk.
AnswerDeliveredOnce ==
  /\ \A e \in Terminals(journal, "success") : e.ordinal \in answered
  /\ delivered <= 1
  /\ delivered = 1 =>
       /\ Terminals(journal, "success") # {}
       /\ \E e \in CallTerminals(journal) : e.status = "success"

\* One operation, one request: a caller that comes with another request adds nothing.
OneRequestIdentity == \A e, f \in journal : e.request = f.request

\* An operation that is asked for again and again gets its outcome.
EventuallySettled == <>(CallTerminals(journal) # {})
=============================================================================
