----------------------- MODULE OperationJournalProofs -----------------------
(***************************************************************************)
(* Theorems about OperationJournal for any callers, requests, number of    *)
(* retries and of crashes. The receipts alone carry most of the argument:  *)
(* an intent stands on the errors before it, an outcome on its intent, and *)
(* the record of the operation on an outcome. The rest is what one call    *)
(* still knows of the receipts it found, and that no two calls work on the *)
(* same attempt.                                                           *)
(***************************************************************************)
EXTENDS OperationJournal, WellFoundedInduction, TLAPS

HasIntent(j, n) == \E e \in j : e.event = "intent" /\ e.ordinal = n
HasOutcome(j, n, status) == \E e \in Terminals(j, status) : e.ordinal = n
ErrorsBefore(j, n) == \A m \in 1 .. n - 1 : HasOutcome(j, m, "error")

\* What the receipts j owe each other, the answers a and the requests s.
Records(j, a, s) ==
  /\ \A e, f \in j : SameId(e, f) => e = f
  /\ \A e \in j : e.event = "intent" => ErrorsBefore(j, e.ordinal)
  /\ \A e \in j : e.event = "terminal" => HasIntent(j, e.ordinal)
  /\ \A e \in CallTerminals(j) :
       HasOutcome(j, e.ordinal, e.status) /\ (e.status = "error" => e.ordinal = Retries)
  /\ \A e, f \in j : e.request = f.request
  /\ \A e \in Terminals(j, "success") : e.ordinal \in a
  /\ \A n \in Ordinal : s[n] <= 1 /\ (s[n] > 0 => HasIntent(j, n))

\* Some receipt is of the caller's own request.
Known(j, r) == \E e \in j : e.request = r

\* What a call at point p, with ordinal n, status o and request r, may rely on.
CallAt(j, a, s, p, n, o, r) ==
  /\ p = "intent" => ErrorsBefore(j, n) /\ (n > 1 => Known(j, r))
  /\ p \in {"send", "terminal", "settle", "deliver"} => Known(j, r)
  /\ p = "send" => HasIntent(j, n) /\ s[n] = 0
  /\ p = "terminal" => /\ HasIntent(j, n) /\ o # "pending"
                       /\ o = "success" => n \in a
  /\ p = "settle" => HasOutcome(j, n, o) /\ (o = "error" => n = Retries)
  /\ p = "deliver" => HasOutcome(j, n, "success")

CallerOK(c) == CallAt(journal, answered, sent, pc[c], attempt[c], out[c], request[c])

\* The call wrote the intent of its attempt and has not finished with it.
OwnsAt(p, o) == p \in {"send", "deliver"} \/ (p = "terminal" /\ o # "outcome_unknown")
Owns(c) == OwnsAt(pc[c], out[c])

Exclusive ==
  \A c, d \in Callers : Owns(c) /\ Owns(d) /\ attempt[c] = attempt[d] => c = d

\* The content was handed out at most once, by a call that is over.
DeliveredOK ==
  /\ delivered <= 1
  /\ delivered = 1 =>
       /\ \E e \in CallTerminals(journal) : e.status = "success"
       /\ \E e \in Terminals(journal, "success") :
            \A c \in Callers : Owns(c) => attempt[c] # e.ordinal

RecordsOK == Records(journal, answered, sent)

JournalInv ==
  TypeOK /\ RecordsOK /\ (\A c \in Callers : CallerOK(c)) /\ Exclusive /\ DeliveredOK

-----------------------------------------------------------------------------
(* Lemmas *)

\* A bounded set of numbers has a largest element.
LEMMA MaxOfBounded ==
  ASSUME NEW b \in Nat, NEW S \in SUBSET (0 .. b), S # {}
  PROVE  Max(S) \in S /\ \A s \in S : s <= Max(S)
<1> DEFINE D == {b - s : s \in S}
<1>0. \A s \in S : b - s \in Nat
  OBVIOUS
<1>1. D \subseteq Nat /\ D # {}
  BY <1>0
<1>2. \E m \in D : \A s \in D : ~ (<<s, m>> \in OpToRel(<, Nat))
  BY <1>1, NatLessThanWellFounded, WFMin, Zenon
<1>3. \A s, m \in Nat : s < m => <<s, m>> \in OpToRel(<, Nat)
  BY DEF OpToRel
<1>4. PICK m \in D : \A s \in D : ~ (s < m)
  BY <1>1, <1>2, <1>3
<1>5. PICK x \in S : m = b - x
  BY <1>4
<1>6. \A s \in S : b - s \in D /\ ~ (b - s < b - x)
  BY <1>4, <1>5
<1>7. \A s \in S : x >= s
  BY <1>6
<1> QED
  BY <1>7 DEF Max

\* The attempt a call continues with is the one after an error it found, or the first.
LEMMA FirstAttemptFollowsError ==
  ASSUME NEW s, s \subseteq Event
  PROVE  /\ FirstAttempt(s) \in 1 .. Retries + 1
         /\ FirstAttempt(s) > 1 => FirstAttempt(s) - 1 \in ErrorOrdinals(s)
<1>1. ErrorOrdinals(s) \subseteq 1 .. Retries
  BY DEF ErrorOrdinals, Terminals, Event, Ordinal
<1>2. ErrorOrdinals(s) \cup {0} \in SUBSET (0 .. Retries)
  BY <1>1, RetriesAssumption
<1>3. Max(ErrorOrdinals(s) \cup {0}) \in ErrorOrdinals(s) \cup {0}
  BY <1>2, RetriesAssumption, MaxOfBounded
<1> QED
  BY <1>1, <1>3, RetriesAssumption DEF FirstAttempt

\* Nothing changes for the callers but c.
Others(c) ==
  \A d \in Callers \ {c} :
    pc'[d] = pc[d] /\ attempt'[d] = attempt[d] /\ out'[d] = out[d] /\ request'[d] = request[d]

\* What the two ways to move a caller leave behind, and that its fields keep their types.
LEMMA GotoEffect ==
  ASSUME TypeOK, NEW c \in Callers, NEW p, NEW n, NEW o, Goto(c, p, n, o)
  PROVE  /\ pc'[c] = p /\ attempt'[c] = n /\ out'[c] = o /\ request' = request
         /\ Others(c)
  BY DEF Goto, TypeOK, Others

LEMMA EndEffect ==
  ASSUME TypeOK, NEW c \in Callers, End(c)
  PROVE  pc'[c] = "idle" /\ Others(c)
  BY DEF End, TypeOK, Others

Point == {"idle", "list", "decide", "intent", "send", "terminal", "settle", "deliver"}
Status == {"pending", "success", "error", "outcome_unknown"}

LEMMA GotoType ==
  ASSUME TypeOK, NEW c \in Callers, NEW p \in Point, NEW n \in Ordinal, NEW o \in Status,
         Goto(c, p, n, o), journal \subseteq journal', journal' \subseteq Event,
         sent' \in [Ordinal -> Nat], answered' \subseteq Ordinal, delivered' \in Nat,
         crashes' \in 0 .. MaxCrashes
  PROVE  TypeOK'
<1>1. /\ pc' \in [Callers -> Point] /\ attempt' \in [Callers -> Ordinal]
      /\ out' \in [Callers -> Status] /\ request' \in [Callers -> Requests]
  BY DEF Goto, TypeOK, Point, Status
<1>2. seen' \in [Callers -> SUBSET journal']
  BY DEF Goto, TypeOK
<1> QED
  BY <1>1, <1>2 DEF TypeOK, Point, Status

LEMMA EndType ==
  ASSUME TypeOK, NEW c \in Callers,
         End(c), journal \subseteq journal', journal' \subseteq Event,
         sent' \in [Ordinal -> Nat], answered' \subseteq Ordinal, delivered' \in Nat,
         crashes' \in 0 .. MaxCrashes
  PROVE  TypeOK'
<1>1. Goto(c, "idle", 1, "pending")
  BY DEF End, Goto
<1>2. 1 \in Ordinal
  BY RetriesAssumption DEF Ordinal
<1> QED
  BY <1>1, <1>2, GotoType DEF Point, Status

\* Receipts are never removed, so what a call relies on stays true.
LEMMA CallKeeps ==
  ASSUME NEW j, NEW j2, j \subseteq j2, NEW a, NEW a2, a \subseteq a2, NEW s, NEW s2,
         NEW p, NEW n, NEW o, NEW r, p = "send" => s2[n] = s[n], CallAt(j, a, s, p, n, o, r)
  PROVE  CallAt(j2, a2, s2, p, n, o, r)
<1>1. \A m, st : HasOutcome(j, m, st) => HasOutcome(j2, m, st)
  BY DEF HasOutcome, Terminals
<1>2. \A m : HasIntent(j, m) => HasIntent(j2, m)
  BY DEF HasIntent
<1>3. Known(j, r) => Known(j2, r)
  BY DEF Known
<1>4. ErrorsBefore(j, n) => ErrorsBefore(j2, n)
  BY <1>1 DEF ErrorsBefore
<1> QED
  BY <1>1, <1>2, <1>3, <1>4 DEF CallAt

\* An owner's attempt has its intent on disk.
LEMMA OwnerHasIntent ==
  ASSUME RecordsOK, NEW c \in Callers, CallerOK(c), Owns(c)
  PROVE  HasIntent(journal, attempt[c])
  BY DEF RecordsOK, Records, CallerOK, CallAt, Owns, OwnsAt, HasOutcome, Terminals

\* A step of caller c that keeps the records in order keeps the invariant, if what c
\* relies on is true and c came to own an attempt only as the first.
LEMMA StepKeeps ==
  ASSUME JournalInv, TypeOK', RecordsOK', NEW c \in Callers, Others(c),
         journal \subseteq journal', answered \subseteq answered',
         \A d \in Callers \ {c} : pc[d] = "send" => sent'[attempt[d]] = sent[attempt[d]],
         CallerOK(c)',
         Owns(c)' => \/ Owns(c) /\ attempt'[c] = attempt[c]
                    \/ ~HasIntent(journal, attempt'[c])
  PROVE  /\ \A d \in Callers : CallerOK(d)'
         /\ Exclusive'
         /\ delivered' = delivered => DeliveredOK'
<1>1. \A d \in Callers \ {c} :
        /\ pc'[d] = pc[d] /\ attempt'[d] = attempt[d]
        /\ out'[d] = out[d] /\ request'[d] = request[d]
  BY DEF Others
<1>2. ASSUME NEW d \in Callers \ {c} PROVE CallerOK(d)'
  <2>1. CallAt(journal, answered, sent, pc[d], attempt[d], out[d], request[d])
    BY DEF JournalInv, CallerOK
  <2>2. CallAt(journal', answered', sent', pc[d], attempt[d], out[d], request[d])
    BY <2>1, CallKeeps
  <2> QED
    BY <1>1, <2>2 DEF CallerOK
<1>3. \A d \in Callers \ {c} : Owns(d)' <=> Owns(d)
  BY <1>1 DEF Owns
<1>4. \A d \in Callers : Owns(d) => HasIntent(journal, attempt[d])
  BY OwnerHasIntent DEF JournalInv
<1>5. \A d \in Callers \ {c} : Owns(d)' /\ Owns(c)' => attempt'[d] # attempt'[c]
  BY <1>1, <1>3, <1>4 DEF JournalInv, Exclusive
<1>6. Exclusive'
  <2> SUFFICES ASSUME NEW d \in Callers, NEW e \in Callers, Owns(d)', Owns(e)',
                      attempt'[d] = attempt'[e], d # e
               PROVE  FALSE
    BY DEF Exclusive
  <2>1. d # c /\ e # c
    BY <1>5
  <2> QED
    BY <1>1, <1>3, <2>1 DEF JournalInv, Exclusive
<1>7. ASSUME delivered' = delivered, delivered = 1
      PROVE  /\ \E e \in CallTerminals(journal') : e.status = "success"
             /\ \E e \in Terminals(journal', "success") :
                  \A d \in Callers : Owns(d)' => attempt'[d] # e.ordinal
  <2>1. \E e \in CallTerminals(journal') : e.status = "success"
    BY <1>7 DEF JournalInv, DeliveredOK, CallTerminals
  <2>2. PICK e \in Terminals(journal, "success") :
          \A d \in Callers : Owns(d) => attempt[d] # e.ordinal
    BY <1>7 DEF JournalInv, DeliveredOK
  <2>3. e \in Terminals(journal', "success") /\ HasIntent(journal, e.ordinal)
    BY DEF JournalInv, RecordsOK, Records, Terminals
  <2>4. \A d \in Callers : Owns(d)' => attempt'[d] # e.ordinal
    BY <1>1, <1>3, <2>2, <2>3
  <2> QED
    BY <2>1, <2>3, <2>4
<1>8. delivered' = delivered => DeliveredOK'
  BY <1>7 DEF JournalInv, DeliveredOK
<1> QED
  BY <1>2, <1>6, <1>8

\* A new receipt keeps the records in order if what it stands on is there.
LEMMA RecordAdded ==
  ASSUME NEW j \in SUBSET Event, NEW a, NEW s, Records(j, a, s), NEW e \in Event,
         \A f \in j : ~SameId(f, e),
         \A f \in j : f.request = e.request,
         e.event = "intent" => ErrorsBefore(j, e.ordinal),
         e.event = "terminal" =>
           HasIntent(j, e.ordinal) /\ (e.status = "success" => e.ordinal \in a),
         e.event = "call_terminal" =>
           HasOutcome(j, e.ordinal, e.status) /\ (e.status = "error" => e.ordinal = Retries)
  PROVE  Records(j \cup {e}, a, s)
<1> DEFINE k == j \cup {e}
<1>1. \A m, st : HasOutcome(j, m, st) => HasOutcome(k, m, st)
  BY DEF HasOutcome, Terminals
<1>2. \A m : HasIntent(j, m) => HasIntent(k, m)
  BY DEF HasIntent
<1>3. \A n : ErrorsBefore(j, n) => ErrorsBefore(k, n)
  BY <1>1 DEF ErrorsBefore
<1>4. \A f, g \in k : SameId(f, g) => f = g
  BY DEF Records, SameId
<1>5. \A f \in k : f.event = "intent" => ErrorsBefore(k, f.ordinal)
  BY <1>3 DEF Records
<1>6. \A f \in k : f.event = "terminal" => HasIntent(k, f.ordinal)
  BY <1>2 DEF Records
<1>7. \A f \in CallTerminals(k) :
        HasOutcome(k, f.ordinal, f.status) /\ (f.status = "error" => f.ordinal = Retries)
  BY <1>1 DEF Records, CallTerminals
<1>8. \A f, g \in k : f.request = g.request
  BY DEF Records
<1>9. \A f \in Terminals(k, "success") : f.ordinal \in a
  BY DEF Records, Terminals
<1>10. \A n \in Ordinal : s[n] <= 1 /\ (s[n] > 0 => HasIntent(k, n))
  BY <1>2 DEF Records
<1> HIDE DEF k
<1> QED
  BY <1>4, <1>5, <1>6, <1>7, <1>8, <1>9, <1>10 DEF Records, k

\* All receipts bear the request that one of them bears.
LEMMA KnownRequest ==
  ASSUME RecordsOK, NEW r, Known(journal, r)
  PROVE  \A f \in journal : f.request = r
  BY DEF RecordsOK, Records, Known

-----------------------------------------------------------------------------
(* The invariant *)

LEMMA JournalInvInit == Init => JournalInv
<1> SUFFICES ASSUME Init PROVE JournalInv
  OBVIOUS
<1>1. 1 \in Ordinal
  BY RetriesAssumption DEF Ordinal
<1>2. TypeOK
  BY <1>1, CrashAssumption DEF Init, TypeOK
<1>3. RecordsOK
  BY DEF Init, RecordsOK, Records, CallTerminals, Terminals
<1>4. \A c \in Callers : CallerOK(c) /\ ~Owns(c)
  BY DEF Init, CallerOK, CallAt, Owns, OwnsAt
<1> QED
  BY <1>2, <1>3, <1>4 DEF Init, JournalInv, Exclusive, DeliveredOK

\* A step that writes nothing and leaves the call idle or before its decision.
LEMMA QuietStep ==
  ASSUME JournalInv, TypeOK', NEW c \in Callers, Others(c), UNCHANGED <<journal, world>>,
         pc'[c] \in {"idle", "list", "decide"}
  PROVE  JournalInv'
<1>1. journal' = journal /\ sent' = sent /\ answered' = answered /\ delivered' = delivered
  BY DEF world
<1>2. RecordsOK'
  BY <1>1 DEF JournalInv, RecordsOK
<1>3. CallerOK(c)' /\ ~Owns(c)'
  BY DEF CallerOK, CallAt, Owns, OwnsAt
<1> QED
  BY <1>1, <1>2, <1>3, StepKeeps DEF JournalInv

LEMMA InvokeStep ==
  ASSUME JournalInv, NEW c \in Callers, NEW r \in Requests, Invoke(c, r) PROVE JournalInv'
<1>1. TypeOK' /\ Others(c) /\ pc'[c] = "list"
  BY DEF JournalInv, TypeOK, Invoke, world, Others
<1> QED
  BY <1>1, QuietStep DEF Invoke

LEMMA ListStep ==
  ASSUME JournalInv, NEW c \in Callers, NEW late \in SUBSET (journal \ seen[c]), List(c, late)
  PROVE JournalInv'
<1>1. TypeOK' /\ Others(c) /\ pc'[c] = "decide"
  BY DEF JournalInv, TypeOK, List, world, Others
<1> QED
  BY <1>1, QuietStep DEF List

\* The call ends without a trace.
LEMMA EndStep ==
  ASSUME JournalInv, NEW c \in Callers, End(c), UNCHANGED <<journal, world>>,
         crashes' \in 0 .. MaxCrashes
  PROVE JournalInv'
<1>1. pc'[c] = "idle" /\ Others(c)
  BY EndEffect DEF JournalInv
<1>2. TypeOK'
  BY EndType DEF JournalInv, TypeOK, world
<1> QED
  BY <1>1, <1>2, QuietStep

LEMMA CrashStep ==
  ASSUME JournalInv, NEW c \in Callers, Crash(c) PROVE JournalInv'
<1>1. crashes' \in 0 .. MaxCrashes
  BY CrashAssumption DEF JournalInv, TypeOK, Crash
<1> QED
  BY <1>1, EndStep DEF Crash

\* A decision: the call writes nothing, and relies on receipts from now on.
LEMMA DecideStep ==
  ASSUME JournalInv, NEW c \in Callers, NEW p \in {"intent", "terminal", "settle"},
         NEW n \in Ordinal, NEW o \in Status, Goto(c, p, n, o),
         UNCHANGED <<journal, world, crashes>>,
         CallAt(journal, answered, sent, p, n, o, request[c]), ~OwnsAt(p, o)
  PROVE JournalInv'
<1>1. /\ journal' = journal /\ sent' = sent /\ answered' = answered /\ delivered' = delivered
      /\ crashes' = crashes
  BY DEF world
<1>2. pc'[c] = p /\ attempt'[c] = n /\ out'[c] = o /\ request' = request /\ Others(c)
  BY GotoEffect DEF JournalInv
<1>3. TypeOK'
  BY <1>1, GotoType DEF JournalInv, TypeOK, Point
<1>4. RecordsOK'
  BY <1>1 DEF JournalInv, RecordsOK
<1>5. CallerOK(c)' /\ ~Owns(c)'
  BY <1>1, <1>2 DEF CallerOK, Owns
<1> QED
  BY <1>1, <1>2, <1>3, <1>4, <1>5, StepKeeps DEF JournalInv

\* What a call found is on disk, and of its own request unless it conflicts.
LEMMA Found ==
  ASSUME TypeOK, NEW c \in Callers
  PROVE  /\ seen[c] \subseteq journal /\ seen[c] \subseteq Event
         /\ \A e \in seen[c] : Open(c) => e.request = request[c]
  BY DEF TypeOK, Open, Conflicts

LEMMA ReportFinalStep ==
  ASSUME JournalInv, NEW c \in Callers, NEW e \in seen[c], ReportFinal(c, e) PROVE JournalInv'
<1>1. /\ e \in journal /\ e \in Event /\ e.request = request[c] /\ e.event = "terminal"
      /\ e.status \in {"success", "outcome_unknown"}
  BY Found DEF JournalInv, ReportFinal, Terminals
<1>2. e.ordinal \in Ordinal /\ e.status \in Status
  BY <1>1 DEF Event, Status
<1>3. Known(journal, request[c]) /\ HasOutcome(journal, e.ordinal, e.status)
  BY <1>1 DEF Known, HasOutcome, Terminals
<1>4. CallAt(journal, answered, sent, "settle", e.ordinal, e.status, request[c])
  BY <1>1, <1>3 DEF CallAt
<1>5. ~OwnsAt("settle", e.status)
  BY DEF OwnsAt
<1> QED
  BY <1>2, <1>4, <1>5, DecideStep DEF ReportFinal

LEMMA ExpireStep ==
  ASSUME JournalInv, NEW c \in Callers, Expire(c) PROVE JournalInv'
<1>1. PICK n \in Unmatched(seen[c]) : Goto(c, "terminal", n, "outcome_unknown")
  BY DEF Expire
<1>2. PICK e \in seen[c] : e.event = "intent" /\ e.ordinal = n
  BY DEF Unmatched
<1>3. n \in Ordinal
  BY DEF Unmatched
<1>4. e \in journal /\ e.request = request[c]
  BY Found DEF JournalInv, Expire, Undecided
<1>5. Known(journal, request[c]) /\ HasIntent(journal, n)
  BY <1>2, <1>4 DEF Known, HasIntent
<1>6. /\ CallAt(journal, answered, sent, "terminal", n, "outcome_unknown", request[c])
      /\ ~OwnsAt("terminal", "outcome_unknown")
  BY <1>5 DEF CallAt, OwnsAt
<1> QED
  BY <1>1, <1>3, <1>6, DecideStep DEF Expire, Status

\* An error on disk stands on the errors before it.
LEMMA ErrorStandsOnErrors ==
  ASSUME NEW j, NEW a, NEW s, Records(j, a, s), NEW n \in Ordinal, HasOutcome(j, n, "error")
  PROVE  ErrorsBefore(j, n + 1)
<1>1. HasIntent(j, n)
  BY DEF Records, HasOutcome, Terminals
<1>2. ErrorsBefore(j, n)
  BY <1>1 DEF Records, HasIntent
<1>3. \A m \in 1 .. (n + 1) - 1 : m = n \/ m \in 1 .. n - 1
  BY DEF Ordinal
<1> QED
  BY <1>2, <1>3 DEF ErrorsBefore

LEMMA ContinueStep ==
  ASSUME JournalInv, NEW c \in Callers, Continue(c) PROVE JournalInv'
<1> DEFINE first == FirstAttempt(seen[c])
<1>1. /\ first \in 1 .. Retries + 1
      /\ first > 1 => first - 1 \in ErrorOrdinals(seen[c])
  BY Found, FirstAttemptFollowsError DEF JournalInv
<1>2. ASSUME first > 1
      PROVE  /\ first - 1 \in Ordinal
             /\ HasOutcome(journal, first - 1, "error") /\ Known(journal, request[c])
  <2>1. PICK e \in Terminals(seen[c], "error") : e.ordinal = first - 1
    BY <1>1, <1>2 DEF ErrorOrdinals
  <2>2. /\ e \in seen[c] /\ e \in journal /\ e.request = request[c]
        /\ e \in Terminals(journal, "error")
    BY Found DEF Terminals, JournalInv, Continue, Undecided
  <2>3. first - 1 \in Ordinal
    BY <1>1, <1>2, RetriesAssumption DEF Ordinal
  <2> QED
    BY <2>1, <2>2, <2>3 DEF HasOutcome, Known
<1>3. ErrorsBefore(journal, first)
  <2>1. CASE first = 1
    BY <2>1 DEF ErrorsBefore
  <2>2. CASE first > 1
    <3>1. ErrorsBefore(journal, (first - 1) + 1)
      BY <1>2, <2>2, ErrorStandsOnErrors DEF JournalInv, RecordsOK
    <3>2. (first - 1) + 1 = first
      BY <1>1
    <3> QED
      BY <3>1, <3>2
  <2> QED
    BY <1>1, <2>1, <2>2
<1> HIDE DEF first
<1>4. CASE Exhausted(first)
  <2>1. first > 1 /\ first - 1 = Retries
    BY <1>1, <1>4, RetriesAssumption DEF Exhausted
  <2>2. CallAt(journal, answered, sent, "settle", Retries, "error", request[c])
    BY <1>2, <2>1 DEF CallAt
  <2>3. Retries \in Ordinal /\ ~OwnsAt("settle", "error")
    BY RetriesAssumption DEF Ordinal, OwnsAt
  <2>4. Goto(c, "settle", Retries, "error")
    BY <1>4 DEF Continue, first
  <2> QED
    BY <2>2, <2>3, <2>4, DecideStep DEF Continue, Status
<1>5. CASE ~Exhausted(first)
  <2>1. first \in Ordinal
    BY <1>1, <1>5, RetriesAssumption DEF Exhausted, Ordinal
  <2>2. CallAt(journal, answered, sent, "intent", first, "pending", request[c])
    BY <1>2, <1>3 DEF CallAt
  <2>3. ~OwnsAt("intent", "pending")
    BY DEF OwnsAt
  <2>4. Goto(c, "intent", first, "pending")
    BY <1>5 DEF Continue, first
  <2> QED
    BY <2>1, <2>2, <2>3, <2>4, DecideStep DEF Continue, Status
<1> QED
  BY <1>4, <1>5

\* The record a call writes is a receipt.
LEMMA RecordType ==
  ASSUME TypeOK, NEW c \in Callers
  PROVE  /\ Record(c, "intent", "pending") \in Event
         /\ \A st \in Status \ {"pending"} :
              Record(c, "terminal", st) \in Event /\ Record(c, "call_terminal", st) \in Event
  BY DEF TypeOK, Record, Event, Status

LEMMA PublishIntentStep ==
  ASSUME JournalInv, NEW c \in Callers, PublishIntent(c) PROVE JournalInv'
<1> DEFINE e == Record(c, "intent", "pending")
<1>1. CASE Claimed(e)
  BY <1>1, EndStep DEF PublishIntent, JournalInv, TypeOK
<1>2. CASE ~Claimed(e)
  <2>1. /\ journal' = journal \cup {e} /\ Goto(c, "send", attempt[c], "pending")
        /\ sent' = sent /\ answered' = answered /\ delivered' = delivered
        /\ crashes' = crashes /\ pc[c] = "intent"
    BY <1>2 DEF PublishIntent, world
  <2>2. /\ e \in Event /\ e.event = "intent" /\ e.ordinal = attempt[c]
        /\ e.request = request[c] /\ attempt[c] \in Ordinal /\ journal \subseteq Event
    BY RecordType DEF JournalInv, TypeOK, Record
  <2>3. \A f \in journal : ~SameId(f, e)
    BY <1>2 DEF Claimed
  <2>4. ~HasIntent(journal, attempt[c])
    BY <2>2, <2>3 DEF HasIntent, SameId
  <2>5. ErrorsBefore(journal, attempt[c]) /\ (attempt[c] > 1 => Known(journal, request[c]))
    BY <2>1 DEF JournalInv, CallerOK, CallAt
  <2>6. \A f \in journal : f.request = request[c]
    <3>1. CASE attempt[c] > 1
      BY <2>5, <3>1, KnownRequest DEF JournalInv
    <3>2. CASE ~(attempt[c] > 1)
      <4>1. attempt[c] = 1
        BY <2>2, <3>2 DEF Ordinal
      <4>2. ASSUME NEW f \in journal, f.event = "intent" PROVE FALSE
        <5>1. f.ordinal \in Ordinal /\ f.ordinal # 1
          BY <2>2, <2>4, <4>1, <4>2 DEF Event, HasIntent
        <5>2. 1 \in 1 .. f.ordinal - 1
          BY <5>1 DEF Ordinal
        <5>3. HasOutcome(journal, 1, "error")
          BY <4>2, <5>2 DEF JournalInv, RecordsOK, Records, ErrorsBefore
        <5> QED
          BY <2>4, <4>1, <5>3 DEF JournalInv, RecordsOK, Records, HasOutcome, Terminals
      <4>3. \A f \in journal : f.event # "terminal"
        BY <4>2 DEF JournalInv, RecordsOK, Records, HasIntent
      <4>4. \A f \in journal : f.event # "call_terminal"
        BY <4>3 DEF JournalInv, RecordsOK, Records, CallTerminals, HasOutcome, Terminals
      <4> QED
        BY <2>2, <4>2, <4>3, <4>4 DEF Event
    <3> QED
      BY <3>1, <3>2
  <2> HIDE DEF e
  <2>7. RecordsOK'
    BY <2>1, <2>2, <2>3, <2>5, <2>6, RecordAdded DEF JournalInv, RecordsOK
  <2>8. TypeOK'
    BY <2>1, <2>2, GotoType DEF JournalInv, TypeOK, Point, Status
  <2>9. /\ pc'[c] = "send" /\ attempt'[c] = attempt[c] /\ out'[c] = "pending"
        /\ request' = request /\ Others(c)
    BY <2>1, GotoEffect DEF JournalInv
  <2>10. sent[attempt[c]] = 0
    BY <2>2, <2>4 DEF JournalInv, TypeOK, RecordsOK, Records
  <2>11. HasIntent(journal', attempt[c]) /\ Known(journal', request[c])
    BY <2>1, <2>2 DEF HasIntent, Known
  <2>12. CallerOK(c)'
    BY <2>1, <2>9, <2>10, <2>11 DEF CallerOK, CallAt
  <2> QED
    BY <2>1, <2>4, <2>7, <2>8, <2>9, <2>12, StepKeeps DEF JournalInv
<1> QED
  BY <1>1, <1>2

LEMMA SendStep ==
  ASSUME JournalInv, NEW c \in Callers, NEW reached \in BOOLEAN, NEW valid \in BOOLEAN,
         Send(c, reached, valid)
  PROVE JournalInv'
<1> DEFINE o == IF valid THEN "success" ELSE "error"
<1>1. /\ pc[c] = "send" /\ journal' = journal /\ delivered' = delivered /\ crashes' = crashes
      /\ sent' = IF reached THEN [sent EXCEPT ![attempt[c]] = @ + 1] ELSE sent
      /\ answered' = IF valid THEN answered \cup {attempt[c]} ELSE answered
      /\ Goto(c, "terminal", attempt[c], o)
  BY DEF Send
<1>2. /\ attempt[c] \in Ordinal /\ sent \in [Ordinal -> Nat] /\ answered \subseteq Ordinal
      /\ delivered \in Nat /\ journal \subseteq Event /\ crashes \in 0 .. MaxCrashes
  BY DEF JournalInv, TypeOK
<1>3. /\ pc'[c] = "terminal" /\ attempt'[c] = attempt[c] /\ out'[c] = o
      /\ request' = request /\ Others(c)
  BY <1>1, GotoEffect DEF JournalInv
<1>4. /\ sent' \in [Ordinal -> Nat] /\ answered' \subseteq Ordinal /\ answered \subseteq answered'
      /\ \A n \in Ordinal \ {attempt[c]} : sent'[n] = sent[n]
      /\ sent'[attempt[c]] <= sent[attempt[c]] + 1
  BY <1>1, <1>2
<1>5. /\ HasIntent(journal, attempt[c]) /\ sent[attempt[c]] = 0
      /\ Known(journal, request[c])
  BY <1>1 DEF JournalInv, CallerOK, CallAt
<1>6. TypeOK'
  BY <1>1, <1>2, <1>4, GotoType DEF JournalInv, Point, Status
<1>7. RecordsOK'
  <2>1. \A n \in Ordinal : sent'[n] <= 1 /\ (sent'[n] > 0 => HasIntent(journal, n))
    BY <1>2, <1>4, <1>5 DEF JournalInv, RecordsOK, Records
  <2> QED
    BY <1>1, <1>4, <2>1 DEF JournalInv, RecordsOK, Records
<1>8. CallerOK(c)'
  BY <1>1, <1>2, <1>3, <1>5 DEF CallerOK, CallAt
<1>9. \A d \in Callers \ {c} : pc[d] = "send" => sent'[attempt[d]] = sent[attempt[d]]
  BY <1>1, <1>4 DEF JournalInv, TypeOK, Exclusive, Owns, OwnsAt
<1>10. Owns(c)
  BY <1>1 DEF Owns, OwnsAt
<1> QED
  BY <1>1, <1>3, <1>4, <1>6, <1>7, <1>8, <1>9, <1>10, StepKeeps DEF JournalInv

LEMMA PublishTerminalStep ==
  ASSUME JournalInv, NEW c \in Callers, PublishTerminal(c) PROVE JournalInv'
<1> DEFINE e == Record(c, "terminal", out[c])
           n == attempt[c]
<1>1. /\ pc[c] = "terminal" /\ sent' = sent /\ answered' = answered
      /\ delivered' = delivered /\ crashes' = crashes
  BY DEF PublishTerminal, world
<1>2. /\ HasIntent(journal, n) /\ out[c] # "pending" /\ Known(journal, request[c])
      /\ out[c] = "success" => n \in answered
  BY <1>1 DEF JournalInv, CallerOK, CallAt
<1>3. out[c] \in Status \ {"pending"} /\ n \in Ordinal
  BY <1>2 DEF JournalInv, TypeOK, Status
<1>4. CASE Collides(e)
  BY <1>4, EndStep DEF PublishTerminal, JournalInv, TypeOK
<1>5. CASE ~Collides(e)
  <2>1. /\ e \in Event /\ e.event = "terminal" /\ e.ordinal = n /\ e.status = out[c]
        /\ e.request = request[c] /\ journal \subseteq Event
    BY <1>3, RecordType DEF JournalInv, TypeOK, Record
  <2>2. journal' = journal \cup {e}
    BY <1>5 DEF PublishTerminal
  <2>3. PICK p \in Point, m \in Ordinal, o \in Status :
          /\ Goto(c, p, m, o)
          /\ \/ p = "deliver" /\ m = n /\ o = "success" /\ out[c] = "success"
             \/ p = "intent" /\ m = n + 1 /\ o = "pending" /\ out[c] = "error"
             \/ /\ p = "settle" /\ m = n /\ o = out[c]
                /\ out[c] = "error" => n = Retries
    <3>1. CASE out[c] = "success"
      <4>1. Goto(c, "deliver", n, "success")
        BY <1>5, <3>1 DEF PublishTerminal
      <4> QED
        BY <1>3, <3>1, <4>1 DEF Point, Status
    <3>2. CASE out[c] = "error" /\ ~Exhausted(n + 1)
      <4>1. Goto(c, "intent", n + 1, "pending")
        BY <1>5, <3>2 DEF PublishTerminal
      <4>2. n + 1 \in Ordinal
        BY <1>3, <3>2, RetriesAssumption DEF Exhausted, Ordinal
      <4> QED
        BY <3>2, <4>1, <4>2 DEF Point, Status
    <3>3. CASE ~(out[c] = "success") /\ ~(out[c] = "error" /\ ~Exhausted(n + 1))
      <4>1. Goto(c, "settle", n, out[c])
        BY <1>5, <3>3 DEF PublishTerminal
      <4>2. out[c] = "error" => n = Retries
        BY <1>3, <3>3, RetriesAssumption DEF Exhausted, Ordinal
      <4> QED
        BY <1>3, <4>1, <4>2 DEF Point, Status
    <3> QED
      BY <3>1, <3>2, <3>3
  <2> HIDE DEF e
  <2>4. RecordsOK'
    <3>1. CASE e \in journal
      <4>1. journal' = journal
        BY <2>2, <3>1
      <4> QED
        BY <1>1, <4>1 DEF JournalInv, RecordsOK
    <3>2. CASE e \notin journal
      <4>1. \A f \in journal : ~SameId(f, e)
        BY <1>5, <3>2 DEF Collides
      <4>2. \A f \in journal : f.request = e.request
        BY <1>2, <2>1, KnownRequest DEF JournalInv
      <4> QED
        BY <1>1, <1>2, <2>1, <2>2, <4>1, <4>2, RecordAdded DEF JournalInv, RecordsOK
    <3> QED
      BY <3>1, <3>2
  <2>5. TypeOK'
    BY <1>1, <2>1, <2>2, <2>3, GotoType DEF JournalInv, TypeOK
  <2>6. /\ pc'[c] = p /\ attempt'[c] = m /\ out'[c] = o /\ request' = request /\ Others(c)
    BY <2>3, GotoEffect DEF JournalInv
  <2>7. HasOutcome(journal', n, out[c]) /\ Known(journal', request[c])
    BY <2>1, <2>2 DEF HasOutcome, Known, Terminals
  <2>8. p = "intent" => ErrorsBefore(journal', m)
    BY <1>3, <2>3, <2>4, <2>7, ErrorStandsOnErrors DEF RecordsOK
  <2>9. CallerOK(c)'
    BY <2>3, <2>6, <2>7, <2>8 DEF CallerOK, CallAt
  <2>10. Owns(c)' => Owns(c) /\ attempt'[c] = attempt[c]
    BY <1>1, <2>3, <2>6 DEF Owns, OwnsAt
  <2> QED
    BY <1>1, <2>2, <2>4, <2>5, <2>6, <2>9, <2>10, StepKeeps DEF JournalInv
<1> QED
  BY <1>4, <1>5

\* The record of the operation, written by a call that knows its outcome.
LEMMA CallTerminalAdded ==
  ASSUME JournalInv, NEW c \in Callers, NEW st \in {"success", "error", "outcome_unknown"},
         Known(journal, request[c]), HasOutcome(journal, attempt[c], st),
         st = "error" => attempt[c] = Retries,
         ~Collides(Record(c, "call_terminal", st))
  PROVE  LET e == Record(c, "call_terminal", st)
         IN  /\ journal \cup {e} \subseteq Event
             /\ Records(journal \cup {e}, answered, sent)
<1> DEFINE e == Record(c, "call_terminal", st)
<1>1. /\ e \in Event /\ e.event = "call_terminal" /\ e.ordinal = attempt[c] /\ e.status = st
      /\ e.request = request[c] /\ journal \subseteq Event
  BY RecordType DEF JournalInv, TypeOK, Record, Status
<1>2. \A f \in journal : f.request = e.request
  BY <1>1, KnownRequest DEF JournalInv
<1> HIDE DEF e
<1>3. CASE e \in journal
  <2>1. journal \cup {e} = journal
    BY <1>3
  <2> QED
    BY <1>1, <2>1 DEF JournalInv, RecordsOK, e
<1>4. CASE e \notin journal
  <2>1. \A f \in journal : ~SameId(f, e)
    BY <1>4 DEF Collides, e
  <2>2. Records(journal \cup {e}, answered, sent)
    BY <1>1, <1>2, <2>1, RecordAdded DEF JournalInv, RecordsOK
  <2> QED
    BY <1>1, <2>2 DEF e
<1> QED
  BY <1>3, <1>4

LEMMA SettleStep ==
  ASSUME JournalInv, NEW c \in Callers, Settle(c) PROVE JournalInv'
<1>1. /\ pc[c] = "settle" /\ End(c) /\ sent' = sent /\ answered' = answered
      /\ delivered' = delivered /\ crashes' = crashes
  BY DEF Settle, world
<1>2. CASE Collides(Record(c, "call_terminal", out[c]))
  BY <1>2, EndStep DEF Settle, JournalInv, TypeOK
<1>3. CASE ~Collides(Record(c, "call_terminal", out[c]))
  <2>1. journal' = journal \cup {Record(c, "call_terminal", out[c])}
    BY <1>3 DEF Settle
  <2>2. /\ HasOutcome(journal, attempt[c], out[c]) /\ Known(journal, request[c])
        /\ out[c] = "error" => attempt[c] = Retries
    BY <1>1 DEF JournalInv, CallerOK, CallAt
  <2>3. out[c] \in {"success", "error", "outcome_unknown"}
    BY <2>2 DEF JournalInv, TypeOK, HasOutcome, Terminals, Event
  <2>4. journal' \subseteq Event /\ Records(journal', answered, sent)
    BY <1>3, <2>1, <2>2, <2>3, CallTerminalAdded
  <2>5. RecordsOK'
    BY <1>1, <2>4 DEF RecordsOK
  <2>6. TypeOK'
    BY <1>1, <2>1, <2>4, EndType DEF JournalInv, TypeOK
  <2>7. pc'[c] = "idle" /\ Others(c)
    BY <1>1, EndEffect DEF JournalInv
  <2>8. CallerOK(c)' /\ ~Owns(c)'
    BY <2>7 DEF CallerOK, CallAt, Owns, OwnsAt
  <2> QED
    BY <1>1, <2>1, <2>5, <2>6, <2>7, <2>8, StepKeeps DEF JournalInv
<1> QED
  BY <1>2, <1>3

LEMMA DeliverStep ==
  ASSUME JournalInv, NEW c \in Callers, Deliver(c) PROVE JournalInv'
<1> DEFINE e == Record(c, "call_terminal", "success")
<1>1. /\ pc[c] = "deliver" /\ End(c) /\ sent' = sent /\ answered' = answered
      /\ crashes' = crashes
  BY DEF Deliver
<1>2. CASE Collides(e)
  BY <1>1, <1>2, EndStep DEF Deliver, JournalInv, TypeOK, world
<1>3. CASE ~Collides(e)
  <2>1. journal' = journal \cup {e} /\ delivered' = delivered + 1
    BY <1>3 DEF Deliver
  <2>2. HasOutcome(journal, attempt[c], "success") /\ Known(journal, request[c])
    BY <1>1 DEF JournalInv, CallerOK, CallAt
  <2>3. journal' \subseteq Event /\ Records(journal', answered, sent)
    BY <1>3, <2>1, <2>2, CallTerminalAdded
  <2>4. RecordsOK'
    BY <1>1, <2>3 DEF RecordsOK
  <2>5. TypeOK'
    BY <1>1, <2>1, <2>3, EndType DEF JournalInv, TypeOK
  <2>6. pc'[c] = "idle" /\ Others(c)
    BY <1>1, EndEffect DEF JournalInv
  <2>7. CallerOK(c)' /\ ~Owns(c)'
    BY <2>6 DEF CallerOK, CallAt, Owns, OwnsAt
  <2>8. (\A d \in Callers : CallerOK(d)') /\ Exclusive'
    BY <1>1, <2>1, <2>4, <2>5, <2>6, <2>7, StepKeeps DEF JournalInv
  <2>9. PICK f \in Terminals(journal, "success") : f.ordinal = attempt[c]
    BY <2>2 DEF HasOutcome
  <2>10. \A d \in Callers \ {c} : Owns(d) => attempt[d] # f.ordinal
    BY <1>1, <2>9 DEF JournalInv, Exclusive, Owns, OwnsAt
  <2>11. delivered = 0
    <3> SUFFICES ASSUME delivered = 1 PROVE FALSE
      BY DEF JournalInv, DeliveredOK, TypeOK
    <3>1. PICK g \in Terminals(journal, "success") :
            \A d \in Callers : Owns(d) => attempt[d] # g.ordinal
      BY DEF JournalInv, DeliveredOK
    <3>2. g.ordinal # f.ordinal
      BY <1>1, <2>9, <3>1 DEF Owns, OwnsAt
    <3>3. f \in journal /\ g \in journal /\ f \in Event /\ g \in Event
      BY DEF Terminals, JournalInv, TypeOK
    <3>4. ASSUME NEW x \in Terminals(journal, "success"), NEW y \in Terminals(journal, "success"),
                 x.ordinal < y.ordinal, x \in Event, y \in Event
          PROVE  FALSE
      <4>1. HasIntent(journal, y.ordinal)
        BY DEF JournalInv, RecordsOK, Records, Terminals
      <4>2. ErrorsBefore(journal, y.ordinal)
        BY <4>1 DEF JournalInv, RecordsOK, Records, HasIntent
      <4>3. x.ordinal \in 1 .. y.ordinal - 1
        BY <3>4 DEF Event, Ordinal
      <4>4. PICK z \in Terminals(journal, "error") : z.ordinal = x.ordinal
        BY <4>2, <4>3 DEF ErrorsBefore, HasOutcome
      <4> QED
        BY <4>4 DEF JournalInv, RecordsOK, Records, SameId, Terminals
    <3>5. f.ordinal < g.ordinal \/ g.ordinal < f.ordinal
      BY <3>2, <3>3, RetriesAssumption DEF Event, Ordinal
    <3> QED
      BY <3>3, <3>4, <3>5
  <2>12. \E g \in CallTerminals(journal') : g.status = "success"
    <3>1. e.event = "call_terminal" /\ e.status = "success"
      BY DEF Record
    <3> QED
      BY <2>1, <3>1 DEF CallTerminals
  <2>13. \A d \in Callers : Owns(d)' => attempt'[d] # f.ordinal
    BY <2>6, <2>7, <2>10 DEF Others, Owns
  <2>14. f \in Terminals(journal', "success")
    BY <2>1 DEF Terminals
  <2>15. DeliveredOK'
    BY <2>1, <2>11, <2>12, <2>13, <2>14 DEF DeliveredOK
  <2> QED
    BY <2>4, <2>5, <2>8, <2>15 DEF JournalInv
<1> QED
  BY <1>2, <1>3

LEMMA JournalInvStep == JournalInv /\ [Next]_vars => JournalInv'
<1> SUFFICES ASSUME JournalInv, [Next]_vars PROVE JournalInv'
  OBVIOUS
<1>1. CASE UNCHANGED vars
  BY <1>1 DEF vars, world, JournalInv, TypeOK, RecordsOK, CallerOK, Exclusive, Owns, DeliveredOK
<1>2. ASSUME NEW c \in Callers, Step(c) PROVE JournalInv'
  <2>1. ASSUME RejectKnown(c) \/ Refuse(c) PROVE JournalInv'
    BY <2>1, EndStep DEF RejectKnown, Refuse, JournalInv, TypeOK
  <2> QED
    BY <1>2, <2>1, InvokeStep, ListStep, ReportFinalStep, ExpireStep, ContinueStep,
       PublishIntentStep, SendStep, PublishTerminalStep, SettleStep, DeliverStep DEF Step
<1>3. ASSUME NEW c \in Callers, Crash(c) PROVE JournalInv'
  BY <1>3, CrashStep
<1> QED
  BY <1>1, <1>2, <1>3 DEF Next

LEMMA JournalInvAlways == Spec => []JournalInv
  BY JournalInvInit, JournalInvStep, PTL DEF Spec

-----------------------------------------------------------------------------
(* Theorems *)

\* Every receipt and every variable of a call keeps its type, and what a call found is
\* on disk: no attempt beyond the last is ever recorded.
THEOREM JournalTypeCorrect == Spec => []TypeOK
  BY JournalInvAlways, PTL DEF JournalInv

\* The provider is asked at most once per attempt, and only behind a durable intent,
\* however many callers and processes ask, and wherever they die.
THEOREM RequestedOncePerAttempt == Spec => []OneRequestPerAttempt
<1>1. JournalInv => OneRequestPerAttempt
  BY DEF JournalInv, RecordsOK, Records, OneRequestPerAttempt, HasIntent
<1> QED
  BY <1>1, JournalInvAlways, PTL

\* An attempt is made only after all before it are known to have failed: neither an
\* unknown outcome nor a success is ever retried.
THEOREM NoBlindRetry == Spec => []RetriedOnlyAfterError
<1> SUFFICES ASSUME JournalInv PROVE RetriedOnlyAfterError
  BY JournalInvAlways, PTL
<1> SUFFICES ASSUME NEW e \in journal, e.event = "intent", e.ordinal > 1
             PROVE  /\ \E f \in Terminals(journal, "error") : f.ordinal = e.ordinal - 1
                    /\ \A f \in journal : f.event = "terminal" /\ f.ordinal < e.ordinal
                                          => f.status = "error"
  BY DEF RetriedOnlyAfterError
<1>1. journal \subseteq Event
  BY DEF JournalInv, TypeOK
<1>2. \A m \in 1 .. e.ordinal - 1 : \E f \in Terminals(journal, "error") : f.ordinal = m
  BY DEF JournalInv, RecordsOK, Records, ErrorsBefore, HasOutcome
<1>3. e.ordinal - 1 \in 1 .. e.ordinal - 1
  BY <1>1 DEF Event, Ordinal
<1>4. ASSUME NEW f \in journal, f.event = "terminal", f.ordinal < e.ordinal
      PROVE  f.status = "error"
  <2>1. f.ordinal \in 1 .. e.ordinal - 1
    BY <1>1, <1>4 DEF Event, Ordinal
  <2>2. PICK g \in Terminals(journal, "error") : g.ordinal = f.ordinal
    BY <1>2, <2>1
  <2> QED
    BY <1>4, <2>2 DEF JournalInv, RecordsOK, Records, SameId, Terminals
<1> QED
  BY <1>2, <1>3, <1>4

\* The record of the operation agrees with those of its attempts.
THEOREM OperationRecordAgrees == Spec => []CallTerminalAgrees
<1> SUFFICES ASSUME JournalInv PROVE CallTerminalAgrees
  BY JournalInvAlways, PTL
<1> SUFFICES ASSUME NEW e \in CallTerminals(journal)
             PROVE  /\ \E f \in Terminals(journal, e.status) : f.ordinal = e.ordinal
                    /\ \A f \in journal : f.event # "call_terminal" => f.ordinal <= e.ordinal
                    /\ Unmatched(journal) = {}
                    /\ e.status = "error" => e.ordinal = Retries
  BY DEF CallTerminalAgrees
<1>1. journal \subseteq Event /\ e \in Event
  BY DEF JournalInv, TypeOK, CallTerminals
<1>2. /\ \E f \in Terminals(journal, e.status) : f.ordinal = e.ordinal
      /\ e.status = "error" => e.ordinal = Retries
  BY DEF JournalInv, RecordsOK, Records, HasOutcome
<1>3. PICK last \in Terminals(journal, e.status) : last.ordinal = e.ordinal
  BY <1>2
<1>4. ASSUME NEW f \in journal, f.event = "intent" PROVE f.ordinal <= e.ordinal
  <2> SUFFICES ASSUME ~(f.ordinal <= e.ordinal) PROVE FALSE
    OBVIOUS
  <2>1. e.ordinal \in 1 .. f.ordinal - 1 /\ f.ordinal <= Retries
    BY <1>1, RetriesAssumption DEF Event, Ordinal
  <2>2. PICK g \in Terminals(journal, "error") : g.ordinal = e.ordinal
    BY <1>4, <2>1 DEF JournalInv, RecordsOK, Records, ErrorsBefore, HasOutcome
  <2>3. e.status = "error"
    BY <1>3, <2>2 DEF JournalInv, RecordsOK, Records, SameId, Terminals
  <2> QED
    BY <1>1, <1>2, <2>1, <2>3, RetriesAssumption DEF Event, Ordinal
<1>5. ASSUME NEW f \in journal, f.event = "terminal" PROVE f.ordinal <= e.ordinal
  BY <1>4, <1>5 DEF JournalInv, RecordsOK, Records, HasIntent
<1>6. \A f \in journal : f.event # "call_terminal" => f.ordinal <= e.ordinal
  BY <1>1, <1>4, <1>5 DEF Event
<1>7. Unmatched(journal) = {}
  <2> SUFFICES ASSUME NEW n \in Unmatched(journal) PROVE FALSE
    OBVIOUS
  <2>1. HasIntent(journal, n) /\ n \in Ordinal
        /\ ~ \E f \in journal : f.event = "terminal" /\ f.ordinal = n
    BY DEF Unmatched, HasIntent
  <2>2. n <= e.ordinal /\ n # e.ordinal
    BY <1>3, <1>4, <2>1 DEF HasIntent, Terminals
  <2>3. n \in 1 .. e.ordinal - 1
    BY <1>1, <2>1, <2>2 DEF Event, Ordinal
  <2>4. HasIntent(journal, e.ordinal)
    BY <1>3 DEF JournalInv, RecordsOK, Records, Terminals
  <2>5. HasOutcome(journal, n, "error")
    BY <2>3, <2>4 DEF JournalInv, RecordsOK, Records, HasIntent, ErrorsBefore
  <2> QED
    BY <2>1, <2>5 DEF HasOutcome, Terminals
<1> QED
  BY <1>2, <1>6, <1>7

\* A success on record is an answer the provider gave, and its content is handed out at
\* most once.
THEOREM ContentDeliveredOnce == Spec => []AnswerDeliveredOnce
<1>1. JournalInv => AnswerDeliveredOnce
  BY DEF JournalInv, RecordsOK, Records, DeliveredOK, AnswerDeliveredOnce
<1> QED
  BY <1>1, JournalInvAlways, PTL

\* An operation never holds receipts of two requests, whoever reuses its identifier.
THEOREM IdentifierHasOneRequest == Spec => []OneRequestIdentity
<1>1. JournalInv => OneRequestIdentity
  BY DEF JournalInv, RecordsOK, Records, OneRequestIdentity
<1> QED
  BY <1>1, JournalInvAlways, PTL
=============================================================================
