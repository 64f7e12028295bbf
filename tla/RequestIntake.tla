---------------------------- MODULE RequestIntake ----------------------------
(***************************************************************************)
(* How a request comes into being without a form: from a message in a      *)
(* monitored Telegram group, confirmed by its author with a button         *)
(* (handlers/group_intake.py), and from an alert of InfraSafe              *)
(* (services/inbound_alert.py).  Both take the next number of the day and  *)
(* insert the request in one transaction.                                  *)
(*                                                                         *)
(* A handler is cut at its calls to Redis and to the database.  Redis may  *)
(* fail at any of them: the helpers of the group then answer "no", the     *)
(* replay check of the webhook answers "new".                              *)
(***************************************************************************)
EXTENDS Integers, FiniteSets, FiniteSetsExt

CONSTANTS
    Messages,       \* messages that pass the prefilter
    EventIds,       \* event ids of InfraSafe
    Alerts,         \* those that ask for a request (REQUEST_CREATING_EVENTS)
    Handlers,       \* handlers that run at a time
    MaxPrompts,     \* bound: prompts sent to the group
    MaxNumber,      \* bound: numbers of the day
    MaxSwitches     \* bound: changes of the registry and of the author's account

IntakeAssumption ==
    /\ Alerts \subseteq EventIds
    /\ Messages \cap EventIds = {} /\ "none" \notin Messages /\ "elsewhere" \notin Messages \cup EventIds
    /\ {MaxPrompts, MaxNumber, MaxSwitches} \subseteq Nat /\ MaxNumber > 0

VARIABLES
    group,          \* the group in the registry: its kind, or "off"
    standing,       \* the kinds whose gate the author passes
    switches,       \* changes of the two so far
    known,          \* gint:seen:<message>, kept as long as Telegram repeats
    sent,           \* the prompts: of which message, of which kind, with a choice of addresses or not
    cand,           \* gint:cand:<prompt>: none, picking (no address yet), ready
    nonce,          \* webhook:inbound:nonce:<event>
    inbox,          \* webhook_inbox: events with the number of their request (0: ignored)
    requests,       \* the numbers of the day in the requests table
    counter,        \* request_number_counters of the day, 0 when there is no row
    made,           \* history: every request ever committed, with its source
    declined,       \* history: prompts whose candidate was taken by "no" or "other address"
    calls           \* what each handler does

intakeVars == <<group, standing, switches, known, sent, cand, nonce, inbox, requests, counter, made, declined, calls>>
redis == <<known, cand, nonce>>
tables == <<inbox, requests, counter, made>>
people == <<group, standing, switches>>

Kinds == {"residents", "staff"}
Prompts == 1 .. MaxPrompts
NoJob == [at |-> "idle"]

Sets(h, job) == calls' = [calls EXCEPT ![h] = job]
Ends(h) == Sets(h, NoJob)
NoPrompt == [m |-> "none", kind |-> "residents", choice |-> FALSE]

IntakeInit ==
    /\ group \in Kinds /\ standing = Kinds /\ switches = 0
    /\ known = {} /\ nonce = {} /\ inbox = {}
    /\ sent = [p \in Prompts |-> NoPrompt]
    /\ cand = [p \in Prompts |-> "none"]
    \* the day may already have a request of the generator before this one
    /\ requests \in {{}, {1}} /\ counter = 0
    /\ made = {} /\ declined = {}
    /\ calls = [h \in Handlers |-> NoJob]

-----------------------------------------------------------------------------
(* Messages: group_message_entry *)

\* The registry is read on every message; in a staff group the author's gate
\* stands before everything else.
Arrive(h, m) ==
    /\ calls[h] = NoJob
    /\ group # "off"
    /\ group = "staff" => "staff" \in standing
    /\ Sets(h, [at |-> "fresh", m |-> m, kind |-> group])
    /\ UNCHANGED <<people, redis, tables, sent, declined>>

\* mark_seen: SET NX, "no" when Redis fails
Unseen(m) == m \notin known

MarkSeen(h) ==
    LET job == calls[h] IN
    /\ job.at = "fresh"
    /\ Unseen(job.m)
    /\ known' = known \cup {job.m}
    /\ Sets(h, [job EXCEPT !.at = "classified"])
    /\ UNCHANGED <<people, cand, nonce, tables, sent, declined>>

\* The gate of a resident; a staff message has an address of the directory or
\* several to choose from.  The prompt is sent before anything is stored.
SendPrompt(h) ==
    LET job == calls[h] IN
    /\ job.at = "classified"
    /\ job.kind = "residents" => "residents" \in standing
    /\ \E p \in Prompts, choice \in BOOLEAN :
        /\ sent[p] = NoPrompt /\ \A q \in 1 .. p - 1 : sent[q] # NoPrompt
        /\ choice => job.kind = "staff"
        /\ sent' = [sent EXCEPT ![p] = [m |-> job.m, kind |-> job.kind, choice |-> choice]]
        /\ Sets(h, [at |-> "prompted", p |-> p])
    /\ UNCHANGED <<people, redis, tables, declined>>

StoreCandidate(h) ==
    LET prompt == calls[h].p IN
    /\ calls[h].at = "prompted"
    /\ cand' = [cand EXCEPT ![prompt] = IF sent[prompt].choice THEN "picking" ELSE "ready"]
    /\ Ends(h)
    /\ UNCHANGED <<people, known, nonce, tables, sent, declined>>

-----------------------------------------------------------------------------
(* Buttons: group_intake_callback, pressed by the author *)

Press(h, p, button) ==
    /\ calls[h] = NoJob
    /\ cand[p] # "none"
    /\ button = "pick" => sent[p].kind = "staff" /\ cand[p] = "picking"
    /\ button = "other" => sent[p].kind = "residents"
    /\ button = "yes" => cand[p] = "ready"
    /\ Sets(h, [at |-> button, p |-> p])
    /\ UNCHANGED <<people, redis, tables, sent, declined>>

\* _handle_address_pick: the candidate is written under the same key
PickAddress(h) ==
    /\ calls[h].at = "pick"
    /\ cand' = [cand EXCEPT ![calls[h].p] = "ready"]
    /\ Ends(h)
    /\ UNCHANGED <<people, known, nonce, tables, sent, declined>>

\* pop_candidate: GETDEL.  "no" and "other" do not look at what it returned.
Decline(h) ==
    LET prompt == calls[h].p IN
    /\ calls[h].at \in {"no", "other"}
    /\ cand' = [cand EXCEPT ![prompt] = "none"]
    /\ declined' = declined \cup (IF cand[prompt] = "none" THEN {} ELSE {prompt})
    /\ Ends(h)
    /\ UNCHANGED <<people, known, nonce, tables, sent>>

Stands(p) == cand[p] # "none"

Confirm(h) ==
    LET prompt == calls[h].p IN
    /\ calls[h].at = "yes"
    /\ IF Stands(prompt) THEN Sets(h, [at |-> "popped", p |-> prompt]) ELSE Ends(h)
    /\ cand' = [cand EXCEPT ![prompt] = "none"]
    /\ UNCHANGED <<people, known, nonce, tables, sent, declined>>

\* _regate_sync: the group as it was, the author still in good standing
Regate(h) ==
    LET prompt == calls[h].p IN
    /\ calls[h].at = "popped"
    /\ IF group = sent[prompt].kind /\ group \in standing
       THEN Sets(h, [at |-> "allowed", source |-> sent[prompt].m, p |-> prompt])
       ELSE Ends(h)
    /\ UNCHANGED <<people, redis, tables, sent, declined>>

-----------------------------------------------------------------------------
(* Alerts: receive_infrasafe_alert, handle_infrasafe_alert *)

\* is_replay comes first: SET NX, "not a replay" when Redis fails
DeliverAlert(h, e) ==
    /\ calls[h] = NoJob
    /\ \E fails \in BOOLEAN :
        /\ nonce' \in {nonce \cup {e}} \cup (IF fails THEN {nonce} ELSE {})
        /\ Sets(h, [at |-> "delivered", e |-> e, replay |-> ~fails /\ e \in nonce])
    /\ UNCHANGED <<people, known, cand, tables, sent, declined>>

Received(e) == \E row \in inbox : row.event = e

\* A known event is answered 409; an event that asks for no request is recorded; an
\* alert of an unknown building is refused before anything is written (Fail).
LookUp(h) ==
    LET job == calls[h] IN
    /\ job.at = "delivered"
    /\ Sets(h, IF job.replay \/ Received(job.e) THEN NoJob
               ELSE [at |-> IF job.e \in Alerts THEN "allowed" ELSE "ignored",
                     source |-> job.e, p |-> 0])
    /\ UNCHANGED <<people, redis, tables, sent, declined>>

\* The unique index answers a second row with an error.
Ignore(h) ==
    LET e == calls[h].source IN
    /\ calls[h].at = "ignored"
    /\ inbox' = IF Received(e) THEN inbox ELSE inbox \cup {[event |-> e, number |-> 0]}
    /\ Ends(h)
    /\ UNCHANGED <<people, redis, requests, counter, made, sent, declined>>

-----------------------------------------------------------------------------
(* Numbers and requests: next_number, save_request_sync, _create_request *)

\* The generator this one replaced, which may give the number of a deleted request again.
NextFree == 1 + Max(requests \cup {0})

\* One statement: the first of the day starts after the highest number in the table,
\* every later one counts on.  The row stays locked until the transaction ends.
NextNumber == IF counter = 0 THEN NextFree ELSE counter + 1
CounterFree == \A h \in Handlers : calls[h].at # "numbered"

TakeNumber(h) ==
    LET job == calls[h] IN
    /\ job.at = "allowed"
    /\ CounterFree /\ NextNumber <= MaxNumber
    /\ Sets(h, [at |-> "numbered", source |-> job.source, p |-> job.p, n |-> NextNumber])
    /\ UNCHANGED <<people, redis, tables, sent, declined>>

Adds(n, source, p) ==
    /\ requests' = requests \cup {n}
    /\ counter' = n
    /\ made' = made \cup {[number |-> n, source |-> source, p |-> p]}

CommitRequest(h) ==
    LET job == calls[h] IN
    /\ job.at = "numbered"
    /\ IF job.source \in EventIds /\ Received(job.source)
       THEN UNCHANGED tables
       ELSE /\ Adds(job.n, job.source, job.p)
            /\ inbox' = IF job.source \in EventIds
                        THEN inbox \cup {[event |-> job.source, number |-> job.n]} ELSE inbox
    /\ Ends(h)
    /\ UNCHANGED <<people, redis, sent, declined>>

-----------------------------------------------------------------------------
(* What else happens *)

\* The form of the bot, the web, the call centre: number and row in one transaction.
CreateElsewhere ==
    /\ CounterFree /\ NextNumber <= MaxNumber
    /\ Adds(NextNumber, "elsewhere", 0)
    /\ UNCHANGED <<people, redis, inbox, sent, declined, calls>>

\* delete_request_cascade, delete_request
Delete(n) ==
    /\ n \in requests
    /\ requests' = requests \ {n}
    /\ UNCHANGED <<people, redis, inbox, counter, made, sent, declined, calls>>

\* CANDIDATE_TTL of an hour, _REPLAY_TTL_SEC of ten minutes
Expire ==
    /\ \/ \E p \in Prompts : cand[p] # "none" /\ cand' = [cand EXCEPT ![p] = "none"] /\ UNCHANGED nonce
       \/ \E e \in nonce : nonce' = nonce \ {e} /\ UNCHANGED cand
    /\ UNCHANGED <<people, known, tables, sent, declined, calls>>

\* Another message, a classifier or gate that says no, Redis or the database failing, an
\* address refused, the process dying: the transaction rolls back, the handler is over.
Fail(h) ==
    /\ calls[h] # NoJob
    /\ Ends(h)
    /\ UNCHANGED <<people, redis, tables, sent, declined>>

\* A manager edits the registry; the author's account changes.
Switch ==
    /\ switches < MaxSwitches
    /\ switches' = switches + 1
    /\ \/ \E g \in Kinds \cup {"off"} : group' = g /\ UNCHANGED standing
       \/ \E s \in SUBSET Kinds : standing' = s /\ UNCHANGED group
    /\ UNCHANGED <<redis, tables, sent, declined, calls>>

IntakeNext ==
    \/ \E h \in Handlers :
        \/ \E m \in Messages : Arrive(h, m)
        \/ \E p \in Prompts, b \in {"yes", "no", "other", "pick"} : Press(h, p, b)
        \/ \E e \in EventIds : DeliverAlert(h, e)
        \/ MarkSeen(h) \/ SendPrompt(h) \/ StoreCandidate(h)
        \/ PickAddress(h) \/ Decline(h) \/ Confirm(h) \/ Regate(h)
        \/ LookUp(h) \/ Ignore(h) \/ TakeNumber(h) \/ CommitRequest(h) \/ Fail(h)
    \/ CreateElsewhere \/ (\E n \in requests : Delete(n)) \/ Expire \/ Switch

IntakeSpec == IntakeInit /\ [][IntakeNext]_intakeVars

-----------------------------------------------------------------------------
\* Jobs and rows keep to their kinds, and one transaction at most holds the day's counter.
IntakeTypeOK ==
    /\ group \in Kinds \cup {"off"} /\ standing \subseteq Kinds
    /\ known \subseteq Messages /\ nonce \subseteq EventIds
    /\ cand \in [Prompts -> {"none", "picking", "ready"}]
    /\ requests \subseteq 1 .. MaxNumber /\ counter \in 0 .. MaxNumber
    /\ Cardinality({h \in Handlers : calls[h].at = "numbered"}) <= 1

\* The prompts with a choice of addresses are left out: two presses of a choice may
\* write the candidate again after it was taken.
Plain(r) == r.p = 0 \/ ~sent[r.p].choice

\* mark_seen, pop_candidate and webhook_inbox: a message and an alert become one request
\* at most, over repeated deliveries, double presses and failures of Redis.
OneRequestEach ==
    \A r, s \in made : (r.source = s.source /\ r.source # "elsewhere" /\ Plain(r) /\ Plain(s)) => r = s

\* No request comes from a candidate that "no" or "other address" took.
NoIsNo == \A r \in made : r.p \in declined => ~Plain(r)

\* request_number_counters: a number is given once, also after its request was deleted.
NumberedOnce == \A r, s \in made : r.number = s.number => r = s

\* The inbox names the request of every alert, and no other.
InboxTrue == {[event |-> r.source, number |-> r.number] : r \in {s \in made : s.source \in EventIds}}
             = {row \in inbox : row.number # 0}

\* The four together: a message and an alert become one request at most, a candidate that
\* "no" took becomes none, and no number is given twice, over repeated deliveries, double
\* presses, failures of Redis and deletions.
AskedOnce == OneRequestEach /\ NoIsNo /\ NumberedOnce /\ InboxTrue
=============================================================================
