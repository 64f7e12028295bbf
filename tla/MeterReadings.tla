---------------------------- MODULE MeterReadings ----------------------------
(***************************************************************************)
(* The readings of one meter in the resource accounting service            *)
(* (src/resource-accounting/backend/app): reporting periods, direct input, *)
(* import, corrections with the recalculation of later months.             *)
(*                                                                         *)
(* A request reads, computes on its session's copies and commits.  Nothing *)
(* is locked meanwhile, and the session flushes at the end only            *)
(* (autoflush=False): a query on the way filters by what is committed, but *)
(* hands out the session's copies.  A commit writes the columns that       *)
(* changed against the copy read.                                          *)
(*                                                                         *)
(* "ok" stands for ok and warning, which both count as accepted.           *)
(***************************************************************************)
EXTENDS Integers, FiniteSetsExt

CONSTANTS
    Months,         \* numbers, in the order of time
    Values,         \* readings that are entered
    Capacity,       \* the highest reading the meter can show
    Editors,
    NoValue         \* no value, no reading, no period, no revision

VARIABLES
    period,     \* the status of each reporting period
    reading,    \* the reading of each month: value, kind, previous_value, status
    trail,      \* its latest revision: old_value, new_value
    meter,      \* the status of the meter
    drafts      \* what each session has computed and not committed

meterVars == <<period, reading, trail, meter, drafts>>

Statuses == {"open", "review", "submitted", "closed"}
EntryKinds == {"normal", "exempt"}   \* exempt: rollover, replacement and correction may go down
NoDraft == [op |-> "idle"]

Optional == Values \cup {NoValue}
Reading == [value : Optional, kind : EntryKinds, previous : Optional, status : {"ok", "error", "missing"}]
Revision == [old : Optional, new : Optional]

ReadingsAssumption ==
    /\ Months \subseteq Nat /\ Values \subseteq Nat /\ Capacity \in Nat
    /\ NoValue \notin Nat /\ NoValue \notin Statuses /\ NoValue \notin Reading /\ NoValue \notin Revision

\* A reading is of a month that has a period, a revision of a month that has a reading.
ReadingsTypeOK ==
    /\ period \in [Months -> Statuses \cup {NoValue}]
    /\ reading \in [Months -> Reading \cup {NoValue}] /\ trail \in [Months -> Revision \cup {NoValue}]
    /\ \A m \in Months : reading[m] # NoValue => period[m] # NoValue
    /\ \A m \in Months : trail[m] # NoValue => reading[m] # NoValue
    /\ meter \in {"active", "retired"}

ReadingsInit ==
    /\ period = [m \in Months |-> NoValue] /\ reading = [m \in Months |-> NoValue]
    /\ trail = [m \in Months |-> NoValue]
    /\ meter = "active" /\ drafts = [s \in Editors |-> NoDraft]

-----------------------------------------------------------------------------
(* Judging a value: get_previous_accepted, evaluate_value *)

Accepted(r) == r # NoValue /\ r.value # NoValue /\ r.status = "ok"

\* The latest accepted month before m: by the committed row; its value by the copy of
\* the session.
Base(copy, m) ==
    LET earlier == {k \in Months : k < m /\ Accepted(reading[k])} IN
    IF earlier = {} THEN NoValue ELSE copy[Max(earlier)].value

Judged(base, value, kind) ==
    [value |-> value, kind |-> kind, previous |-> base,
     status |-> IF value = NoValue THEN "missing"
                ELSE IF value > Capacity \/ (base # NoValue /\ value < base /\ kind = "normal") THEN "error"
                ELSE "ok"]

-----------------------------------------------------------------------------
(* Sessions *)

Computes(s, new, m, revision) ==
    /\ drafts' = [drafts EXCEPT ![s] = [op |-> "write", base |-> reading, new |-> new, m |-> m, rev |-> revision]]
    /\ UNCHANGED <<period, reading, trail, meter>>

ValueOf(r) == IF r = NoValue THEN NoValue ELSE r.value

\* upsert_reading: the revision only when the value differs from the one read
Enters(s, m, value, kind) ==
    /\ drafts[s] = NoDraft
    /\ period[m] \in {"open", "review"} /\ meter = "active"
    /\ Computes(s, [reading EXCEPT ![m] = Judged(Base(reading, m), value, kind)], m,
                IF ValueOf(reading[m]) # value THEN [old |-> ValueOf(reading[m]), new |-> value] ELSE NoValue)

PutReading(s, m) == \E value \in Values \cup {NoValue}, kind \in EntryKinds : Enters(s, m, value, kind)

\* build_preview and commit_rows: a row below the previous reading is left out
ImportReading(s, m) ==
    \E value \in Values \cup {NoValue} :
        /\ value # NoValue /\ Base(reading, m) # NoValue => value >= Base(reading, m)
        /\ Enters(s, m, value, "normal")

\* recompute_forward: the months after m that have a value and are not closed
Recomputed(copy, m) ==
    [n \in Months |->
        IF n > m /\ reading[n] # NoValue /\ period[n] # "closed" /\ ValueOf(reading[n]) # NoValue
        THEN Judged(Base(copy, n), reading[n].value, reading[n].kind) ELSE copy[n]]

\* create_correction, apply_correction
Correct(s, m) ==
    /\ drafts[s] = NoDraft
    /\ period[m] \in {"submitted", "closed"} /\ reading[m] # NoValue
    /\ \E value \in Values, kind \in EntryKinds :
        LET copy == [reading EXCEPT ![m] = Judged(Base(reading, m), value, kind)] IN
        Computes(s, Recomputed(copy, m), m, [old |-> reading[m].value, new |-> value])

\* STATUS_FLOW; a submission finds no reading in error
Flow == {<<"open", "review">>, <<"review", "open">>, <<"review", "submitted">>, <<"submitted", "closed">>}

Move(s, m, target) ==
    /\ drafts[s] = NoDraft
    /\ <<period[m], target>> \in Flow
    /\ target = "submitted" /\ reading[m] # NoValue => reading[m].status # "error"
    /\ drafts' = [drafts EXCEPT ![s] = [op |-> "move", m |-> m, target |-> target]]
    /\ UNCHANGED <<period, reading, trail, meter>>

\* Every column, changed or not.
WholeRow(now, base, new) == new

\* The columns that changed; of two first readings of a month the second is refused
\* (uq_readings_meter_period).
Merged(now, base, new) ==
    IF base = NoValue THEN new ELSE [f \in DOMAIN new |-> IF new[f] = base[f] THEN now[f] ELSE new[f]]

CommitDraft(s) ==
    LET job == drafts[s] IN
    /\ drafts' = [drafts EXCEPT ![s] = NoDraft]
    /\ \/ /\ job.op = "move"
          /\ period' = [period EXCEPT ![job.m] = job.target]
          /\ UNCHANGED <<reading, trail, meter>>
       \/ /\ job.op = "write"
          /\ job.base[job.m] = NoValue => reading[job.m] = NoValue
          /\ reading' = [n \in Months |-> IF job.new[n] = job.base[n] THEN reading[n]
                                      ELSE Merged(reading[n], job.base[n], job.new[n])]
          /\ trail' = IF job.rev = NoValue THEN trail ELSE [trail EXCEPT ![job.m] = job.rev]
          /\ UNCHANGED <<period, meter>>

\* 409 of the second first reading, any other error, the process dying
Abort(s) ==
    /\ drafts[s] # NoDraft
    /\ drafts' = [drafts EXCEPT ![s] = NoDraft]
    /\ UNCHANGED <<period, reading, trail, meter>>

CreatePeriod(m) ==
    /\ period[m] = NoValue
    /\ period' = [period EXCEPT ![m] = "open"]
    /\ UNCHANGED <<reading, trail, meter, drafts>>

\* archive_meter, and replace_meter, which goes on with a meter of its own
Retire ==
    /\ meter = "active" /\ meter' = "retired"
    /\ UNCHANGED <<period, reading, trail, drafts>>

ReadingsNext ==
    \/ \E s \in Editors :
        \/ \E m \in Months : PutReading(s, m) \/ ImportReading(s, m) \/ Correct(s, m)
        \/ \E m \in Months, target \in Statuses : Move(s, m, target)
        \/ CommitDraft(s) \/ Abort(s)
    \/ (\E m \in Months : CreatePeriod(m)) \/ Retire

ReadingsSpec == ReadingsInit /\ [][ReadingsNext]_meterVars

-----------------------------------------------------------------------------
\* ReadingRevision, append-only history of every change to a reading: its latest entry
\* names the value the reading has, unless it only confirmed the value it had read.
HistoryTold ==
    \A m \in Months : reading[m] # NoValue =>
        IF trail[m] = NoValue THEN reading[m].value = NoValue
        ELSE trail[m].old # trail[m].new => reading[m].value = trail[m].new

\* COR-02 (get_previous_accepted): a reading that failed validation is never the base of
\* a later one.  When a correction takes later months along, each rests on the latest
\* reading before it that is accepted then.
RestsOnAccepted(rows, n) ==
    LET earlier == {k \in Months : k < n /\ Accepted(rows[k])} IN
    rows[n].previous = IF earlier = {} THEN NoValue ELSE rows[Max(earlier)].value

ErrorsAreNoBase ==
    [][\A m, n \in Months :
        (m < n /\ reading[n] # NoValue /\ reading'[n] # reading[n] /\ reading'[m] # reading[m]) => RestsOnAccepted(reading', n)]_reading
=============================================================================
