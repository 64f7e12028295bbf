--------------------------- MODULE Reconciliation ---------------------------
(***************************************************************************)
(* The requests as InfraSafe knows them, and the hourly comparison that    *)
(* repairs what its webhooks lost (services/reconciliation).  Changes are  *)
(* announced through the outbox, or not at all while webhooks are off.     *)
(* A run fetches the remote inventory, tries a session-level advisory      *)
(* lock, compares, and announces the oldest missing requests again; the    *)
(* lock is given back after the commit, on whatever pooled connection the  *)
(* session draws then.  The inventory of buildings is compared in the same *)
(* way.  InfraSafe is external: it takes an announcement in once per       *)
(* event_id, creates an entry for a creation and a repair, and only        *)
(* updates one for a change.                                               *)
(***************************************************************************)
EXTENDS Naturals, FiniteSets

CONSTANTS
    Requests,      \* numbered in the order of their creation
    MaxStatus,     \* bound: states a request goes through, 1, 2, ...
    Workers,       \* processes of the API
    Connections,   \* <<worker, name>>: the connections of each process's pool
    NoConnection,
    ReplayCap,     \* REPLAY_CAP
    RunIds,        \* pool of repair_run_id; a run draws one nobody refers to
    Refused,       \* requests whose announcements InfraSafe refuses for good
    MaxLosses,     \* bound: announcements given up, entries InfraSafe loses, inventories with orphans
    MaxDeploys     \* bound: restarts that switch webhooks on or off

ReconciliationAssumption ==
    /\ Requests \subseteq Nat /\ IsFiniteSet(Requests) /\ Refused \subseteq Requests
    /\ {MaxLosses, MaxDeploys} \subseteq Nat /\ {MaxStatus, ReplayCap} \subseteq Nat \ {0}
    /\ Connections \subseteq Workers \X STRING /\ NoConnection \notin Connections
    /\ RunIds \subseteq Nat \ {0}

VARIABLES
    local,      \* state of a request here; 0: not created
    remote,     \* state InfraSafe has for it; 0: unknown there
    enabled,    \* INFRASAFE_WEBHOOK_ENABLED
    queue,      \* the outbox: events not yet delivered or given up
    seen,       \* event ids InfraSafe remembers
    lock,       \* who holds the advisory lock, and how many times
    run,        \* the run of each process
    losses, deploys

reconciliationVars == <<local, remote, enabled, queue, seen, lock, run, losses, deploys>>

State == 0..MaxStatus
Event == [kind : {"created", "changed", "repair"}, req : Requests, status : State, run : RunIds \cup {0}]
Run == [at : {"idle", "fetched", "locked", "committed"}, known : SUBSET Requests, orphans : BOOLEAN,
        rows : [Requests -> State], conn : Connections \cup {NoConnection}]

Idle == [at |-> "idle", known |-> {}, orphans |-> FALSE, rows |-> [r \in Requests |-> 0],
         conn |-> NoConnection]
Unlocked == [conn |-> NoConnection, times |-> 0]

ReconciliationInit ==
    /\ local = [r \in Requests |-> 0] /\ remote = local
    /\ enabled = TRUE /\ queue = {} /\ seen = {}
    /\ lock = Unlocked
    /\ run = [w \in Workers |-> Idle]
    /\ losses = 0 /\ deploys = 0

\* The uuid5 of an announcement: a change goes by its version, a repair by its run.
Id(e) == <<e.kind, e.req, IF e.kind = "changed" THEN e.status ELSE 0, e.run>>

\* _skip_if_disabled; ON CONFLICT (event_id) DO NOTHING.
Enqueued(events) ==
    IF enabled
    THEN queue \cup {e \in events : \A f \in queue : Id(f) # Id(e)}
    ELSE queue

-----------------------------------------------------------------------------
Create(r) ==
    /\ local[r] = 0 /\ \A q \in Requests : q < r => local[q] # 0
    /\ local' = [local EXCEPT ![r] = 1]
    /\ queue' = Enqueued({[kind |-> "created", req |-> r, status |-> 1, run |-> 0]})
    /\ UNCHANGED <<remote, enabled, seen, lock, run, losses, deploys>>

Change(r) ==
    /\ local[r] \in 1..(MaxStatus - 1)
    /\ local' = [local EXCEPT ![r] = @ + 1]
    /\ queue' = Enqueued({[kind |-> "changed", req |-> r, status |-> local[r] + 1, run |-> 0]})
    /\ UNCHANGED <<remote, enabled, seen, lock, run, losses, deploys>>

\* Batches are posted concurrently and retried later: any order.
Deliver(e) ==
    /\ enabled /\ e \in queue /\ e.req \notin Refused
    /\ queue' = queue \ {e}
    /\ seen' = seen \cup {Id(e)}
    /\ remote' = IF Id(e) \notin seen /\ (e.kind # "changed" \/ remote[e.req] # 0)
                 THEN [remote EXCEPT ![e.req] = e.status] ELSE remote
    /\ UNCHANGED <<local, enabled, lock, run, losses, deploys>>

\* Refused, or given up after the last attempt.
GiveUp(e) ==
    /\ enabled /\ e \in queue
    /\ IF e.req \in Refused THEN losses' = losses ELSE losses < MaxLosses /\ losses' = losses + 1
    /\ queue' = queue \ {e}
    /\ UNCHANGED <<local, remote, enabled, seen, lock, run, deploys>>

RemoteForgets(r) ==
    /\ remote[r] # 0 /\ losses < MaxLosses
    /\ remote' = [remote EXCEPT ![r] = 0] /\ losses' = losses + 1
    /\ UNCHANGED <<local, enabled, queue, seen, lock, run, deploys>>

\* The flag is changed by restarting the processes.
Deploy ==
    /\ deploys < MaxDeploys /\ deploys' = deploys + 1
    /\ enabled' = ~enabled
    /\ run' = [w \in Workers |-> Idle] /\ lock' = Unlocked
    /\ UNCHANGED <<local, remote, queue, seen, losses>>

-----------------------------------------------------------------------------
Pool(w) == {c \in Connections : c[1] = w}

\* InfraSafe may also list numbers that are not requests here: orphans.
Fetch(w) ==
    /\ enabled /\ run[w].at = "idle"
    /\ \E some \in BOOLEAN :
          /\ IF some THEN losses < MaxLosses /\ losses' = losses + 1 ELSE losses' = losses
          /\ run' = [run EXCEPT ![w] = [@ EXCEPT !.at = "fetched", !.orphans = some,
                                                 !.known = {r \in Requests : remote[r] # 0}]]
    /\ UNCHANGED <<local, remote, enabled, queue, seen, lock, deploys>>

\* Mutant: the lock is taken whoever has it.
LockFreeToAll(c) == TRUE

\* The session that has the lock may take it again.
LockFree(c) == lock.conn \in {c, NoConnection}

Again(c) == [conn |-> c, times |-> lock.times + 1]

\* pg_advisory_unlock on a session that does not hold the lock does nothing.
GivenBack(c) == IF lock.conn # c THEN lock
                ELSE IF lock.times = 1 THEN Unlocked ELSE [lock EXCEPT !.times = @ - 1]

Compare(w, c) ==
    /\ run[w].at = "fetched"
    /\ IF LockFree(c)
       THEN /\ lock' = Again(c)
            /\ run' = [run EXCEPT ![w] = [@ EXCEPT !.at = "locked", !.rows = local, !.conn = c]]
       ELSE run' = [run EXCEPT ![w] = Idle] /\ UNCHANGED lock
    /\ UNCHANGED <<local, remote, enabled, queue, seen, losses, deploys>>

Missing(w) == {r \in Requests : run[w].rows[r] # 0} \ run[w].known

Oldest(rs) == {r \in rs : Cardinality({q \in rs : q < r}) < ReplayCap}

\* Mutant: every run repairs under the same identity.
SameRun(n) == 0
RunId(n) == n

Fresh == {n \in RunIds : \A e \in queue : e.run # n}

\* A name drawn again stands for an identity InfraSafe has not seen.
Forgotten(n) == {i \in seen : i[4] # n}

Differs(w) == Missing(w) # {} \/ run[w].orphans

\* Orphans are reported and stay; the run commits all the same.
Repair(w) ==
    /\ run[w].at = "locked" /\ Differs(w)
    /\ \E n \in Fresh :
          /\ \A m \in Fresh : n <= m
          /\ queue' = Enqueued({[kind |-> "repair", req |-> r, status |-> run[w].rows[r], run |-> RunId(n)]
                                   : r \in Oldest(Missing(w))})
          /\ seen' = Forgotten(n)
    /\ run' = [run EXCEPT ![w].at = "committed", ![w].conn = NoConnection]
    /\ UNCHANGED <<local, remote, enabled, lock, losses, deploys>>

\* The inventories agree: no commit, and the session still has its connection.
InSync(w) ==
    /\ run[w].at = "locked" /\ ~Differs(w)
    /\ lock' = GivenBack(run[w].conn)
    /\ run' = [run EXCEPT ![w] = Idle]
    /\ UNCHANGED <<local, remote, enabled, queue, seen, losses, deploys>>

\* After the commit the unlock is sent on a connection drawn anew.
Unlock(w, c) ==
    /\ run[w].at = "committed"
    /\ lock' = GivenBack(c)
    /\ run' = [run EXCEPT ![w] = Idle]
    /\ UNCHANGED <<local, remote, enabled, queue, seen, losses, deploys>>

\* The pool closes a connection that is too old; its locks go with it.
Recycle(c) ==
    /\ lock.conn = c /\ \A w \in Workers : run[w].conn # c
    /\ lock' = Unlocked
    /\ UNCHANGED <<local, remote, enabled, queue, seen, run, losses, deploys>>

RunStep(w) ==
    \/ Fetch(w) \/ Repair(w) \/ InSync(w)
    \/ \E c \in Pool(w) : Compare(w, c) \/ Unlock(w, c)

ReconciliationNext ==
    \/ \E r \in Requests : Create(r) \/ Change(r) \/ RemoteForgets(r)
    \/ \E e \in queue : Deliver(e) \/ GiveUp(e)
    \/ Deploy
    \/ \E w \in Workers : RunStep(w)
    \/ \E c \in Connections : Recycle(c)

ReconciliationSpec == ReconciliationInit /\ [][ReconciliationNext]_reconciliationVars

\* Every process compares once an hour, the outbox delivers or gives up each
\* event, and the pool recycles its connections.
ReconciliationFairness ==
    /\ \A w \in Workers : WF_reconciliationVars(RunStep(w))
    /\ \A r \in Requests : WF_reconciliationVars(\E e \in queue : e.req = r /\ (Deliver(e) \/ GiveUp(e)))
    /\ \A c \in Connections : SF_reconciliationVars(Recycle(c))

ReconciliationFairSpec == ReconciliationSpec /\ ReconciliationFairness

-----------------------------------------------------------------------------
ReconciliationTypeOK ==
    /\ local \in [Requests -> State] /\ remote \in [Requests -> State]
    /\ enabled \in BOOLEAN
    /\ queue \subseteq Event
    /\ seen \subseteq {"created", "changed", "repair"} \X Requests \X State \X (RunIds \cup {0})
    /\ lock \in [conn : Connections \cup {NoConnection}, times : Nat]
    /\ run \in [Workers -> Run]
    /\ losses \in 0..MaxLosses /\ deploys \in 0..MaxDeploys

\* At most one process compares at a time, although the lock may be given
\* back on the wrong connection and taken again on the right one.
OneAtATime ==
    \A v, w \in Workers : run[v].at = "locked" /\ run[w].at = "locked" => v = w

\* Whatever was lost, every request InfraSafe does not refuse gets to be
\* known there, once webhooks stay on.
EveryRequestArrives ==
    <>[]enabled => \A r \in Requests \ Refused : local[r] # 0 ~> remote[r] # 0

=============================================================================
