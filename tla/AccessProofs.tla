----------------------------- MODULE AccessProofs -----------------------------
(***************************************************************************)
(* Theorems about access control, for any controllers, commands, reviews,  *)
(* operators, events, gates and plates.                                    *)
(*                                                                         *)
(* Barrier commands: whether or not the memory of the edge outlives its    *)
(* restarts, and whatever a restart interrupts.  The invariant ties every  *)
(* answer, sent or about to be sent, to what the edge remembers or has     *)
(* lost, and that to what the relay did.                                   *)
(*                                                                         *)
(* Manual reviews: types, the hash chain, and, as long as the barrier      *)
(* keeps its state, that the transactions implement the life of a review   *)
(* (ReviewLifecycle).                                                      *)
(*                                                                         *)
(* Ingestion of camera events: types, what a pass pays, and the one        *)
(* decision on a passage that several cameras report.                      *)
(***************************************************************************)
EXTENDS BarrierCommands, AccessReviews, AccessIngestion,
        FiniteSetTheorems, SequenceTheorems, WellFoundedInduction, TLAPS

-----------------------------------------------------------------------------
(* Barrier commands *)

\* A command that was never handed over carries no lease, and a relay that was
\* tried has told what it did.
Unleased == \A c \in Commands : cmd[c].status \in {"absent", "pending"} => cmd[c].lease = 0
Told(a) ==
    /\ a.at = "moved" => a.result \in {"opened", "failed"}
    /\ a.at = "answer" => a.result \in Result
RelayTold == \A k \in Controllers : Told(edge[k])

BarrierTInv == TypeOK /\ Unleased /\ RelayTold

LEMMA BarrierInit == ASSUME BarrierAssumption, Init PROVE BarrierTInv
<1>1. (CHOOSE c \in Commands : TRUE) \in Commands
  BY DEF BarrierAssumption
<1>2. QED
  BY <1>1 DEF BarrierAssumption, Init, BarrierTInv, TypeOK, Unleased, RelayTold, Told, Row, Activity, Result

\* A step that keeps the edge: what remains to be shown is the table.
LEMMA TableStep ==
  ASSUME BarrierTInv, UNCHANGED <<edge, store, acks, opens, lapses>>,
         cmd' \in [Commands -> Row], queue' \in Seq(Commands),
         clock' \in [Commands -> {"fresh", "near", "expired"}], overdue' \subseteq Commands,
         replies' \in [Commands -> 0..ReplyBound], Unleased'
  PROVE  BarrierTInv'
BY DEF BarrierTInv, TypeOK, RelayTold

\* A step of the edge.
LEMMA EdgeStep ==
  ASSUME BarrierTInv, UNCHANGED <<table, clock, overdue>>,
         NEW k \in Controllers, NEW a \in Activity, edge' = [edge EXCEPT ![k] = a],
         Told(a),
         replies' \in [Commands -> 0..ReplyBound],
         store' \in [Commands -> {"none", "opened", "failed"}],
         acks' \subseteq [cmd : Commands, lease : Nat, result : Result],
         opens' \in [Commands -> Nat], lapses' \in [Commands -> Nat]
  PROVE  BarrierTInv'
BY DEF BarrierTInv, TypeOK, Unleased, RelayTold, table

LEMMA BarrierTypeStep == ASSUME BarrierAssumption, BarrierTInv, [Next]_vars PROVE BarrierTInv'
<1>0. /\ cmd \in [Commands -> Row] /\ queue \in Seq(Commands)
      /\ clock \in [Commands -> {"fresh", "near", "expired"}] /\ overdue \subseteq Commands
      /\ replies \in [Commands -> 0..ReplyBound] /\ edge \in [Controllers -> Activity]
      /\ store \in [Commands -> {"none", "opened", "failed"}]
      /\ acks \subseteq [cmd : Commands, lease : Nat, result : Result]
      /\ opens \in [Commands -> Nat] /\ lapses \in [Commands -> Nat]
      /\ Unleased /\ RelayTold /\ ReplyBound \in Nat
  BY DEF BarrierTInv, TypeOK, BarrierAssumption
<1>1. ASSUME NEW c \in Commands, Create(c) PROVE BarrierTInv'
  <2>1. cmd' \in [Commands -> Row] /\ Unleased'
    BY <1>0, <1>1 DEF Create, Row, Unleased
  <2>2. queue' \in Seq(Commands)
    BY <1>0, <1>1 DEF Create
  <2>3. QED
    BY <1>0, <1>1, <2>1, <2>2, TableStep DEF Create
<1>2. ASSUME NEW c \in Commands, TimePasses(c) PROVE BarrierTInv'
  BY <1>0, <1>2, TableStep DEF TimePasses, table, Later, Unleased
<1>3. ASSUME NEW c \in Commands, LeaseRunsOut(c) PROVE BarrierTInv'
  BY <1>0, <1>3, TableStep DEF LeaseRunsOut, table, Unleased
<1>4. ASSUME NEW c \in Commands, FastPath(c) PROVE BarrierTInv'
  <2> DEFINE a == [at |-> "fast", cmd |-> c, lease |-> 0, result |-> "none"]
  <2>1. a \in Activity /\ Owner[c] \in Controllers
    BY DEF Activity, BarrierAssumption
  <2>2. replies' \in [Commands -> 0..ReplyBound]
    BY <1>0, <1>4 DEF FastPath
  <2>3. edge' = [edge EXCEPT ![Owner[c]] = a] /\ UNCHANGED <<table, clock, overdue, store, acks, opens, lapses>>
    BY <1>4 DEF FastPath
  <2> HIDE DEF a
  <2>4. Told(a)
    BY DEF a, Told
  <2>5. QED
    BY <1>0, <2>1, <2>2, <2>3, <2>4, EdgeStep
<1>5. ASSUME NEW k \in Controllers, NEW got \in BOOLEAN, Lease(k, got) PROVE BarrierTInv'
  <2>1. PICK i \in DOMAIN queue :
           LET c == queue[i] IN
           /\ OldestLeasable(k, i)
           /\ cmd' = [cmd EXCEPT ![c].status = "leased", ![c].lease = @ + 1]
           /\ edge' = IF got THEN [edge EXCEPT ![k] = [at |-> "leased", cmd |-> c,
                                                       lease |-> cmd[c].lease + 1, result |-> "none"]]
                      ELSE edge
    BY <1>5 DEF Lease
  <2>2. queue[i] \in Commands /\ cmd[queue[i]].status = "pending"
    BY <1>0, <2>1 DEF OldestLeasable, Leasable
  <2>3. cmd[queue[i]].lease = 0
    BY <1>0, <2>2 DEF Unleased
  <2>4. cmd' \in [Commands -> Row] /\ Unleased'
    BY <1>0, <2>1, <2>2, <2>3 DEF Row, Unleased
  <2>5. [at |-> "leased", cmd |-> queue[i], lease |-> cmd[queue[i]].lease + 1, result |-> "none"] \in Activity
    BY <2>2, <2>3 DEF Activity
  <2>6. edge' \in [Controllers -> Activity] /\ RelayTold'
    BY <1>0, <2>1, <2>5 DEF RelayTold, Told
  <2>7. QED
    BY <1>0, <1>5, <2>4, <2>6 DEF Lease, BarrierTInv, TypeOK
<1>6. ASSUME NEW k \in Controllers, Skip(k) PROVE BarrierTInv'
  <2> DEFINE a == [edge[k] EXCEPT !.at = "answer", !.result = "skipped"]
  <2>1. a \in Activity /\ Told(a)
    BY <1>0 DEF Activity, Result, Told
  <2>2. edge' = [edge EXCEPT ![k] = a] /\ UNCHANGED <<table, clock, overdue, replies, store, acks, opens, lapses>>
    BY <1>6 DEF Skip
  <2> HIDE DEF a
  <2>3. QED
    BY <1>0, <2>1, <2>2, EdgeStep
<1>7. ASSUME NEW k \in Controllers, NEW result \in {"opened", "failed"}, Conclude(k, result)
      PROVE \E a \in Activity : Told(a) /\ edge' = [edge EXCEPT ![k] = a]
  <2> DEFINE a == [edge[k] EXCEPT !.at = "answer", !.result = result]
             b == [edge[k] EXCEPT !.at = "idle", !.lease = 0, !.result = "none"]
  <2>1. a \in Activity /\ Told(a) /\ b \in Activity /\ Told(b)
    BY <1>0 DEF Activity, Result, Told
  <2>2. edge' = [edge EXCEPT ![k] = a] \/ edge' = [edge EXCEPT ![k] = b]
    BY <1>7 DEF Conclude, Rest
  <2> HIDE DEF a, b
  <2>3. QED
    BY <2>1, <2>2
<1>8. ASSUME NEW k \in Controllers, Repeat(k) PROVE BarrierTInv'
  <2>1. edge[k].cmd \in Commands
    BY <1>0 DEF Activity
  <2>2. store[edge[k].cmd] \in {"opened", "failed"}
    BY <1>0, <1>8, <2>1 DEF Repeat, Known
  <2>3. PICK a \in Activity : Told(a) /\ edge' = [edge EXCEPT ![k] = a]
    BY <1>7, <1>8, <2>2 DEF Repeat
  <2>4. QED
    BY <1>0, <1>8, <2>3, EdgeStep DEF Repeat
<1>9. ASSUME NEW k \in Controllers, NEW result \in {"opened", "failed"}, Open(k, result) PROVE BarrierTInv'
  <2> DEFINE a == [edge[k] EXCEPT !.at = "moved", !.result = result]
  <2>1. a \in Activity /\ Told(a)
    BY <1>0 DEF Activity, Result, Told
  <2>2. edge' = [edge EXCEPT ![k] = a] /\ UNCHANGED <<table, clock, overdue, replies, store, acks, lapses>>
    BY <1>9 DEF Open
  <2>3. edge[k].cmd \in Commands
    BY <1>0 DEF Activity
  <2>4. opens' \in [Commands -> Nat]
    BY <1>0, <1>9, <2>3 DEF Open
  <2> HIDE DEF a
  <2>5. QED
    BY <1>0, <2>1, <2>2, <2>4, EdgeStep
<1>10. ASSUME NEW k \in Controllers, Remember(k) PROVE BarrierTInv'
  <2>1. edge[k].result \in {"opened", "failed"}
    BY <1>0, <1>10 DEF Remember, RelayTold, Told
  <2>2. PICK a \in Activity : Told(a) /\ edge' = [edge EXCEPT ![k] = a]
    BY <1>7, <1>10, <2>1 DEF Remember, Remembered
  <2>3. store' \in [Commands -> {"none", "opened", "failed"}]
    BY <1>0, <1>10, <2>1 DEF Remember, Remembered
  <2>4. QED
    BY <1>0, <1>10, <2>2, <2>3, EdgeStep DEF Remember
<1>11. ASSUME NEW k \in Controllers, edge' = Rest(k)
       PROVE \E a \in Activity : Told(a) /\ edge' = [edge EXCEPT ![k] = a]
  <2> DEFINE a == [edge[k] EXCEPT !.at = "idle", !.lease = 0, !.result = "none"]
  <2>1. a \in Activity /\ Told(a)
    BY <1>0 DEF Activity, Told
  <2>2. edge' = [edge EXCEPT ![k] = a]
    BY <1>11 DEF Rest
  <2> HIDE DEF a
  <2>3. QED
    BY <2>1, <2>2
<1>12. ASSUME NEW k \in Controllers, SendAck(k) PROVE BarrierTInv'
  <2>1. PICK a \in Activity : Told(a) /\ edge' = [edge EXCEPT ![k] = a]
    BY <1>11, <1>12 DEF SendAck
  <2>2. edge[k].cmd \in Commands /\ edge[k].lease \in Nat /\ edge[k].result \in Result
    BY <1>0, <1>12 DEF SendAck, RelayTold, Told, Activity
  <2>3. acks' \subseteq [cmd : Commands, lease : Nat, result : Result]
    BY <1>0, <1>12, <2>2 DEF SendAck
  <2>4. QED
    BY <1>0, <1>12, <2>1, <2>3, EdgeStep DEF SendAck
<1>13. ASSUME NEW k \in Controllers, Restart(k) PROVE BarrierTInv'
  <2>1. PICK a \in Activity : Told(a) /\ edge' = [edge EXCEPT ![k] = a]
    BY <1>11, <1>13 DEF Restart
  <2>2. store' \in [Commands -> {"none", "opened", "failed"}]
    BY <1>0, <1>13 DEF Restart
  <2>3. lapses' \in [Commands -> Nat]
    BY <1>0, <1>13 DEF Restart
  <2>4. QED
    BY <1>0, <1>13, <2>1, <2>2, <2>3, EdgeStep DEF Restart
<1>14. ASSUME NEW a \in acks, AckArrives(a) PROVE BarrierTInv'
  <2>1. a.cmd \in Commands /\ a.result \in Result
    BY <1>0
  <2>2. cmd' \in [Commands -> Row]
    <3>1. cmd \in [Commands -> Row] /\ cmd[a.cmd] \in Row
      BY <1>0, <2>1
    <3>2. [status |-> "acked", lease |-> a.lease, result |-> a.result] \in Row
      BY <1>14, <2>1, <3>1 DEF AckArrives, Accepts, Row
    <3>3. QED
      BY <1>14, <3>1, <3>2 DEF AckArrives
  <2>3. Unleased'
    <3>1. \A c \in Commands : c # a.cmd => cmd'[c] = cmd[c]
      BY <1>0, <1>14, <2>1 DEF AckArrives
    <3>2. cmd'[a.cmd].status = "acked"
      BY <1>0, <1>14, <2>1 DEF AckArrives, Row
    <3>3. QED
      BY <1>0, <3>1, <3>2 DEF Unleased
  <2>4. QED
    BY <1>0, <1>14, <2>2, <2>3, TableStep DEF AckArrives
<1>15. CASE UNCHANGED vars
  BY <1>0, <1>15 DEF vars, BarrierTInv, TypeOK, Unleased, RelayTold, table
<1>16. QED
  BY <1>1, <1>2, <1>3, <1>4, <1>5, <1>6, <1>8, <1>9, <1>10, <1>12, <1>13, <1>14, <1>15
     DEF Next, Progress

\* The table, the edge and the acknowledgements keep to their kinds, and no command is
\* leased twice, whatever is lost or restarted.
THEOREM BarrierTypeCorrect == BarrierAssumption => (Spec => []TypeOK)
<1> SUFFICES ASSUME BarrierAssumption PROVE Spec => []TypeOK
    OBVIOUS
<1>1. Init => BarrierTInv
  BY BarrierInit
<1>2. BarrierTInv /\ [Next]_vars => BarrierTInv'
  BY BarrierTypeStep
<1>3. BarrierTInv => TypeOK
  BY DEF BarrierTInv
<1>4. QED
  BY <1>1, <1>2, <1>3, PTL DEF Spec

-----------------------------------------------------------------------------
\* Is the relay just opening for c?  Then the opening is not recorded yet.
Owned == \A k \in Controllers : edge[k].at # "idle" => Owner[edge[k].cmd] = k
Doing(c) == edge[Owner[c]].at = "moved" /\ edge[Owner[c]].cmd = c
Opening(c) == Doing(c) /\ edge[Owner[c]].result = "opened"

\* A command that is remembered as failed, or not at all, has opened only what was lost.
MemoryTells(c) ==
    /\ store[c] = "opened" \/ Opening(c) => 1 <= opens[c] /\ opens[c] <= 1 + lapses[c]
    /\ ~(store[c] = "opened" \/ Opening(c)) => opens[c] <= lapses[c]
    /\ Doing(c) => store[c] = "none"
MemoryTrue == \A c \in Commands : MemoryTells(c)

\* Of a command told to have failed every opening is lost, the next one when it is lost too:
\* the failure was forgotten first.
Excused(c) ==
    IF store[c] = "none" /\ ~Opening(c) THEN opens[c] + 1 <= lapses[c] ELSE opens[c] <= lapses[c]
Excuses == {c \in Commands : Excused(c)}
Remembering == {c \in Commands : MemoryTells(c)}
Honest(c, result) ==
    /\ result = "opened" => 1 <= opens[c]
    /\ result = "failed" => c \in Excuses
AnswersHonest ==
    /\ \A k \in Controllers : edge[k].at = "answer" => Honest(edge[k].cmd, edge[k].result)
    /\ \A a \in acks : Honest(a.cmd, a.result)
    /\ \A c \in Commands : Honest(c, cmd[c].result)

RInv == BarrierTInv /\ Owned /\ MemoryTrue /\ AnswersHonest

LEMMA RelayInit == ASSUME BarrierAssumption, Init PROVE RInv
<1>1. BarrierTInv
  BY BarrierInit
<1>2. QED
  <2>1. Owned /\ AnswersHonest
    BY DEF Init, Owned, Honest, AnswersHonest
  <2>2. \A c \in Commands : store[c] = "none" /\ opens[c] = 0 /\ lapses[c] = 0 /\ ~Doing(c)
    BY DEF Init, Doing, BarrierAssumption
  <2>3. QED
    BY <1>1, <2>1, <2>2 DEF RInv, MemoryTrue, MemoryTells, Opening

\* A step that neither moves the relay nor touches the memory.
LEMMA QuietStep ==
  ASSUME BarrierAssumption, RInv, BarrierTInv', UNCHANGED <<store, opens, lapses>>,
         NEW k \in Controllers, NEW a \in Activity, edge' = [edge EXCEPT ![k] = a],
         edge[k].at # "moved", a.at # "moved",
         a.at # "idle" => Owner[a.cmd] = k,
         a.at = "answer" => Honest(a.cmd, a.result), a.cmd \in Commands,
         \A b \in acks' : b.cmd \in Commands /\ Honest(b.cmd, b.result),
         \A c \in Commands : Honest(c, cmd'[c].result)
  PROVE  RInv'
<1>0. /\ edge \in [Controllers -> Activity] /\ Owner \in [Commands -> Controllers]
      /\ \A j \in Controllers : edge'[j] = (IF j = k THEN a ELSE edge[j]) /\ edge[j].cmd \in Commands
  BY DEF RInv, BarrierTInv, TypeOK, BarrierAssumption, Activity
<1>1. Owned'
  BY <1>0 DEF RInv, Owned
<1>2. \A c \in Commands : (Doing(c)' <=> Doing(c)) /\ (Opening(c)' <=> Opening(c))
  BY <1>0 DEF Doing, Opening
<1>3. MemoryTrue'
  BY <1>2 DEF RInv, MemoryTrue, MemoryTells
<1>4. Excuses' = Excuses
  BY <1>2 DEF Excuses, Excused
<1>6. \A j \in Controllers : edge'[j].at = "answer" => Honest(edge'[j].cmd, edge'[j].result)
  BY <1>0 DEF RInv, AnswersHonest
<1>7. AnswersHonest'
  BY <1>4, <1>6 DEF AnswersHonest, Honest
<1>8. QED
  BY <1>1, <1>3, <1>7 DEF RInv

LEMMA RelayStep ==
  ASSUME BarrierAssumption, RInv, [Next]_vars PROVE RInv'
<1> USE DEF RInv
<1>0. /\ BarrierTInv' /\ Owner \in [Commands -> Controllers]
      /\ cmd \in [Commands -> Row] /\ edge \in [Controllers -> Activity]
      /\ \A k \in Controllers : edge[k].cmd \in Commands
      /\ store \in [Commands -> {"none", "opened", "failed"}] /\ opens \in [Commands -> Nat]
      /\ lapses \in [Commands -> Nat]
      /\ acks \subseteq [cmd : Commands, lease : Nat, result : Result]
      /\ \A b \in acks : b.cmd \in Commands
  BY BarrierTypeStep DEF BarrierTInv, TypeOK, BarrierAssumption, Activity
<1>1. ASSUME UNCHANGED <<store, opens, lapses, edge, acks>>, \A c \in Commands : Honest(c, cmd'[c].result)
      PROVE  RInv'
  <2>1. Excuses' = Excuses
    BY <1>1 DEF Excuses, Excused, Opening, Doing
  <2>2. Owned' /\ MemoryTrue'
    BY <1>0, <1>1 DEF Owned, Doing, Opening, MemoryTells, MemoryTrue
  <2>3. QED
    BY <1>0, <1>1, <2>1, <2>2 DEF Honest, AnswersHonest
<1>2. ASSUME NEW c \in Commands, Create(c) \/ TimePasses(c) \/ LeaseRunsOut(c) PROVE RInv'
  <2>1. UNCHANGED <<store, opens, lapses, edge, acks>>
    BY <1>2 DEF Create, TimePasses, LeaseRunsOut, table
  <2>2. cmd' = cmd \/ cmd' = [cmd EXCEPT ![c].status = "pending"]
    BY <1>2 DEF Create, TimePasses, LeaseRunsOut, table
  <2>3. \A d \in Commands : cmd'[d].result = cmd[d].result
    BY <1>0, <2>2 DEF Row
  <2>4. QED
    BY <1>1, <2>1, <2>3 DEF AnswersHonest, Honest
<1>3. ASSUME NEW a \in acks, AckArrives(a) PROVE RInv'
  <2>1. UNCHANGED <<store, opens, lapses, edge, acks>> /\ a.cmd \in Commands
    BY <1>0, <1>3 DEF AckArrives
  <2>2. \A d \in Commands : cmd'[d].result = IF d = a.cmd THEN a.result ELSE cmd[d].result
    BY <1>0, <1>3, <2>1 DEF AckArrives, Row
  <2>3. \A d \in Commands : Honest(d, cmd'[d].result)
    BY <2>2 DEF AnswersHonest, Honest
  <2>4. QED
    BY <1>1, <2>1, <2>3
<1>4. ASSUME NEW c \in Commands, FastPath(c) PROVE RInv'
  <2> DEFINE a == [at |-> "fast", cmd |-> c, lease |-> 0, result |-> "none"]
  <2>1. a \in Activity /\ a.at = "fast" /\ a.cmd = c
    BY DEF Activity
  <2>2. edge' = [edge EXCEPT ![Owner[c]] = a] /\ edge[Owner[c]].at = "idle"
        /\ UNCHANGED <<cmd, acks, store, opens, lapses>>
    BY <1>4 DEF FastPath, table, Idle
  <2> HIDE DEF a
  <2>3. QED
    BY <1>0, <2>1, <2>2, QuietStep DEF AnswersHonest
<1>5. ASSUME NEW k \in Controllers, NEW got \in BOOLEAN, Lease(k, got) PROVE RInv'
  <2>1. PICK i \in DOMAIN queue :
           LET c == queue[i] IN
           /\ OldestLeasable(k, i)
           /\ cmd' = [cmd EXCEPT ![c].status = "leased", ![c].lease = @ + 1]
           /\ edge' = IF got THEN [edge EXCEPT ![k] = [at |-> "leased", cmd |-> c,
                                                       lease |-> cmd[c].lease + 1, result |-> "none"]]
                      ELSE edge
    BY <1>5 DEF Lease
  <2> DEFINE c == queue[i]
             a == [at |-> "leased", cmd |-> c, lease |-> cmd[c].lease + 1, result |-> "none"]
  <2>2. c \in Commands /\ Owner[c] = k /\ cmd[c].lease \in Nat
    <3>1. Owner[c] = k
      BY <2>1 DEF OldestLeasable, Leasable
    <3>2. c \in Commands
      BY <2>1 DEF BarrierTInv, TypeOK
    <3>3. QED
      BY <1>0, <3>1, <3>2 DEF Row
  <2>3. \A d \in Commands : Honest(d, cmd'[d].result)
    BY <1>0, <2>1, <2>2 DEF AnswersHonest, Honest, Row
  <2>4. a \in Activity /\ a.at = "leased" /\ a.cmd = c
    BY <2>2 DEF Activity
  <2>5. edge' = edge \/ edge' = [edge EXCEPT ![k] = a]
    BY <2>1
  <2>6. edge[k].at = "idle" /\ UNCHANGED <<acks, store, opens, lapses>>
    BY <1>5 DEF Lease, Idle
  <2> HIDE DEF a, c
  <2>7. CASE edge' = edge
    BY <1>1, <2>3, <2>6, <2>7
  <2>8. CASE edge' = [edge EXCEPT ![k] = a]
    BY <1>0, <2>2, <2>3, <2>4, <2>6, <2>8, QuietStep DEF AnswersHonest
  <2>9. QED
    BY <2>5, <2>7, <2>8
<1>6. ASSUME NEW k \in Controllers, Skip(k) PROVE RInv'
  <2> DEFINE a == [edge[k] EXCEPT !.at = "answer", !.result = "skipped"]
  <2>1. a \in Activity /\ a.at = "answer" /\ a.result = "skipped" /\ a.cmd = edge[k].cmd
    BY <1>0 DEF Activity, Result
  <2>2. edge' = [edge EXCEPT ![k] = a] /\ edge[k].at = "leased"
        /\ UNCHANGED <<cmd, store, acks, opens, lapses>>
    BY <1>6 DEF Skip, Skips, table
  <2> HIDE DEF a
  <2>3. Owner[a.cmd] = k /\ Honest(a.cmd, a.result)
    BY <2>1, <2>2 DEF Owned, Honest
  <2>4. QED
    BY <1>0, <2>1, <2>2, <2>3, QuietStep DEF AnswersHonest
<1>7. ASSUME NEW k \in Controllers, NEW result \in {"opened", "failed"}, Conclude(k, result)
      PROVE \E a \in Activity : /\ edge' = [edge EXCEPT ![k] = a] /\ a.cmd = edge[k].cmd
                                /\ a.at = "idle" \/ (a.at = "answer" /\ a.result = result)
  <2> DEFINE a == [edge[k] EXCEPT !.at = "answer", !.result = result]
             b == [edge[k] EXCEPT !.at = "idle", !.lease = 0, !.result = "none"]
  <2>1. /\ a \in Activity /\ a.at = "answer" /\ a.result = result /\ a.cmd = edge[k].cmd
        /\ b \in Activity /\ b.at = "idle" /\ b.cmd = edge[k].cmd
    BY <1>0 DEF Activity, Result
  <2>2. edge' = [edge EXCEPT ![k] = a] \/ edge' = [edge EXCEPT ![k] = b]
    BY <1>7 DEF Conclude, Rest
  <2> HIDE DEF a, b
  <2>3. QED
    BY <2>1, <2>2
<1>8. ASSUME NEW k \in Controllers, Repeat(k) PROVE RInv'
  <2>1. store[edge[k].cmd] \in {"opened", "failed"} /\ edge[k].at # "moved" /\ edge[k].at # "idle"
        /\ UNCHANGED <<cmd, store, acks, opens, lapses>>
    BY <1>0, <1>8 DEF Repeat, Known, table
  <2>2. PICK a \in Activity : /\ edge' = [edge EXCEPT ![k] = a] /\ a.cmd = edge[k].cmd
                              /\ a.at = "idle" \/ (a.at = "answer" /\ a.result = store[edge[k].cmd])
    BY <1>7, <1>8, <2>1 DEF Repeat
  <2>3. Honest(edge[k].cmd, store[edge[k].cmd])
    BY <1>0, <2>1 DEF MemoryTrue, MemoryTells, Honest, Excuses, Excused, Doing, Opening
  <2>5. a.at # "moved" /\ Owner[a.cmd] = k /\ (a.at = "answer" => Honest(a.cmd, a.result))
    BY <2>1, <2>2, <2>3 DEF Owned
  <2>4. QED
    BY <1>0, <2>1, <2>2, <2>5, QuietStep DEF AnswersHonest
\* A step that moves the relay or the memory of one controller's commands.
<1>9. ASSUME NEW k \in Controllers, NEW a \in Activity, edge' = [edge EXCEPT ![k] = a], UNCHANGED <<cmd, acks>>,
             a.at # "idle" => Owner[a.cmd] = k,
             a.at = "answer" => /\ a.result = "opened" => 1 <= opens'[a.cmd]
                                /\ a.result = "failed" => a.cmd \in Excuses',
             \A c \in Commands : Owner[c] # k => store'[c] = store[c] /\ opens'[c] = opens[c] /\ lapses'[c] = lapses[c],
             \A c \in Commands : Owner[c] = k => /\ c \in Remembering' /\ opens'[c] >= opens[c]
                                                 /\ c \in Excuses => c \in Excuses'
      PROVE  RInv'
  <2>1. \A j \in Controllers : edge'[j] = IF j = k THEN a ELSE edge[j]
    BY <1>0, <1>9
  <2>2. ASSUME NEW c \in Commands
        PROVE  c \in Remembering' /\ (c \in Excuses => c \in Excuses') /\ opens'[c] >= opens[c]
    <3>1. CASE Owner[c] = k
      BY <1>9, <3>1
    <3>2. CASE Owner[c] # k
      <4>1. (Doing(c)' <=> Doing(c)) /\ (Opening(c)' <=> Opening(c))
        BY <1>0, <2>1, <3>2 DEF Doing, Opening
      <4>2. store'[c] = store[c] /\ opens'[c] = opens[c] /\ lapses'[c] = lapses[c] /\ opens[c] \in Nat
        BY <1>0, <1>9, <3>2
      <4>3. c \in Remembering'
        BY <4>1, <4>2 DEF Remembering, MemoryTrue, MemoryTells
      <4>4. QED
        BY <4>1, <4>2, <4>3 DEF Excuses, Excused
    <3>3. QED
      BY <3>1, <3>2
  <2>3. Excuses \subseteq Excuses'
    BY <2>2 DEF Excuses
  <2>4. \A c \in Commands : opens'[c] >= opens[c] /\ opens[c] \in Nat /\ opens'[c] \in Nat
    BY <1>0, <2>2 DEF BarrierTInv, TypeOK
  <2>5. MemoryTrue'
    BY <2>2 DEF MemoryTrue, Remembering
  <2>6. Owned'
    BY <1>9, <2>1 DEF Owned
  <2>7. \A c \in Commands : \A r : Honest(c, r) =>
           /\ r = "opened" => 1 <= opens'[c]
           /\ r = "failed" => c \in Excuses'
    BY <2>3, <2>4 DEF Honest
  <2>8. AnswersHonest'
    BY <1>0, <1>9, <2>1, <2>7 DEF AnswersHonest, Honest
  <2>9. QED
    BY <1>0, <2>5, <2>6, <2>8
<1>11. ASSUME NEW k \in Controllers, edge' = Rest(k)
       PROVE \E a \in Activity : a.at = "idle" /\ edge' = [edge EXCEPT ![k] = a]
  <2> DEFINE a == [edge[k] EXCEPT !.at = "idle", !.lease = 0, !.result = "none"]
  <2>1. a \in Activity /\ a.at = "idle"
    BY <1>0 DEF Activity
  <2>2. edge' = [edge EXCEPT ![k] = a]
    BY <1>11 DEF Rest
  <2> HIDE DEF a
  <2>3. QED
    BY <2>1, <2>2
<1>12. ASSUME NEW k \in Controllers, SendAck(k) PROVE RInv'
  <2>1. PICK a \in Activity : a.at = "idle" /\ edge' = [edge EXCEPT ![k] = a]
    BY <1>11, <1>12 DEF SendAck
  <2>2. edge[k].at = "answer" /\ UNCHANGED <<cmd, store, opens, lapses>>
    BY <1>12 DEF SendAck, table
  <2>3. \A b \in acks' : b.cmd \in Commands /\ Honest(b.cmd, b.result)
    BY <1>0, <1>12, <2>2 DEF SendAck, AnswersHonest
  <2>5. a.cmd \in Commands
    BY <2>1 DEF Activity
  <2>4. QED
    BY <1>0, <2>1, <2>2, <2>3, <2>5, QuietStep DEF AnswersHonest
<1>13. ASSUME NEW k \in Controllers, NEW result \in {"opened", "failed"}, Open(k, result) PROVE RInv'
  <2> DEFINE d == edge[k].cmd
  <2>1. PICK a \in Activity : /\ edge' = [edge EXCEPT ![k] = a]
                              /\ a.at = "moved" /\ a.result = result /\ a.cmd = d
    <3> DEFINE b == [edge[k] EXCEPT !.at = "moved", !.result = result]
    <3>1. b \in Activity /\ b.at = "moved" /\ b.result = result /\ b.cmd = d
      BY <1>0 DEF Activity, Result
    <3>2. edge' = [edge EXCEPT ![k] = b]
      BY <1>13 DEF Open
    <3> HIDE DEF b
    <3>3. QED
      BY <3>1, <3>2
  <2>2. /\ edge[k].at \in {"fast", "leased"} /\ store[d] = "none"
        /\ opens' = IF result = "opened" THEN [opens EXCEPT ![d] = @ + 1] ELSE opens
        /\ UNCHANGED <<cmd, store, acks, lapses>>
    BY <1>13 DEF Open, Known, table
  <2>3. d \in Commands /\ Owner[d] = k
    BY <1>0, <2>2 DEF Owned
  <2> HIDE DEF d
  <2>4. \A c \in Commands : opens'[c] = IF c = d /\ result = "opened" THEN opens[c] + 1 ELSE opens[c]
    BY <1>0, <2>2, <2>3
  <2>5. \A c \in Commands : Owner[c] = k => /\ ~Doing(c) /\ ~Opening(c)
                                            /\ Doing(c)' <=> c = d
                                            /\ Opening(c)' <=> c = d /\ result = "opened"
    BY <1>0, <2>1, <2>2 DEF Doing, Opening
  <2>6. ASSUME NEW c \in Commands, Owner[c] = k
        PROVE  c \in Remembering' /\ opens'[c] >= opens[c] /\ (c \in Excuses => c \in Excuses')
    <3>0. opens[c] \in Nat /\ lapses[c] \in Nat /\ lapses'[c] = lapses[c] /\ store'[c] = store[c] /\ MemoryTells(c)
      BY <1>0, <2>2 DEF MemoryTrue
    <3>1. CASE c = d
      BY <2>2, <2>4, <2>5, <2>6, <3>0, <3>1 DEF Remembering, MemoryTells, Excuses, Excused
    <3>2. CASE c # d
      BY <2>4, <2>5, <2>6, <3>0, <3>2 DEF Remembering, MemoryTells, Excuses, Excused
    <3>3. QED
      BY <3>1, <3>2
  <2>7. \A c \in Commands : Owner[c] # k => store'[c] = store[c] /\ opens'[c] = opens[c] /\ lapses'[c] = lapses[c]
    BY <2>2, <2>3, <2>4
  <2>8. Owner[a.cmd] = k /\ a.at # "answer"
    BY <2>1, <2>3
  <2>9. QED
    BY <1>9, <2>1, <2>2, <2>6, <2>7, <2>8
<1>16. ASSUME NEW k \in Controllers, Remember(k) PROVE RInv'
  <2> DEFINE d == edge[k].cmd
             result == edge[k].result
  <2>1. result \in {"opened", "failed"} /\ edge[k].at = "moved"
    BY <1>0, <1>16 DEF Remember, BarrierTInv, RelayTold, Told
  <2>2. PICK a \in Activity : /\ edge' = [edge EXCEPT ![k] = a] /\ a.cmd = edge[k].cmd
                              /\ a.at = "idle" \/ (a.at = "answer" /\ a.result = result)
    BY <1>7, <1>16, <2>1 DEF Remember, Remembered
  <2>3. d \in Commands /\ Owner[d] = k
    BY <1>0, <2>1 DEF Owned
  <2>4. store' = [store EXCEPT ![d] = result] /\ UNCHANGED <<cmd, acks, opens, lapses>>
    BY <1>16 DEF Remember, Remembered, table
  <2>5. \A c \in Commands : Owner[c] = k => /\ Doing(c) <=> c = d
                                            /\ Opening(c) <=> c = d /\ result = "opened"
                                            /\ ~Doing(c)' /\ ~Opening(c)'
    BY <1>0, <2>1, <2>2 DEF Doing, Opening
  <2>6. \A c \in Commands : store'[c] = IF c = d THEN result ELSE store[c]
    BY <1>0, <2>3, <2>4
  <2> HIDE DEF d, result
  <2>7. ASSUME NEW c \in Commands, Owner[c] = k
        PROVE  /\ c \in Remembering' /\ opens'[c] >= opens[c] /\ (c \in Excuses => c \in Excuses')
               /\ c = d => /\ result = "opened" => 1 <= opens'[c]
                           /\ result = "failed" => c \in Excuses'
    <3>0. opens[c] \in Nat /\ lapses[c] \in Nat /\ opens'[c] = opens[c] /\ lapses'[c] = lapses[c] /\ MemoryTells(c)
      BY <1>0, <2>4 DEF MemoryTrue
    <3>1. CASE c = d
      <4>1. store[c] = "none" /\ store'[c] = result /\ ~Doing(c)' /\ ~Opening(c)'
            /\ (Opening(c) <=> result = "opened")
        BY <2>5, <2>6, <2>7, <3>0, <3>1 DEF MemoryTells
      <4>2. c \in Remembering' /\ (c \in Excuses => c \in Excuses')
        BY <2>1, <3>0, <4>1 DEF Remembering, MemoryTells, Excuses, Excused
      <4>3. /\ result = "opened" => 1 <= opens'[c]
            /\ result = "failed" => c \in Excuses'
        BY <2>1, <3>0, <4>1 DEF MemoryTells, Excuses, Excused
      <4>4. QED
        BY <3>0, <4>2, <4>3
    <3>2. CASE c # d
      BY <2>5, <2>6, <2>7, <3>0, <3>2 DEF Remembering, MemoryTells, Excuses, Excused
    <3>3. QED
      BY <3>1, <3>2
  <2>8. a.at = "answer" => /\ a.result = "opened" => 1 <= opens'[a.cmd]
                           /\ a.result = "failed" => a.cmd \in Excuses'
    BY <2>2, <2>3, <2>7 DEF d, result
  <2>9. a.at # "idle" => Owner[a.cmd] = k
    BY <2>2, <2>3 DEF d
  <2>10. \A c \in Commands : Owner[c] # k => store'[c] = store[c] /\ opens'[c] = opens[c] /\ lapses'[c] = lapses[c]
    BY <2>3, <2>4, <2>6
  <2>11. QED
    BY <1>9, <2>2, <2>4, <2>7, <2>8, <2>9, <2>10
<1>17. ASSUME NEW k \in Controllers, Restart(k) PROVE RInv'
  <2>1. PICK a \in Activity : a.at = "idle" /\ edge' = [edge EXCEPT ![k] = a]
    BY <1>11, <1>17 DEF Restart
  <2>2. /\ store' = IF Persistent THEN store
                     ELSE [c \in Commands |-> IF Owner[c] = k THEN "none" ELSE store[c]]
        /\ lapses' = [c \in Commands |-> IF c \in Lost(k) THEN lapses[c] + 1 ELSE lapses[c]]
        /\ UNCHANGED <<cmd, acks, opens>>
    BY <1>17 DEF Restart, table
  <2>3. \A c \in Commands : Owner[c] = k => ~Doing(c)' /\ ~Opening(c)'
    BY <1>0, <2>1 DEF Doing, Opening
  <2>4. ASSUME NEW c \in Commands, Owner[c] = k
        PROVE  c \in Remembering' /\ opens'[c] >= opens[c] /\ (c \in Excuses => c \in Excuses')
    <3>0. /\ opens[c] \in Nat /\ lapses[c] \in Nat /\ opens'[c] = opens[c] /\ MemoryTells(c)
          /\ store[c] \in {"none", "opened", "failed"} /\ ~Doing(c)' /\ ~Opening(c)'
      BY <1>0, <2>2, <2>3, <2>4 DEF MemoryTrue
    <3>1. c \in Lost(k) <=> Opening(c) \/ (store[c] # "none" /\ ~Persistent)
      BY <2>4 DEF Lost, Opening, Doing
    <3>2. CASE Opening(c)
      <4>1. store[c] = "none"
        BY <3>0, <3>2 DEF MemoryTells, Opening
      <4>2. store'[c] = "none" /\ lapses'[c] = lapses[c] + 1
        BY <1>0, <2>2, <2>4, <3>1, <3>2, <4>1
      <4>3. QED
        BY <3>0, <3>2, <4>1, <4>2 DEF Remembering, MemoryTells, Excuses, Excused
    <3>3. CASE ~Opening(c) /\ store[c] # "none" /\ ~Persistent
      <4>1. store'[c] = "none" /\ lapses'[c] = lapses[c] + 1
        BY <2>2, <2>4, <3>1, <3>3
      <4>2. QED
        BY <3>0, <3>3, <4>1 DEF Remembering, MemoryTells, Excuses, Excused
    <3>4. CASE ~Opening(c) /\ ~(store[c] # "none" /\ ~Persistent)
      <4>1. store'[c] = store[c] /\ lapses'[c] = lapses[c]
        BY <1>0, <2>2, <2>4, <3>1, <3>4
      <4>2. QED
        BY <3>0, <3>4, <4>1 DEF Remembering, MemoryTells, Excuses, Excused
    <3>5. QED
      BY <3>2, <3>3, <3>4
  <2>5. \A c \in Commands : Owner[c] # k => store'[c] = store[c] /\ opens'[c] = opens[c] /\ lapses'[c] = lapses[c]
    BY <1>0, <2>2 DEF Lost
  <2>6. QED
    BY <1>9, <2>1, <2>2, <2>4, <2>5
<1>14. CASE UNCHANGED vars
  <2>1. UNCHANGED <<store, opens, lapses, edge, acks, cmd>>
    BY <1>14 DEF vars, table
  <2>2. QED
    BY <1>1, <2>1 DEF AnswersHonest, Honest
<1>15. QED
  BY <1>2, <1>3, <1>4, <1>5, <1>6, <1>8, <1>12, <1>13, <1>14, <1>16, <1>17
     DEF Next, Progress

LEMMA RelayInvariant == ASSUME BarrierAssumption PROVE Spec => []RInv
<1>1. Init => RInv
  BY RelayInit
<1>2. RInv /\ [Next]_vars => RInv'
  BY RelayStep
<1>3. QED
  BY <1>1, <1>2, PTL DEF Spec

\* However a command arrives at the edge, and however often, it opens the barrier once, and
\* once more for every time the edge dies between the relay and the record or restarts
\* without its memory.
THEOREM RelayOpensOnce == BarrierAssumption => (Spec => []RelayOnce)
<1> SUFFICES ASSUME BarrierAssumption PROVE Spec => []RelayOnce
    OBVIOUS
<1>1. RInv => RelayOnce
  <2>1. ASSUME RInv, NEW c \in Commands PROVE opens[c] <= 1 + lapses[c]
    <3>1. opens[c] \in Nat /\ lapses[c] \in Nat /\ MemoryTells(c)
      BY <2>1 DEF RInv, BarrierTInv, TypeOK, MemoryTrue
    <3>2. QED
      BY <3>1 DEF MemoryTells
  <2>2. QED
    BY <2>1 DEF RelayOnce
<1>2. QED
  BY RelayInvariant, <1>1, PTL

\* The result on record is what the relay did: no acknowledgement, late or repeated, says
\* "opened" of a closed barrier or "failed" of an opening the edge still knows of.
THEOREM RecordTrue == BarrierAssumption => (Spec => []AckIsTrue)
<1> SUFFICES ASSUME BarrierAssumption PROVE Spec => []AckIsTrue
    OBVIOUS
<1>1. RInv => AckIsTrue
  <2>1. ASSUME RInv, NEW c \in Commands
        PROVE  /\ cmd[c].result = "opened" => opens[c] > 0
               /\ cmd[c].result = "failed" => opens[c] <= lapses[c]
    <3>1. opens[c] \in Nat /\ lapses[c] \in Nat /\ Honest(c, cmd[c].result)
      BY <2>1 DEF RInv, BarrierTInv, TypeOK, AnswersHonest
    <3>2. QED
      BY <3>1 DEF Honest, Excuses, Excused
  <2>2. QED
    BY <2>1 DEF AckIsTrue
<1>2. QED
  BY RelayInvariant, <1>1, PTL

-----------------------------------------------------------------------------
(* Manual reviews *)

Holding == {"locked", "read"}

\* Only captured events have rows, and only transactions past the lock hold any.
Captured ==
    /\ \A r \in Reviews : group[r] # <<>> => r \in captured
    /\ \A p \in Procs : /\ tx[p].since \subseteq captured
                        /\ tx[p].kind = "receive" => tx[p].review \in captured
                        /\ \A r \in Reviews : tx[p].writes[r] # "none" => r \in captured
    /\ tx[Worker].kind = "expire"
Held == \A k \in Lock : holder[k] # Nobody => tx[holder[k]].at \in Holding

ReviewsTInv == ReviewsTypeOK /\ Captured /\ Held

Types ==
    /\ group \in [Reviews -> Seq(Status)] /\ chain \in Seq(Nat) /\ commands \in [Reviews -> Nat]
    /\ alone \in Nat /\ codeOpens \in Nat /\ code \in {"active", "used"}
    /\ captured \subseteq Reviews /\ cleared \subseteq captured /\ late \subseteq captured
    /\ active \in BOOLEAN /\ toggles \in 0..ToggleBound
    /\ holder \in [Lock -> Procs \cup {Nobody}] /\ tx \in [Procs -> Tx]

LEMMA TInvIs == ReviewsTInv <=> Types /\ Captured /\ Held
BY DEF ReviewsTInv, ReviewsTypeOK, Types, Held, Holding

LEMMA IdleTyped ==
  ASSUME ReviewsAssumption
  PROVE  /\ IdleTx \in Tx /\ IdleTx.kind = "expire" /\ IdleTx.since = {} /\ IdleTx.at = "idle"
         /\ IdleTx.todo = {} /\ IdleTx.chains = {}
         /\ \A r \in Reviews : IdleTx.writes[r] = "none"
<1>1. (CHOOSE r \in Reviews : TRUE) \in Reviews
  BY DEF ReviewsAssumption
<1>2. NoWrites \in [Reviews -> Status \cup {"none"}] /\ \A r \in Reviews : NoWrites[r] = "none"
  BY DEF NoWrites
<1>3. QED
  BY <1>1, <1>2 DEF IdleTx, Tx, Kind, Key

LEMMA TypeInit == ASSUME ReviewsAssumption, ReviewsInit PROVE ReviewsTInv
<1>1. Types
  BY IdleTyped DEF ReviewsInit, Types, ReviewsAssumption, Lock
<1>2. Captured
  BY IdleTyped DEF ReviewsInit, Captured, Procs
<1>3. Held
  BY DEF ReviewsInit, Held
<1>4. QED
  BY <1>1, <1>2, <1>3, TInvIs

\* What a transaction decides to write is typed and about captured events.
LEMMA WritesTyped ==
  ASSUME ReviewsTInv, NEW p \in Procs
  PROVE  /\ Writes(tx[p]) \in [Reviews -> Status \cup {"none"}] /\ Opens(tx[p]) \in BOOLEAN
         /\ \A r \in Reviews : Writes(tx[p])[r] # "none" => r \in captured
<1> DEFINE t == tx[p]
<1>0. t.review \in Reviews /\ t.kind \in Kind /\ (t.kind = "receive" => t.review \in captured)
  BY TInvIs DEF Types, Tx, Captured
<1>1. \A r \in Reviews : Current(r) = "pending" => r \in captured
  BY TInvIs DEF Captured, Current
<1> HIDE DEF t
<1>2. \A r \in Reviews, s \in Status :
         /\ One(r, s) \in [Reviews -> Status \cup {"none"}]
         /\ \A q \in Reviews : One(r, s)[q] # "none" => q = r
  BY DEF One, NoWrites
<1>3. NoWrites \in [Reviews -> Status \cup {"none"}] /\ \A r \in Reviews : NoWrites[r] = "none"
  BY DEF NoWrites
<1>4. \A S \in SUBSET Pending : /\ ExpireAll(S) \in [Reviews -> Status \cup {"none"}]
                                /\ \A q \in Reviews : ExpireAll(S)[q] # "none" => q \in Pending
  BY DEF ExpireAll, Status
<1>5. CASE t.kind = "receive"
  BY <1>0, <1>2, <1>3, <1>5 DEF Writes, Opens, Received, Status, t
<1>6. CASE t.kind \in {"allow", "deny"}
  BY <1>0, <1>1, <1>2, <1>3, <1>6 DEF Writes, Opens, Resolved, Resolvable, Status, t
<1>7. CASE t.kind = "expire"
  BY <1>0, <1>1, <1>2, <1>3, <1>7 DEF Writes, Opens, Status, t
<1>8. CASE t.kind = "alone"
  BY <1>0, <1>1, <1>4, <1>8 DEF Writes, Opens, Pending, t
<1>9. CASE t.kind = "code"
  BY <1>0, <1>3, <1>9 DEF Writes, Opens, t
<1>10. QED
  BY <1>0, <1>5, <1>6, <1>7, <1>8, <1>9 DEF Kind, t

\* A step of one transaction that leaves the records and the locks alone.
LEMMA TxStep ==
  ASSUME ReviewsTInv, UNCHANGED <<db, world, holder>>,
         NEW p \in Procs, NEW t \in Tx, tx' = [tx EXCEPT ![p] = t],
         t.since \subseteq captured, t.kind = "receive" => t.review \in captured,
         p = Worker => t.kind = "expire",
         \A r \in Reviews : t.writes[r] # "none" => r \in captured,
         tx[p].at \in Holding => t.at \in Holding
  PROVE  ReviewsTInv'
<1>1. Types'
  BY TInvIs DEF Types, db, world
<1>2. Captured'
  BY TInvIs DEF Types, Captured, db, world, Procs
<1>3. Held'
  BY TInvIs DEF Types, Held
<1>4. QED
  BY <1>1, <1>2, <1>3, TInvIs DEF ReviewsTInv, ReviewsTypeOK, Types, Held, Holding

LEMMA TypeStep == ASSUME ReviewsAssumption, ReviewsTInv, [ReviewsNext]_reviewVars PROVE ReviewsTInv'
<1>0. /\ Types /\ Captured /\ Held
      /\ \A p \in Procs : /\ tx[p] \in Tx /\ tx[p].since \subseteq captured
                          /\ tx[p].kind = "receive" => tx[p].review \in captured
                          /\ \A r \in Reviews : tx[p].writes[r] # "none" => r \in captured
      /\ late \subseteq Reviews /\ captured \subseteq Reviews /\ active \in BOOLEAN /\ Len(chain) \in Nat
      /\ Worker \in Procs /\ tx[Worker].kind = "expire"
  BY TInvIs DEF Types, Captured, Procs
<1>1. ASSUME NEW r \in Reviews, Capture(r) PROVE ReviewsTInv'
  <2>1. Types'
    BY <1>0, <1>1 DEF Capture, Types, db
  <2>2. Captured' /\ Held'
    BY <1>0, <1>1 DEF Capture, Captured, Held, db
  <2>3. QED
    BY <2>1, <2>2, TInvIs DEF ReviewsTInv, ReviewsTypeOK, Types, Held, Holding
<1>2. ASSUME NEW r \in Reviews, DeadlinePasses(r) PROVE ReviewsTInv'
  <2>1. r \in captured
    BY <1>0, <1>2 DEF DeadlinePasses, Current, Captured
  <2>2. Types' /\ Captured' /\ Held'
    BY <1>0, <1>2, <2>1 DEF DeadlinePasses, Types, Captured, Held, db
  <2>3. QED
    BY <2>2 DEF ReviewsTInv, ReviewsTypeOK, Types, Held, Holding
<1>3. CASE Toggle
  <2>1. toggles' \in 0..ToggleBound /\ active' \in BOOLEAN
    BY <1>0, <1>3 DEF Toggle, Types, ReviewsAssumption
  <2>2. Types' /\ Captured' /\ Held'
    BY <1>0, <1>3, <2>1 DEF Toggle, Types, Captured, Held, db
  <2>3. QED
    BY <2>2 DEF ReviewsTInv, ReviewsTypeOK, Types, Held, Holding
<1>4. ASSUME NEW p \in Procs, NEW kind \in Kind, NEW r \in Reviews, Begin(p, kind, r) PROVE ReviewsTInv'
  <2> DEFINE t == [IdleTx EXCEPT !.at = IF kind \in {"allow", "deny"} THEN "begun" ELSE "keyed",
                                 !.kind = kind, !.review = r, !.barrier = active,
                                 !.key = CanonicalKey(kind), !.overdue = late, !.since = captured]
  <2>1. /\ t \in Tx /\ t.since = captured /\ t.kind = kind /\ t.review = r
        /\ \A q \in Reviews : t.writes[q] = "none"
    <3>1. IdleTx \in Tx /\ \A q \in Reviews : IdleTx.writes[q] = "none"
      BY IdleTyped
    <3>2. active \in BOOLEAN /\ late \in SUBSET Reviews /\ captured \in SUBSET Reviews /\ CanonicalKey(kind) \in Key
      BY <1>0 DEF CanonicalKey, Key
    <3>3. QED
      BY <3>1, <3>2 DEF Tx
  <2>2. /\ tx[p].at = "idle" /\ tx' = [tx EXCEPT ![p] = t] /\ UNCHANGED <<db, world, holder>>
        /\ kind = "receive" => r \in captured
        /\ p # Worker
    BY <1>4 DEF Begin, ReviewsAssumption
  <2> HIDE DEF t
  <2>3. QED
    BY <2>1, <2>2, TxStep DEF Holding
<1>5. ASSUME NEW p \in Procs, ReadKey(p) PROVE ReviewsTInv'
  <2> DEFINE t == [tx[p] EXCEPT !.at = "keyed", !.key = CanonicalKey(tx[p].kind)]
  <2>1. /\ t \in Tx /\ t.since = tx[p].since /\ t.kind = tx[p].kind /\ t.review = tx[p].review
        /\ t.writes = tx[p].writes
    <3>1. tx[p] \in Tx /\ CanonicalKey(tx[p].kind) \in Key
      BY <1>0 DEF CanonicalKey, Key
    <3>2. QED
      BY <3>1 DEF Tx
  <2>2. tx[p].at = "begun" /\ tx' = [tx EXCEPT ![p] = t] /\ UNCHANGED <<db, world, holder>>
    BY <1>5 DEF ReadKey
  <2> HIDE DEF t
  <2>3. QED
    BY <1>0, <2>1, <2>2, TxStep DEF Holding
<1>6. CASE Tick
  <2> DEFINE t == [IdleTx EXCEPT !.at = "begun", !.overdue = late, !.todo = Due \X {CanonicalKey("expire")}]
  <2>1. t \in Tx /\ t.since = {} /\ t.kind = "expire" /\ \A q \in Reviews : t.writes[q] = "none"
    BY <1>0, IdleTyped DEF Tx, CanonicalKey, Key, Due, Pending
  <2>2. /\ tx[Worker].at = "idle" /\ tx' = [tx EXCEPT ![Worker] = t] /\ UNCHANGED <<db, world, holder>>
        /\ Worker \in Procs
    BY <1>6 DEF Tick, Procs
  <2> HIDE DEF t
  <2>3. QED
    BY <2>1, <2>2, TxStep DEF Holding
<1>7. CASE NextDue
  <2>1. Worker \in Procs
    BY DEF Procs
  <2>2. PICK due \in tx[Worker].todo :
           tx' = [tx EXCEPT ![Worker].at = "keyed", ![Worker].review = due[1], ![Worker].key = due[2],
                            ![Worker].todo = @ \ {due}]
    BY <1>7 DEF NextDue
  <2>3. due[1] \in Reviews /\ due[2] \in Key /\ tx[Worker].at = "begun" /\ UNCHANGED <<db, world, holder>>
    BY <1>0, <1>7, <2>1 DEF NextDue, Tx
  <2> DEFINE t == [tx[Worker] EXCEPT !.at = "keyed", !.review = due[1], !.key = due[2], !.todo = @ \ {due}]
  <2>4. /\ t \in Tx /\ t.since = tx[Worker].since /\ t.kind = tx[Worker].kind
        /\ t.review = due[1] /\ t.writes = tx[Worker].writes
    BY <1>0, <2>1, <2>3 DEF Tx
  <2>5. tx' = [tx EXCEPT ![Worker] = t]
    BY <2>2
  <2> HIDE DEF t
  <2>6. QED
    BY <1>0, <2>1, <2>3, <2>4, <2>5, TxStep DEF Holding
<1>8. ASSUME NEW p \in Procs, Read(p) PROVE ReviewsTInv'
  <2> DEFINE t == [tx[p] EXCEPT !.at = "read", !.writes = Writes(tx[p]), !.opens = Opens(tx[p])]
  <2>1. /\ t \in Tx /\ t.since = tx[p].since /\ t.kind = tx[p].kind /\ t.review = tx[p].review
        /\ t.at = "read" /\ t.writes = Writes(tx[p])
        /\ p = Worker => t.kind = "expire"
    <3>1. /\ tx[p] \in Tx
          /\ p = Worker => tx[p].kind = "expire"
          /\ Writes(tx[p]) \in [Reviews -> Status \cup {"none"}] /\ Opens(tx[p]) \in BOOLEAN
      BY <1>0, WritesTyped
    <3>2. QED
      BY <3>1 DEF Tx
  <2>2. tx' = [tx EXCEPT ![p] = t] /\ UNCHANGED <<db, world, holder>>
    BY <1>8 DEF Read
  <2> HIDE DEF t
  <2>3. QED
    BY <1>0, <2>1, <2>2, TxStep, WritesTyped DEF Holding
\* Steps that take or give back a lock.
<1>9. ASSUME NEW p \in Procs, NEW t \in Tx, tx' = [tx EXCEPT ![p] = t], UNCHANGED <<db, world>>,
             holder' \in [Lock -> Procs \cup {Nobody}],
             t.since \subseteq captured, t.kind = "receive" => t.review \in captured,
         p = Worker => t.kind = "expire",
             \A r \in Reviews : t.writes[r] # "none" => r \in captured, Held'
      PROVE  ReviewsTInv'
  <2>1. Types' /\ Captured'
    BY <1>0, <1>9 DEF Types, Captured, db, world
  <2>2. QED
    BY <1>9, <2>1 DEF ReviewsTInv, ReviewsTypeOK, Types, Held, Holding
<1>10. ASSUME NEW p \in Procs, AcquireLock(p) PROVE ReviewsTInv'
  <2> DEFINE t == [tx[p] EXCEPT !.at = "locked"]
  <2>1. /\ t \in Tx /\ t.since = tx[p].since /\ t.kind = tx[p].kind /\ t.review = tx[p].review
        /\ t.at = "locked" /\ t.writes = tx[p].writes
        /\ p = Worker => t.kind = "expire"
    BY <1>0 DEF Tx
  <2>2. /\ tx' = [tx EXCEPT ![p] = t] /\ UNCHANGED <<db, world>> /\ tx[p].key \in Lock
        /\ holder' = [holder EXCEPT ![tx[p].key] = p] /\ tx[p].at = "keyed"
    BY <1>0, <1>10 DEF AcquireLock, Tx, Lock
  <2> HIDE DEF t
  <2>3. holder' \in [Lock -> Procs \cup {Nobody}] /\ Held'
    BY <1>0, <2>1, <2>2 DEF Types, Held, Holding
  <2>4. QED
    BY <1>0, <1>9, <2>1, <2>2, <2>3
<1>11. ASSUME NEW p \in Procs, NEW k \in Chain, AcquireChain(p, k) PROVE ReviewsTInv'
  <2> DEFINE t == [tx[p] EXCEPT !.chains = @ \cup {k}, !.tail = IF k = "decisions" THEN Len(chain) ELSE @]
  <2>1. /\ t \in Tx /\ t.since = tx[p].since /\ t.kind = tx[p].kind /\ t.review = tx[p].review
        /\ t.at = tx[p].at /\ t.writes = tx[p].writes
        /\ p = Worker => t.kind = "expire"
    BY <1>0 DEF Tx
  <2>2. /\ tx' = [tx EXCEPT ![p] = t] /\ UNCHANGED <<db, world>> /\ tx[p].at = "read"
        /\ holder' = [holder EXCEPT ![k] = p]
    BY <1>11 DEF AcquireChain
  <2> HIDE DEF t
  <2>3. holder' \in [Lock -> Procs \cup {Nobody}] /\ Held'
    BY <1>0, <2>1, <2>2 DEF Types, Held, Holding, Lock
  <2>4. QED
    BY <1>0, <1>9, <2>1, <2>2, <2>3
<1>12. ASSUME NEW p \in Procs, holder' = Released(p), NEW t \in Tx, tx' = [tx EXCEPT ![p] = t]
       PROVE holder' \in [Lock -> Procs \cup {Nobody}] /\ Held'
  BY <1>0, <1>12 DEF Types, Held, Holding, Released
<1>13. ASSUME NEW p \in Procs
       PROVE \E t \in Tx : /\ Done(p) = [tx EXCEPT ![p] = t] /\ t.since \subseteq captured
                           /\ t.kind = "receive" => t.review \in captured
                           /\ p = Worker => t.kind = "expire"
                           /\ \A r \in Reviews : t.writes[r] # "none" => r \in captured
  <2> DEFINE t == [tx[p] EXCEPT !.at = "begun", !.chains = {}]
  <2>1. /\ t \in Tx /\ t.since = tx[p].since /\ t.kind = tx[p].kind /\ t.review = tx[p].review
        /\ t.writes = tx[p].writes
    BY <1>0 DEF Tx
  <2>2. Done(p) = [tx EXCEPT ![p] = t] \/ Done(p) = [tx EXCEPT ![p] = IdleTx]
    BY DEF Done
  <2> HIDE DEF t
  <2>3. QED
    BY <1>0, <2>1, <2>2, IdleTyped
<1>14. ASSUME NEW p \in Procs, Commit(p) PROVE ReviewsTInv'
  <2> DEFINE t == tx[p]
  <2>1. /\ t.writes \in [Reviews -> Status \cup {"none"}] /\ t.tail \in Nat /\ t.since \subseteq captured
        /\ \A r \in Written(t) : r \in Reviews /\ t.writes[r] \in Status /\ r \in captured
    BY <1>0 DEF Tx, Written
  <2>2. /\ group' = [r \in Reviews |-> IF r \in Written(t) THEN Append(group[r], t.writes[r]) ELSE group[r]]
        /\ chain' = chain \o [i \in 1..Cardinality(Written(t)) |-> t.tail + i - 1]
        /\ commands' = [r \in Reviews |-> IF t.kind = "allow" /\ t.writes[r] = "allowed"
                                          THEN commands[r] + 1 ELSE commands[r]]
        /\ alone' = alone \/ alone' = alone + 1
        /\ codeOpens' = codeOpens \/ codeOpens' = codeOpens + 1
        /\ code' = code \/ code' = "used"
        /\ cleared' \subseteq cleared \cup t.since
        /\ holder' = Released(p) /\ tx' = Done(p) /\ UNCHANGED world
    BY <1>14 DEF Commit
  <2>3. Cardinality(Written(t)) \in Nat
    BY FS_Subset, FS_CardinalityType DEF Written, ReviewsAssumption
  <2>4. PICK u \in Tx : /\ tx' = [tx EXCEPT ![p] = u] /\ u.since \subseteq captured
                        /\ u.kind = "receive" => u.review \in captured
                        /\ p = Worker => u.kind = "expire"
                        /\ \A r \in Reviews : u.writes[r] # "none" => r \in captured
    BY <1>13, <2>2
  <2> HIDE DEF t
  <2>5. holder' \in [Lock -> Procs \cup {Nobody}] /\ Held'
    BY <1>12, <2>2, <2>4
  <2>6. group' \in [Reviews -> Seq(Status)]
    BY <1>0, <2>1, <2>2 DEF Types
  <2>7. chain' \in Seq(Nat)
    <3> DEFINE n == Cardinality(Written(t))
               new == [i \in 1..n |-> t.tail + i - 1]
    <3>1. n \in Nat
      BY <2>3
    <3> HIDE DEF n
    <3>2. new \in Seq(Nat)
      BY <2>1, <3>1
    <3> HIDE DEF new
    <3>3. QED
      BY <1>0, <2>2, <3>2 DEF Types, n, new
  <2>8. commands' \in [Reviews -> Nat] /\ alone' \in Nat /\ codeOpens' \in Nat /\ code' \in {"active", "used"}
    BY <1>0, <2>2 DEF Types
  <2>9. Types'
    BY <1>0, <2>1, <2>2, <2>4, <2>5, <2>6, <2>7, <2>8 DEF Types, world
  <2>10. \A r \in Reviews : group'[r] # <<>> => r \in captured
    BY <1>0, <2>1, <2>2 DEF Captured, Types
  <2>11. Captured'
    BY <1>0, <2>2, <2>4, <2>10 DEF Captured, Types, world
  <2>12. QED
    BY <2>5, <2>9, <2>11 DEF ReviewsTInv, ReviewsTypeOK, Types, Held, Holding
<1>15. ASSUME NEW p \in Procs, Abort(p) PROVE ReviewsTInv'
  <2>1. /\ holder' = Released(p) /\ tx' = [tx EXCEPT ![p] = IdleTx] /\ UNCHANGED <<db, world>>
    BY <1>15 DEF Abort
  <2>2. QED
    BY <1>9, <1>12, <2>1, IdleTyped
<1>16. CASE UNCHANGED reviewVars
  BY <1>0, <1>16 DEF reviewVars, db, world, Types, Captured, Held, ReviewsTInv, ReviewsTypeOK, Holding
<1>17. QED
  BY <1>1, <1>2, <1>3, <1>4, <1>5, <1>6, <1>7, <1>8, <1>10, <1>11, <1>14, <1>15, <1>16
     DEF ReviewsNext, Proceed

\* The records and transactions keep to their kinds and no lock outlives its transaction.
THEOREM ReviewsTypeCorrect == ReviewsAssumption => (ReviewsSpec => []ReviewsTypeOK)
<1> SUFFICES ASSUME ReviewsAssumption PROVE ReviewsSpec => []ReviewsTypeOK
    OBVIOUS
<1>1. ReviewsInit => ReviewsTInv
  BY TypeInit
<1>2. ReviewsTInv /\ [ReviewsNext]_reviewVars => ReviewsTInv'
  BY TypeStep
<1>3. ReviewsTInv => ReviewsTypeOK
  BY DEF ReviewsTInv
<1>4. QED
  BY <1>1, <1>2, <1>3, PTL DEF ReviewsSpec

-----------------------------------------------------------------------------
\* Who has read the tail of the decisions' chain holds its lock, and the tail stands.
Chained == \A p \in Procs : "decisions" \in tx[p].chains => holder["decisions"] = p /\ tx[p].tail = Len(chain)

CInv == ReviewsTInv /\ ChainUnbroken /\ Chained

LEMMA ChainInit == ASSUME ReviewsAssumption, ReviewsInit PROVE CInv
BY TypeInit, IdleTyped DEF ReviewsInit, CInv, ChainUnbroken, Chained

LEMMA ChainStep == ASSUME ReviewsAssumption, CInv, [ReviewsNext]_reviewVars PROVE CInv'
<1>0. /\ ReviewsTInv' /\ tx \in [Procs -> Tx] /\ holder \in [Lock -> Procs \cup {Nobody}] /\ chain \in Seq(Nat)
      /\ \A p \in Procs : tx[p].key \in Key /\ tx[p].writes \in [Reviews -> Status \cup {"none"}]
                          /\ tx[p].tail \in Nat
      /\ Worker \in Procs /\ Nobody \notin Procs /\ "decisions" \in Lock /\ Chain \subseteq Lock
      /\ ChainUnbroken /\ Chained
  BY TypeStep, TInvIs DEF CInv, Types, Tx, Procs, ReviewsAssumption, Lock, Chain
\* A step that does not touch the decisions: nobody gets at their chain, nobody loses it.
<1>1. ASSUME UNCHANGED chain, NEW p \in Procs, NEW t, tx' = [tx EXCEPT ![p] = t],
             \/ t.chains = {} /\ (holder'["decisions"] = holder["decisions"] \/ holder["decisions"] = p)
             \/ /\ "decisions" \in t.chains => "decisions" \in tx[p].chains /\ t.tail = tx[p].tail
                /\ holder'["decisions"] = holder["decisions"]
      PROVE  CInv'
  BY <1>0, <1>1 DEF CInv, ChainUnbroken, Chained
<1>2. ASSUME UNCHANGED <<chain, tx, holder>> PROVE CInv'
  BY <1>0, <1>2 DEF CInv, ChainUnbroken, Chained
<1>3. ASSUME NEW r \in Reviews, Capture(r) \/ DeadlinePasses(r) PROVE CInv'
  BY <1>2, <1>3 DEF Capture, DeadlinePasses, db
<1>4. CASE Toggle
  BY <1>2, <1>4 DEF Toggle, db
<1>6. ASSUME NEW p \in Procs, NEW kind \in Kind, NEW r \in Reviews, Begin(p, kind, r) PROVE CInv'
  <2> DEFINE t == [IdleTx EXCEPT !.at = IF kind \in {"allow", "deny"} THEN "begun" ELSE "keyed",
                                 !.kind = kind, !.review = r, !.barrier = active,
                                 !.key = CanonicalKey(kind), !.overdue = late, !.since = captured]
  <2>1. t.chains = {}
    BY IdleTyped DEF Tx
  <2>2. tx' = [tx EXCEPT ![p] = t] /\ UNCHANGED <<chain, holder>>
    BY <1>6 DEF Begin, db
  <2> HIDE DEF t
  <2>3. QED
    BY <1>1, <2>1, <2>2
<1>7. ASSUME NEW p \in Procs, ReadKey(p) PROVE CInv'
  <2> DEFINE t == [tx[p] EXCEPT !.at = "keyed", !.key = CanonicalKey(tx[p].kind)]
  <2>1. tx[p] \in Tx
    BY <1>0
  <2>2. /\ t.chains = tx[p].chains /\ t.tail = tx[p].tail
        /\ tx' = [tx EXCEPT ![p] = t] /\ UNCHANGED <<chain, holder>>
    BY <1>7, <2>1 DEF Tx, ReadKey, db
  <2> HIDE DEF t
  <2>3. QED
    BY <1>1, <2>2
<1>8. CASE Tick
  <2> DEFINE t == [IdleTx EXCEPT !.at = "begun", !.overdue = late, !.todo = Due \X {CanonicalKey("expire")}]
  <2>1. t.chains = {}
    BY IdleTyped DEF Tx
  <2>2. tx' = [tx EXCEPT ![Worker] = t] /\ UNCHANGED <<chain, holder>>
    BY <1>8 DEF Tick, db
  <2> HIDE DEF t
  <2>3. QED
    BY <1>0, <1>1, <2>1, <2>2
<1>9. CASE NextDue
  <2>1. PICK due \in tx[Worker].todo :
           tx' = [tx EXCEPT ![Worker].at = "keyed", ![Worker].review = due[1], ![Worker].key = due[2],
                            ![Worker].todo = @ \ {due}]
    BY <1>9 DEF NextDue
  <2> DEFINE t == [tx[Worker] EXCEPT !.at = "keyed", !.review = due[1], !.key = due[2], !.todo = @ \ {due}]
  <2>2. /\ t.chains = tx[Worker].chains /\ t.tail = tx[Worker].tail
        /\ tx' = [tx EXCEPT ![Worker] = t] /\ UNCHANGED <<chain, holder>>
    BY <1>0, <1>9, <2>1 DEF Tx, NextDue, db
  <2> HIDE DEF t
  <2>3. QED
    BY <1>0, <1>1, <2>2
<1>10. ASSUME NEW p \in Procs, AcquireLock(p) PROVE CInv'
  <2> DEFINE t == [tx[p] EXCEPT !.at = "locked"]
  <2>0. tx[p] \in Tx
    BY <1>0
  <2>1. t.chains = tx[p].chains /\ t.tail = tx[p].tail
    BY <2>0 DEF Tx
  <2>2. tx' = [tx EXCEPT ![p] = t] /\ UNCHANGED chain /\ holder'["decisions"] = holder["decisions"]
    BY <1>0, <1>10 DEF AcquireLock, db, Key
  <2> HIDE DEF t
  <2>3. QED
    BY <1>1, <2>1, <2>2
<1>11. ASSUME NEW p \in Procs, Read(p) PROVE CInv'
  <2> DEFINE t == [tx[p] EXCEPT !.at = "read", !.writes = Writes(tx[p]), !.opens = Opens(tx[p])]
  <2>1. /\ t.chains = tx[p].chains /\ t.tail = tx[p].tail
        /\ tx' = [tx EXCEPT ![p] = t] /\ UNCHANGED <<chain, holder>>
    BY <1>0, <1>11 DEF Tx, Read, db
  <2> HIDE DEF t
  <2>2. QED
    BY <1>1, <2>1
<1>12. ASSUME NEW p \in Procs, NEW k \in Chain, AcquireChain(p, k) PROVE CInv'
  <2> DEFINE t == [tx[p] EXCEPT !.chains = @ \cup {k}, !.tail = IF k = "decisions" THEN Len(chain) ELSE @]
  <2>0. tx[p] \in Tx
    BY <1>0
  <2>1. /\ t.chains = tx[p].chains \cup {k}
        /\ t.tail = IF k = "decisions" THEN Len(chain) ELSE tx[p].tail
    BY <2>0 DEF Tx
  <2>2. /\ tx' = [tx EXCEPT ![p] = t] /\ UNCHANGED chain
        /\ holder' = [holder EXCEPT ![k] = p] /\ holder[k] = Nobody
    BY <1>12 DEF AcquireChain, ChainFree, db
  <2> HIDE DEF t
  <2>3. CASE k # "decisions"
    BY <1>0, <1>1, <2>1, <2>2, <2>3
  <2>4. CASE k = "decisions"
    <3>1. \A q \in Procs : "decisions" \notin tx[q].chains
      BY <1>0, <2>2, <2>4 DEF Chained
    <3>2. holder'["decisions"] = p /\ tx'[p].tail = Len(chain) /\ \A q \in Procs \ {p} : tx'[q] = tx[q]
      BY <1>0, <2>1, <2>2, <2>4
    <3>3. QED
      BY <1>0, <2>2, <3>1, <3>2 DEF CInv, ChainUnbroken, Chained
  <2>5. QED
    BY <2>3, <2>4
<1>13. \A t \in Tx : [t EXCEPT !.at = "begun", !.chains = {}].chains = {}
  BY DEF Tx
<1>14. ASSUME NEW p \in Procs, holder' = Released(p), tx' = Done(p) \/ tx' = [tx EXCEPT ![p] = IdleTx]
       PROVE  /\ tx'[p].chains = {} /\ \A q \in Procs \ {p} : tx'[q] = tx[q]
              /\ holder'["decisions"] = holder["decisions"] \/ holder["decisions"] = p
  BY <1>0, <1>14, <1>13, IdleTyped DEF Done, Released
<1>15. ASSUME NEW p \in Procs, Commit(p) PROVE CInv'
  <2> DEFINE n == Cardinality(Written(tx[p]))
             new == [i \in 1..n |-> tx[p].tail + i - 1]
  <2>1. holder' = Released(p) /\ tx' = Done(p) /\ chain' = chain \o new
    BY <1>15 DEF Commit
  <2>2. n \in Nat
    BY FS_Subset, FS_CardinalityType DEF Written, ReviewsAssumption
  <2>3. CASE "decisions" \in tx[p].chains
    <3> HIDE DEF n
    <3>1. tx[p].tail = Len(chain) /\ holder["decisions"] = p
      BY <1>0, <2>3 DEF Chained
    <3>2. new \in Seq(Nat) /\ Len(new) = n /\ \A i \in 1..n : new[i] = Len(chain) + i - 1
      BY <1>0, <2>2, <3>1
    <3> HIDE DEF new
    <3>3. ChainUnbroken'
      BY <1>0, <2>1, <2>2, <3>2 DEF ChainUnbroken
    <3>4. \A q \in Procs : "decisions" \notin tx'[q].chains
      <4>1. tx'[p].chains = {} /\ \A q \in Procs \ {p} : tx'[q] = tx[q]
        BY <1>14, <2>1
      <4>2. \A q \in Procs \ {p} : "decisions" \notin tx[q].chains
        BY <1>0, <3>1 DEF Chained
      <4>3. QED
        BY <4>1, <4>2
    <3>5. QED
      BY <1>0, <3>3, <3>4 DEF CInv, Chained
  <2>4. CASE tx[p].writes = NoWrites
    <3>1. Written(tx[p]) = {}
      BY <2>4 DEF Written, NoWrites
    <3>2. n = 0
      BY <3>1, FS_EmptySet
    <3> HIDE DEF n
    <3>3. new = <<>>
      BY <3>2
    <3> HIDE DEF new
    <3>4. chain' = chain
      BY <1>0, <2>1, <3>3, ConcatEmptySeq
    <3>5. QED
      BY <1>0, <1>14, <2>1, <3>4 DEF CInv, ChainUnbroken, Chained
  <2>5. QED
    BY <1>15, <2>3, <2>4 DEF Commit, Appends, Chain
<1>16. ASSUME NEW p \in Procs, Abort(p) PROVE CInv'
  <2>1. UNCHANGED chain /\ holder' = Released(p) /\ tx' = [tx EXCEPT ![p] = IdleTx]
    BY <1>16 DEF Abort, db
  <2>2. QED
    BY <1>0, <1>14, <2>1 DEF CInv, ChainUnbroken, Chained
<1>17. CASE UNCHANGED reviewVars
  BY <1>2, <1>17 DEF reviewVars, db
<1>18. QED
  BY <1>3, <1>4, <1>6, <1>7, <1>8, <1>9, <1>10, <1>11, <1>12, <1>15, <1>16, <1>17 DEF ReviewsNext, Proceed

\* Every row of the decisions hashes the row before it, whoever wrote it, whatever barrier
\* lock its writer held and however often the barrier changes its state.
THEOREM ChainHolds == ReviewsAssumption => (ReviewsSpec => []ChainUnbroken)
<1> SUFFICES ASSUME ReviewsAssumption PROVE ReviewsSpec => []ChainUnbroken
    OBVIOUS
<1>1. ReviewsInit => CInv
  BY ChainInit
<1>2. CInv /\ [ReviewsNext]_reviewVars => CInv'
  BY ChainStep
<1>3. CInv => ChainUnbroken
  BY DEF CInv
<1>4. QED
  BY <1>1, <1>2, <1>3, PTL DEF ReviewsSpec

-----------------------------------------------------------------------------
\* With a barrier that keeps its state everybody waits for one lock, and what a
\* transaction has decided to write under it is what it would decide now.
OneKey ==
    /\ active /\ toggles = 0
    /\ \A p \in Procs : /\ tx[p].at \in {"keyed", "locked", "read"} => tx[p].key = "barrier"
                        /\ \A due \in tx[p].todo : due[2] = "barrier"
Exclusive == \A p \in Procs : tx[p].at \in Holding => holder["barrier"] = p
Fresh == \A p \in Procs : tx[p].at = "read" =>
             tx[p].writes = Writes(tx[p]) /\ tx[p].opens = Opens(tx[p])
CodeCounted == codeOpens = IF code = "active" THEN 0 ELSE 1

LInv == ReviewsTInv /\ OneKey /\ Exclusive /\ Fresh /\ CodeCounted

LEMMA LifeInit == ASSUME ReviewsAssumption, ReviewsInit PROVE LInv
BY TypeInit, IdleTyped DEF ReviewsInit, LInv, OneKey, Exclusive, Fresh, CodeCounted, Holding

\* The decision reads the records and what the transaction took along.
LEMMA SameDecision ==
  ASSUME UNCHANGED db, NEW t, NEW u, t.kind = u.kind, t.review = u.review, t.barrier = u.barrier,
         t.overdue = u.overdue
  PROVE  Writes(t) = Writes(u) /\ Opens(t) = Opens(u)
BY DEF Writes, Opens, Received, Resolved, ActiveReviews, CodeValid

LEMMA DecisionStands ==
  ASSUME UNCHANGED db, NEW p \in Procs
  PROVE  Writes(tx[p])' = Writes(tx'[p]) /\ Opens(tx[p])' = Opens(tx'[p])
BY DEF Writes, Opens, Received, Resolved, Resolvable, ActiveReviews, CodeValid, Pending, Current,
       One, ExpireAll, NoWrites, db

\* A step that keeps the records and what others do.
LEMMA LifeTxStep ==
  ASSUME ReviewsAssumption, LInv, ReviewsTInv', UNCHANGED <<db, active, toggles>>,
         NEW p \in Procs, NEW t, tx' = [tx EXCEPT ![p] = t],
         t.at \in {"keyed", "locked", "read"} => t.key = "barrier",
         \A due \in t.todo : due[2] = "barrier",
         t.at \in Holding => holder'["barrier"] = p,
         \A q \in Procs \ {p} : tx[q].at \in Holding => holder'["barrier"] = holder["barrier"],
         t.at = "read" => t.writes = Writes(t) /\ t.opens = Opens(t)
  PROVE  LInv'
<1>0. /\ tx \in [Procs -> Tx]
      /\ \A q \in Procs : tx'[q] = IF q = p THEN t ELSE tx[q]
  BY TInvIs DEF LInv, Types
<1>1. OneKey' /\ Exclusive'
  BY <1>0 DEF LInv, OneKey, Exclusive
<1>2. Fresh'
  <2>1. ASSUME NEW q \in Procs, tx'[q].at = "read"
        PROVE  tx'[q].writes = Writes(tx[q])' /\ tx'[q].opens = Opens(tx[q])'
    <3>1. tx'[q].writes = Writes(tx'[q]) /\ tx'[q].opens = Opens(tx'[q])
      BY <1>0, <2>1 DEF LInv, Fresh
    <3>2. QED
      BY <3>1, DecisionStands
  <2>2. QED
    BY <2>1 DEF Fresh
<1>3. CodeCounted'
  BY DEF LInv, CodeCounted, db
<1>4. QED
  BY <1>1, <1>2, <1>3 DEF LInv

LEMMA LifeStep == ASSUME ReviewsAssumption, ToggleBound = 0, LInv, [ReviewsNext]_reviewVars PROVE LInv'
<1>0. /\ ReviewsTInv /\ ReviewsTInv' /\ tx \in [Procs -> Tx] /\ holder \in [Lock -> Procs \cup {Nobody}]
      /\ \A p \in Procs : tx[p] \in Tx
      /\ Worker \in Procs /\ Nobody \notin Procs /\ {"barrier", "gate"} \subseteq Lock /\ "barrier" \notin Chain
      /\ OneKey /\ Exclusive /\ Fresh /\ CodeCounted
      /\ \A kind \in Kind : CanonicalKey(kind) = "barrier"
  BY TypeStep, TInvIs DEF LInv, Types, Procs, ReviewsAssumption, Lock, Key, Chain, OneKey, CanonicalKey
<1>1. ASSUME UNCHANGED <<db, active, toggles, tx, holder>> PROVE LInv'
  <2>1. Fresh'
    BY <1>0, <1>1, DecisionStands DEF Fresh
  <2>2. QED
    BY <1>0, <1>1, <2>1 DEF LInv, OneKey, Exclusive, CodeCounted, db
<1>2. ASSUME NEW r \in Reviews, Capture(r) \/ DeadlinePasses(r) PROVE LInv'
  BY <1>1, <1>2 DEF Capture, DeadlinePasses
<1>3. CASE Toggle
  BY <1>0, <1>3 DEF Toggle, OneKey
<1>4. ASSUME NEW p \in Procs, NEW kind \in Kind, NEW r \in Reviews, Begin(p, kind, r) PROVE LInv'
  <2> DEFINE t == [IdleTx EXCEPT !.at = IF kind \in {"allow", "deny"} THEN "begun" ELSE "keyed",
                                 !.kind = kind, !.review = r, !.barrier = active,
                                 !.key = CanonicalKey(kind), !.overdue = late, !.since = captured]
  <2>1. t.at \in {"begun", "keyed"} /\ t.key = "barrier" /\ t.todo = {}
    BY <1>0, IdleTyped DEF Tx
  <2>2. tx' = [tx EXCEPT ![p] = t] /\ UNCHANGED <<db, active, toggles, holder>>
    BY <1>4 DEF Begin, world
  <2> HIDE DEF t
  <2>3. QED
    BY <1>0, <2>1, <2>2, LifeTxStep DEF Holding
<1>5. ASSUME NEW p \in Procs, ReadKey(p) PROVE LInv'
  <2> DEFINE t == [tx[p] EXCEPT !.at = "keyed", !.key = CanonicalKey(tx[p].kind)]
  <2>1. t.at = "keyed" /\ t.key = "barrier" /\ t.todo = tx[p].todo
    BY <1>0 DEF Tx
  <2>2. tx' = [tx EXCEPT ![p] = t] /\ UNCHANGED <<db, active, toggles, holder>>
    BY <1>5 DEF ReadKey, world
  <2> HIDE DEF t
  <2>3. \A due \in t.todo : due[2] = "barrier"
    BY <1>0, <2>1 DEF OneKey
  <2>4. QED
    BY <1>0, <2>1, <2>2, <2>3, LifeTxStep DEF Holding
<1>6. CASE Tick
  <2> DEFINE t == [IdleTx EXCEPT !.at = "begun", !.overdue = late, !.todo = Due \X {CanonicalKey("expire")}]
  <2>1. t.at = "begun" /\ \A due \in t.todo : due[2] = "barrier"
    BY <1>0, IdleTyped DEF Tx, Kind
  <2>2. tx' = [tx EXCEPT ![Worker] = t] /\ UNCHANGED <<db, active, toggles, holder>>
    BY <1>6 DEF Tick, world
  <2> HIDE DEF t
  <2>3. QED
    BY <1>0, <2>1, <2>2, LifeTxStep DEF Holding
<1>7. CASE NextDue
  <2>1. PICK due \in tx[Worker].todo :
           tx' = [tx EXCEPT ![Worker].at = "keyed", ![Worker].review = due[1], ![Worker].key = due[2],
                            ![Worker].todo = @ \ {due}]
    BY <1>7 DEF NextDue
  <2> DEFINE t == [tx[Worker] EXCEPT !.at = "keyed", !.review = due[1], !.key = due[2], !.todo = @ \ {due}]
  <2>2. t.at = "keyed" /\ t.key = due[2] /\ t.todo = tx[Worker].todo \ {due}
    BY <1>0 DEF Tx
  <2>3. tx' = [tx EXCEPT ![Worker] = t] /\ UNCHANGED <<db, active, toggles, holder>>
    BY <1>7, <2>1 DEF NextDue, world
  <2> HIDE DEF t
  <2>4. t.key = "barrier" /\ \A d \in t.todo : d[2] = "barrier"
    BY <1>0, <2>2 DEF OneKey
  <2>5. QED
    BY <1>0, <2>2, <2>3, <2>4, LifeTxStep DEF Holding
<1>8. ASSUME NEW p \in Procs PROVE \A due \in tx[p].todo : due[2] = "barrier"
  BY <1>0 DEF OneKey
<1>9. ASSUME NEW p \in Procs, AcquireLock(p) PROVE LInv'
  <2> DEFINE t == [tx[p] EXCEPT !.at = "locked"]
  <2>1. t.at = "locked" /\ t.key = tx[p].key /\ t.todo = tx[p].todo
    BY <1>0 DEF Tx
  <2>2. /\ tx' = [tx EXCEPT ![p] = t] /\ UNCHANGED <<db, active, toggles>>
        /\ tx[p].at = "keyed" /\ tx[p].key = "barrier"
        /\ holder' = [holder EXCEPT !["barrier"] = p] /\ holder["barrier"] = Nobody
    BY <1>0, <1>9 DEF AcquireLock, world, OneKey
  <2> HIDE DEF t
  <2>3. \A q \in Procs : tx[q].at \notin Holding
    BY <1>0, <2>2 DEF Exclusive
  <2>4. holder'["barrier"] = p
    BY <1>0, <2>2
  <2>5. QED
    BY <1>0, <1>8, <2>1, <2>2, <2>3, <2>4, LifeTxStep
<1>10. ASSUME NEW p \in Procs, Read(p) PROVE LInv'
  <2> DEFINE t == [tx[p] EXCEPT !.at = "read", !.writes = Writes(tx[p]), !.opens = Opens(tx[p])]
  <2>1. /\ t.at = "read" /\ t.key = tx[p].key /\ t.todo = tx[p].todo
        /\ t.writes = Writes(tx[p]) /\ t.opens = Opens(tx[p])
        /\ t.kind = tx[p].kind /\ t.review = tx[p].review /\ t.barrier = tx[p].barrier
        /\ t.overdue = tx[p].overdue
    BY <1>0 DEF Tx
  <2>2. tx' = [tx EXCEPT ![p] = t] /\ UNCHANGED <<db, active, toggles, holder>> /\ tx[p].at = "locked"
    BY <1>10 DEF Read, world
  <2> HIDE DEF t
  <2>3. t.writes = Writes(t) /\ t.opens = Opens(t)
    BY <2>1, <2>2, SameDecision
  <2>4. t.key = "barrier" /\ holder'["barrier"] = p /\ holder'["barrier"] = holder["barrier"]
    BY <1>0, <2>1, <2>2 DEF OneKey, Exclusive, Holding
  <2>5. \A due \in t.todo : due[2] = "barrier"
    BY <1>8, <2>1
  <2>6. LInv /\ ReviewsTInv' /\ UNCHANGED <<db, active, toggles>> /\ tx' = [tx EXCEPT ![p] = t]
    BY <1>0, <2>2
  <2>7. QED
    BY <2>3, <2>4, <2>5, <2>6, LifeTxStep
<1>11. ASSUME NEW p \in Procs, NEW k \in Chain, AcquireChain(p, k) PROVE LInv'
  <2> DEFINE t == [tx[p] EXCEPT !.chains = @ \cup {k}, !.tail = IF k = "decisions" THEN Len(chain) ELSE @]
  <2>1. /\ t.at = tx[p].at /\ t.key = tx[p].key /\ t.todo = tx[p].todo
        /\ t.writes = tx[p].writes /\ t.opens = tx[p].opens
        /\ t.kind = tx[p].kind /\ t.review = tx[p].review /\ t.barrier = tx[p].barrier
        /\ t.overdue = tx[p].overdue
    BY <1>0 DEF Tx
  <2>2. /\ tx' = [tx EXCEPT ![p] = t] /\ UNCHANGED <<db, active, toggles>> /\ tx[p].at = "read"
        /\ holder'["barrier"] = holder["barrier"]
    BY <1>0, <1>11 DEF AcquireChain, world
  <2> HIDE DEF t
  <2>3. t.writes = Writes(t) /\ t.opens = Opens(t)
    BY <1>0, <2>1, <2>2, SameDecision DEF Fresh
  <2>4. t.key = "barrier" /\ holder'["barrier"] = p /\ holder'["barrier"] = holder["barrier"]
    BY <1>0, <2>1, <2>2 DEF OneKey, Exclusive, Holding
  <2>5. \A due \in t.todo : due[2] = "barrier"
    BY <1>8, <2>1
  <2>6. LInv /\ ReviewsTInv' /\ UNCHANGED <<db, active, toggles>> /\ tx' = [tx EXCEPT ![p] = t]
    BY <1>0, <2>2
  <2>7. QED
    BY <2>3, <2>4, <2>5, <2>6, LifeTxStep
<1>12. ASSUME NEW p \in Procs, Abort(p) PROVE LInv'
  <2>1. tx' = [tx EXCEPT ![p] = IdleTx] /\ UNCHANGED <<db, active, toggles>> /\ holder' = Released(p)
    BY <1>12 DEF Abort, world
  <2>2. \A q \in Procs \ {p} : tx[q].at \in Holding => holder'["barrier"] = holder["barrier"]
    BY <1>0, <2>1 DEF Exclusive, Released
  <2>3. QED
    BY <1>0, <2>1, <2>2, IdleTyped, LifeTxStep DEF Holding
<1>13. ASSUME NEW p \in Procs, Commit(p) PROVE LInv'
  <2>1. /\ tx[p].at = "read" /\ tx' = Done(p) /\ UNCHANGED <<active, toggles>>
        /\ codeOpens' = IF tx[p].opens /\ tx[p].kind = "code" THEN codeOpens + 1 ELSE codeOpens
        /\ code' = IF tx[p].opens /\ tx[p].kind = "code" THEN "used" ELSE code
    BY <1>13 DEF Commit, world
  <2>2. \A q \in Procs \ {p} : tx[q].at \notin Holding
    BY <1>0, <2>1 DEF Exclusive, Holding
  <2>3. \A q \in Procs \ {p} : tx'[q] = tx[q]
    BY <1>0, <2>1 DEF Done
  <2>4. tx'[p].at \in {"idle", "begun"} /\ tx'[p].todo \subseteq tx[p].todo
    <3> DEFINE t == [tx[p] EXCEPT !.at = "begun", !.chains = {}]
    <3>1. t.at = "begun" /\ t.todo = tx[p].todo
      BY <1>0 DEF Tx
    <3>2. tx'[p] = IdleTx \/ tx'[p] = t
      BY <1>0, <2>1 DEF Done
    <3> HIDE DEF t
    <3>3. QED
      BY <3>1, <3>2, IdleTyped
  <2>5. \A q \in Procs : tx'[q].at \notin Holding
    BY <2>2, <2>3, <2>4 DEF Holding
  <2>6. OneKey'
    BY <1>0, <2>1, <2>2, <2>3, <2>4 DEF OneKey, Holding
  <2>7. Exclusive' /\ Fresh'
    BY <2>5 DEF Exclusive, Fresh, Holding
  <2>8. tx[p].opens /\ tx[p].kind = "code" => code = "active"
    BY <1>0, <2>1 DEF Fresh, Opens, CodeValid
  <2>9. CodeCounted'
    BY <1>0, <2>1, <2>8 DEF CodeCounted
  <2>10. QED
    BY <1>0, <2>6, <2>7, <2>9 DEF LInv
<1>14. CASE UNCHANGED reviewVars
  BY <1>1, <1>14 DEF reviewVars, world
<1>15. QED
  BY <1>2, <1>3, <1>4, <1>5, <1>6, <1>7, <1>9, <1>10, <1>11, <1>12, <1>13, <1>14 DEF ReviewsNext, Proceed

\* What a commit does to the life of the reviews.
St == [r \in Reviews |-> Current(r)]
StWith(w) == [r \in Reviews |-> IF w[r] = "none" THEN Current(r) ELSE w[r]]

LEMMA CommitLife ==
  ASSUME ReviewsAssumption, LInv, NEW p \in Procs, Commit(p)
  PROVE  /\ St' = StWith(Writes(tx[p]))
         /\ commands' = [r \in Reviews |-> IF tx[p].kind = "allow" /\ Writes(tx[p])[r] = "allowed"
                                           THEN commands[r] + 1 ELSE commands[r]]
         /\ alone' = IF Opens(tx[p]) /\ tx[p].kind = "alone" THEN alone + 1 ELSE alone
         /\ codeOpens' = IF Opens(tx[p]) /\ tx[p].kind = "code" THEN codeOpens + 1 ELSE codeOpens
<1>0. /\ group \in [Reviews -> Seq(Status)] /\ tx[p].writes \in [Reviews -> Status \cup {"none"}]
      /\ tx[p].writes = Writes(tx[p]) /\ tx[p].opens = Opens(tx[p])
  BY TInvIs DEF LInv, Types, Tx, Fresh, Commit
<1>1. group' = [r \in Reviews |-> IF tx[p].writes[r] # "none" THEN Append(group[r], tx[p].writes[r])
                                                              ELSE group[r]]
  BY DEF Commit, Written
<1>2. ASSUME NEW r \in Reviews
      PROVE  Current(r)' = IF tx[p].writes[r] = "none" THEN Current(r) ELSE tx[p].writes[r]
  <2>1. CASE tx[p].writes[r] = "none"
    BY <1>1, <2>1 DEF Current
  <2>2. CASE tx[p].writes[r] # "none"
    <3> DEFINE rows == group[r]
               row == tx[p].writes[r]
    <3>1. rows \in Seq(Status) /\ row \in Status /\ group'[r] = Append(rows, row)
      BY <1>0, <1>1, <2>2
    <3> HIDE DEF rows, row
    <3>2. Append(rows, row) # <<>> /\ Append(rows, row)[Len(Append(rows, row))] = row
      BY <3>1
    <3>3. Current(r)' = row
      BY <3>1, <3>2 DEF Current
    <3>4. QED
      BY <2>2, <3>3 DEF row
  <2>3. QED
    BY <2>1, <2>2
<1>3. St' = StWith(tx[p].writes)
  BY <1>2 DEF St, StWith
<1>4. QED
  BY <1>0, <1>3 DEF Commit

LEMMA LifeNext == ASSUME ReviewsAssumption, ToggleBound = 0, LInv, [ReviewsNext]_reviewVars
                  PROVE  [Lifecycle!Next]_(Lifecycle!vars)
<1>1. UNCHANGED <<group, commands, alone, codeOpens>> => UNCHANGED Lifecycle!vars
  BY DEF Lifecycle!vars, Current
<1>2. ASSUME UNCHANGED db PROVE UNCHANGED Lifecycle!vars
  BY <1>1, <1>2 DEF db
<1>3. ASSUME NEW p \in Procs, Commit(p) PROVE [Lifecycle!Next]_(Lifecycle!vars)
  <2> DEFINE t == tx[p]
             w == Writes(t)
  <2>0. /\ t.kind \in Kind /\ t.review \in Reviews /\ commands \in [Reviews -> Nat] /\ CodeCounted
        /\ \A r \in Reviews : St[r] = Current(r)
    BY TInvIs DEF LInv, Types, Tx, St
  <2>1. /\ St' = StWith(w)
        /\ commands' = [r \in Reviews |-> IF t.kind = "allow" /\ w[r] = "allowed"
                                          THEN commands[r] + 1 ELSE commands[r]]
        /\ alone' = IF Opens(t) /\ t.kind = "alone" THEN alone + 1 ELSE alone
        /\ codeOpens' = IF Opens(t) /\ t.kind = "code" THEN codeOpens + 1 ELSE codeOpens
    BY <1>3, CommitLife
  <2> HIDE DEF t
  <2>2. StWith(NoWrites) = St
    BY DEF StWith, NoWrites, St
  <2>3. \A r \in Reviews, s \in Status : StWith(One(r, s)) = [St EXCEPT ![r] = s]
    BY DEF StWith, One, NoWrites, St, Status
  <2>4. \A S \in SUBSET Reviews : StWith(ExpireAll(S)) = Lifecycle!Lapsed(S)
    BY DEF StWith, ExpireAll, Lifecycle!Lapsed
  <2>5. \A r \in Reviews : [St EXCEPT ![r] = "expired"] = Lifecycle!Lapsed({r})
    BY DEF St, Lifecycle!Lapsed
  <2>6. ASSUME St' = St, UNCHANGED <<commands, alone, codeOpens>> PROVE UNCHANGED Lifecycle!vars
    BY <2>6 DEF St, Lifecycle!vars
  <2>7. ASSUME NEW S \in SUBSET Reviews, \A r \in S : Current(r) = "pending", St' = Lifecycle!Lapsed(S),
               UNCHANGED <<commands, alone, codeOpens>>
        PROVE  Lifecycle!Next
    BY <2>7 DEF St, Lifecycle!Next, Lifecycle!Lapse
  <2>8. (t.kind = "allow" => \A r \in Reviews : w[r] # "allowed") => commands' = commands
    BY <2>0, <2>1
  <2>9. CASE t.kind = "receive"
    <3>1. UNCHANGED <<commands, alone, codeOpens>>
      BY <2>1, <2>8, <2>9
    <3>2. CASE Current(t.review) # "none"
      BY <2>1, <2>2, <2>6, <2>9, <3>1, <3>2 DEF Writes, Received
    <3>3. CASE Current(t.review) = "none"
      <4>1. PICK s \in {"pending", "allowed"} : w = One(t.review, s)
        BY <2>9, <3>3 DEF Writes, Received
      <4>2. St' = [St EXCEPT ![t.review] = s]
        <5>1. StWith(One(t.review, s)) = [St EXCEPT ![t.review] = s]
          BY <2>0, <2>3 DEF Status
        <5>2. QED
          BY <2>1, <4>1, <5>1
      <4>3. Lifecycle!Receive(t.review)
        BY <2>0, <3>1, <3>3, <4>2 DEF Lifecycle!Receive, St
      <4>4. QED
        BY <2>0, <4>3 DEF Lifecycle!Next
    <3>4. QED
      BY <3>2, <3>3
  <2>10. CASE t.kind \in {"allow", "deny"}
    <3> DEFINE s == IF t.kind = "allow" THEN "allowed" ELSE "denied"
    <3>1. w = Resolved(t, s) /\ UNCHANGED <<alone, codeOpens>> /\ s \in Status
      BY <2>1, <2>10 DEF Writes, Status
    <3>2. CASE w = NoWrites
      <4>1. St' = St /\ UNCHANGED <<commands, alone, codeOpens>>
        BY <2>1, <2>2, <2>8, <3>1, <3>2 DEF NoWrites
      <4>2. QED
        BY <2>6, <4>1
    <3>3. CASE w = One(t.review, "expired") /\ Current(t.review) = "pending"
      <4>1. \A r \in Reviews : w[r] # "allowed"
        BY <3>3 DEF One, NoWrites
      <4>2. St' = [St EXCEPT ![t.review] = "expired"]
        BY <2>0, <2>1, <2>3, <3>3 DEF Status
      <4>3. St' = Lifecycle!Lapsed({t.review})
        BY <2>0, <2>5, <4>2
      <4>4. QED
        BY <2>0, <2>7, <2>8, <3>1, <3>3, <4>1, <4>3
    <3>4. CASE w = One(t.review, s) /\ Current(t.review) = "pending"
      <4>1. St' = [St EXCEPT ![t.review] = s] /\ St[t.review] = "pending"
        BY <2>0, <2>1, <2>3, <3>1, <3>4
      <4>2. CASE t.kind = "allow"
        <5>1. s = "allowed" /\ \A r \in Reviews : w[r] = "allowed" <=> r = t.review
          BY <3>4, <4>2 DEF One, NoWrites
        <5>2. commands' = [commands EXCEPT ![t.review] = @ + 1]
          BY <2>0, <2>1, <4>2, <5>1
        <5>3. Lifecycle!Allow(t.review)
          BY <3>1, <4>1, <5>1, <5>2 DEF Lifecycle!Allow, St
        <5>4. QED
          BY <2>0, <5>3 DEF Lifecycle!Next
      <4>3. CASE t.kind = "deny"
        <5>1. Lifecycle!Deny(t.review)
          BY <2>8, <3>1, <4>1, <4>3 DEF Lifecycle!Deny, St
        <5>2. QED
          BY <2>0, <5>1 DEF Lifecycle!Next
      <4>4. QED
        BY <2>10, <4>2, <4>3
    <3>5. QED
      BY <3>1, <3>2, <3>3, <3>4 DEF Resolved, Resolvable
  <2>11. CASE t.kind = "expire"
    <3>1. UNCHANGED <<commands, alone, codeOpens>>
      BY <2>1, <2>8, <2>11
    <3>2. CASE Current(t.review) # "pending"
      BY <2>1, <2>2, <2>6, <2>11, <3>1, <3>2 DEF Writes
    <3>3. CASE Current(t.review) = "pending"
      <4>1. w = One(t.review, "expired")
        BY <2>11, <3>3 DEF Writes
      <4>2. St' = [St EXCEPT ![t.review] = "expired"]
        BY <2>0, <2>1, <2>3, <4>1 DEF Status
      <4>3. St' = Lifecycle!Lapsed({t.review})
        BY <2>0, <2>5, <4>2
      <4>4. QED
        BY <2>0, <2>7, <3>1, <3>3, <4>3
    <3>4. QED
      BY <3>2, <3>3
  <2>12. CASE t.kind = "alone"
    <3> DEFINE S == Pending \cap t.overdue
    <3>1. w = ExpireAll(S) /\ S \subseteq Reviews /\ UNCHANGED <<commands, codeOpens>>
      BY <2>1, <2>8, <2>12 DEF Writes, Pending
    <3>2. St' = Lifecycle!Lapsed(S)
      BY <2>1, <2>4, <3>1
    <3>3. CASE Opens(t)
      <4>1. S = {r \in Reviews : St[r] = "pending"} /\ alone' = alone + 1
        BY <2>0, <2>1, <2>12, <3>3 DEF Opens, ActiveReviews, Pending
      <4>2. Lifecycle!OpenAlone(S)
        BY <3>1, <3>2, <4>1 DEF Lifecycle!OpenAlone, St
      <4>3. QED
        BY <3>1, <4>2 DEF Lifecycle!Next
    <3>4. CASE ~Opens(t)
      <4>1. UNCHANGED alone /\ \A r \in S : Current(r) = "pending"
        BY <2>1, <3>4 DEF Pending
      <4>2. QED
        BY <2>7, <3>1, <3>2, <4>1
    <3>5. QED
      BY <3>3, <3>4
  <2>13. CASE t.kind = "code"
    <3>1. St' = St /\ UNCHANGED <<commands, alone>>
      BY <2>1, <2>2, <2>8, <2>13 DEF Writes
    <3>2. CASE Opens(t)
      <4>1. codeOpens = 0 /\ codeOpens' = 1
        BY <2>0, <2>1, <2>13, <3>2 DEF Opens, CodeValid, CodeCounted
      <4>2. Lifecycle!OpenByCode
        BY <3>1, <4>1 DEF Lifecycle!OpenByCode, St
      <4>3. QED
        BY <4>2 DEF Lifecycle!Next
    <3>3. CASE ~Opens(t)
      BY <2>1, <2>6, <3>1, <3>3
    <3>4. QED
      BY <3>2, <3>3
  <2>14. QED
    BY <2>0, <2>9, <2>10, <2>11, <2>12, <2>13 DEF Kind
<1>4. ASSUME NEW p \in Procs, Proceed(p) PROVE [Lifecycle!Next]_(Lifecycle!vars)
  BY <1>2, <1>3, <1>4 DEF Proceed, ReadKey, AcquireLock, Read, AcquireChain
<1>5. ASSUME NEW p \in Procs, Abort(p) PROVE UNCHANGED Lifecycle!vars
  BY <1>2, <1>5 DEF Abort
<1>6. ASSUME NEW p \in Procs, NEW kind \in Kind, NEW r \in Reviews, Begin(p, kind, r)
      PROVE  UNCHANGED Lifecycle!vars
  BY <1>2, <1>6 DEF Begin
<1>7. ASSUME NEW r \in Reviews, Capture(r) \/ DeadlinePasses(r) PROVE UNCHANGED Lifecycle!vars
  BY <1>2, <1>7 DEF Capture, DeadlinePasses
<1>8. CASE Toggle \/ Tick \/ NextDue \/ UNCHANGED reviewVars
  BY <1>2, <1>8 DEF Toggle, Tick, NextDue, reviewVars
<1>9. QED
  BY <1>4, <1>5, <1>6, <1>7, <1>8 DEF ReviewsNext

\* As long as the barrier is not put in or out of service, ingestion, operators and the
\* expiry worker, locking, reading and writing in steps, implement the life of a review:
\* one outcome, one command when allowed, no opening by hand past a waiting review, one
\* opening by a guest's code.
THEOREM ReviewsImplementLifecycle ==
  ReviewsAssumption /\ ToggleBound = 0 => (ReviewsSpec => ReviewLifecycleSpec)
<1> SUFFICES ASSUME ReviewsAssumption, ToggleBound = 0 PROVE ReviewsSpec => ReviewLifecycleSpec
    OBVIOUS
<1>1. ReviewsInit => LInv
  BY LifeInit
<1>2. LInv /\ [ReviewsNext]_reviewVars => LInv'
  BY LifeStep
<1>3. ReviewsInit => Lifecycle!Init
  BY DEF ReviewsInit, Lifecycle!Init, Current
<1>4. LInv /\ [ReviewsNext]_reviewVars => [Lifecycle!Next]_(Lifecycle!vars)
  BY LifeNext
<1>5. QED
  BY <1>1, <1>2, <1>3, <1>4, PTL DEF ReviewsSpec, ReviewLifecycleSpec, Lifecycle!Spec

-----------------------------------------------------------------------------
(* Ingestion of camera events *)

Storing == {"stored", "decided"}

\* The row of an event is being stored by one transaction at most, and not there yet.
StoredOnce ==
    /\ \A p \in Handlers : work[p].at \in Storing => decision[work[p].event] = "none"
    /\ \A p, q \in Handlers : work[p].at \in Storing /\ work[q].at \in Storing /\ work[p].event = work[q].event => p = q

IInv == IngestionTypeOK /\ StoredOnce

LEMMA CommitTyped ==
  ASSUME IngestionAssumption, IngestionTypeOK, NEW p \in Handlers, Record(p)
  PROVE  /\ Finals(work[p]) \subseteq Verdict /\ work[p].event \in Events
         /\ pass' \in [Taxis -> Pass] /\ present' \subseteq Cars
<1> DEFINE t == work[p]
<1>1. t \in Handling /\ PlateOf[t.event] \in Plates
  BY DEF IngestionTypeOK, Handling, IngestionAssumption
<1>2. t.event \in Events /\ t.verdict \in Verdict
  BY <1>1 DEF Handling
<1> HIDE DEF t
<1>3. Finals(t) \subseteq Verdict
  BY <1>2 DEF Finals, Verdict
<1>4. present' = Presence(t) /\ Presence(t) \subseteq Cars
  BY DEF Record, Presence, IngestionTypeOK, t
<1>5. CASE TakesEntry(t) /\ Consumable(PlateOf[t.event])
  <2> DEFINE x == PlateOf[t.event]
  <2>1. x \in Taxis /\ pass[x] \in Pass /\ pass[x].used < MaxEntries
    BY <1>5 DEF TakesEntry, Consumable, IngestionTypeOK
  <2>2. Consumed(x) \in Pass
    BY <2>1 DEF Consumed, Pass, IngestionAssumption
  <2>3. pass' = [pass EXCEPT ![x] = Consumed(x)]
    BY <1>5 DEF Record, t
  <2>4. QED
    BY <1>2, <1>3, <1>4, <2>1, <2>2, <2>3 DEF IngestionTypeOK, t
<1>6. CASE ~(TakesEntry(t) /\ Consumable(PlateOf[t.event]))
  BY <1>2, <1>3, <1>4, <1>6 DEF Record, IngestionTypeOK, t
<1>7. QED
  BY <1>5, <1>6

LEMMA EntryVerdictTyped == ASSUME NEW e PROVE EntryVerdict(e) \in Verdict
BY DEF EntryVerdict, Verdict

LEMMA TypesAtStart == ASSUME IngestionAssumption, IngestionInit PROVE IInv
<1>1. (CHOOSE e \in Events : TRUE) \in Events
  BY DEF IngestionAssumption
<1>2. Idling(CHOOSE e \in Events : TRUE) \in Handling
  BY <1>1 DEF Idling, Handling, Verdict
<1>3. \A p \in Handlers : work[p].at = "idle"
  BY DEF IngestionInit, Idling
<1>4. IngestionAssumption => MaxEntries \in Nat /\ SwitchBound \in Nat
  BY DEF IngestionAssumption
<1>5. IngestionTypeOK
  BY <1>2, <1>4 DEF IngestionInit, IngestionTypeOK, Verdict, Pass
<1>6. QED
  BY <1>3, <1>5 DEF IInv, StoredOnce, Storing

\* A step of one transaction, the records of events unchanged.
LEMMA StoredStep ==
  ASSUME IngestionTypeOK, StoredOnce, NEW p \in Handlers, NEW t, work' = [work EXCEPT ![p] = t],
         UNCHANGED decision,
         t.at \in Storing => /\ decision[t.event] = "none"
                             /\ (work[p].at \in Storing /\ t.event = work[p].event) \/ ~BeingStored(t.event)
  PROVE  StoredOnce'
BY DEF IngestionTypeOK, StoredOnce, BeingStored, Storing

LEMMA IngestionStep == ASSUME IngestionAssumption, IInv, [IngestionNext]_ingestionVars PROVE IInv'
<1>0. /\ IngestionTypeOK /\ StoredOnce /\ SwitchBound \in Nat
      /\ \A p \in Handlers : work[p] \in Handling /\ work[p].event \in Events /\ GateOf[work[p].event] \in Gates
      /\ \A e \in Events : Idling(e) \in Handling /\ Idling(e).at = "idle" /\ GateOf[e] \in Gates
  BY DEF IInv, IngestionTypeOK, Handling, Idling, Verdict, IngestionAssumption
<1>1. ASSUME NEW p \in Handlers
      PROVE  /\ GatesReleased(p) \in [GateLock -> Handlers \cup {NoHandler}] /\ Resting(p) \in [Handlers -> Handling]
             /\ Resting(p) = [work EXCEPT ![p] = Idling(work[p].event)]
  BY <1>0 DEF GatesReleased, Resting, IngestionTypeOK
<1>2. ASSUME NEW p \in Handlers, NEW e \in Events, Arrive(p, e) PROVE IInv'
  <2> DEFINE t == [at |-> "begun", event |-> e, barrier |-> inService[GateOf[e]], verdict |-> "deny"]
  <2>1. t \in Handling /\ t.at \notin Storing
    BY <1>0 DEF Handling, IngestionTypeOK, Verdict, Storing
  <2>2. work' = [work EXCEPT ![p] = t] /\ UNCHANGED <<records, inService, switches, gateHolder>>
    BY <1>2 DEF Arrive
  <2> HIDE DEF t
  <2>3. StoredOnce'
    BY <1>0, <2>1, <2>2, StoredStep DEF records
  <2>4. QED
    BY <1>0, <2>1, <2>2, <2>3 DEF IInv, IngestionTypeOK, records
<1>3. ASSUME NEW p \in Handlers, TakeGate(p) PROVE IInv'
  <2> DEFINE t == [work[p] EXCEPT !.at = "locked"]
  <2>1. t \in Handling /\ t.at \notin Storing
    BY <1>0 DEF Handling, Storing
  <2>2. /\ work' = [work EXCEPT ![p] = t] /\ gateHolder' = [gateHolder EXCEPT ![LockOf(work[p])] = p]
        /\ UNCHANGED <<records, inService, switches>>
    BY <1>3 DEF TakeGate
  <2> HIDE DEF t
  <2>3. StoredOnce'
    BY <1>0, <2>1, <2>2, StoredStep DEF records
  <2>4. QED
    BY <1>0, <2>1, <2>2, <2>3 DEF IInv, IngestionTypeOK, records
<1>4. ASSUME NEW p \in Handlers, Replay(p) PROVE IInv'
  <2>1. PICK f \in KnownAs(work[p].event) : Answer(f, work[p].event)
    BY <1>4 DEF Replay
  <2>2. f \in Events /\ decision[f] \in Verdict
    BY <1>0, <2>1 DEF KnownAs, Like, IngestionTypeOK
  <2>3. answers' \in [Events -> SUBSET (Events \X Verdict)]
    BY <1>0, <2>1, <2>2 DEF Answer, IngestionTypeOK
  <2>4. StoredOnce'
    BY <1>0, <1>1, <1>4, StoredStep DEF Replay, Storing
  <2>5. QED
    BY <1>0, <1>1, <1>4, <2>3, <2>4 DEF Replay, IInv, IngestionTypeOK
<1>5. ASSUME NEW p \in Handlers, Store(p) PROVE IInv'
  <2> DEFINE t == [work[p] EXCEPT !.at = "stored"]
  <2>1. t \in Handling /\ t.event = work[p].event
    BY <1>0 DEF Handling
  <2>2. /\ work' = [work EXCEPT ![p] = t] /\ UNCHANGED <<records, inService, switches, gateHolder>>
        /\ ~BeingStored(work[p].event) /\ decision[work[p].event] = "none"
    BY <1>5 DEF Store, KnownAs
  <2> HIDE DEF t
  <2>3. StoredOnce'
    BY <1>0, <2>1, <2>2, StoredStep DEF records
  <2>4. QED
    BY <1>0, <2>1, <2>2, <2>3 DEF IInv, IngestionTypeOK, records
<1>6. ASSUME NEW p \in Handlers, Decide(p) PROVE IInv'
  <2>1. PICK u \in Verdict : work' = [work EXCEPT ![p].at = "decided", ![p].verdict = u]
    BY <1>6, EntryVerdictTyped DEF Decide, Verdict
  <2> DEFINE t == [work[p] EXCEPT !.at = "decided", !.verdict = u]
  <2>2. t \in Handling /\ t.event = work[p].event
    <3>1. \A s \in Handling, b \in Verdict : LET n == [s EXCEPT !.at = "decided", !.verdict = b]
                                            IN n \in Handling /\ n.event = s.event
      BY DEF Handling
    <3>2. QED
      BY <1>0, <2>1, <3>1
  <2>3. /\ work' = [work EXCEPT ![p] = t] /\ UNCHANGED <<records, inService, switches, gateHolder>>
        /\ work[p].at \in Storing
    BY <1>6, <2>1 DEF Decide, Storing
  <2> HIDE DEF t
  <2>4. StoredOnce'
    BY <1>0, <2>2, <2>3, StoredStep DEF records, StoredOnce
  <2>5. QED
    BY <1>0, <2>2, <2>3, <2>4 DEF IInv, IngestionTypeOK, records
<1>7. ASSUME NEW p \in Handlers, Record(p) PROVE IInv'
  <2> DEFINE t == work[p]
             e == work[p].event
  <2>1. PICK final \in Finals(t) :
          /\ decision' = [decision EXCEPT ![e] = final]
          /\ answers' = [answers EXCEPT ![e] = @ \cup {<<e, final>>}]
          /\ sent' \subseteq sent \cup {e}
    BY <1>7 DEF Record
  <2>0. /\ gateHolder' = GatesReleased(p) /\ work' = Resting(p) /\ UNCHANGED <<inService, switches>>
        /\ work[p].at \in Storing
    BY <1>7 DEF Record, Storing
  <2>2. final \in Verdict /\ e \in Events /\ pass' \in [Taxis -> Pass] /\ present' \subseteq Cars
    BY <1>0, <1>7, CommitTyped
  <2>3. \A q \in Handlers : work'[q].at \in Storing => q # p /\ work'[q] = work[q]
    BY <1>0, <1>1, <2>0 DEF IngestionTypeOK, Storing
  <2> HIDE DEF t, e
  <2>4. IngestionTypeOK'
    BY <1>0, <1>1, <2>0, <2>1, <2>2 DEF IngestionTypeOK
  <2>5. \A q \in Handlers : work'[q].at \in Storing => work[q].event # e
    BY <1>0, <2>0, <2>3 DEF StoredOnce, e
  <2>6. StoredOnce'
    BY <1>0, <2>1, <2>3, <2>5 DEF StoredOnce, IngestionTypeOK
  <2>7. QED
    BY <2>4, <2>6 DEF IInv
<1>8. ASSUME NEW p \in Handlers, GiveUp(p) PROVE IInv'
  <2>1. StoredOnce'
    BY <1>0, <1>1, <1>8, StoredStep DEF GiveUp, records, Storing
  <2>2. QED
    BY <1>0, <1>1, <1>8, <2>1 DEF GiveUp, records, IInv, IngestionTypeOK
<1>9. ASSUME UNCHANGED <<decision, work>> PROVE StoredOnce'
  BY <1>0, <1>9 DEF StoredOnce
<1>10. ASSUME NEW x \in Taxis, Revoke(x) PROVE IInv'
  <2>1. [pass[x] EXCEPT !.status = "revoked"] \in Pass
    BY <1>0 DEF IngestionTypeOK, Pass
  <2>2. pass' \in [Taxis -> Pass]
    BY <1>0, <1>10, <2>1 DEF Revoke, IngestionTypeOK
  <2>3. QED
    BY <1>0, <1>9, <1>10, <2>2 DEF Revoke, IInv, IngestionTypeOK
<1>11. ASSUME NEW c \in Cars, CloseSession(c) PROVE IInv'
  BY <1>0, <1>9, <1>11 DEF CloseSession, IInv, IngestionTypeOK
<1>12. ASSUME NEW g \in Gates, SwitchBarrier(g) PROVE IInv'
  <2>1. inService' \in [Gates -> BOOLEAN] /\ switches' \in 0..SwitchBound
    BY <1>0, <1>12 DEF SwitchBarrier, IngestionTypeOK
  <2>2. QED
    BY <1>0, <1>9, <1>12, <2>1 DEF SwitchBarrier, IInv, IngestionTypeOK, records
<1>13. CASE UNCHANGED ingestionVars
  BY <1>0, <1>9, <1>13 DEF ingestionVars, records, IInv, IngestionTypeOK
<1>14. QED
  BY <1>2, <1>3, <1>4, <1>5, <1>6, <1>7, <1>8, <1>10, <1>11, <1>12, <1>13 DEF IngestionNext

\* The records of events, passes and cars and the transactions keep to their kinds.
THEOREM IngestionTypeCorrect == IngestionAssumption => (IngestionSpec => []IngestionTypeOK)
<1> SUFFICES ASSUME IngestionAssumption PROVE IngestionSpec => []IngestionTypeOK
    OBVIOUS
<1>1. IngestionInit => IInv
  BY TypesAtStart
<1>2. IInv /\ [IngestionNext]_ingestionVars => IInv'
  BY IngestionStep
<1>3. IInv => IngestionTypeOK
  BY DEF IInv
<1>4. QED
  BY <1>1, <1>2, <1>3, PTL DEF IngestionSpec

-----------------------------------------------------------------------------
PaidInv == IInv /\ EntriesPaid

LEMMA PaidFinite == ASSUME IngestionAssumption, NEW x PROVE IsFiniteSet(Paid(x))
BY FS_Subset DEF Paid, IngestionAssumption

LEMMA PaidInit == ASSUME IngestionAssumption, IngestionInit PROVE PaidInv
<1>1. ASSUME NEW x \in Taxis PROVE Paid(x) = {}
  BY DEF Paid, IngestionInit, IngestionAssumption
<1>2. EntriesPaid
  BY <1>1, FS_EmptySet DEF EntriesPaid, IngestionInit
<1>3. QED
  BY <1>2, TypesAtStart DEF PaidInv

LEMMA PaidStep == ASSUME IngestionAssumption, PaidInv, [IngestionNext]_ingestionVars PROVE PaidInv'
<1>0. /\ IInv /\ IInv' /\ IngestionTypeOK /\ IngestionTypeOK' /\ StoredOnce /\ Entering \subseteq Events
      /\ \A x \in Taxis : pass[x].used = Cardinality(Paid(x))
  BY IngestionStep DEF PaidInv, IInv, EntriesPaid, IngestionAssumption
<1>1. ASSUME UNCHANGED decision, \A x \in Taxis : pass'[x].used = pass[x].used PROVE PaidInv'
  <2>1. \A x \in Taxis : Paid(x)' = Paid(x)
    BY <1>1 DEF Paid
  <2>2. QED
    BY <1>0, <1>1, <2>1 DEF PaidInv, EntriesPaid
<1>2. ASSUME UNCHANGED <<decision, pass>> PROVE PaidInv'
  BY <1>1, <1>2
<1>3. ASSUME NEW p \in Handlers, Record(p) PROVE PaidInv'
  <2> DEFINE t == work[p]
             e == work[p].event
             y == PlateOf[e]
  <2>0. PICK final \in Finals(t) : decision' = [decision EXCEPT ![e] = final]
    BY <1>3 DEF Record
  <2>1. /\ decision[e] = "none"
        /\ e \in Events /\ y \in Plates /\ t.verdict \in Verdict
        /\ pass' = IF TakesEntry(t) /\ Consumable(y) THEN [pass EXCEPT ![y] = Consumed(y)] ELSE pass
    BY <1>0, <1>3 DEF Record, StoredOnce, Storing, IngestionTypeOK, Handling, IngestionAssumption
  <2>2. TakesEntry(t) <=> y \in Taxis /\ t.verdict = "allow" /\ e \in Entering
    BY DEF TakesEntry
  <2>3. final = "allow" <=> t.verdict = "allow" /\ (TakesEntry(t) => Consumable(y))
    BY <2>0 DEF Finals
  <2> HIDE DEF t, e, y
  <2>4. ASSUME NEW x \in Taxis
        PROVE  Paid(x)' = IF x = y /\ e \in Entering /\ final = "allow" THEN Paid(x) \cup {e} ELSE Paid(x)
    BY <1>0, <2>0, <2>1, <2>4 DEF Paid, IngestionTypeOK, y
  <2>5. ASSUME NEW x \in Taxis PROVE pass'[x].used = Cardinality(Paid(x))'
    <3>1. e \notin Paid(x) /\ pass[x].used = Cardinality(Paid(x))
      BY <1>0, <2>1, <2>5 DEF Paid
    <3> IsFiniteSet(Paid(x)) /\ Cardinality(Paid(x)) \in Nat
      BY PaidFinite, FS_CardinalityType
    <3>2. CASE x = y /\ e \in Entering /\ final = "allow"
      <4>1. pass'[x] = Consumed(x)
        BY <1>0, <2>1, <2>2, <2>3, <3>2 DEF IngestionTypeOK
      <4>2. pass'[x].used = pass[x].used + 1
        BY <4>1 DEF Consumed
      <4>3. Cardinality(Paid(x) \cup {e}) = Cardinality(Paid(x)) + 1
        BY <3>1, FS_AddElement
      <4>4. QED
        BY <2>4, <3>1, <3>2, <4>2, <4>3
    <3>3. CASE ~(x = y /\ e \in Entering /\ final = "allow")
      <4>1. pass'[x] = pass[x]
        BY <1>0, <2>1, <2>2, <2>3, <3>3 DEF IngestionTypeOK
      <4>2. QED
        BY <2>4, <3>1, <3>3, <4>1
    <3>4. QED
      BY <3>2, <3>3
  <2>6. QED
    BY <1>0, <2>5 DEF PaidInv, EntriesPaid
<1>4. ASSUME NEW x \in Taxis, Revoke(x) PROVE PaidInv'
  <2>1. UNCHANGED decision /\ \A y \in Taxis : pass'[y].used = pass[y].used
    BY <1>0, <1>4 DEF Revoke, IngestionTypeOK, Pass
  <2>2. QED
    BY <1>1, <2>1
<1>5. ASSUME NEW p \in Handlers,
             (\E e \in Events : Arrive(p, e)) \/ TakeGate(p) \/ Replay(p) \/ Store(p) \/ Decide(p) \/ GiveUp(p)
      PROVE  PaidInv'
  BY <1>2, <1>5 DEF Arrive, TakeGate, Replay, Store, Decide, GiveUp, records
<1>6. ASSUME NEW c \in Cars, CloseSession(c) PROVE PaidInv'
  BY <1>2, <1>6 DEF CloseSession
<1>7. ASSUME NEW g \in Gates, SwitchBarrier(g) PROVE PaidInv'
  BY <1>2, <1>7 DEF SwitchBarrier, records
<1>8. CASE UNCHANGED ingestionVars
  BY <1>2, <1>8 DEF ingestionVars, records
<1>9. QED
  BY <1>3, <1>4, <1>5, <1>6, <1>7, <1>8 DEF IngestionNext

\* However events are repeated, raced at several gates, aborted or held under different
\* locks because a barrier changed its state, a pass has paid for exactly the entries
\* that were allowed on it.
THEOREM PassPaysForEntries == IngestionAssumption => (IngestionSpec => []EntriesPaid)
<1> SUFFICES ASSUME IngestionAssumption PROVE IngestionSpec => []EntriesPaid
    OBVIOUS
<1>1. IngestionInit => PaidInv
  BY PaidInit
<1>2. PaidInv /\ [IngestionNext]_ingestionVars => PaidInv'
  BY PaidStep
<1>3. PaidInv => EntriesPaid
  BY DEF PaidInv
<1>4. QED
  BY <1>1, <1>2, <1>3, PTL DEF IngestionSpec

-----------------------------------------------------------------------------
\* While no barrier changes its state, all that happens at a gate happens under one lock,
\* and who stores an event has seen nothing decided like it.
Locked == {"locked", "stored", "decided"}

OneLock ==
    /\ \A g \in Gates : inService[g]
    /\ \A p \in Handlers : work[p].at # "idle" => work[p].barrier
    /\ \A p \in Handlers : work[p].at \in Locked => gateHolder[LockOf(work[p])] = p
NothingLike == \A p \in Handlers : work[p].at \in Storing => \A f \in Like(work[p].event) : decision[f] = "none"

PassageInv == IInv /\ (switches = 0 => OneLock /\ NothingLike /\ PassageOnce)

LEMMA Earliest == ASSUME NEW T \in SUBSET Nat, T # {} PROVE \E n \in T : \A m \in T : n <= m
<1>1. PICK n \in T : \A m \in T : ~(<<m, n>> \in OpToRel(<, Nat))
  BY NatLessThanWellFounded, WFMin
<1>2. ASSUME NEW m \in T PROVE n <= m
  <2>1. m \in Nat /\ n \in Nat
    OBVIOUS
  <2>2. ~(<<m, n>> \in OpToRel(<, Nat))
    BY <1>1, <1>2
  <2>3. ~(m < n)
    BY <2>1, <2>2 DEF OpToRel
  <2>4. QED
    BY <2>1, <2>3
<1>3. QED
  BY <1>1, <1>2

\* An event that repeats nothing known has none like it decided.
LEMMA UnknownMeansNothingLike ==
  ASSUME IngestionAssumption, NEW e \in Events, KnownAs(e) = {}
  PROVE  decision[e] = "none" /\ \A f \in Like(e) : decision[f] = "none"
<1>1. decision[e] = "none"
  BY DEF KnownAs
<1> DEFINE like == {f \in Like(e) : decision[f] # "none"}
           times == {TimeOf[f] : f \in like}
<1>2. SUFFICES ASSUME like # {} PROVE FALSE
  BY <1>1
<1>3. \A f \in like : TimeOf[f] \in Nat
  BY DEF Like, IngestionAssumption
<1>4. {f \in like : \A g \in like : TimeOf[f] <= TimeOf[g]} = {}
  BY <1>1 DEF KnownAs
<1> HIDE DEF like
<1>5. times \in SUBSET Nat /\ times # {}
  BY <1>2, <1>3
<1>6. PICK n \in times : \A m \in times : n <= m
  BY <1>5, Earliest
<1>7. PICK f \in like : TimeOf[f] = n
  BY <1>6
<1>8. \A g \in like : TimeOf[f] <= TimeOf[g]
  BY <1>6, <1>7
<1>9. QED
  BY <1>4, <1>7, <1>8

LEMMA LikeSymmetric == ASSUME NEW e \in Events, NEW f \in Like(e)
                       PROVE  f \in Events /\ e \in Like(f) /\ GateOf[f] = GateOf[e]
BY DEF Like, Near

LEMMA PassageInit == ASSUME IngestionAssumption, IngestionInit PROVE PassageInv
<1>1. \A p \in Handlers : work[p].at = "idle"
  BY DEF IngestionInit, Idling
<1>2. \A e \in Events : decision[e] = "none"
  BY DEF IngestionInit
<1>3. OneLock
  BY <1>1 DEF IngestionInit, OneLock, Locked
<1>4. QED
  BY <1>1, <1>2, <1>3, TypesAtStart DEF PassageInv, NothingLike, PassageOnce, Storing

LEMMA PassageStep == ASSUME IngestionAssumption, PassageInv, [IngestionNext]_ingestionVars PROVE PassageInv'
<1>0. /\ IInv /\ IInv' /\ IngestionTypeOK /\ IngestionTypeOK' /\ switches \in Nat /\ switches' >= switches
      /\ \A p \in Handlers : work[p] \in Handling /\ work[p].event \in Events
      /\ NoHandler \notin Handlers
  <2>1. IInv' /\ IngestionTypeOK /\ IngestionTypeOK'
    BY IngestionStep DEF PassageInv, IInv
  <2>2. switches' = switches \/ switches' = switches + 1
    BY DEF IngestionNext, Arrive, TakeGate, Replay, Store, Decide, Record, GiveUp, Revoke, CloseSession, SwitchBarrier, ingestionVars, records
  <2>3. QED
    BY <2>1, <2>2 DEF PassageInv, IngestionTypeOK, Handling, IngestionAssumption
<1>1. SUFFICES ASSUME switches' = 0 PROVE OneLock' /\ NothingLike' /\ PassageOnce'
  BY <1>0 DEF PassageInv
<1>2. /\ switches = 0 /\ OneLock /\ NothingLike
      /\ \A e \in Events : decision[e] # "none" => \A f \in Like(e) : decision[f] = "none"
  BY <1>0, <1>1 DEF PassageInv, PassageOnce
\* A step of one transaction that keeps the decisions.
<1>3. ASSUME NEW p \in Handlers, NEW t, work' = [work EXCEPT ![p] = t], UNCHANGED <<decision, inService>>,
             t.at # "idle" => t.barrier,
             t.at \in Locked => gateHolder'[LockOf(t)] = p,
             \A q \in Handlers \ {p} : work[q].at \in Locked => gateHolder'[LockOf(work[q])] = q,
             t.at \in Storing => \A f \in Like(t.event) : decision[f] = "none"
      PROVE  OneLock' /\ NothingLike' /\ PassageOnce'
  <2>1. \A q \in Handlers : work'[q] = IF q = p THEN t ELSE work[q]
    BY <1>0, <1>3 DEF IngestionTypeOK
  <2>2. OneLock'
    BY <1>2, <1>3, <2>1 DEF OneLock, LockOf
  <2>3. NothingLike'
    BY <1>2, <1>3, <2>1 DEF NothingLike, Like
  <2>4. PassageOnce'
    BY <1>2, <1>3 DEF PassageOnce, Like
  <2>5. QED
    BY <2>2, <2>3, <2>4
<1>4. ASSUME NEW p \in Handlers, gateHolder' = GatesReleased(p) \/ UNCHANGED gateHolder
      PROVE  \A q \in Handlers \ {p} : work[q].at \in Locked => gateHolder'[LockOf(work[q])] = q
  <2>1. \A q \in Handlers : LockOf(work[q]) \in GateLock
    BY <1>0 DEF LockOf, GateLock, IngestionAssumption
  <2>2. QED
    BY <1>2, <1>4, <2>1 DEF OneLock, GatesReleased
<1>5. ASSUME NEW p \in Handlers, NEW e \in Events, Arrive(p, e) PROVE OneLock' /\ NothingLike' /\ PassageOnce'
  <2> DEFINE t == [at |-> "begun", event |-> e, barrier |-> inService[GateOf[e]], verdict |-> "deny"]
  <2>1. t.at = "begun" /\ t.barrier
    BY <1>2 DEF OneLock, IngestionAssumption
  <2>2. work' = [work EXCEPT ![p] = t] /\ UNCHANGED <<decision, inService, gateHolder>>
    BY <1>5 DEF Arrive, records
  <2> HIDE DEF t
  <2>3. QED
    BY <1>3, <1>4, <2>1, <2>2 DEF Locked, Storing
<1>6. ASSUME NEW p \in Handlers, TakeGate(p) PROVE OneLock' /\ NothingLike' /\ PassageOnce'
  <2> DEFINE t == [work[p] EXCEPT !.at = "locked"]
  <2>1. t.at = "locked" /\ t.event = work[p].event /\ t.barrier = work[p].barrier
    BY <1>0 DEF Handling
  <2>2. /\ work' = [work EXCEPT ![p] = t] /\ UNCHANGED <<decision, inService>> /\ work[p].at = "begun"
        /\ gateHolder' = [gateHolder EXCEPT ![LockOf(work[p])] = p] /\ gateHolder[LockOf(work[p])] = NoHandler
    BY <1>6 DEF TakeGate, records
  <2> HIDE DEF t
  <2>3. LockOf(t) = LockOf(work[p]) /\ LockOf(work[p]) \in GateLock
    BY <1>0, <2>1 DEF LockOf, GateLock, IngestionAssumption
  <2>4. gateHolder'[LockOf(t)] = p
    BY <1>0, <2>2, <2>3 DEF IngestionTypeOK
  <2>5. \A q \in Handlers \ {p} : work[q].at \in Locked => gateHolder'[LockOf(work[q])] = q
    BY <1>0, <1>2, <2>2 DEF OneLock, IngestionTypeOK
  <2>6. t.at # "idle" => t.barrier
    BY <1>2, <2>1, <2>2 DEF OneLock
  <2>7. t.at \notin Storing
    BY <2>1 DEF Storing
  <2>8. QED
    BY <1>3, <2>2, <2>4, <2>5, <2>6, <2>7
\* The steps of a transaction under its lock.
<1>7. ASSUME NEW p \in Handlers, work[p].at \in Locked, NEW t, work' = [work EXCEPT ![p] = t],
             UNCHANGED <<decision, inService, gateHolder>>,
             t.event = work[p].event, t.barrier = work[p].barrier,
             \A f \in Like(work[p].event) : decision[f] = "none"
      PROVE  OneLock' /\ NothingLike' /\ PassageOnce'
  <2>1. LockOf(t) = LockOf(work[p]) /\ t.barrier /\ gateHolder[LockOf(t)] = p
    BY <1>2, <1>7 DEF LockOf, OneLock, Locked
  <2>2. \A q \in Handlers \ {p} : work[q].at \in Locked => gateHolder'[LockOf(work[q])] = q
    BY <1>4, <1>7
  <2>3. QED
    BY <1>3, <1>7, <2>1, <2>2
<1>8. ASSUME NEW p \in Handlers, Store(p) PROVE OneLock' /\ NothingLike' /\ PassageOnce'
  <2> DEFINE t == [work[p] EXCEPT !.at = "stored"]
  <2>1. t.event = work[p].event /\ t.barrier = work[p].barrier
    BY <1>0 DEF Handling
  <2>2. /\ work' = [work EXCEPT ![p] = t] /\ UNCHANGED <<decision, inService, gateHolder>> /\ work[p].at = "locked"
        /\ KnownAs(work[p].event) = {}
    BY <1>8 DEF Store, records
  <2> HIDE DEF t
  <2>3. QED
    BY <1>0, <1>7, <2>1, <2>2, UnknownMeansNothingLike DEF Locked
<1>9. ASSUME NEW p \in Handlers, Decide(p) PROVE OneLock' /\ NothingLike' /\ PassageOnce'
  <2>1. PICK u : work' = [work EXCEPT ![p].at = "decided", ![p].verdict = u]
    BY <1>9 DEF Decide
  <2> DEFINE t == [work[p] EXCEPT !.at = "decided", !.verdict = u]
  <2>2. t.event = work[p].event /\ t.barrier = work[p].barrier
    BY <1>0 DEF Handling
  <2>3. /\ work' = [work EXCEPT ![p] = t] /\ UNCHANGED <<decision, inService, gateHolder>> /\ work[p].at = "stored"
    BY <1>9, <2>1 DEF Decide, records
  <2> HIDE DEF t
  <2>4. QED
    BY <1>2, <1>7, <2>2, <2>3 DEF Locked, NothingLike, Storing
<1>10. ASSUME NEW p \in Handlers
       PROVE  Resting(p) = [work EXCEPT ![p] = Idling(work[p].event)] /\ Idling(work[p].event).at = "idle"
  BY <1>0 DEF Resting, Idling, IngestionTypeOK
<1>11. ASSUME NEW p \in Handlers, Replay(p) \/ GiveUp(p) PROVE OneLock' /\ NothingLike' /\ PassageOnce'
  <2>1. UNCHANGED <<decision, inService>> /\ gateHolder' = GatesReleased(p) /\ work' = Resting(p)
    BY <1>11 DEF Replay, GiveUp, records
  <2>2. QED
    BY <1>3, <1>4, <1>10, <2>1 DEF Locked, Storing
<1>12. ASSUME NEW p \in Handlers, Record(p) PROVE OneLock' /\ NothingLike' /\ PassageOnce'
  <2> DEFINE e == work[p].event
  <2>1. /\ e \in Events /\ work[p].at = "decided" /\ gateHolder' = GatesReleased(p) /\ work' = Resting(p) /\ UNCHANGED inService
        /\ \A f \in Events \ {e} : decision'[f] = decision[f]
        /\ \A f \in Like(e) : decision[f] = "none"
    BY <1>0, <1>2, <1>12 DEF Record, NothingLike, Storing, IngestionTypeOK
  <2>2. \A q \in Handlers : work'[q] = IF q = p THEN Idling(e) ELSE work[q]
    BY <1>0, <1>10, <2>1 DEF IngestionTypeOK
  <2>3. Idling(e).at = "idle"
    BY <1>10
  <2>4. OneLock'
    BY <1>2, <1>4, <2>1, <2>2, <2>3 DEF OneLock, Locked, LockOf
  <2>5. ASSUME NEW f \in Events, decision'[f] # "none" PROVE \A g \in Like(f) : decision'[g] = "none"
    <3>1. \A g \in Like(f) : g \in Events /\ g # f
      BY DEF Like
    <3>2. CASE f = e
      BY <2>1, <3>1, <3>2
    <3>3. CASE f # e
      <4>1. decision[f] # "none"
        BY <2>1, <2>5, <3>3
      <4>2. e \notin Like(f)
        BY <2>1, <4>1, LikeSymmetric
      <4>3. QED
        BY <1>2, <2>1, <3>1, <4>1, <4>2
    <3>4. QED
      BY <3>2, <3>3
  <2>6. ASSUME NEW q \in Handlers, work'[q].at \in Storing PROVE \A f \in Like(work'[q].event) : decision'[f] = "none"
    <3>1. q # p /\ work'[q] = work[q] /\ work[q].at \in Storing
      BY <2>2, <2>3, <2>6 DEF Storing
    <3>2. e \notin Like(work[q].event)
      <4>1. SUFFICES ASSUME e \in Like(work[q].event) PROVE FALSE
        OBVIOUS
      <4>2. GateOf[e] = GateOf[work[q].event] /\ work[p].barrier /\ work[q].barrier
        BY <1>0, <1>2, <2>1, <3>1, <4>1, LikeSymmetric DEF OneLock, Storing
      <4>3. LockOf(work[p]) = LockOf(work[q])
        BY <4>2 DEF LockOf
      <4>4. gateHolder[LockOf(work[p])] = p /\ gateHolder[LockOf(work[q])] = q
        BY <1>2, <2>1, <3>1 DEF OneLock, Locked, Storing
      <4>5. QED
        BY <3>1, <4>3, <4>4
    <3>3. \A f \in Like(work[q].event) : f \in Events /\ decision[f] = "none"
      BY <1>2, <3>1 DEF NothingLike, Like
    <3>4. QED
      BY <2>1, <3>1, <3>2, <3>3
  <2>7. NothingLike' /\ PassageOnce'
    BY <2>5, <2>6 DEF NothingLike, PassageOnce, Like
  <2>8. QED
    BY <2>4, <2>7
<1>13. ASSUME UNCHANGED <<decision, inService, gateHolder, work>> PROVE OneLock' /\ NothingLike' /\ PassageOnce'
  BY <1>2, <1>13 DEF OneLock, NothingLike, PassageOnce, LockOf, Like
<1>14. ASSUME NEW x, Revoke(x) \/ CloseSession(x) PROVE OneLock' /\ NothingLike' /\ PassageOnce'
  BY <1>13, <1>14 DEF Revoke, CloseSession
<1>15. ASSUME NEW g \in Gates, SwitchBarrier(g) PROVE FALSE
  BY <1>1, <1>2, <1>15 DEF SwitchBarrier
<1>16. CASE UNCHANGED ingestionVars
  BY <1>13, <1>16 DEF ingestionVars, records
<1>17. QED
  BY <1>5, <1>6, <1>8, <1>9, <1>11, <1>12, <1>14, <1>15, <1>16 DEF IngestionNext

\* While no barrier changes its state, one passage reported by several events is decided
\* on once: the reports of a gate wait for one lock and see what was decided before.
THEOREM PassageDecidedOnce == IngestionAssumption => (IngestionSpec => []PassageOnce)
<1> SUFFICES ASSUME IngestionAssumption PROVE IngestionSpec => []PassageOnce
    OBVIOUS
<1>1. IngestionInit => PassageInv
  BY PassageInit
<1>2. PassageInv /\ [IngestionNext]_ingestionVars => PassageInv'
  BY PassageStep
<1>3. PassageInv => PassageOnce
  BY DEF PassageInv, PassageOnce
<1>4. QED
  BY <1>1, <1>2, <1>3, PTL DEF IngestionSpec
=============================================================================
