---------------------------- MODULE ClusterProofs ----------------------------
(***************************************************************************)
(* Theorems about ClusterController, for every setup: the recorded outcome *)
(* stands, is the one the control plane hears of, and is one the cluster   *)
(* or the clock really had; no event is lost; a Dask cluster shown as      *)
(* running serves.  The controller reads its copy of the operation again   *)
(* in the middle of a pass, so the invariant of HandlersProofs does not    *)
(* hold of it; this module has one of its own.                             *)
(***************************************************************************)
EXTENDS ClusterController, HandlersProofs

(***************************************************************************)
(* The invariant: the copies of the operation.                             *)
(***************************************************************************)
\* Where a second read of the operation comes from, and where a report leads.
Reread == {"addStart", "addLogs", "addStatus", "runtime"}

Reported == {"done", "error", "checkStatus", "deadline", "delete"}

CopyTypeOK ==
  /\ op \in Op /\ opCache \in Op /\ inst \in Op
  /\ collected \in BOOLEAN /\ reported \subseteq FinalTypes

\* Where the pass goes after what it is doing.
Thens ==
  /\ then \in Reread \cup Reported
  /\ pc = "refetch" => then \in Reread
  /\ pc = "sync" => then \in Reported
  /\ pc = "write" => then \in {"error", "checkStatus"}

\* A final condition that is the last of its list is on the list.
Listed(status) == status.last.type \in FinalTypes => status.last.type \in status.has

AllListed == Listed(op.status) /\ Listed(opCache.status) /\ Listed(inst.status)

\* What a copy with the stored resource version says: all that is stored, up to a
\* condition that was logged and not yet written and that is not final.
Versions ==
  /\ "opCache" \in current => opCache = op
  /\ "inst" \in current =>
       /\ pc # "idle"
       /\ inst.life = op.life /\ inst.fins = op.fins
       /\ Outcomes(inst.status) = Outcomes(op.status)
       /\ op.status.has \subseteq inst.status.has
       /\ pc # "write" => inst.status = op.status

\* What a copy of any age says: nothing that is not so.
Behind ==
  /\ opCache.life # "live" => op.life # "live"
  /\ inst.life # "live" => op.life # "live"
  /\ opCache.status.has \subseteq op.status.has
  /\ Outcomes(inst.status) \subseteq Outcomes(op.status)
  /\ pc # "write" => inst.status.has \subseteq op.status.has

EndPhases ==
  /\ pc \in {"collect", "removeFinalizer", "cleanup"} => inst.life = "deleting" \/ IsDone(inst.status)
  /\ pc = "removeFinalizer" /\ "logs" \in inst.fins => collected
  /\ pc = "syncStopped" => inst.life = "deleting"

CopyInv ==
  /\ CopyTypeOK /\ Thens /\ AllListed /\ Versions /\ Behind /\ Lives /\ EndPhases /\ ReportedOutcome

(***************************************************************************)
(* The invariant: the cluster and what a pass knows of it.                 *)
(***************************************************************************)
CountsOK ==
  /\ faults \in Nat /\ removals \in Nat
  /\ pods \in Seq(PodStages) /\ podCache \in Seq(PodStages)

Undisturbed == removals = 0 /\ op.life # "gone"

\* The controller has read or created the cluster in this pass.
Tending ==
  \/ pc \in {"update", "checkStatus", "deadline"}
  \/ pc = "refetch" /\ then = "runtime"
  \/ pc \in {"write", "sync"} /\ then \in {"checkStatus", "deadline"}

\* A pass that may log is over an unfinished operation.
Open ==
  /\ pc \in {"addLogs", "addStatus", "runtime"} => ~IsDone(inst.status)
  /\ pc = "refetch" /\ then \in {"addLogs", "addStatus"} => ~IsDone(op.status)
  /\ Undisturbed =>
       /\ pc = "refetch" /\ then = "runtime" => ~IsDone(op.status)
       /\ pc \in {"update", "checkStatus", "write"} \/ (pc = "sync" /\ then = "checkStatus")
            => ~IsDone(inst.status)

\* A cluster that was read or created is there until somebody deletes it.  A pass
\* that sees no condition is not over a finished operation without a cluster.
Underway ==
  /\ Open
  /\ Tending /\ op.life # "gone" => owned.live \/ removals > 0
  /\ pc = "write" /\ then = "error" => faults > 0
  /\ pc = "runtime" =>
       /\ inst.status.has # {} => opCache.status.has # {}
       /\ inst.status.has = {} /\ Undisturbed /\ IsDone(op.status) => owned.live

\* What the controller can see of an end has happened.
Shown(resource) ==
  resource.live =>
    /\ {resource.status.state} \cap {"Successful", "Error"} \subseteq seen
    /\ resource.status.conds \cap {"ReplicaFailure"} \subseteq seen

Evidence ==
  /\ Shown(owned) /\ Shown(found)
  /\ \A i \in DOMAIN pods : pods[i] = "BadImage" => "BadImage" \in seen
  /\ \A i \in DOMAIN podCache : podCache[i] = "BadImage" => "BadImage" \in seen

Justified ==
  /\ "Succeeded" \in op.status.has => "Successful" \in seen
  /\ "Failed" \in op.status.has => seen \cap {"Error", "ReplicaFailure", "BadImage"} # {}
  /\ "Stopped" \in op.status.has => overdue \/ removals + faults > 0

\* The outcome is the last condition.
OneEnd ==
  removals = 0 /\ IsDone(op.status) =>
    /\ Outcomes(op.status) = {op.status.last.type}
    /\ op.status.completion \/ op.status.last.type = "Stopped"

\* An operation with a condition had a cluster, or failed to create it; one that is
\* done and has none is known to have conditions, so that no pass takes it for new.
Recorded ==
  /\ Justified /\ OneEnd
  /\ op.status.has # {} /\ op.life # "gone" => owned.live \/ removals + faults > 0
  /\ Undisturbed /\ IsDone(op.status) /\ opCache.status.has = {} => owned.live

PassInv == CountsOK /\ Evidence /\ Recorded /\ Underway

ClusterInv == CopyInv /\ PassInv

(***************************************************************************)
(* How a step moves the stored operation and the copies of it.             *)
(***************************************************************************)
\* Conditions stay listed, a deletion request stays, and the hold on the logs goes
\* only when they are collected and the operation ends.
StoredMove ==
  /\ op' \in Op /\ Listed(op'.status)
  /\ op.life = "gone" => op' = op
  /\ op.life # "live" => op'.life # "live"
  /\ op.status.has \subseteq op'.status.has
  /\ op'.life = "deleting" => op'.fins # {}
  /\ "logs" \in op.fins /\ "logs" \notin op'.fins =>
       collected /\ (IsDone(op.status) \/ op.life = "deleting")

\* The controller logs a condition that is not final on a copy, to write it next.
LogsOn(copy) ==
  /\ pc' = "write" /\ op' = op
  /\ inst' \in Op /\ Listed(inst'.status)
  /\ inst'.life = copy.life /\ inst'.fins = copy.fins
  /\ Outcomes(inst'.status) = Outcomes(copy.status) /\ copy.status.has \subseteq inst'.status.has

\* The controller forgets its copy, takes the cached one, takes the answer of a
\* write, keeps it, or logs on it or on the cached one.
HeldMove ==
  /\ "inst" \in current' => pc' # "idle"
  /\ inst'.life # "gone"
  /\ \/ inst' = NewOp /\ "inst" \notin current'
     \/ inst' = opCache /\ op' = op /\ ("inst" \in current' => "opCache" \in current)
     \/ inst' = op'
     \/ /\ inst' = inst /\ (pc = "write" => pc' = "write")
        /\ "inst" \in current' => "inst" \in current /\ op' = op
     \/ LogsOn(inst) /\ pc # "write" /\ ("inst" \in current' => "inst" \in current)
     \/ LogsOn(opCache) /\ ("inst" \in current' => "opCache" \in current)

CopyMove ==
  /\ StoredMove /\ CacheMove /\ HeldMove /\ ReportMove /\ CollectMove
  /\ Thens' /\ EndPhases'

\* Every such move keeps the invariant of the copies.
LEMMA CopyMoveKeeps ==
  ASSUME CopyInv, CopyMove
  PROVE  CopyInv'
<1>1. StoredMove /\ CacheMove /\ HeldMove /\ ReportMove /\ CollectMove /\ Thens' /\ EndPhases'
  BY DEF CopyMove
<1>2. /\ op \in Op /\ opCache \in Op /\ inst \in Op /\ collected \in BOOLEAN
      /\ reported \subseteq FinalTypes
  BY DEF CopyInv, CopyTypeOK
<1>3. AllListed /\ Versions /\ Behind /\ Lives /\ EndPhases /\ ReportedOutcome
  BY DEF CopyInv
<1>4. NewStatus.has = {} /\ NewOp.status = NewStatus /\ Listed(NewOp.status)
  BY NewOpFacts DEF OneListed, Listed, NewStatus
<1>5. CopyTypeOK'
  <2>1. op' \in Op
    BY <1>1 DEF StoredMove
  <2>2. opCache' \in Op
    BY <1>1, <1>2 DEF CacheMove
  <2>3. inst' \in Op
    BY <1>1, <1>2, <2>1, NewOpFacts DEF HeldMove, LogsOn
  <2>4. collected' \in BOOLEAN
    BY <1>1, <1>2 DEF CollectMove
  <2>5. reported' \subseteq FinalTypes
    BY <1>1, <1>2 DEF ReportMove, FinalTypes
  <2> QED
    BY <2>1, <2>2, <2>3, <2>4, <2>5 DEF CopyTypeOK
<1>6. AllListed'
  <2>1. Listed(op.status)' /\ Listed(opCache.status)'
    BY <1>1, <1>3 DEF StoredMove, CacheMove, AllListed, Listed
  <2>2. Listed(inst.status)'
    BY <1>1, <1>3, <1>4, <2>1 DEF HeldMove, LogsOn, AllListed, Listed
  <2> QED
    BY <2>1, <2>2 DEF AllListed
<1>7. Versions'
  <2>1. "opCache" \in current' => opCache' = op'
    BY <1>1 DEF CacheMove
  <2>2. ASSUME "inst" \in current'
        PROVE  /\ pc' # "idle"
               /\ inst'.life = op'.life /\ inst'.fins = op'.fins
               /\ Outcomes(inst'.status) = Outcomes(op'.status)
               /\ op'.status.has \subseteq inst'.status.has
               /\ pc' # "write" => inst'.status = op'.status
    BY <1>1, <1>3, <2>2 DEF HeldMove, LogsOn, Versions
  <2> QED
    BY <2>1, <2>2 DEF Versions
<1>8. Behind'
  <2>1. op.life # "live" => op'.life # "live"
    BY <1>1 DEF StoredMove
  <2>2. /\ op.status.has \subseteq op'.status.has
        /\ Outcomes(op.status) \subseteq Outcomes(op'.status)
    BY <1>1 DEF StoredMove, Outcomes
  <2>3. /\ opCache'.life # "live" => op'.life # "live"
        /\ opCache'.status.has \subseteq op'.status.has
    BY <1>1, <1>3, <2>1, <2>2 DEF CacheMove, Behind
  <2>4. /\ opCache.life # "live" => op'.life # "live"
        /\ opCache.status.has \subseteq op'.status.has
        /\ Outcomes(opCache.status) \subseteq Outcomes(op'.status)
    BY <1>3, <2>1, <2>2 DEF Behind, Outcomes
  <2>5. inst'.life # "live" => op'.life # "live"
    BY <1>1, <1>3, <2>1, <2>4, NewOpFacts DEF HeldMove, LogsOn, Behind
  <2>6. Outcomes(inst'.status) \subseteq Outcomes(op'.status)
    BY <1>1, <1>3, <2>2, <2>4, NewOpFacts DEF HeldMove, LogsOn, Behind
  <2>7. pc' # "write" => inst'.status.has \subseteq op'.status.has
    BY <1>1, <1>3, <1>4, <2>2, <2>4 DEF HeldMove, LogsOn, Behind
  <2> QED
    BY <2>3, <2>5, <2>6, <2>7 DEF Behind
<1>9. Lives'
  BY <1>1 DEF StoredMove, HeldMove, Lives
<1>10. ReportedOutcome'
  <2>1. \A t \in reported : t \in op'.status.has \/ (t = "Stopped" /\ op'.life # "live")
    BY <1>1, <1>3 DEF StoredMove, ReportedOutcome
  <2>2. pc = "sync" /\ inst.status.last.type \in FinalTypes => inst.status.last.type \in op.status.has
    BY <1>3 DEF AllListed, Listed, Behind
  <2>3. pc = "syncStopped" => op.life # "live"
    BY <1>3 DEF EndPhases, Behind
  <2> QED
    BY <1>1, <2>1, <2>2, <2>3 DEF ReportMove, ReportedOutcome
<1> QED
  BY <1>1, <1>5, <1>6, <1>7, <1>8, <1>9, <1>10 DEF CopyInv

(***************************************************************************)
(* The shapes of the steps.                                                *)
(***************************************************************************)
\* A step that leaves the stored operation alone.
LEMMA StoredStays == ASSUME CopyInv, op' = op PROVE StoredMove
BY DEF StoredMove, CopyInv, CopyTypeOK, AllListed, Lives

\* A step that leaves the cache alone, and its version too if it stores nothing.
LEMMA CachedStays ==
  ASSUME CopyInv, opCache' = opCache, "opCache" \in current' => "opCache" \in current /\ op' = op
  PROVE  CacheMove
BY DEF CacheMove, CopyInv, Versions

\* An idle controller has nothing under way.
LEMMA IdleFacts == pc' = "idle" => EndPhases' /\ (then' = "done" => Thens')
BY DEF EndPhases, Thens, Reread, Reported

\* A pass that ends.
LEMMA EndCopies ==
  ASSUME CopyInv, Forget, StoredMove, ReportMove, CollectMove, opCache' = opCache,
         "inst" \notin current', "opCache" \in current' => "opCache" \in current /\ op' = op
  PROVE  CopyMove
<1>1. CacheMove /\ EndPhases' /\ Thens' /\ inst' = NewOp
  BY CachedStays, IdleFacts DEF Forget
<1> QED
  BY <1>1, NewOpFacts DEF CopyMove, HeldMove

\* A pass that ends without storing anything.
LEMMA QuietEndCopies ==
  ASSUME CopyInv, Forget, NEW copies, Keep(copies), "opCache" \in copies => "opCache" \in current,
         op' = op, opCache' = opCache, ReportMove, CollectMove
  PROVE  CopyMove
<1>1. \A x \in current' : x \in copies
  BY KeepFacts
<1>2. "inst" \notin current'
  BY KeepFacts DEF Forget
<1> QED
  BY <1>1, <1>2, StoredStays, EndCopies

\* A pass that goes on with its copy.
LEMMA GoCopies ==
  ASSUME CopyInv, pc # "idle", pc # "write", pc' # "idle", inst' = inst, op' = op, opCache' = opCache,
         \A x \in {"opCache", "inst"} : x \in current' => x \in current,
         ReportMove, CollectMove, Thens', EndPhases'
  PROVE  CopyMove
<1>1. StoredMove /\ CacheMove /\ inst.life # "gone"
  BY StoredStays, CachedStays DEF CopyInv, Lives
<1> QED
  BY <1>1 DEF CopyMove, HeldMove

\* A step beside the controller.
LEMMA AsideCopies ==
  ASSUME CopyInv, UNCHANGED <<op, opCache, pc, inst, then, reported, collected>>,
         \A x \in {"opCache", "inst"} : x \in current' => x \in current
  PROVE  CopyMove
<1>1. StoredMove /\ CacheMove /\ inst.life # "gone"
  BY StoredStays, CachedStays DEF CopyInv, Lives
<1>2. "inst" \in current' => pc' # "idle"
  BY DEF CopyInv, Versions
<1>3. Thens' /\ EndPhases'
  BY DEF CopyInv, Thens, EndPhases
<1> QED
  BY <1>1, <1>2, <1>3 DEF CopyMove, HeldMove, ReportMove, CollectMove

\* What the API server stores of a copy with its version.
LEMMA PutCopies ==
  ASSUME CopyInv, NEW new \in Op, Put(new), op.life # "gone", "inst" \in current,
         new.life = inst.life, Listed(new.status), inst.status.has \subseteq new.status.has,
         \/ inst.fins \subseteq new.fins
         \/ /\ inst.life = "deleting" \/ IsDone(inst.status)
            /\ "logs" \in inst.fins => collected
  PROVE  /\ StoredMove /\ op'.status = new.status
         /\ inst.fins \subseteq new.fins \/ inst.life = "live" =>
              op' = new /\ op'.life = op.life /\ op'.life # "gone"
         /\ pc # "write" => inst.status = op.status
<1>1. /\ op \in Op /\ inst.life = op.life /\ inst.fins = op.fins
      /\ Outcomes(inst.status) = Outcomes(op.status) /\ op.status.has \subseteq inst.status.has
      /\ op.life = "deleting" => op.fins # {}
      /\ pc # "write" => inst.status = op.status
  BY DEF CopyInv, CopyTypeOK, Versions, Lives
<1>2. op.life \in {"live", "deleting"}
  BY <1>1 DEF Op
<1>3. /\ op'.fins = new.fins /\ op'.status = new.status /\ op' \in Op
      /\ op'.life = IF new.life = "deleting" /\ new.fins = {} THEN "gone" ELSE new.life
      /\ new.life # "deleting" \/ new.fins # {} => op' = new
  BY PutStores
<1>4. IsDone(inst.status) <=> IsDone(op.status)
  BY <1>1, DoneOutcomes
<1>5. StoredMove
  BY <1>1, <1>2, <1>3, <1>4 DEF StoredMove
<1> QED
  BY <1>1, <1>2, <1>3, <1>5

\* A write of the controller after which the pass ends or goes on with the answer.
LEMMA WriteCopies ==
  ASSUME CopyInv, NEW new \in Op, NEW ACTION Go, Write(new, Go),
         opCache' = opCache, reported' = reported, collected' = collected,
         new.life = inst.life, Listed(new.status), inst.status.has \subseteq new.status.has,
         \/ inst.fins \subseteq new.fins
         \/ /\ inst.life = "deleting" \/ IsDone(inst.status)
            /\ "logs" \in inst.fins => collected,
         Go => \/ Forget
                  \/ /\ inst' = op' /\ pc' # "idle" /\ Thens' /\ EndPhases'
                     /\ inst.fins \subseteq new.fins \/ inst.life = "live"
  PROVE  CopyMove
<1>1. ReportMove /\ CollectMove
  BY DEF ReportMove, CollectMove
<1>2. ASSUME Put(new), Current
      PROVE  StoredMove /\ (inst.fins \subseteq new.fins \/ inst.life = "live" => op'.life # "gone")
  BY <1>2, PutCopies DEF Current
<1>3. CASE Current /\ Put(new) /\ Go /\ Keep(Unchanged \cup {"inst"})
  <2>1. "opCache" \in current' => "opCache" \in current /\ op' = op
    BY <1>3, KeepFacts DEF Unchanged, OpCopies
  <2>2. CASE Forget
    <3>1. "inst" \notin current'
      BY <1>3, <2>2, KeepFacts DEF Forget
    <3> QED
      BY <1>1, <1>2, <1>3, <2>1, <2>2, <3>1, EndCopies
  <2>3. CASE /\ inst' = op' /\ pc' # "idle" /\ Thens' /\ EndPhases'
             /\ inst.fins \subseteq new.fins \/ inst.life = "live"
    <3>1. StoredMove /\ op'.life # "gone" /\ CacheMove
      BY <1>2, <1>3, <2>1, <2>3, CachedStays
    <3> QED
      BY <1>1, <2>3, <3>1 DEF CopyMove, HeldMove
  <2> QED
    BY <1>3, <2>2, <2>3
<1>4. CASE Current /\ Put(new) /\ ReturnError /\ Keep(Unchanged)
  <2>1. "opCache" \in current' => "opCache" \in current /\ op' = op
    BY <1>4, KeepFacts DEF Unchanged, OpCopies
  <2>2. "inst" \notin current' /\ Forget
    BY <1>4, KeepFacts DEF Forget, ReturnError
  <2> QED
    BY <1>1, <1>2, <1>4, <2>1, <2>2, EndCopies
<1>5. CASE ReturnError /\ Keep(current) /\ UNCHANGED cluster
  BY <1>1, <1>5, QuietEndCopies DEF ReturnError, cluster
<1> QED
  BY <1>3, <1>4, <1>5 DEF Write

\* What a write leaves of everything else.
LEMMA WriteFacts ==
  ASSUME CopyInv, NEW new \in Op, NEW ACTION Go, Write(new, Go)
  PROVE  /\ UNCHANGED <<owned, pods>> /\ faults' \in {faults, faults + 1}
         /\ op' = op \/ (op.life # "gone" /\ "inst" \in current /\ op'.status = new.status)
         /\ Forget \/ Go
BY PutStores DEF Write, Put, Current, ReturnError, Fail, cluster

\* A delete stores a deletion request.
LEMMA DeleteCopies ==
  ASSUME CopyInv, DeleteOp
  PROVE  StoredMove /\ op'.status = op.status /\ UNCHANGED <<owned, pods>>
<1> DEFINE new == [op EXCEPT !.life = "deleting"]
<1>1. op \in Op /\ Listed(op.status) /\ op.life # "gone" /\ Put(new)
  BY DEF CopyInv, CopyTypeOK, AllListed, DeleteOp
<1>2. new \in Op /\ new.fins = op.fins /\ new.status = op.status /\ new.life = "deleting"
  BY <1>1 DEF Op
<1> HIDE DEF new
<1>3. UNCHANGED <<owned, pods>>
  BY <1>1 DEF Put
<1>4. /\ op'.fins = op.fins /\ op'.status = op.status /\ op' \in Op
      /\ op'.life = IF op.fins = {} THEN "gone" ELSE "deleting"
  BY <1>1, <1>2, PutStores
<1> QED
  BY <1>1, <1>3, <1>4 DEF StoredMove

(***************************************************************************)
(* What stays of the cluster, the record and the pass.                     *)
(***************************************************************************)
\* Nothing that has happened is taken back, and a cluster goes only when somebody
\* deletes it or the operation is gone.
Past ==
  /\ faults' \in {faults, faults + 1} /\ removals' \in {removals, removals + 1}
  /\ seen \subseteq seen' /\ (overdue => overdue')
  /\ owned.live => owned'.live \/ removals' > 0 \/ op'.life = "gone"

LEMMA PastFacts ==
  ASSUME ClusterInv, CopyMove, Past
  PROVE  /\ removals \in Nat /\ faults \in Nat /\ removals' \in Nat /\ faults' \in Nat
         /\ removals > 0 => removals' > 0
         /\ removals' = 0 => removals = 0
         /\ removals' > 0 => removals' + faults' > 0
         /\ faults' > 0 => removals' + faults' > 0
         /\ removals + faults > 0 => removals' + faults' > 0
         /\ faults > 0 => faults' > 0
         /\ op.life = "gone" => op'.life = "gone"
         /\ Undisturbed' => Undisturbed
         /\ op.status.has \subseteq op'.status.has
         /\ opCache.status.has \subseteq opCache'.status.has
<1>1. /\ removals \in Nat /\ faults \in Nat
      /\ faults' \in {faults, faults + 1} /\ removals' \in {removals, removals + 1}
  BY DEF ClusterInv, PassInv, CountsOK, Past
<1>2. \A f, r \in Nat : /\ r > 0 => r + f > 0 /\ r + 1 > 0
                        /\ r + 1 # 0 /\ r + 1 \in Nat
                        /\ f > 0 => r + f > 0
                        /\ r + f > 0 => r + 1 + f > 0 /\ r + (f + 1) > 0 /\ r + 1 + (f + 1) > 0
  OBVIOUS
<1>3. /\ removals' \in Nat /\ faults' \in Nat
      /\ removals > 0 => removals' > 0
      /\ removals' = 0 => removals = 0
      /\ removals' > 0 => removals' + faults' > 0
      /\ faults' > 0 => removals' + faults' > 0
      /\ removals + faults > 0 => removals' + faults' > 0
      /\ faults > 0 => faults' > 0
  BY <1>1, <1>2
<1>4. op.life = "gone" => op'.life = "gone"
  BY DEF CopyMove, StoredMove
<1>5. op.status.has \subseteq op'.status.has /\ opCache.status.has \subseteq opCache'.status.has
  BY DEF CopyMove, StoredMove, CacheMove, ClusterInv, CopyInv, Behind
<1> QED
  BY <1>1, <1>3, <1>4, <1>5 DEF Undisturbed

\* The record stays as long as no condition is logged.
LEMMA RecordStays ==
  ASSUME ClusterInv, CopyMove, Past, Alike(op'.status, op.status)
  PROVE  Recorded'
<1>1. op'.status.has = op.status.has /\ op'.status.last = op.status.last
      /\ op'.status.completion = op.status.completion
      /\ Outcomes(op'.status) = Outcomes(op.status) /\ (IsDone(op'.status) <=> IsDone(op.status))
  BY DEF Alike, Outcomes, IsDone
<1>2. Recorded /\ seen \subseteq seen' /\ (overdue => overdue')
      /\ (owned.live => owned'.live \/ removals' > 0 \/ op'.life = "gone")
  BY DEF ClusterInv, PassInv, Past
<1>3. Justified'
  BY <1>1, <1>2, PastFacts DEF Recorded, Justified
<1>4. OneEnd'
  BY <1>1, <1>2, PastFacts DEF Recorded, OneEnd
<1>5. op'.status.has # {} /\ op'.life # "gone" => owned'.live \/ removals' + faults' > 0
  BY <1>1, <1>2, PastFacts DEF Recorded
<1>6. Undisturbed' /\ IsDone(op'.status) /\ opCache'.status.has = {} => owned'.live
  <2>1. SUFFICES ASSUME Undisturbed', IsDone(op'.status), opCache'.status.has = {}
                 PROVE  owned'.live
    OBVIOUS
  <2>2. opCache.status.has = {} /\ Undisturbed /\ IsDone(op.status)
    BY <1>1, <2>1, PastFacts
  <2>3. owned.live /\ ~(removals' > 0) /\ op'.life # "gone"
    BY <1>2, <2>1, <2>2, PastFacts DEF Recorded, Undisturbed
  <2> QED
    BY <1>2, <2>3
<1> QED
  BY <1>3, <1>4, <1>5, <1>6 DEF Recorded

\* What a pass knows stays while it waits.
LEMMA UnderwayStays ==
  ASSUME ClusterInv, CopyMove, Past, UNCHANGED <<pc, inst, then>>, op'.status = op.status
  PROVE  Underway'
<1>1. Underway /\ (owned.live => owned'.live \/ removals' > 0 \/ op'.life = "gone")
  BY DEF ClusterInv, PassInv, Past
<1>2. Tending' <=> Tending
  BY DEF Tending
<1>3. Open'
  BY <1>1, PastFacts DEF Underway, Open
<1>4. Tending' /\ op'.life # "gone" => owned'.live \/ removals' > 0
  BY <1>1, <1>2, PastFacts DEF Underway
<1>5. pc' = "write" /\ then' = "error" => faults' > 0
  BY <1>1, PastFacts DEF Underway
<1>6. ASSUME pc' = "runtime"
      PROVE  /\ inst'.status.has # {} => opCache'.status.has # {}
             /\ inst'.status.has = {} /\ Undisturbed' /\ IsDone(op'.status) => owned'.live
  <2>1. inst'.status.has # {} => opCache'.status.has # {}
    BY <1>1, <1>6, PastFacts DEF Underway
  <2>2. Undisturbed' => ~(removals' > 0) /\ op'.life # "gone" /\ Undisturbed
    BY PastFacts DEF Undisturbed
  <2> QED
    BY <1>1, <1>6, <2>1, <2>2 DEF Underway
<1> QED
  BY <1>3, <1>4, <1>5, <1>6 DEF Underway

\* There is nothing to know of the cluster outside of the pass over it.
LEMMA NotUnderway ==
  ASSUME \/ pc' \in {"idle", "addStart", "syncStopped", "collect", "removeFinalizer", "cleanup",
                     "delete"}
         \/ pc' = "sync" /\ then' \in {"done", "error", "delete"}
         \/ pc' = "refetch" /\ then' = "addStart"
  PROVE  Underway'
BY DEF Underway, Open, Tending

\* What is shown of a step: it keeps the invariant, and it only adds to the record,
\* to which a step that deletes the cluster adds nothing.
Kept ==
  /\ StoredMove /\ ClusterInv'
  /\ removals' = removals \/ op' = op

\* A step of the controller.
PassStep ==
  /\ CopyMove
  /\ UNCHANGED <<owned, pods, podCache, removals>> /\ Within
  /\ faults' \in {faults, faults + 1} /\ found' \in {found, Nothing}

LEMMA PassStepPast == ASSUME PassStep PROVE Past /\ CopyMove
BY DEF PassStep, Past, Within, around

\* It keeps the invariant if it keeps the record and knows what it should.
LEMMA PassStepKeeps ==
  ASSUME ClusterInv, PassStep, Recorded', Underway'
  PROVE  Kept
<1>1. CopyInv'
  BY CopyMoveKeeps DEF PassStep, ClusterInv
<1>2. CountsOK'
  BY PassStepPast, PastFacts DEF PassStep, ClusterInv, PassInv, CountsOK
<1>3. Evidence'
  BY DEF PassStep, ClusterInv, PassInv, Evidence, Shown, Within, around, Nothing
<1> QED
  BY <1>1, <1>2, <1>3 DEF Kept, PassStep, CopyMove, ClusterInv, PassInv

\* The same of a step that logs nothing.
LEMMA QuietStepKeeps ==
  ASSUME ClusterInv, PassStep, Alike(op'.status, op.status), Underway'
  PROVE  Kept
BY PassStepPast, RecordStays, PassStepKeeps

(***************************************************************************)
(* The start of a pass.                                                    *)
(***************************************************************************)
\* A pass that goes on from the cached operation knows what the dispatch looked at.
LEMMA CachedPass ==
  ASSUME ClusterInv, op' = op, opCache' = opCache, inst' = opCache, owned' = owned,
         removals' = removals,
         pc' \in {"addLogs", "addStatus", "runtime"} => ~IsDone(opCache.status),
         pc' \in {"addStart", "addLogs", "addStatus", "runtime", "collect", "syncStopped"}
  PROVE  Underway'
<1>1. Open'
  BY DEF Open
<1>2. ~Tending' /\ pc' # "write"
  BY DEF Tending
<1>3. inst'.status.has = {} /\ Undisturbed' /\ IsDone(op'.status) => owned'.live
  BY DEF ClusterInv, PassInv, Recorded, Undisturbed
<1> QED
  BY <1>1, <1>2, <1>3 DEF Underway

\* The labels a dispatch leads to.
LEMMA DispatchLabels ==
  ASSUME NEW copy \in Op, copy.life # "gone", pc' = Dispatch(copy), inst' = copy
  PROVE  /\ pc' \in {"addLogs", "addStatus", "runtime", "collect", "syncStopped"}
         /\ pc' \in {"addLogs", "addStatus", "runtime"} => ~IsDone(copy.status)
         /\ EndPhases'
<1>1. CASE pc' = "collect" /\ IsDone(copy.status)
  BY <1>1 DEF EndPhases
<1>2. CASE pc' = "syncStopped" /\ copy.life = "deleting"
  BY <1>2 DEF EndPhases
<1>3. CASE pc' \in {"addLogs", "addStatus", "runtime"} /\ ~IsDone(copy.status)
  BY <1>3 DEF EndPhases
<1> QED
  BY <1>1, <1>2, <1>3, DispatchFacts

\* The operation is read from the cache.
LEMMA FetchKeeps == ASSUME ClusterInv, Fetch PROVE Kept
<1>1. /\ op' = op /\ opCache' = opCache /\ reported' = reported /\ collected' = collected
      /\ pc = "idle" /\ opCache \in Op /\ CopyInv
      /\ UNCHANGED <<owned, pods, podCache, removals, faults, found, then>> /\ Within
  BY DEF Fetch, FetchOp, cluster, elsewhere, caches, plane, worker, ClusterInv, CopyInv, CopyTypeOK
<1>2. StoredMove /\ ReportMove /\ CollectMove /\ Alike(op'.status, op.status)
  BY <1>1, StoredStays DEF ReportMove, CollectMove, Alike
<1>3. CASE opCache.life = "gone"
  <2>1. UNCHANGED <<pc, inst, current>>
    BY <1>3 DEF Fetch, FetchOp, worker
  <2>2. CopyMove
    BY <1>1, <2>1, AsideCopies
  <2>3. PassStep
    BY <1>1, <2>2 DEF PassStep
  <2>4. Underway'
    BY <1>1, <2>1, NotUnderway
  <2> QED
    BY <1>2, <2>3, <2>4, QuietStepKeeps
<1>4. CASE opCache.life # "gone"
  <2>1. /\ inst' = opCache
        /\ pc' = IF opCache.status.start THEN Dispatch(opCache) ELSE "addStart"
        /\ Keep(IF "opCache" \in current THEN current \cup {"inst"} ELSE current)
    BY <1>4 DEF Fetch, FetchOp
  <2>2. /\ pc' \in {"addStart", "addLogs", "addStatus", "runtime", "collect", "syncStopped"}
        /\ pc' \in {"addLogs", "addStatus", "runtime"} => ~IsDone(opCache.status)
        /\ EndPhases'
    <3>1. CASE opCache.status.start
      BY <1>1, <1>4, <2>1, <3>1, DispatchLabels
    <3>2. CASE ~opCache.status.start
      BY <2>1, <3>2 DEF EndPhases
    <3> QED
      BY <3>1, <3>2
  <2>3. Underway'
    BY <1>1, <2>1, <2>2, CachedPass
  <2>4. /\ "opCache" \in current' => "opCache" \in current
        /\ "inst" \in current' => "opCache" \in current
    <3>1. "inst" \notin current
      BY <1>1 DEF CopyInv, Versions
    <3> QED
      BY <2>1, <2>2, <3>1 DEF Keep
  <2>5. HeldMove /\ CacheMove
    BY <1>1, <1>4, <2>1, <2>2, <2>4, CachedStays DEF HeldMove
  <2>6. Thens'
    BY <1>1, <2>2 DEF Thens, CopyInv
  <2>7. CopyMove
    BY <1>2, <2>2, <2>5, <2>6 DEF CopyMove
  <2>8. PassStep
    BY <1>1, <2>7 DEF PassStep
  <2> QED
    BY <1>2, <2>3, <2>8, QuietStepKeeps
<1> QED
  BY <1>3, <1>4

\* A write of the operation after which it is read again.
LEMMA RefetchKeeps ==
  ASSUME ClusterInv, NEW new \in Op, NEW label \in Reread, Write(new, Refetch(label)),
         new.life = inst.life, inst.fins \subseteq new.fins, Alike(new.status, inst.status),
         pc \in {"addStart", "addLogs", "addStatus"},
         label \in {"addStart", "addLogs", "addStatus"},
         label \in {"addLogs", "addStatus"} => ~IsDone(inst.status),
         UNCHANGED <<elsewhere, plane>>, Within
  PROVE  Kept
<1>1. /\ opCache' = opCache /\ reported' = reported /\ collected' = collected
      /\ UNCHANGED <<podCache, removals>> /\ CopyInv
  BY DEF elsewhere, caches, plane, ClusterInv
<1>2. Listed(new.status) /\ new.status.has = inst.status.has
      /\ (IsDone(new.status) <=> IsDone(inst.status))
  BY DEF Alike, Listed, IsDone, ClusterInv, CopyInv, AllListed
<1>3. Refetch(label) => /\ inst' = op' /\ pc' = "refetch" /\ then' = label /\ found' = found
                        /\ Thens' /\ EndPhases'
  BY DEF Refetch, Thens, EndPhases, Reread
<1>4. CopyMove
  BY <1>1, <1>2, <1>3, WriteCopies
<1>5. /\ UNCHANGED <<owned, pods>> /\ faults' \in {faults, faults + 1}
      /\ op' = op \/ (op.life # "gone" /\ "inst" \in current /\ op'.status = new.status)
      /\ Forget \/ Refetch(label)
  BY <1>1, WriteFacts
<1>6. found' \in {found, Nothing}
  BY <1>3, <1>5 DEF Forget
<1>7. PassStep
  BY <1>1, <1>4, <1>5, <1>6 DEF PassStep
<1>8. Alike(op'.status, op.status)
  <2>1. "inst" \in current => inst.status = op.status
    BY <1>1 DEF CopyInv, Versions
  <2> QED
    BY <1>5, <2>1 DEF Alike
<1>9. Underway'
  <2>1. CASE Forget
    BY <2>1, NotUnderway DEF Forget
  <2>2. CASE Refetch(label) /\ label = "addStart"
    BY <1>3, <2>2, NotUnderway
  <2>3. CASE Refetch(label) /\ label # "addStart" /\ ~Forget
    <3>1. ~IsDone(op'.status)
      <4>1. Current /\ Put(new)
        BY <2>3 DEF Write, ReturnError
      <4> QED
        BY <1>2, <2>3, <4>1, PutStores
    <3> QED
      BY <1>3, <2>3, <3>1 DEF Underway, Open, Tending
  <2> QED
    BY <1>5, <2>1, <2>2, <2>3
<1> QED
  BY <1>7, <1>8, <1>9, QuietStepKeeps

\* The start time and the finalizers.
LEMMA StartsKeep ==
  ASSUME ClusterInv, AddStartTime \/ AddLogsFinalizer \/ AddStatusFinalizer
  PROVE  Kept
<1>1. inst \in Op /\ CopyInv /\ Underway
  BY DEF ClusterInv, CopyInv, CopyTypeOK, PassInv
<1>2. CASE AddStartTime
  <2> DEFINE new == [inst EXCEPT !.status.start = TRUE]
  <2>1. /\ new \in Op /\ new.life = inst.life /\ inst.fins \subseteq new.fins
        /\ Alike(new.status, inst.status)
    BY <1>1 DEF Op, OperationStatusType, Alike
  <2>2. Write(new, Refetch("addStart")) /\ pc = "addStart" /\ UNCHANGED <<elsewhere, plane>> /\ Within
    BY <1>2 DEF AddStartTime
  <2> HIDE DEF new
  <2>3. "addStart" \in Reread
    BY DEF Reread
  <2> QED
    BY <2>1, <2>2, <2>3, RefetchKeeps
<1>3. ASSUME NEW label \in {"addLogs", "addStatus"}, NEW finalizer \in Finalizers,
             AddFinalizer(label, finalizer)
      PROVE  Kept
  <2> DEFINE new == [inst EXCEPT !.fins = @ \cup {finalizer}]
  <2>1. /\ new \in Op /\ new.life = inst.life /\ inst.fins \subseteq new.fins
        /\ Alike(new.status, inst.status)
    BY <1>1 DEF Op, Alike
  <2>2. pc = label /\ UNCHANGED <<elsewhere, plane>> /\ Within
    BY <1>3 DEF AddFinalizer
  <2>3. label \in Reread /\ ~IsDone(inst.status)
    BY <1>1, <2>2 DEF Reread, Underway, Open
  <2>4. CASE inst.life = "deleting"
    <3>1. ReturnError /\ Keep(current) /\ UNCHANGED <<cluster, faults>>
      BY <1>3, <2>4 DEF AddFinalizer
    <3>2. /\ Forget /\ op' = op /\ opCache' = opCache /\ ReportMove /\ CollectMove
          /\ UNCHANGED <<owned, pods, podCache, removals, faults>> /\ found' = Nothing
      BY <2>2, <3>1 DEF ReturnError, Forget, cluster, elsewhere, caches, plane, ReportMove, CollectMove
    <3>3. CopyMove
      BY <1>1, <3>1, <3>2, QuietEndCopies
    <3>4. PassStep /\ Alike(op'.status, op.status)
      BY <2>2, <3>2, <3>3 DEF PassStep, Alike
    <3> QED
      BY <3>2, <3>4, NotUnderway, QuietStepKeeps DEF Forget
  <2>5. CASE inst.life # "deleting"
    <3>1. Write(new, Refetch(label))
      BY <1>3, <2>5 DEF AddFinalizer
    <3> HIDE DEF new
    <3> QED
      BY <2>1, <2>2, <2>3, <3>1, RefetchKeeps
  <2> QED
    BY <2>4, <2>5
<1>4. "logs" \in Finalizers /\ "status" \in Finalizers
  BY DEF Finalizers
<1> QED
  BY <1>2, <1>3, <1>4 DEF AddLogsFinalizer, AddStatusFinalizer

\* The operation is read again, and the pass goes on with what was read.
LEMMA SecondReadKeeps == ASSUME ClusterInv, refetch PROVE Kept
<1>1. /\ op' = op /\ opCache' = opCache /\ reported' = reported /\ collected' = collected
      /\ pc = "refetch" /\ opCache \in Op /\ CopyInv /\ Underway
      /\ UNCHANGED <<owned, pods, podCache, removals, faults>> /\ Within
      /\ Keep(IF "opCache" \in current THEN current \cup {"inst"} ELSE current \ {"inst"})
  BY DEF refetch, cluster, elsewhere, caches, plane, ClusterInv, CopyInv, CopyTypeOK, PassInv
<1>2. StoredMove /\ ReportMove /\ CollectMove /\ Alike(op'.status, op.status)
  BY <1>1, StoredStays DEF ReportMove, CollectMove, Alike
<1>3. /\ "opCache" \in current' => "opCache" \in current
      /\ "inst" \in current' => "opCache" \in current /\ pc' # "idle"
  BY <1>1 DEF Keep
<1>4. CASE opCache.life = "gone"
  <2>1. ReturnError
    BY <1>4 DEF refetch
  <2>2. Forget /\ found' = Nothing
    BY <2>1 DEF ReturnError, Forget
  <2>3. CopyMove
    BY <1>1, <1>2, <2>2, QuietEndCopies
  <2>4. PassStep
    BY <1>1, <2>2, <2>3 DEF PassStep
  <2> QED
    BY <1>2, <2>2, <2>4, NotUnderway, QuietStepKeeps DEF Forget
<1>5. CASE opCache.life # "gone" /\ then # "runtime"
  <2>1. inst' = opCache /\ pc' = After(then, opCache) /\ then' = "done" /\ found' = found
    BY <1>5 DEF refetch
  <2>2. then \in {"addStart", "addLogs", "addStatus"}
    BY <1>1, <1>5 DEF CopyInv, Thens, Reread
  <2>3. /\ pc' \in {"addLogs", "addStatus", "runtime", "collect", "syncStopped"}
        /\ pc' \in {"addLogs", "addStatus", "runtime"} => ~IsDone(opCache.status)
        /\ EndPhases'
    <3>1. CASE then = "addStart"
      <4>1. pc' = Dispatch(opCache)
        BY <2>1, <3>1 DEF After
      <4> QED
        BY <1>1, <1>5, <2>1, <4>1, DispatchLabels
    <3>2. CASE then \in {"addLogs", "addStatus"}
      <4>1. pc' \in {"addStatus", "runtime"}
        BY <2>1, <3>2 DEF After
      <4>2. ~IsDone(op.status)
        BY <1>1, <3>2 DEF Underway, Open
      <4>3. ~IsDone(opCache.status)
        BY <1>1, <4>2 DEF CopyInv, Behind, IsDone
      <4> QED
        BY <4>1, <4>3 DEF EndPhases
    <3> QED
      BY <2>2, <3>1, <3>2
  <2>4. Underway'
    BY <1>1, <2>1, <2>3, CachedPass
  <2>5. HeldMove /\ CacheMove
    BY <1>1, <1>3, <1>5, <2>1, CachedStays DEF HeldMove
  <2>6. Thens'
    BY <2>1, <2>3 DEF Thens, Reported
  <2>7. CopyMove
    BY <1>2, <2>3, <2>5, <2>6 DEF CopyMove
  <2>8. PassStep
    BY <1>1, <2>1, <2>7 DEF PassStep
  <2> QED
    BY <1>2, <2>4, <2>8, QuietStepKeeps
<1>6. CASE opCache.life # "gone" /\ then = "runtime"
  <2> DEFINE new == [opCache EXCEPT !.status = LogStarting(@)]
  <2>1. inst' = new /\ pc' = "write" /\ then' = "checkStatus" /\ found' = found
    BY <1>6 DEF refetch, After
  <2>2. /\ opCache.status \in OperationStatusType
        /\ LogStarting(opCache.status) \in OperationStatusType
        /\ LogStarting(opCache.status).has = opCache.status.has \cup {"Starting"}
        /\ LogStarting(opCache.status).last.type = "Starting"
    <3>1. opCache.status \in OperationStatusType /\ "OperatorController" \in Reasons
      BY <1>1, OperatorReasons DEF Op
    <3>2. "Starting" \in ConditionTypes
      BY DEF ConditionTypes
    <3> QED
      BY <3>1, <3>2, LogFacts DEF LogStarting
  <2>3. /\ new \in Op /\ new.life = opCache.life /\ new.fins = opCache.fins
        /\ new.status = LogStarting(opCache.status)
    BY <1>1, <2>2 DEF Op
  <2> HIDE DEF new
  <2>4. /\ Listed(new.status) /\ Outcomes(new.status) = Outcomes(opCache.status)
        /\ opCache.status.has \subseteq new.status.has
    BY <2>2, <2>3 DEF Listed, Outcomes, FinalTypes
  <2>5. LogsOn(opCache)
    BY <1>1, <2>1, <2>3, <2>4 DEF LogsOn
  <2>6. HeldMove /\ CacheMove
    BY <1>1, <1>3, <1>6, <2>1, <2>3, <2>5, CachedStays DEF HeldMove
  <2>7. Thens' /\ EndPhases'
    BY <2>1 DEF Thens, EndPhases, Reported
  <2>8. CopyMove
    BY <1>2, <2>6, <2>7 DEF CopyMove
  <2>9. PassStep
    BY <1>1, <2>1, <2>8 DEF PassStep
  <2>10. Undisturbed => ~IsDone(inst'.status)
    <3>1. Undisturbed => ~IsDone(op.status)
      BY <1>1, <1>6 DEF Underway, Open
    <3>2. IsDone(new.status) => IsDone(op.status)
      BY <1>1, <2>4, DoneOutcomes DEF CopyInv, Behind, IsDone
    <3> QED
      BY <2>1, <3>1, <3>2
  <2>11. Tending
    BY <1>1, <1>6 DEF Tending
  <2>12. Underway'
    BY <1>1, <2>1, <2>10, <2>11 DEF Underway, Open, Undisturbed
  <2> QED
    BY <1>2, <2>9, <2>12, QuietStepKeeps
<1> QED
  BY <1>4, <1>5, <1>6

(***************************************************************************)
(* The end of an operation, and reports.                                   *)
(***************************************************************************)
\* A delete ends the pass.
LEMMA DeleteKeeps ==
  ASSUME ClusterInv, NEW requeue, Delete(requeue), UNCHANGED <<elsewhere, plane>>, Within
  PROVE  Kept
<1>1. /\ opCache' = opCache /\ ReportMove /\ CollectMove /\ CopyInv
      /\ UNCHANGED <<podCache, removals>>
  BY DEF elsewhere, caches, plane, ReportMove, CollectMove, ClusterInv
<1>2. Forget /\ found' = Nothing /\ faults' \in {faults, faults + 1}
  BY DEF Delete, Return, ReturnError, Forget, Fail
<1>3. CASE DeleteOp /\ Keep(Unchanged)
  <2>1. "opCache" \in current' => "opCache" \in current /\ op' = op
    BY <1>3, KeepFacts DEF Unchanged, OpCopies
  <2>2. "inst" \notin current'
    BY <1>2, <1>3, KeepFacts DEF Forget
  <2>3. StoredMove /\ op'.status = op.status /\ UNCHANGED <<owned, pods>>
    BY <1>1, <1>3, DeleteCopies
  <2>4. CopyMove
    BY <1>1, <1>2, <2>1, <2>2, <2>3, EndCopies
  <2>5. PassStep /\ Alike(op'.status, op.status)
    BY <1>1, <1>2, <2>3, <2>4 DEF PassStep, Alike
  <2> QED
    BY <1>2, <2>5, NotUnderway, QuietStepKeeps DEF Forget
<1>4. CASE Keep(current) /\ UNCHANGED cluster
  <2>1. op' = op /\ UNCHANGED <<owned, pods>>
    BY <1>4 DEF cluster
  <2>2. CopyMove
    BY <1>1, <1>2, <1>4, <2>1, QuietEndCopies
  <2>3. PassStep /\ Alike(op'.status, op.status)
    BY <1>1, <1>2, <2>1, <2>2 DEF PassStep, Alike
  <2> QED
    BY <1>2, <2>3, NotUnderway, QuietStepKeeps DEF Forget
<1> QED
  BY <1>3, <1>4 DEF Delete

\* A pass that ends or goes on to something else than the cluster, storing nothing.
LEMMA AwayKeeps ==
  ASSUME ClusterInv, op' = op, opCache' = opCache, ReportMove, CollectMove,
         UNCHANGED <<owned, pods, podCache, removals>>, Within,
         faults' \in {faults, faults + 1}, Keep(current),
         \/ Forget
         \/ /\ inst' = inst /\ found' = found /\ Thens' /\ EndPhases' /\ Underway'
            /\ pc \notin {"idle", "write"} /\ pc' # "idle"
  PROVE  Kept
<1>1. CopyInv /\ \A x \in {"opCache", "inst"} : x \in current' => x \in current
  BY KeepFacts DEF ClusterInv
<1>2. Alike(op'.status, op.status)
  BY DEF Alike
<1>3. CASE Forget
  <2>1. CopyMove
    BY <1>1, <1>3, QuietEndCopies
  <2>2. PassStep
    BY <1>3, <2>1 DEF PassStep, Forget
  <2> QED
    BY <1>2, <1>3, <2>2, NotUnderway, QuietStepKeeps DEF Forget
<1>4. CASE /\ inst' = inst /\ found' = found /\ Thens' /\ EndPhases' /\ Underway'
           /\ pc \notin {"idle", "write"} /\ pc' # "idle"
  <2>1. CopyMove
    BY <1>1, <1>4, GoCopies
  <2>2. PassStep
    BY <1>4, <2>1 DEF PassStep
  <2> QED
    BY <1>2, <1>4, <2>2, QuietStepKeeps
<1> QED
  BY <1>3, <1>4

\* A finished or deleted operation.
LEMMA EndingKeeps ==
  ASSUME ClusterInv, handleFinalizersStop \/ collectLogs \/ removeFinalizer \/ handleTTL \/ delete
  PROVE  Kept
<1>1. CopyInv /\ EndPhases /\ Thens /\ inst \in Op
  BY DEF ClusterInv, CopyInv, CopyTypeOK
<1>2. CASE handleFinalizersStop
  <2>1. /\ op' = op /\ opCache' = opCache /\ UNCHANGED <<owned, pods, podCache, removals>> /\ Within
        /\ pc = "syncStopped" /\ pc' = "collect" /\ inst' = inst /\ found' = found /\ then' = then
        /\ current' = current /\ syncStatus("Stopped")
    BY <1>2 DEF handleFinalizersStop, ReportStopped, Goto, cluster, elsewhere, caches
  <2>2. ReportMove /\ CollectMove /\ faults' \in {faults, faults + 1} /\ Keep(current)
    BY <2>1, SyncFacts DEF ReportMove, CollectMove, FinalTypes, syncStatus, Fail, Keep
  <2>3. Thens' /\ EndPhases' /\ Underway'
    BY <1>1, <2>1, NotUnderway DEF Thens, EndPhases
  <2> QED
    BY <2>1, <2>2, <2>3, AwayKeeps
<1>3. CASE collectLogs
  <2>1. /\ op' = op /\ opCache' = opCache /\ UNCHANGED <<owned, pods, podCache, removals>> /\ Within
        /\ pc = "collect" /\ reported' = reported /\ Keep(current)
    BY <1>3 DEF collectLogs, CollectHeld, cluster, elsewhere, caches
  <2>2. CollectMove /\ ReportMove /\ faults' \in {faults, faults + 1}
    BY <1>3, <2>1 DEF collectLogs, CollectHeld, CollectMove, ReportMove, Fail
  <2>3. \/ Forget
        \/ /\ pc' \in {"removeFinalizer", "cleanup"} /\ inst' = inst /\ found' = found /\ then' = then
           /\ pc' = "removeFinalizer" => collected' = TRUE \/ "logs" \notin inst.fins
    BY <1>3 DEF collectLogs, CollectHeld, AfterFinalizers, Goto, Return
  <2>4. CASE /\ pc' \in {"removeFinalizer", "cleanup"} /\ inst' = inst /\ found' = found /\ then' = then
             /\ pc' = "removeFinalizer" => collected' = TRUE \/ "logs" \notin inst.fins
    <3>1. Thens' /\ EndPhases' /\ Underway'
      BY <1>1, <2>1, <2>4, NotUnderway DEF Thens, EndPhases
    <3> QED
      BY <2>1, <2>2, <2>4, <3>1, AwayKeeps
  <2> QED
    BY <2>1, <2>2, <2>3, <2>4, AwayKeeps
<1>4. CASE removeFinalizer
  <2> DEFINE first == IF "logs" \in inst.fins THEN "logs" ELSE "status"
             new   == [inst EXCEPT !.fins = @ \ {first}]
             Rest  == IF inst.life = "deleting" THEN Return ELSE inst' = op' /\ Goto("cleanup")
  <2>1. /\ opCache' = opCache /\ reported' = reported /\ collected' = collected
        /\ UNCHANGED <<podCache, removals>> /\ Within /\ pc = "removeFinalizer"
        /\ Write(new, Rest)
    BY <1>4 DEF removeFinalizer, ReleaseFinalizer, elsewhere, caches, plane
  <2>2. new \in Op /\ new.life = inst.life /\ new.status = inst.status
    BY <1>1 DEF Op
  <2> HIDE DEF new
  <2>3. Listed(new.status) /\ inst.status.has \subseteq new.status.has
    BY <1>1, <2>2 DEF CopyInv, AllListed
  <2>4. /\ inst.life = "deleting" \/ IsDone(inst.status)
        /\ "logs" \in inst.fins => collected
        /\ inst.life \in {"live", "deleting"}
    BY <1>1, <2>1 DEF EndPhases, CopyInv, Lives, Op
  <2>5. Rest => \/ Forget
                \/ /\ inst' = op' /\ pc' = "cleanup" /\ found' = found /\ then' = then
                   /\ inst.life = "live"
    BY <2>4 DEF Return, Goto
  <2> HIDE DEF Rest
  <2>6. ASSUME Rest PROVE \/ Forget
                          \/ /\ inst' = op' /\ pc' # "idle" /\ Thens' /\ EndPhases'
                             /\ inst.fins \subseteq new.fins \/ inst.life = "live"
    <3>1. CASE /\ inst' = op' /\ pc' = "cleanup" /\ then' = then /\ inst.life = "live"
      <4>1. Thens'
        BY <1>1, <3>1 DEF Thens
      <4>2. CASE Forget
        BY <4>2
      <4>3. CASE ~Forget
        <5>1. Put(new)
          BY <2>1, <4>3 DEF Write, ReturnError
        <5>2. IsDone(op'.status)
          BY <2>2, <2>4, <3>1, <5>1, PutStores
        <5> QED
          BY <3>1, <4>1, <5>2 DEF EndPhases
      <4> QED
        BY <4>2, <4>3
    <3> QED
      BY <2>5, <2>6, <3>1
  <2>7. CopyMove
    BY <1>1, <2>1, <2>2, <2>3, <2>4, <2>6, WriteCopies
  <2>8. /\ UNCHANGED <<owned, pods>> /\ faults' \in {faults, faults + 1}
        /\ op' = op \/ (op.life # "gone" /\ "inst" \in current /\ op'.status = new.status)
        /\ Forget \/ Rest
    BY <1>1, <2>1, <2>2, WriteFacts
  <2>9. found' \in {found, Nothing} /\ pc' \in {"idle", "cleanup"}
    BY <2>5, <2>8 DEF Forget
  <2>10. PassStep
    BY <2>1, <2>7, <2>8, <2>9 DEF PassStep
  <2>11. Alike(op'.status, op.status)
    <3>1. "inst" \in current => inst.status = op.status
      BY <1>1, <2>1 DEF CopyInv, Versions
    <3> QED
      BY <2>2, <2>8, <3>1 DEF Alike
  <2> QED
    BY <2>9, <2>10, <2>11, NotUnderway, QuietStepKeeps
<1>5. CASE handleTTL
  <2>1. UNCHANGED <<elsewhere, plane>> /\ Within
    BY <1>5 DEF handleTTL, CleanUp
  <2>2. CASE Delete(FALSE)
    BY <2>1, <2>2, DeleteKeeps
  <2>3. CASE Forget /\ Keep(current) /\ UNCHANGED <<cluster, faults>>
    <3>1. /\ op' = op /\ opCache' = opCache /\ UNCHANGED <<owned, pods, podCache, removals, faults>>
          /\ ReportMove /\ CollectMove
      BY <2>1, <2>3 DEF cluster, elsewhere, caches, plane, ReportMove, CollectMove
    <3> QED
      BY <2>1, <2>3, <3>1, AwayKeeps
  <2> QED
    BY <1>5, <2>2, <2>3 DEF handleTTL, CleanUp, Return, ReturnError
<1>6. CASE delete
  BY <1>6, DeleteKeeps DEF delete
<1> QED
  BY <1>2, <1>3, <1>4, <1>5, <1>6

\* A logged condition is written.
LEMMA StoreKeeps == ASSUME ClusterInv, writeStatus PROVE Kept
<1>1. /\ opCache' = opCache /\ reported' = reported /\ collected' = collected
      /\ UNCHANGED <<podCache, removals>> /\ Within /\ pc = "write" /\ CopyInv /\ inst \in Op
      /\ Write(inst, inst' = op' /\ Goto("sync")) /\ Thens /\ Underway /\ Recorded
  BY DEF writeStatus, StoreStatus, elsewhere, caches, plane, ClusterInv, CopyInv, CopyTypeOK, PassInv
<1>2. then \in {"error", "checkStatus"} /\ Listed(inst.status)
  BY <1>1 DEF Thens, CopyInv, AllListed
<1>3. inst' = op' /\ Goto("sync") =>
        inst' = op' /\ pc' = "sync" /\ then' = then /\ found' = found /\ Thens' /\ EndPhases'
  BY <1>2 DEF Goto, Thens, EndPhases, Reported
<1>4. CopyMove
  BY <1>1, <1>2, <1>3, WriteCopies
<1>5. /\ UNCHANGED <<owned, pods>> /\ faults' \in {faults, faults + 1}
      /\ op' = op \/ (op.life # "gone" /\ "inst" \in current /\ op'.status = inst.status)
      /\ Forget \/ (inst' = op' /\ Goto("sync"))
  BY <1>1, WriteFacts
<1>6. found' \in {found, Nothing}
  BY <1>3, <1>5 DEF Forget
<1>7. PassStep /\ Past
  BY <1>1, <1>4, <1>5, <1>6, PassStepPast DEF PassStep
<1>8. Tending \/ faults > 0
  BY <1>1, <1>2 DEF Tending, Underway
<1>9. Recorded'
  <2>1. CASE op' = op
    BY <1>7, <2>1, PassStepPast, RecordStays DEF Alike
  <2>2. CASE op.life # "gone" /\ "inst" \in current /\ op'.status = inst.status
    <3>1. Outcomes(op'.status) = Outcomes(op.status)
      BY <1>1, <2>2 DEF CopyInv, Versions
    <3>2. Justified'
      <4>1. \A t \in FinalTypes : t \in op'.status.has => t \in op.status.has
        BY <3>1 DEF Outcomes
      <4>2. seen' = seen /\ overdue' = overdue
        BY <1>1 DEF Within, around
      <4>3. removals + faults > 0 => removals' + faults' > 0
        BY <1>4, <1>7, PastFacts
      <4> QED
        BY <1>1, <4>1, <4>2, <4>3 DEF Recorded, Justified, FinalTypes
    <3>3. removals = 0 => ~IsDone(op'.status)
      BY <1>1, <2>2 DEF Underway, Open, Undisturbed
    <3>4. owned.live \/ removals > 0 \/ faults > 0
      BY <1>1, <1>8, <2>2 DEF Underway
    <3>5. owned'.live \/ removals' + faults' > 0
      BY <1>1, <1>4, <1>5, <1>7, <3>4, PastFacts
    <3> QED
      BY <1>1, <3>2, <3>3, <3>5 DEF Recorded, OneEnd, Undisturbed
  <2> QED
    BY <1>5, <2>1, <2>2
<1>10. Underway'
  <2>1. CASE Forget
    BY <2>1, NotUnderway DEF Forget
  <2>2. CASE ~Forget
    <3>1. pc' = "sync" /\ then' = then /\ inst' = op'
      BY <1>3, <1>5, <2>2
    <3>2. CASE then = "error"
      BY <3>1, <3>2, NotUnderway
    <3>3. CASE then = "checkStatus"
      <4>1. Put(inst) /\ Current
        BY <1>1, <2>2 DEF Write, ReturnError
      <4>2. inst'.status = inst.status
        BY <1>1, <3>1, <4>1, PutStores
      <4>3. Undisturbed => ~IsDone(inst'.status)
        BY <1>1, <4>2 DEF Underway, Open
      <4>4. Undisturbed' => Undisturbed
        BY <1>4, <1>7, PastFacts
      <4>5. owned'.live \/ removals' > 0
        BY <1>1, <1>5, <3>3, <4>1 DEF Underway, Tending, Current
      <4> QED
        BY <3>1, <3>3, <4>3, <4>4, <4>5 DEF Underway, Open
    <3> QED
      BY <1>2, <3>2, <3>3
  <2> QED
    BY <2>1, <2>2
<1> QED
  BY <1>7, <1>9, <1>10, PassStepKeeps

\* The last condition of the copy is reported, and the pass ends or goes on.
LEMMA ReportKeeps == ASSUME ClusterInv, instanceSyncStatus PROVE Kept
<1>1. /\ op' = op /\ opCache' = opCache /\ UNCHANGED <<owned, pods, podCache, removals>> /\ Within
      /\ pc = "sync" /\ Keep(current) /\ syncStatus(inst.status.last.type)
      /\ Thens /\ EndPhases /\ Underway
  BY DEF instanceSyncStatus, ReportStatus, cluster, elsewhere, caches, ClusterInv, CopyInv, PassInv
<1>2. ReportMove /\ CollectMove /\ faults' \in {faults, faults + 1}
  BY <1>1, SyncFacts DEF ReportMove, CollectMove, syncStatus, Fail
<1>3. \/ Forget
      \/ pc' = then /\ pc' \in {"checkStatus", "deadline", "delete"} /\ inst' = inst /\ found' = found
         /\ then' = then
  BY <1>1 DEF instanceSyncStatus, ReportStatus, Return, ReturnError, Goto, Thens, Reported
<1>4. CASE pc' = then /\ pc' \in {"checkStatus", "deadline", "delete"} /\ inst' = inst
           /\ found' = found /\ then' = then
  <2>1. Thens' /\ EndPhases'
    BY <1>1, <1>4 DEF Thens, EndPhases
  <2>2. Underway'
    BY <1>1, <1>4 DEF Underway, Open, Tending, Undisturbed
  <2> QED
    BY <1>1, <1>2, <1>4, <2>1, <2>2, AwayKeeps
<1> QED
  BY <1>1, <1>2, <1>3, <1>4, AwayKeeps

(***************************************************************************)
(* The status of the cluster.                                              *)
(***************************************************************************)
\* A pod that is not at BadImage has no container with an invalid image.
LEMMA ValidImage ==
  ASSUME NEW at \in PodStages, at # "BadImage", NEW role
  PROVE  /\ \A k \in DOMAIN PodAt(at, role).inits : ~IsInvalidImage(PodAt(at, role).inits[k])
         /\ \A k \in DOMAIN PodAt(at, role).containers :
              ~IsInvalidImage(PodAt(at, role).containers[k])
<1>1. ASSUME NEW pod, NEW phase, NEW conds, NEW state, NEW reason,
             pod = podStatus(phase, conds, container(state, reason, NoCode, NoCode, 0)),
             PodAt(at, role) = [f \in DOMAIN pod \cup {"role"} |-> IF f = "role" THEN role ELSE pod[f]],
             state # "waiting" \/ reason # "InvalidImageName"
      PROVE  /\ \A k \in DOMAIN PodAt(at, role).inits : ~IsInvalidImage(PodAt(at, role).inits[k])
             /\ \A k \in DOMAIN PodAt(at, role).containers :
                  ~IsInvalidImage(PodAt(at, role).containers[k])
  <2> DEFINE list == container(state, reason, NoCode, NoCode, 0)
  <2>1. DOMAIN list = {1} /\ list[1].state = state /\ list[1].reason = reason
    <3>1. PICK none : list = <<[name |-> "main", state |-> state, reason |-> reason, code |-> NoCode,
                                lastCode |-> NoCode, lastReason |-> none, restarts |-> 0,
                                ready |-> state = "running"]>>
      BY Zenon DEF container
    <3> HIDE DEF list
    <3> QED
      BY <3>1
  <2>2. /\ "inits" \in DOMAIN pod /\ "containers" \in DOMAIN pod
        /\ pod.inits = <<>> /\ pod.containers = list
    BY <1>1 DEF podStatus
  <2> HIDE DEF list
  <2>3. PodAt(at, role).inits = <<>> /\ PodAt(at, role).containers = list
    BY <1>1, <2>2
  <2> QED
    BY <1>1, <2>1, <2>3 DEF IsInvalidImage
<1>2. CASE at = "NotReady"
  <2> DEFINE pod == podStatus("Pending", "notReady",
                              container("waiting", "ContainerCreating", NoCode, NoCode, 0))
  <2>1. PodAt(at, role) = [f \in DOMAIN pod \cup {"role"} |-> IF f = "role" THEN role ELSE pod[f]]
    BY <1>2 DEF PodAt
  <2> QED
    BY <1>1, <2>1
<1>3. CASE at = "NoPull"
  <2> DEFINE pod == podStatus("Pending", "notReady",
                              container("waiting", "ImagePullBackOff", NoCode, NoCode, 0))
  <2>1. PodAt(at, role) = [f \in DOMAIN pod \cup {"role"} |-> IF f = "role" THEN role ELSE pod[f]]
    BY <1>3 DEF PodAt
  <2> QED
    BY <1>1, <2>1
<1>4. CASE at = "Running"
  <2>1. PICK none :
          LET pod == podStatus("Running", "ready", container("running", none, NoCode, NoCode, 0))
          IN  PodAt(at, role) =
                [f \in DOMAIN pod \cup {"role"} |-> IF f = "role" THEN role ELSE pod[f]]
    BY <1>4, Zenon DEF PodAt
  <2> DEFINE pod == podStatus("Running", "ready", container("running", none, NoCode, NoCode, 0))
  <2>2. PodAt(at, role) = [f \in DOMAIN pod \cup {"role"} |-> IF f = "role" THEN role ELSE pod[f]]
    BY <2>1
  <2> QED
    BY <1>1, <2>2
<1> QED
  BY <1>2, <1>3, <1>4 DEF PodStages

\* An image name is invalid only in a pod that says so, in whatever order they come.
LEMMA InvalidImageListed ==
  ASSUME NEW list \in Seq(PodStages), NEW podList \in ListInstancePods(list),
         GetInvalidImageName(podList)
  PROVE  \E i \in DOMAIN list : list[i] = "BadImage"
<1> DEFINE roles == [i \in DOMAIN list |-> PodAt(list[i], IF i = 1 THEN "head" ELSE "worker")]
<1>1. podList \in Orders(roles) /\ DOMAIN roles = DOMAIN list
  BY DEF ListInstancePods
<1>2. PICK p \in [DOMAIN list -> DOMAIN list] : podList = [i \in DOMAIN list |-> roles[p[i]]]
  <2> HIDE DEF roles
  <2> QED
    BY <1>1 DEF Orders
<1>3. PICK i \in DOMAIN list :
         \/ \E k \in DOMAIN podList[i].inits : IsInvalidImage(podList[i].inits[k])
         \/ \E k \in DOMAIN podList[i].containers : IsInvalidImage(podList[i].containers[k])
  BY <1>2 DEF GetInvalidImageName
<1> DEFINE j == p[i]
<1>4. j \in DOMAIN list /\ list[j] \in PodStages
  BY <1>2, <1>3
<1>5. PICK role : podList[i] = PodAt(list[j], role)
  BY <1>2, <1>3, <1>4
<1> HIDE DEF j
<1> QED
  BY <1>3, <1>4, <1>5, ValidImage

\* A status to which a condition of some type was logged.
Adds(new, status, type) ==
  /\ new \in OperationStatusType /\ new.has = status.has \cup {type} /\ new.last.type = type
  /\ type \in {"Succeeded", "Failed"} => new.completion

LEMMA LoggersAdd ==
  ASSUME NEW status \in OperationStatusType, NEW why \in Reasons
  PROVE  /\ Adds(LogStarting(status), status, "Starting")
         /\ Adds(LogRunning(status), status, "Running")
         /\ Adds(LogWarning(status, why), status, "Warning")
         /\ Adds(LogSucceeded(status), status, "Succeeded")
         /\ Adds(LogFailed(status, why), status, "Failed")
         /\ Adds(LogStopped(status, why), status, "Stopped")
<1>1. ConditionTypes = {"Starting", "Running", "Warning", "Succeeded", "Failed", "Stopped"}
  BY DEF ConditionTypes
<1>2. "OperatorController" \in Reasons
  BY OperatorReasons
<1>3. ASSUME NEW type \in ConditionTypes, NEW reason \in Reasons
      PROVE  /\ type \notin {"Succeeded", "Failed"} => Adds(logCondition(status, type, reason), status, type)
             /\ Adds([logCondition(status, type, reason) EXCEPT !.completion = TRUE], status, type)
  <2> DEFINE new == logCondition(status, type, reason)
  <2>1. new \in OperationStatusType /\ new.has = status.has \cup {type} /\ new.last.type = type
    BY LogFacts
  <2> HIDE DEF new
  <2>2. Adds([new EXCEPT !.completion = TRUE], status, type)
    BY <2>1 DEF Adds, OperationStatusType
  <2>3. type \notin {"Succeeded", "Failed"} => Adds(new, status, type)
    BY <2>1 DEF Adds
  <2> QED
    BY <2>2, <2>3 DEF new
<1>4. /\ Adds(LogStarting(status), status, "Starting")
      /\ Adds(LogRunning(status), status, "Running")
      /\ Adds(LogWarning(status, why), status, "Warning")
      /\ Adds(LogStopped(status, why), status, "Stopped")
  BY <1>1, <1>2, <1>3 DEF LogStarting, LogRunning, LogWarning, LogStopped
<1>5. Adds(LogSucceeded(status), status, "Succeeded") /\ Adds(LogFailed(status, why), status, "Failed")
  BY <1>1, <1>2, <1>3 DEF LogSucceeded, LogFailed
<1> QED
  BY <1>4, <1>5

\* A result that is written adds a condition; one that ends the operation has its
\* grounds.
Grounded(result, status, failure, success) ==
  result.write =>
    \E type \in ConditionTypes \ {"Stopped"} :
       /\ Adds(result.status, status, type)
       /\ type = "Failed" => failure
       /\ type = "Succeeded" => success

LEMMA WarnedGrounded ==
  ASSUME NEW status \in OperationStatusType, NEW why \in Reasons, NEW failure, NEW success
  PROVE  /\ Grounded(Warned(status, why), status, failure, success)
         /\ Grounded(Same(status), status, failure, success)
         /\ Grounded(Logged(LogStarting(status)), status, failure, success)
         /\ Grounded(Logged(LogRunning(status)), status, failure, success)
         /\ failure => Grounded(Logged(LogFailed(status, why)), status, failure, success)
         /\ success => Grounded(Logged(LogSucceeded(status)), status, failure, success)
<1>1. {"Starting", "Running", "Warning", "Succeeded", "Failed"} = ConditionTypes \ {"Stopped"}
  BY DEF ConditionTypes
<1>2. \A s : Logged(s).status = s /\ Logged(s).write /\ ~Same(s).write
  BY DEF Logged, Same
<1>3. Warned(status, why) \in {Logged(LogWarning(status, why)), Same(status)}
  BY DEF Warned
<1>4. \A type \in {"Starting", "Running", "Warning", "Succeeded", "Failed"} : \A new :
        /\ Adds(new, status, type)
        /\ type = "Failed" => failure
        /\ type = "Succeeded" => success
        => Grounded(Logged(new), status, failure, success)
  BY <1>1, <1>2 DEF Grounded
<1>5. Grounded(Same(status), status, failure, success)
  BY <1>2 DEF Grounded
<1> QED
  BY <1>3, <1>4, <1>5, LoggersAdd

\* The reasons of a cluster.
LEMMA ClusterReasons ==
  {"InvalidImageName", "Suspended", "ReplicaFailure", "Provisioning", "ClusterPending",
   "HealthChecking", "CrashLoopBackOff", "JobDeleted", "ClusterDeleted", "DeadlineExceeded",
   "OperatorCreateCluster"} \subseteq Reasons
BY Zenon DEF Reasons

\* A RayCluster fails with an invalid image or a replica failure.
LEMMA RayGrounded ==
  ASSUME NEW status \in OperationStatusType, NEW ray, NEW podList
  PROVE  Grounded(reconcileRayClusterStatus(status, ray, podList), status,
                  GetInvalidImageName(podList) \/ "ReplicaFailure" \in ray.conds, FALSE)
<1> DEFINE failure == GetInvalidImageName(podList) \/ "ReplicaFailure" \in ray.conds
           pod == HasUnschedulablePods(podList)
<1>1. pod.why \in Reasons
  BY VerdictReason
<1>2. \A why \in Reasons :
         /\ Grounded(Warned(status, why), status, failure, FALSE)
         /\ Grounded(Same(status), status, failure, FALSE)
         /\ Grounded(Logged(LogRunning(status)), status, failure, FALSE)
         /\ failure => Grounded(Logged(LogFailed(status, why)), status, failure, FALSE)
  BY WarnedGrounded
<1>3. reconcileRayClusterStatus(status, ray, podList) \in
        {Warned(status, pod.why), Warned(status, "Suspended"), Warned(status, "Provisioning"),
         Logged(LogRunning(status)), Same(status)}
        \cup {r \in {Logged(LogFailed(status, "InvalidImageName")),
                     Logged(LogFailed(status, "ReplicaFailure"))} : failure}
  BY Zenon DEF reconcileRayClusterStatus
<1> HIDE DEF failure, pod
<1> QED
  BY <1>1, <1>2, <1>3, ClusterReasons DEF failure

\* A DaskCluster succeeds when it says so, and fails then or with an invalid image.
LEMMA DaskGrounded ==
  ASSUME NEW status \in OperationStatusType, NEW dask, NEW podList, NEW replicaFailure
  PROVE  Grounded(reconcileDaskClusterStatus(status, dask, podList, replicaFailure), status,
                  GetInvalidImageName(podList) \/ dask.state = "Error", dask.state = "Successful")
<1> DEFINE failure == GetInvalidImageName(podList) \/ dask.state = "Error"
           success == dask.state = "Successful"
           pod == HasUnschedulablePods(podList)
           result == reconcileDaskClusterStatus(status, dask, podList, replicaFailure)
<1>1. pod.why \in Reasons
  BY VerdictReason
<1>2. \A why \in Reasons :
         /\ Grounded(Warned(status, why), status, failure, success)
         /\ Grounded(Same(status), status, failure, success)
         /\ Grounded(Logged(LogStarting(status)), status, failure, success)
         /\ Grounded(Logged(LogRunning(status)), status, failure, success)
         /\ failure => Grounded(Logged(LogFailed(status, why)), status, failure, success)
         /\ success => Grounded(Logged(LogSucceeded(status)), status, failure, success)
  BY WarnedGrounded
<1>3. daskRunning(status, podList, replicaFailure) \in
        {Warned(status, "ReplicaFailure"), Logged(LogRunning(status)), Warned(status, pod.why),
         Same(status)}
  BY DEF daskRunning
<1>4. \/ failure /\ result = Logged(LogFailed(status, "InvalidImageName"))
      \/ failure /\ result = Logged(LogFailed(status, pod.why))
      \/ success /\ result = Logged(LogSucceeded(status))
      \/ result = daskRunning(status, podList, replicaFailure)
      \/ result \in {Logged(LogStarting(status)), Warned(status, "ClusterPending"),
                     Warned(status, "HealthChecking"), Warned(status, "CrashLoopBackOff"),
                     Warned(status, pod.why), Same(status)}
  BY DEF reconcileDaskClusterStatus
<1> HIDE DEF failure, success, pod, result
<1> QED
  BY <1>1, <1>2, <1>3, <1>4, ClusterReasons DEF failure, success, result

\* A new status is written: it adds to an unfinished one what has really happened.
LEMMA StatusKeeps ==
  ASSUME ClusterInv, NEW type \in ConditionTypes, NEW new, Adds(new, inst.status, type),
         NEW next \in {"done", "deadline", "delete"}, WriteStatus(new, next),
         UNCHANGED <<elsewhere, plane>>, Within, pc \notin {"write", "idle"},
         Undisturbed => ~IsDone(inst.status),
         op.life # "gone" =>
           /\ \/ owned.live \/ removals > 0
              \/ next # "deadline" /\ opCache.status.has # {}
           /\ type = "Succeeded" => "Successful" \in seen
           /\ type = "Failed" => seen \cap {"Error", "ReplicaFailure", "BadImage"} # {}
           /\ type = "Stopped" => overdue \/ removals + faults > 0
  PROVE  Kept
<1> DEFINE copy == [inst EXCEPT !.status = new]
<1>1. /\ opCache' = opCache /\ reported' = reported /\ collected' = collected
      /\ UNCHANGED <<podCache, removals>> /\ CopyInv /\ inst \in Op /\ Recorded
  BY DEF elsewhere, caches, plane, ClusterInv, CopyInv, CopyTypeOK, PassInv
<1>2. /\ new \in OperationStatusType /\ new.has = inst.status.has \cup {type}
      /\ new.last.type = type /\ (type \in {"Succeeded", "Failed"} => new.completion)
  BY DEF Adds
<1>3. copy \in Op /\ copy.life = inst.life /\ copy.fins = inst.fins /\ copy.status = new
  BY <1>1, <1>2 DEF Op
<1>4. Write(copy, inst' = op' /\ pc' = "sync" /\ then' = next /\ UNCHANGED <<found, queued>>)
  BY DEF WriteStatus
<1> HIDE DEF copy
<1>5. Listed(new) /\ inst.status.has \subseteq new.has
  BY <1>2 DEF Listed
<1>6. pc' = "sync" /\ then' = next => Thens' /\ EndPhases'
  BY DEF Thens, EndPhases, Reported
<1>7. CopyMove
  BY <1>1, <1>3, <1>4, <1>5, <1>6, WriteCopies
<1>8. /\ UNCHANGED <<owned, pods>> /\ faults' \in {faults, faults + 1}
      /\ op' = op \/ (op.life # "gone" /\ "inst" \in current /\ op'.status = new)
      /\ Forget \/ (inst' = op' /\ pc' = "sync" /\ then' = next /\ found' = found)
  BY <1>1, <1>3, <1>4, WriteFacts
<1>9. found' \in {found, Nothing}
  BY <1>8 DEF Forget
<1>10. PassStep /\ Past /\ seen' = seen /\ overdue' = overdue
  BY <1>1, <1>7, <1>8, <1>9, PassStepPast DEF PassStep, Within, around
<1>11. Recorded'
  <2>1. CASE op' = op
    BY <1>7, <1>10, <2>1, RecordStays DEF Alike
  <2>2. CASE op.life # "gone" /\ "inst" \in current /\ op'.status = new
    <3>1. inst.status = op.status
      BY <1>1, <2>2 DEF CopyInv, Versions
    <3>2. Justified'
      <4>1. \A t : t \in op'.status.has => t \in op.status.has \/ t = type
        BY <1>2, <2>2, <3>1
      <4>2. removals + faults > 0 => removals' + faults' > 0
        BY <1>7, <1>10, PastFacts
      <4> QED
        BY <1>1, <1>10, <2>2, <4>1, <4>2 DEF Recorded, Justified
    <3>3. OneEnd'
      <4>1. SUFFICES ASSUME removals = 0, IsDone(op'.status)
                     PROVE  /\ Outcomes(op'.status) = {op'.status.last.type}
                            /\ op'.status.completion \/ op'.status.last.type = "Stopped"
        BY <1>1 DEF OneEnd
      <4>2. ~IsDone(inst.status)
        BY <2>2, <4>1 DEF Undisturbed
      <4>3. Outcomes(new) = {type} \cap FinalTypes
        BY <1>2, <4>2 DEF Outcomes, IsDone
      <4>4. type \in FinalTypes
        BY <2>2, <4>1, <4>3, DoneOutcomes
      <4> QED
        BY <1>2, <2>2, <4>3, <4>4 DEF FinalTypes
    <3>4. owned'.live \/ removals' + faults' > 0
      <4>1. CASE owned.live \/ removals > 0
        BY <1>1, <1>7, <1>8, <1>10, <4>1, PastFacts
      <4>2. CASE opCache.status.has # {}
        <5>1. op.status.has # {}
          BY <1>1, <4>2 DEF CopyInv, Behind
        <5> QED
          BY <1>1, <1>7, <1>8, <1>10, <2>2, <5>1, PastFacts DEF Recorded
      <4> QED
        BY <2>2, <4>1, <4>2
    <3>5. removals' = 0 /\ opCache'.status.has = {} => owned'.live
      <4>1. removals' = 0 => ~(removals > 0)
        BY <1>1
      <4> QED
        BY <1>1, <1>8, <2>2, <4>1
    <3> QED
      BY <3>2, <3>3, <3>4, <3>5 DEF Recorded, Undisturbed
  <2> QED
    BY <1>8, <2>1, <2>2
<1>12. Underway'
  <2>1. CASE Forget
    BY <2>1, NotUnderway DEF Forget
  <2>2. CASE pc' = "sync" /\ then' = next /\ next # "deadline"
    BY <2>2, NotUnderway
  <2>3. CASE pc' = "sync" /\ then' = "deadline" /\ next = "deadline"
    <3>1. op'.life # "gone" => op.life # "gone"
      BY <1>7, <1>10, PastFacts
    <3>2. op'.life # "gone" => owned'.live \/ removals' > 0
      BY <1>1, <1>8, <2>3, <3>1
    <3> QED
      BY <2>3, <3>2 DEF Underway, Open
  <2> QED
    BY <1>8, <2>1, <2>2, <2>3
<1> QED
  BY <1>10, <1>11, <1>12, PassStepKeeps

\* The deadline, at the end of a pass over the cluster.
LEMMA DeadlineKeeps ==
  ASSUME ClusterInv, pc \in {"checkStatus", "deadline"}, handlePastActiveDeadline,
         UNCHANGED <<elsewhere, plane>>, Within
  PROVE  Kept
<1>1. inst.status \in OperationStatusType /\ Underway
  BY DEF ClusterInv, CopyInv, CopyTypeOK, Op, PassInv
<1>2. CASE /\ ~IsDone(inst.status) /\ overdue
           /\ WriteStatus(LogStopped(inst.status, "DeadlineExceeded"), "delete")
  <2>1. Adds(LogStopped(inst.status, "DeadlineExceeded"), inst.status, "Stopped")
    BY <1>1, LoggersAdd, ClusterReasons
  <2>2. op.life # "gone" => owned.live \/ removals > 0
    BY <1>1 DEF Underway, Tending
  <2>3. "Stopped" \in ConditionTypes
    BY DEF ConditionTypes
  <2> QED
    BY <1>2, <2>1, <2>2, <2>3, StatusKeeps
<1>3. CASE Return /\ Keep(current) /\ UNCHANGED <<cluster, faults>>
  <2>1. /\ op' = op /\ opCache' = opCache /\ UNCHANGED <<owned, pods, podCache, removals, faults>>
        /\ ReportMove /\ CollectMove /\ Forget
    BY <1>3 DEF cluster, elsewhere, caches, plane, ReportMove, CollectMove, Return
  <2> QED
    BY <1>3, <2>1, AwayKeeps
<1> QED
  BY <1>2, <1>3 DEF handlePastActiveDeadline

\* The status of the runtime is recorded, or the deadline is looked at.
LEMMA CheckKeeps == ASSUME ClusterInv, checkStatus \/ checkDeadline PROVE Kept
<1>1. CASE checkDeadline
  BY <1>1, DeadlineKeeps DEF checkDeadline
<1>2. CASE checkStatus
  <2>1. /\ pc = "checkStatus" /\ UNCHANGED <<elsewhere, plane>> /\ Within
        /\ Underway /\ Evidence /\ podCache \in Seq(PodStages)
        /\ inst.status \in OperationStatusType
    BY <1>2 DEF checkStatus, ClusterInv, CopyInv, CopyTypeOK, Op, PassInv, CountsOK
  <2>2. PICK podList \in ListInstancePods(podCache) :
          LET result == reconcileStatus(inst.status, found, podList, shortCache)
          IN  IF result.write
              THEN WriteStatus(result.status, "deadline") /\ UNCHANGED timer
              ELSE handlePastActiveDeadline
    BY <1>2 DEF checkStatus
  <2> DEFINE result == reconcileStatus(inst.status, found, podList, shortCache)
             failure == seen \cap {"Error", "ReplicaFailure", "BadImage"} # {}
             success == "Successful" \in seen
  <2>3. CASE ~result.write
    BY <2>1, <2>2, <2>3, DeadlineKeeps
  <2>4. CASE result.write
    <3>1. GetInvalidImageName(podList) => "BadImage" \in seen
      BY <2>1, InvalidImageListed DEF Evidence
    <3>2. /\ ClusterStatus(found).state = "Successful" => "Successful" \in seen
          /\ ClusterStatus(found).state = "Error" => "Error" \in seen
          /\ "ReplicaFailure" \in ClusterStatus(found).conds => "ReplicaFailure" \in seen
      BY <2>1 DEF Evidence, Shown, ClusterStatus, NoClusterStatus
    <3>3. \E type \in ConditionTypes \ {"Stopped"} :
             /\ Adds(result.status, inst.status, type)
             /\ type = "Failed" => failure
             /\ type = "Succeeded" => success
      <4>1. CASE Kind = "RayCluster"
        <5>1. result = reconcileRayClusterStatus(inst.status, ClusterStatus(found), podList)
          BY <4>1 DEF reconcileStatus
        <5>2. Grounded(result, inst.status,
                       GetInvalidImageName(podList) \/ "ReplicaFailure" \in ClusterStatus(found).conds,
                       FALSE)
          BY <2>1, <5>1, RayGrounded
        <5> HIDE DEF result
        <5> QED
          BY <2>4, <3>1, <3>2, <5>2 DEF Grounded
      <4>2. CASE Kind # "RayCluster"
        <5>1. result = reconcileDaskClusterStatus(inst.status, ClusterStatus(found), podList, shortCache)
          BY <4>2 DEF reconcileStatus
        <5>2. Grounded(result, inst.status,
                       GetInvalidImageName(podList) \/ ClusterStatus(found).state = "Error",
                       ClusterStatus(found).state = "Successful")
          BY <2>1, <5>1, DaskGrounded
        <5> HIDE DEF result
        <5> QED
          BY <2>4, <3>1, <3>2, <5>2 DEF Grounded
      <4> QED
        BY <4>1, <4>2
    <3>4. Undisturbed => ~IsDone(inst.status)
      BY <2>1 DEF Underway, Open
    <3>5. op.life # "gone" => owned.live \/ removals > 0
      BY <2>1 DEF Underway, Tending
    <3>6. WriteStatus(result.status, "deadline")
      BY <2>2, <2>4
    <3> HIDE DEF result
    <3> QED
      BY <2>1, <3>3, <3>4, <3>5, <3>6, StatusKeeps
  <2> QED
    BY <2>3, <2>4
<1> QED
  BY <1>1, <1>2

(***************************************************************************)
(* The cluster is read, created or found missing.                          *)
(***************************************************************************)
\* The cluster is read.
LEMMA ReadKeeps ==
  ASSUME ClusterInv, pc = "runtime", owned.live, found' = owned, pc' \in {"update", "checkStatus"},
         current' = current \cup {"found"}, UNCHANGED <<cluster, inst, then, faults>>,
         UNCHANGED <<elsewhere, plane>>, Within
  PROVE  Kept
<1>1. /\ op' = op /\ opCache' = opCache /\ UNCHANGED <<owned, pods, podCache, removals>>
      /\ ReportMove /\ CollectMove /\ CopyInv /\ Underway /\ Evidence /\ CountsOK /\ Thens
      /\ seen' = seen /\ overdue' = overdue
  BY DEF cluster, elsewhere, caches, plane, ReportMove, CollectMove, ClusterInv, CopyInv, PassInv,
         Within, around
<1>2. Thens' /\ EndPhases'
  BY <1>1 DEF Thens, EndPhases
<1>3. CopyMove
  BY <1>1, <1>2, GoCopies
<1>4. Past /\ Alike(op'.status, op.status)
  BY <1>1 DEF Past, Alike
<1>5. Recorded'
  BY <1>3, <1>4, RecordStays
<1>6. Underway'
  BY <1>1 DEF Underway, Open
<1>7. Evidence' /\ CountsOK'
  BY <1>1 DEF Evidence, Shown, CountsOK
<1> QED
  BY <1>1, <1>3, <1>5, <1>6, <1>7, CopyMoveKeeps DEF Kept, CopyMove, ClusterInv, PassInv

\* A creation that is tried, and accepted or not.
LEMMA TriedKeeps ==
  ASSUME ClusterInv, CopyMove, op' = op, ~owned.live, owned' \in {owned, Live(NoClusterStatus)},
         UNCHANGED <<pods, podCache, removals>>, Within, faults' \in {faults, faults + 1},
         found' \in {found, Nothing}, Underway'
  PROVE  Kept
<1>1. Past /\ Alike(op'.status, op.status)
  BY DEF Past, Alike, Within, around
<1>2. Recorded'
  BY <1>1, RecordStays
<1>3. CountsOK'
  BY <1>1, PastFacts DEF ClusterInv, PassInv, CountsOK
<1>4. Evidence'
  <2>1. Shown(Live(NoClusterStatus)) /\ Shown(Nothing)
    BY DEF Shown, Live, NoClusterStatus, Nothing
  <2>2. seen' = seen
    BY DEF Within, around
  <2>3. Shown(owned)' /\ Shown(found)'
    BY <2>1, <2>2 DEF ClusterInv, PassInv, Evidence, Shown
  <2> QED
    BY <2>2, <2>3 DEF ClusterInv, PassInv, Evidence
<1> QED
  BY <1>2, <1>3, <1>4, CopyMoveKeeps DEF Kept, CopyMove, ClusterInv, PassInv

\* A creation that failed, or seems to have, is logged as a warning.
LEMMA FailedKeeps ==
  ASSUME ClusterInv, pc = "runtime", ~owned.live, owned' \in {owned, Live(NoClusterStatus)},
         UNCHANGED <<op, pods, held>>, CreateFailed("OperatorCreateCluster"), Fail,
         NEW copies, Keep(copies), \A x \in {"opCache", "inst"} : x \in copies => x \in current,
         UNCHANGED <<elsewhere, plane>>, Within
  PROVE  Kept
<1>1. /\ opCache' = opCache /\ UNCHANGED <<podCache, removals>> /\ ReportMove /\ CollectMove
      /\ CopyInv /\ Underway /\ inst \in Op /\ faults \in Nat
  BY DEF elsewhere, caches, plane, ReportMove, CollectMove, ClusterInv, CopyInv, CopyTypeOK,
         PassInv, CountsOK
<1>2. faults' = faults + 1 /\ faults' > 0
  BY <1>1 DEF Fail
<1>3. CASE Forget
  <2>1. CopyMove /\ found' = Nothing
    BY <1>1, <1>3, QuietEndCopies DEF Forget
  <2> QED
    BY <1>1, <1>2, <1>3, <2>1, NotUnderway, TriedKeeps DEF Forget
<1>4. CASE Log(LogWarning(inst.status, "OperatorCreateCluster"), "error")
  <2> DEFINE new == LogWarning(inst.status, "OperatorCreateCluster")
  <2>1. /\ inst' = [inst EXCEPT !.status = new] /\ pc' = "write" /\ then' = "error"
        /\ found' = found
    BY <1>4 DEF Log
  <2>2. inst.status \in OperationStatusType /\ Adds(new, inst.status, "Warning")
    BY <1>1, LoggersAdd, ClusterReasons DEF Op
  <2> HIDE DEF new
  <2>3. /\ inst' \in Op /\ inst'.life = inst.life /\ inst'.fins = inst.fins /\ inst'.status = new
    BY <1>1, <2>1, <2>2 DEF Op, Adds
  <2>4. /\ Outcomes(inst'.status) = Outcomes(inst.status) /\ Listed(inst'.status)
        /\ inst.status.has \subseteq inst'.status.has
    BY <2>2, <2>3 DEF Adds, Outcomes, Listed, FinalTypes
  <2>5. LogsOn(inst)
    BY <2>1, <2>3, <2>4 DEF LogsOn
  <2>6. \A x \in {"opCache", "inst"} : x \in current' => x \in current
    BY KeepFacts
  <2>7. HeldMove /\ CacheMove /\ StoredMove
    BY <1>1, <2>1, <2>3, <2>5, <2>6, CachedStays, StoredStays DEF HeldMove, CopyInv, Lives
  <2>8. Thens' /\ EndPhases'
    BY <2>1 DEF Thens, EndPhases, Reported
  <2>9. CopyMove
    BY <1>1, <2>7, <2>8 DEF CopyMove
  <2>10. ~IsDone(inst'.status)
    BY <1>1, <2>4, DoneOutcomes DEF Underway, Open
  <2>11. Underway'
    BY <1>2, <2>1, <2>10 DEF Underway, Open, Tending
  <2> QED
    BY <1>1, <1>2, <2>1, <2>9, <2>11, TriedKeeps
<1> QED
  BY <1>3, <1>4 DEF CreateFailed, ReturnError

\* The cluster is created, and the operation will be read again.
LEMMA CreatedKeeps ==
  ASSUME ClusterInv, pc = "runtime", ~owned.live, owned' = Live(NoClusterStatus),
         inst.status.has = {}, UNCHANGED <<op, pods, held, faults>>,
         pc' = "refetch", then' = "runtime", UNCHANGED <<inst, found>>,
         Keep(current \ OwnedCopies), UNCHANGED <<elsewhere, plane>>, Within
  PROVE  Kept
<1>1. /\ opCache' = opCache /\ UNCHANGED <<podCache, removals>> /\ ReportMove /\ CollectMove
      /\ CopyInv /\ Underway
  BY DEF elsewhere, caches, plane, ReportMove, CollectMove, ClusterInv, CopyInv, PassInv
<1>2. \A x \in {"opCache", "inst"} : x \in current' => x \in current
  BY KeepFacts DEF OwnedCopies
<1>3. Thens' /\ EndPhases'
  BY DEF Thens, EndPhases, Reread
<1>4. CopyMove
  BY <1>1, <1>2, <1>3, GoCopies
<1>5. Undisturbed => ~IsDone(op.status)
  BY <1>1 DEF Underway
<1>6. owned'.live
  BY DEF Live
<1>7. Underway'
  BY <1>1, <1>5, <1>6 DEF Underway, Open, Undisturbed
<1> QED
  BY <1>1, <1>4, <1>7, TriedKeeps

LEMMA CreateKeeps ==
  ASSUME ClusterInv, pc = "runtime", ~owned.live, inst.status.has = {},
         Create(NoClusterStatus,
                pc' = "refetch" /\ then' = "runtime" /\ UNCHANGED <<inst, found, queued>>,
                "OperatorCreateCluster"),
         UNCHANGED <<elsewhere, plane>>, Within
  PROVE  Kept
<1>1. UNCHANGED <<op, pods, held>>
  BY DEF Create
<1> DEFINE copies == current \ OwnedCopies
<1>2. \A x \in {"opCache", "inst"} : x \in copies => x \in current
  OBVIOUS
<1>3. CASE /\ owned' = Live(NoClusterStatus)
           /\ pc' = "refetch" /\ then' = "runtime" /\ UNCHANGED <<inst, found, queued>>
           /\ Keep(copies) /\ UNCHANGED faults
  BY <1>1, <1>3, CreatedKeeps
<1>4. CASE /\ owned' = Live(NoClusterStatus)
           /\ CreateFailed("OperatorCreateCluster") /\ Keep(copies) /\ Fail
  <2> HIDE DEF copies
  <2> QED
    BY <1>1, <1>2, <1>4, FailedKeeps
<1>5. CASE Fail /\ CreateFailed("OperatorCreateCluster") /\ Keep(current) /\ UNCHANGED owned
  BY <1>1, <1>5, FailedKeeps
<1> QED
  BY <1>3, <1>4, <1>5 DEF Create

\* The steps over the cluster resource.
LEMMA RuntimeKeeps ==
  ASSUME ClusterInv, reconcileRayCluster \/ reconcileDaskCluster \/ updateCluster
  PROVE  Kept
<1>1. UNCHANGED <<elsewhere, plane>> /\ Within
  BY DEF reconcileRayCluster, reconcileDaskCluster, updateCluster
<1>2. /\ opCache' = opCache /\ UNCHANGED <<podCache, removals>> /\ ReportMove /\ CollectMove
      /\ CopyInv /\ Underway /\ Recorded /\ inst.status \in OperationStatusType
  BY <1>1 DEF elsewhere, caches, plane, ReportMove, CollectMove, ClusterInv, CopyInv, CopyTypeOK,
              Op, PassInv
<1>3. ASSUME NEW ended, NEW deleted \in Reasons, pc = "runtime", reconcileCluster(ended, deleted)
      PROVE  Kept
  <2>1. CASE /\ owned.live /\ found' = owned /\ pc' \in {"update", "checkStatus"}
             /\ current' = current \cup {"found"} /\ UNCHANGED <<cluster, inst, then, queued, faults>>
    BY <1>1, <1>3, <2>1, ReadKeeps
  <2>2. CASE Return /\ Keep(current) /\ UNCHANGED <<cluster, faults>>
    BY <1>1, <1>2, <2>2, AwayKeeps DEF Return, cluster
  <2>3. CASE /\ ~owned.live /\ ~IsDone(inst.status) /\ inst.status.has # {}
             /\ WriteStatus(LogStopped(inst.status, deleted), "done")
    <3>1. Adds(LogStopped(inst.status, deleted), inst.status, "Stopped") /\ "Stopped" \in ConditionTypes
      BY <1>2, <1>3, LoggersAdd DEF ConditionTypes
    <3>2. opCache.status.has # {}
      BY <1>2, <1>3, <2>3 DEF Underway
    <3>3. op.life # "gone" => removals + faults > 0
      BY <1>2, <2>3, <3>2 DEF Recorded, CopyInv, Behind
    <3> QED
      BY <1>1, <1>3, <2>3, <3>1, <3>2, <3>3, StatusKeeps
  <2>4. CASE /\ ~owned.live /\ inst.status.has = {}
             /\ Create(NoClusterStatus,
                       pc' = "refetch" /\ then' = "runtime" /\ UNCHANGED <<inst, found, queued>>,
                       "OperatorCreateCluster")
    BY <1>1, <1>3, <2>4, CreateKeeps
  <2>5. CASE Fail /\ ReturnError /\ Keep(current) /\ UNCHANGED cluster
    BY <1>1, <1>2, <2>5, AwayKeeps DEF ReturnError, Fail, cluster
  <2> QED
    BY <1>3, <2>1, <2>2, <2>3, <2>4, <2>5 DEF reconcileCluster
<1>4. CASE reconcileRayCluster \/ reconcileDaskCluster
  BY <1>3, <1>4, ClusterReasons DEF reconcileRayCluster, reconcileDaskCluster
<1>5. CASE updateCluster
  <2>1. pc = "update" /\ UpdateFound("checkStatus")
    BY <1>5 DEF updateCluster
  <2>2. Keep(current) /\ op' = op /\ UNCHANGED <<owned, pods>> /\ faults' \in {faults, faults + 1}
    BY <2>1 DEF UpdateFound, Fail, cluster
  <2>3. CASE Forget
    BY <1>1, <1>2, <2>2, <2>3, AwayKeeps
  <2>4. CASE pc' = "checkStatus" /\ inst' = inst /\ found' = found /\ then' = then
    <3>1. Thens' /\ EndPhases'
      BY <1>2, <2>4 DEF CopyInv, Thens, EndPhases
    <3>2. Underway'
      BY <1>2, <2>1, <2>2, <2>4 DEF Underway, Open, Tending, Undisturbed
    <3> QED
      BY <1>1, <1>2, <2>1, <2>2, <2>4, <3>1, <3>2, AwayKeeps
  <2> QED
    BY <2>1, <2>3, <2>4 DEF UpdateFound, ReturnError, Goto
<1> QED
  BY <1>4, <1>5

(***************************************************************************)
(* The watches, the clock, restarts and the world.                         *)
(***************************************************************************)
\* A step beside a pass that logs nothing.
LEMMA AsideKeeps ==
  ASSUME ClusterInv, CopyMove, Past, UNCHANGED <<pc, inst, then>>, op'.status = op.status,
         removals' = removals \/ op' = op, CountsOK', Evidence'
  PROVE  Kept
<1>1. Alike(op'.status, op.status)
  BY DEF Alike
<1>2. Recorded' /\ Underway'
  BY <1>1, RecordStays, UnderwayStays
<1> QED
  BY <1>2, CopyMoveKeeps DEF Kept, CopyMove, ClusterInv, PassInv

\* What was evidence stays so when only the cache of the pods moves.
LEMMA EvidenceStays ==
  ASSUME ClusterInv, UNCHANGED <<owned, pods, seen, removals, faults>>, podCache' \in {podCache, pods},
         found' \in {found, Nothing}
  PROVE  CountsOK' /\ Evidence'
<1>1. CountsOK'
  BY DEF ClusterInv, PassInv, CountsOK
<1>2. Shown(owned)' /\ Shown(found)'
  BY DEF ClusterInv, PassInv, Evidence, Shown, Nothing
<1> QED
  BY <1>1, <1>2 DEF ClusterInv, PassInv, Evidence

\* The watches and timers.
LEMMA WatchKeeps ==
  ASSUME ClusterInv, Watch \/ Replay \/ Requeue \/ Expire \/ DeadlinePasses \/ QuotaChanges
  PROVE  Kept
<1>1. /\ UNCHANGED <<op, owned, pods, removals, faults, seen>>
      /\ UNCHANGED <<pc, inst, found, then, reported, collected>>
      /\ "inst" \in current' => "inst" \in current
      /\ overdue => overdue'
  BY DEF Watch, Replay, Requeue, Expire, DeadlinePasses, QuotaChanges, WatchCluster, WatchRuntime,
         mapClusterPodToRequest, mapClusterDeploymentToRequest, WatchOp, NotifyOwned, WatchPods, Resync,
         RequeueAfter, TTLPasses, Within, around, outside, cluster, elsewhere, worker, plane, kubeVars
<1>2. podCache' \in {podCache, pods}
  BY DEF Watch, Replay, Requeue, Expire, DeadlinePasses, QuotaChanges, WatchCluster, WatchRuntime,
         mapClusterPodToRequest, mapClusterDeploymentToRequest, WatchOp, NotifyOwned, WatchPods, Resync,
         RequeueAfter, TTLPasses, elsewhere, caches, kubeVars
<1>3. \/ opCache' = op
      \/ opCache' = opCache /\ ("opCache" \in current' => "opCache" \in current)
  BY DEF Watch, Replay, Requeue, Expire, DeadlinePasses, QuotaChanges, WatchCluster, WatchRuntime,
         mapClusterPodToRequest, mapClusterDeploymentToRequest, WatchOp, NotifyOwned, WatchPods, Resync,
         RequeueAfter, TTLPasses, elsewhere, caches, kubeVars
<1>4. Past
  BY <1>1 DEF Past
<1>5. CopyMove
  <2>1. CASE opCache' = op
    <3>1. StoredMove /\ CacheMove /\ inst.life # "gone"
      BY <1>1, <2>1, StoredStays DEF CacheMove, ClusterInv, CopyInv, Lives
    <3>2. "inst" \in current' => pc' # "idle"
      BY <1>1 DEF ClusterInv, CopyInv, Versions
    <3>3. Thens' /\ EndPhases'
      BY <1>1 DEF ClusterInv, CopyInv, Thens, EndPhases
    <3> QED
      BY <1>1, <3>1, <3>2, <3>3 DEF CopyMove, HeldMove, ReportMove, CollectMove
  <2>2. CASE opCache' = opCache /\ ("opCache" \in current' => "opCache" \in current)
    BY <1>1, <2>2, AsideCopies DEF ClusterInv
  <2> QED
    BY <1>3, <2>1, <2>2
<1> QED
  BY <1>1, <1>2, <1>4, <1>5, AsideKeeps, EvidenceStays

\* A restart forgets the pass and lists the operation and the pods afresh.
LEMMA RestartKeeps == ASSUME ClusterInv, Restart PROVE Kept
<1>1. /\ op' = op /\ opCache' = op /\ Forget /\ "inst" \notin current' /\ podCache' = pods
      /\ reported' = reported /\ collected' = collected
      /\ UNCHANGED <<owned, pods, removals, faults, seen, overdue>>
  BY DEF Restart, Crash, cluster, plane
<1>2. Past /\ Alike(op'.status, op.status)
  BY <1>1 DEF Past, Alike
<1>3. StoredMove /\ CacheMove /\ Thens' /\ EndPhases' /\ inst' = NewOp
  BY <1>1, StoredStays, IdleFacts DEF CacheMove, Forget, ClusterInv
<1>4. CopyMove
  BY <1>1, <1>3, NewOpFacts DEF CopyMove, HeldMove, ReportMove, CollectMove
<1>5. CountsOK' /\ Evidence'
  BY <1>1, EvidenceStays DEF Forget
<1>6. Recorded' /\ Underway'
  BY <1>1, <1>2, <1>4, RecordStays, NotUnderway DEF Forget
<1> QED
  BY <1>1, <1>4, <1>5, <1>6, CopyMoveKeeps DEF Kept, CopyMove, ClusterInv, PassInv

\* The user deletes the operation under the controller.
LEMMA UserStopsKeeps == ASSUME ClusterInv, UserStops PROVE Kept
<1>1. /\ opCache' = opCache /\ UNCHANGED <<pc, inst, found, then, reported, collected>>
      /\ "inst" \notin current' /\ "opCache" \notin current' /\ DeleteOp
      /\ UNCHANGED <<podCache, removals, faults, seen, overdue>>
  BY DEF UserStops, UserDeletes, OpCopies, elsewhere, caches, worker, plane, Within, around
<1>2. StoredMove /\ op'.status = op.status /\ UNCHANGED <<owned, pods>>
  BY <1>1, DeleteCopies DEF ClusterInv
<1>3. CacheMove /\ HeldMove /\ Thens' /\ EndPhases'
  BY <1>1, CachedStays DEF HeldMove, Lives, Thens, EndPhases, ClusterInv, CopyInv
<1>4. CopyMove /\ Past
  BY <1>1, <1>2, <1>3 DEF CopyMove, ReportMove, CollectMove, Past
<1> QED
  BY <1>1, <1>2, <1>4, AsideKeeps, EvidenceStays

\* What KubeRay, the Dask operator and the kubelet do.
LEMMA RuntimeMovesKeep ==
  ASSUME ClusterInv, UNCHANGED operator,
         \A x \in {"opCache", "inst"} : x \in current' => x \in current,
         removals' \in {removals, removals + 1}, seen \subseteq seen', overdue' = overdue,
         owned.live => owned'.live \/ removals' > 0 \/ op.life = "gone",
         pods' \in Seq(PodStages), Shown(owned)',
         \A i \in DOMAIN pods' : pods'[i] = "BadImage" => "BadImage" \in seen'
  PROVE  Kept
<1>1. /\ UNCHANGED <<op, opCache, podCache, pc, inst, found, then, reported, collected, faults>>
  BY DEF operator, caches, worker, plane
<1>2. CopyMove /\ Past
  BY <1>1, AsideCopies DEF Past, ClusterInv
<1>3. CountsOK'
  BY <1>1, <1>2, PastFacts DEF ClusterInv, PassInv, CountsOK
<1>4. Evidence'
  <2>1. Shown(found)'
    BY <1>1 DEF ClusterInv, PassInv, Evidence, Shown
  <2> QED
    BY <1>1, <2>1 DEF ClusterInv, PassInv, Evidence
<1> QED
  BY <1>1, <1>2, <1>3, <1>4, AsideKeeps

\* A report of the cluster is remembered.
LEMMA ReportsKeep == ASSUME ClusterInv, NEW status, Reports(status) PROVE Kept
<1>1. /\ owned' = Live(status) /\ pods' = pods /\ UNCHANGED operator /\ removals' = removals
      /\ current' \subseteq current
      /\ overdue' = overdue /\ seen \subseteq seen'
      /\ {status.state} \cap {"Successful", "Error"} \subseteq seen'
      /\ status.conds \cap {"ReplicaFailure"} \subseteq seen'
  BY DEF Reports, OwnedReports
<1>2. owned'.live /\ Shown(owned)'
  BY <1>1 DEF Shown, Live
<1>3. /\ pods' \in Seq(PodStages)
      /\ \A i \in DOMAIN pods' : pods'[i] = "BadImage" => "BadImage" \in seen'
  BY <1>1 DEF ClusterInv, PassInv, CountsOK, Evidence
<1> QED
  BY <1>1, <1>2, <1>3, RuntimeMovesKeep

\* A pod starts, or comes to its next stage.
LEMMA PodsKeep == ASSUME ClusterInv, PodMoves \/ PodStarts PROVE Kept
<1>1. /\ UNCHANGED <<owned, current, operator, removals, overdue>> /\ seen \subseteq seen'
  BY DEF PodMoves, PodStarts, Within, around
<1>2. /\ pods \in Seq(PodStages) /\ Evidence
  BY DEF ClusterInv, PassInv, CountsOK
<1>3. Shown(owned)'
  BY <1>1, <1>2 DEF Evidence, Shown
<1>4. CASE PodMoves
  <2>1. PICK i \in DOMAIN pods, at \in PodStages :
          pods' = [pods EXCEPT ![i] = at] /\ seen' = seen \cup ({at} \cap {"BadImage"})
    BY <1>4 DEF PodMoves, PodStages
  <2>2. pods' \in Seq(PodStages) /\ DOMAIN pods' = DOMAIN pods
    BY <1>2, <2>1
  <2>3. ASSUME NEW j \in DOMAIN pods', pods'[j] = "BadImage" PROVE "BadImage" \in seen'
    BY <1>2, <2>1, <2>2, <2>3 DEF Evidence
  <2> QED
    BY <1>1, <1>3, <2>2, <2>3, RuntimeMovesKeep
<1>5. CASE PodStarts
  <2>1. pods' = Append(pods, "NotReady") /\ seen' = seen /\ "NotReady" \in PodStages
    BY <1>5 DEF PodStarts, Within, around, PodStages
  <2>2. pods' \in Seq(PodStages)
    BY <1>2, <2>1
  <2>3. ASSUME NEW j \in DOMAIN pods', pods'[j] = "BadImage" PROVE "BadImage" \in seen'
    BY <1>2, <2>1, <2>3 DEF Evidence
  <2> QED
    BY <1>1, <1>3, <2>2, <2>3, RuntimeMovesKeep
<1> QED
  BY <1>4, <1>5

\* The cluster goes.
LEMMA DropKeeps == ASSUME ClusterInv, ClusterDeleted \/ Collected PROVE Kept
<1>1. DropOwned /\ seen' = seen /\ overdue' = overdue
  BY DEF ClusterDeleted, Collected, OwnedDeleted, OwnedCollected
<1>2. /\ owned' = Nothing /\ pods' = <<>> /\ current' \subseteq current /\ UNCHANGED operator
  BY <1>1 DEF DropOwned
<1>3. removals \in Nat
  BY DEF ClusterInv, PassInv, CountsOK
<1>4. /\ removals' \in {removals, removals + 1}
      /\ removals' > 0 \/ op.life = "gone"
  BY <1>3 DEF ClusterDeleted, Collected, OwnedDeleted, OwnedCollected
<1>5. Shown(owned)' /\ pods' \in Seq(PodStages) /\ DOMAIN pods' = {}
  BY <1>2 DEF Shown, Nothing
<1> QED
  BY <1>1, <1>2, <1>4, <1>5, RuntimeMovesKeep

(***************************************************************************)
(* The theorems.                                                           *)
(***************************************************************************)
\* Every step keeps the invariant and only adds to the record.
LEMMA NextKeeps == ASSUME ClusterInv, [Next]_vars PROVE Kept
<1>1. CASE Reconcile
  BY <1>1, FetchKeeps, StartsKeep, SecondReadKeeps, EndingKeeps, RuntimeKeeps, CheckKeeps, StoreKeeps,
     ReportKeeps DEF Reconcile
<1>2. CASE Watch \/ Replay \/ Requeue
  BY <1>2, WatchKeeps
<1>3. CASE Restart
  BY <1>3, RestartKeeps
<1>4. CASE World
  <2>1. CASE RayReports \/ DaskReports
    <3>1. \E status : Reports(status)
      BY <2>1 DEF RayReports, DaskReports
    <3> QED
      BY <3>1, ReportsKeep
  <2> QED
    BY <1>4, <2>1, UserStopsKeeps, WatchKeeps, PodsKeep, DropKeeps DEF World
<1>5. CASE UNCHANGED vars
  <2>1. /\ UNCHANGED operator /\ UNCHANGED <<owned, pods, current, removals, seen, overdue>>
    BY <1>5 DEF vars, kubeVars, operator, cluster, elsewhere, caches, worker, plane
  <2>2. Shown(owned)' /\ pods \in Seq(PodStages)
    BY <2>1 DEF ClusterInv, PassInv, CountsOK, Evidence, Shown
  <2> QED
    BY <2>1, <2>2, RuntimeMovesKeep DEF ClusterInv, PassInv, Evidence
<1> QED
  BY <1>1, <1>2, <1>3, <1>4, <1>5 DEF Next

LEMMA InitHolds == ASSUME Init PROVE ClusterInv
<1>1. /\ op = NewOp /\ opCache = NewOp /\ inst = NewOp /\ then = "done" /\ pc = "idle"
      /\ collected = FALSE /\ reported = {} /\ current = {"opCache", "ownedCache"}
      /\ owned = Nothing /\ found = Nothing /\ pods = <<>> /\ podCache = <<>>
      /\ faults = 0 /\ removals = 0
  BY DEF Init, KubeInit
<1>2. /\ NewOp \in Op /\ NewOp.status = NewStatus /\ NewOp.status.has = {} /\ NewOp.life = "live"
      /\ Listed(NewOp.status) /\ ~IsDone(NewOp.status)
  BY NewOpFacts, DoneOutcomes DEF OneListed, Listed, NewStatus
<1>3. CopyTypeOK /\ Thens /\ AllListed
  BY <1>1, <1>2 DEF CopyTypeOK, Thens, AllListed, Reread, Reported
<1>4. Versions /\ Behind /\ Lives /\ EndPhases /\ ReportedOutcome
  BY <1>1, <1>2 DEF Versions, Behind, Lives, EndPhases, ReportedOutcome, Outcomes
<1>5. CountsOK /\ Evidence
  BY <1>1 DEF CountsOK, Evidence, Shown, Nothing
<1>6. Recorded
  BY <1>1, <1>2 DEF Recorded, Justified, OneEnd
<1>7. Underway
  BY <1>1 DEF Underway, Open, Tending
<1> QED
  BY <1>3, <1>4, <1>5, <1>6, <1>7 DEF ClusterInv, CopyInv, PassInv

\* No copy of the operation says anything that is not so, and a pass knows what it
\* needs to know of the cluster, for every setup, with crashes, lost answers, stale
\* caches and deletions by others in any order.
THEOREM ClusterInvariance == Spec => []ClusterInv
<1>1. ClusterInv /\ [Next]_vars => ClusterInv'
  BY NextKeeps DEF Kept
<1> QED
  BY <1>1, InitHolds, PTL DEF Spec

\* The control plane hears of no final status but the one recorded, or of Stopped for
\* an operation that is being deleted.
THEOREM ReportedOutcomeHolds == Spec => []ReportedOutcome
<1>1. ClusterInv => ReportedOutcome
  BY DEF ClusterInv, CopyInv
<1> QED
  BY <1>1, ClusterInvariance, PTL

\* There is one outcome, it is the last condition, and the cluster, the clock or a
\* fault is the reason of it, however old the copies are that decided it.
THEOREM OutcomeMatchesClusterHolds == Spec => []OutcomeMatchesCluster
<1>1. ClusterInv => OutcomeMatchesCluster
  BY DEF ClusterInv, PassInv, Recorded, Justified, OneEnd, Outcomes, OutcomeMatchesCluster
<1> QED
  BY <1>1, ClusterInvariance, PTL

\* A recorded outcome stands while nobody else deletes the cluster, logs are collected
\* before the hold on them goes, and nothing happens to an operation that is gone.
THEOREM OutcomeStandsHolds == Spec => OutcomeStands
<1> DEFINE Stands ==
             /\ removals = 0 /\ IsDone(op.status) =>
                  op'.status.has \cap FinalTypes = op.status.has \cap FinalTypes
             /\ "logs" \in op.fins \ op'.fins => collected /\ (IsDone(op.status) \/ op.life = "deleting")
             /\ op.life = "gone" => op' = op
<1>1. ASSUME ClusterInv, [Next]_vars PROVE Stands
  <2>1. StoredMove /\ ClusterInv' /\ (removals' = removals \/ op' = op)
    BY <1>1, NextKeeps DEF Kept
  <2>2. ASSUME removals = 0, IsDone(op.status)
        PROVE  Outcomes(op'.status) = Outcomes(op.status)
    <3>1. CASE op' = op
      BY <3>1
    <3>2. CASE removals' = 0
      <4>1. Outcomes(op.status) \subseteq Outcomes(op'.status)
        BY <2>1 DEF StoredMove, Outcomes
      <4>2. IsDone(op'.status)
        BY <2>2, <4>1, DoneOutcomes
      <4>3. \E t : Outcomes(op.status) = {t}
        BY <1>1, <2>2 DEF ClusterInv, PassInv, Recorded, OneEnd
      <4>4. \E t : Outcomes(op'.status) = {t}
        BY <2>1, <3>2, <4>2 DEF ClusterInv, PassInv, Recorded, OneEnd
      <4> QED
        BY <4>1, <4>3, <4>4
    <3> QED
      BY <2>1, <2>2, <3>1, <3>2
  <2> QED
    BY <2>1, <2>2 DEF StoredMove, Outcomes
<1>2. ClusterInv /\ [Next]_vars => [Stands]_vars
  BY <1>1
<1> QED
  BY <1>2, ClusterInvariance, PTL DEF Spec, OutcomeStands

(***************************************************************************)
(* What NoLostWakeup needs: the queue, the copies and the pass account for *)
(* everything that the cluster still waits for.                            *)
(***************************************************************************)
\* Nothing about the operation or the cluster is still to be delivered.
Delivered == ~queued /\ {"opCache", "ownedCache"} \subseteq current

\* The finalizers that are switched on are on this copy.
Guarded(copy) ==
  /\ EnableLogsFinalizers => "logs" \in copy.fins
  /\ EnableStatusFinalizers => "status" \in copy.fins

\* An unfinished operation that has its finalizers and its start time.
Tended == op.life = "live" /\ ~IsDone(op.status) /\ op.status.start /\ Guarded(op)

\* The cluster is there; a Dask cluster that is watched and the cached pods say
\* nothing new.
Judged ==
  /\ owned.live
  /\ Kind = "DaskCluster" /\ Enabled =>
       \E podList \in ListInstancePods(podCache) :
          reconcileStatus(op.status, owned, podList, shortCache).status = op.status

\* There is nothing to do for the cluster, as the caches show it.
Calm ==
  /\ op.life = "live" /\ ~IsDone(op.status) => Tended /\ Judged /\ (ActiveDeadline => timer)
  /\ op.life = "deleting" => faults > 0

\* A pass has a current copy and has come past what its label says, or is about to
\* write a warning and to end in an error.  It has not read the operation again, for
\* that follows a write.
OnCourse ==
  /\ pc \notin {"idle", "refetch", "delete"} /\ "inst" \in current
  /\ pc = "addStart" => ~op.status.start
  /\ pc = "addLogs" => "logs" \notin op.fins
  /\ pc = "addStatus" => "status" \notin op.fins
  /\ pc \in {"runtime", "update", "checkStatus", "deadline"} => Tended
  /\ pc \in {"update", "checkStatus"} => owned.live /\ (Kind = "DaskCluster" => found = owned)
  /\ pc = "deadline" => Judged
  /\ pc = "write" => then = "error"
  /\ pc = "sync" => then = "error" \/ (then = "deadline" /\ Tended /\ Judged)
  /\ pc = "removeFinalizer" => op.fins # {}
  /\ pc = "cleanup" => op.life # "deleting"

\* When nothing is to be delivered, a pass is on its course, and without a pass
\* there is nothing to do.
Account == IF pc = "idle" THEN Calm ELSE OnCourse

\* The inductive invariant, on top of ClusterInv.
WakeInv == Delivered => Account


\* A copy with the stored resource version is what is stored.
LEMMA CopyIsStored ==
  ASSUME ClusterInv, "inst" \in current, pc # "write"
  PROVE  inst = op
BY DEF ClusterInv, CopyInv, CopyTypeOK, Versions, Op

\* What the account says when nothing is to be delivered before the step.
LEMMA OnAccount ==
  ASSUME ClusterInv, WakeInv, Delivered, pc # "idle"
  PROVE  /\ OnCourse /\ op \in Op /\ inst \in Op /\ "inst" \in current
         /\ pc # "write" => inst = op
BY CopyIsStored DEF WakeInv, Account, OnCourse, ClusterInv, CopyInv, CopyTypeOK

\* What the account speaks of, besides the pass and the timer.
subject == <<setup, op, owned, podCache, shortCache>>

\* As long as that stays, so does what is said of it.
LEMMA SubjectStays ==
  ASSUME UNCHANGED subject
  PROVE  /\ Tended' <=> Tended
         /\ Judged' <=> Judged
<1>1. Tended' <=> Tended
  BY DEF subject, Tended, Guarded, EnableLogsFinalizers, EnableStatusFinalizers
<1>2. Judged' <=> Judged
  BY DEF subject, Judged, reconcileStatus, Kind, Enabled
<1> QED
  BY <1>1, <1>2

LEMMA CalmStays ==
  ASSUME Calm, UNCHANGED subject, timer => timer', faults > 0 => faults' > 0
  PROVE  Calm'
BY SubjectStays DEF Calm, subject, ActiveDeadline

LEMMA AccountStays ==
  ASSUME Account, UNCHANGED <<subject, pc, inst, found, then>>, current \subseteq current',
         timer => timer', faults > 0 => faults' > 0
  PROVE  Account'
<1>1. UNCHANGED subject /\ op' = op /\ owned' = owned /\ setup' = setup
  BY DEF subject
<1>2. CASE pc = "idle"
  BY <1>1, <1>2, CalmStays DEF Account
<1>3. CASE pc # "idle"
  BY <1>1, <1>3, SubjectStays DEF Account, OnCourse, Kind
<1> QED
  BY <1>2, <1>3

\* A write that leaves nothing to be delivered was accepted and changed nothing.
LEMMA WriteQuiet ==
  ASSUME NEW new, NEW ACTION Go, Write(new, Go), Delivered'
  PROVE  /\ Put(new) /\ op' = op /\ owned' = owned /\ Go /\ faults' = faults
         /\ op.life # "gone" /\ {"inst", "opCache", "ownedCache"} \subseteq current
         /\ pc' # "idle" => "inst" \in current'
<1>1. ~ReturnError
  BY DEF Delivered, ReturnError
<1>2. Current /\ Put(new) /\ Go /\ Keep(Unchanged \cup {"inst"}) /\ faults' = faults
  BY <1>1 DEF Write
<1>3. {"opCache", "ownedCache"} \subseteq current'
  BY DEF Delivered
<1>4. op' = op
  BY <1>2, <1>3 DEF Keep, Unchanged, OpCopies
<1>5. {"inst", "opCache", "ownedCache"} \subseteq current /\ (pc' # "idle" => "inst" \in current')
  BY <1>2, <1>3, <1>4 DEF Keep, Unchanged, Current
<1> QED
  BY <1>2, <1>4, <1>5 DEF Current, Put

\* So what it wrote was there.
LEMMA WriteOnCourse ==
  ASSUME ClusterInv, WakeInv, Within, pc \notin {"idle", "write"},
         NEW new \in Op, NEW ACTION Go, Write(new, Go), Delivered', new.life = inst.life,
         Go => UNCHANGED queued, UNCHANGED elsewhere
  PROVE  /\ new = op /\ Go /\ OnCourse /\ UNCHANGED subject /\ Delivered /\ op.life # "gone"
         /\ inst = op /\ "inst" \in current /\ (pc' # "idle" => "inst" \in current')
<1>1. /\ Put(new) /\ op' = op /\ owned' = owned /\ Go /\ op.life # "gone"
      /\ {"inst", "opCache", "ownedCache"} \subseteq current
      /\ pc' # "idle" => "inst" \in current'
  BY WriteQuiet
<1>2. Delivered /\ UNCHANGED subject
  BY <1>1 DEF Delivered, Within, around, elsewhere, caches, subject
<1>3. OnCourse /\ inst = op
  BY <1>2, OnAccount
<1>4. op'.life = IF new.life = "deleting" /\ new.fins = {} THEN "gone" ELSE new.life
  BY <1>1, PutStores
<1>5. op' = new
  BY <1>1, <1>3, <1>4, PutStores
<1> QED
  BY <1>1, <1>2, <1>3, <1>5

\* The same of a status.
LEMMA StatusQuiet ==
  ASSUME ClusterInv, WakeInv, Within, pc \notin {"idle", "write"}, UNCHANGED elsewhere,
         NEW new \in OperationStatusType, NEW next, WriteStatus(new, next), Delivered'
  PROVE  /\ op.status = new /\ inst = op /\ OnCourse /\ UNCHANGED subject /\ Delivered
         /\ pc' = "sync" /\ then' = next /\ "inst" \in current'
<1> DEFINE copy == [inst EXCEPT !.status = new]
           Go   == inst' = op' /\ pc' = "sync" /\ then' = next /\ UNCHANGED <<found, queued>>
<1>1. copy \in Op /\ copy.life = inst.life /\ copy.status = new
  BY DEF ClusterInv, CopyInv, CopyTypeOK, Op
<1>2. Write(copy, Go) /\ (Go => UNCHANGED queued)
  BY DEF WriteStatus
<1>3. Go => pc' = "sync" /\ then' = next
  OBVIOUS
<1> HIDE DEF copy, Go
<1>4. /\ copy = op /\ Go /\ OnCourse /\ UNCHANGED subject /\ Delivered /\ inst = op
      /\ pc' # "idle" => "inst" \in current'
  BY <1>1, <1>2, WriteOnCourse
<1> QED
  BY <1>1, <1>3, <1>4

\* Where a dispatch leads.
LEMMA Dispatched ==
  ASSUME NEW copy
  PROVE  /\ Dispatch(copy) \in {"collect", "syncStopped", "addLogs", "addStatus", "runtime"}
         /\ Dispatch(copy) = "addLogs" => "logs" \notin copy.fins
         /\ Dispatch(copy) = "addStatus" => "status" \notin copy.fins
         /\ Dispatch(copy) = "runtime" =>
              Guarded(copy) /\ copy.life # "deleting" /\ ~IsDone(copy.status)
BY DEF Dispatch, Guarded

\* An end that is logged is an end.
LEMMA EndsLogged ==
  ASSUME NEW status \in OperationStatusType, ~IsDone(status), NEW why
  PROVE  LogStopped(status, why) # status
<1>1. "Stopped" \in LogStopped(status, why).has
  BY DEF LogStopped, logCondition, OperationStatusType
<1> QED
  BY <1>1 DEF IsDone, FinalTypes

\* A step that stores nothing and leaves the queue alone.
LEMMA Undelivered ==
  ASSUME Within, UNCHANGED <<op, owned, queued, elsewhere>>,
         \A x \in {"opCache", "ownedCache"} : x \in current' => x \in current,
         Delivered'
  PROVE  Delivered /\ UNCHANGED subject
BY DEF Delivered, Within, around, elsewhere, caches, subject

(***************************************************************************)
(* The shared handlers.                                                    *)
(***************************************************************************)
\* A pass begins with the stored operation.
LEMMA FetchAccount == ASSUME ClusterInv, WakeInv, Fetch, Delivered' PROVE Account'
<1>1. /\ op' = op /\ setup' = setup /\ pc = "idle" /\ "opCache" \in current' /\ op \in Op
  BY DEF Fetch, FetchOp, cluster, elsewhere, Delivered, ClusterInv, CopyInv, CopyTypeOK
<1>2. opCache = op
  <2>1. "opCache" \in current
    BY <1>1 DEF Fetch, FetchOp, Keep
  <2> QED
    BY <2>1 DEF ClusterInv, CopyInv, Versions
<1>3. CASE op.life = "gone"
  <2>1. pc' = "idle"
    BY <1>1, <1>2, <1>3 DEF Fetch, FetchOp, worker
  <2> QED
    BY <1>1, <1>3, <2>1 DEF Account, Calm
<1>4. CASE op.life # "gone"
  <2>1. /\ pc' = IF op.status.start THEN Dispatch(op) ELSE "addStart"
        /\ "inst" \in current'
    BY <1>1, <1>2, <1>4, Dispatched DEF Fetch, FetchOp, Keep
  <2>2. op.life \in {"live", "deleting"}
    BY <1>1, <1>4 DEF Op
  <2>3. pc' = "runtime" => Tended'
    BY <1>1, <2>1, <2>2, Dispatched
       DEF Tended, Guarded, EnableLogsFinalizers, EnableStatusFinalizers
  <2> QED
    BY <1>1, <2>1, <2>3, Dispatched DEF Account, OnCourse
<1> QED
  BY <1>3, <1>4

\* A start time or a finalizer that is added was not there, and the operation is only
\* read again after it was.
LEMMA StartAccount ==
  ASSUME ClusterInv, WakeInv, AddStartTime \/ AddLogsFinalizer \/ AddStatusFinalizer \/ refetch,
         Delivered'
  PROVE  FALSE
<1>0. inst \in Op /\ ~ReturnError
  BY DEF ClusterInv, CopyInv, CopyTypeOK, Delivered, ReturnError
<1>1. CASE AddStartTime
  <2> DEFINE new == [inst EXCEPT !.status.start = TRUE]
  <2>1. new \in Op /\ new.life = inst.life /\ new.status.start
    BY <1>0 DEF Op, OperationStatusType
  <2>2. Write(new, Refetch("addStart")) /\ pc = "addStart" /\ Within /\ UNCHANGED elsewhere
    BY <1>1 DEF AddStartTime
  <2>3. Refetch("addStart") => UNCHANGED queued
    BY DEF Refetch
  <2> HIDE DEF new
  <2>4. new = op /\ OnCourse
    BY <2>1, <2>2, <2>3, WriteOnCourse
  <2> QED
    BY <2>1, <2>2, <2>4 DEF OnCourse
<1>2. ASSUME NEW label \in {"addLogs", "addStatus"}, NEW finalizer,
             finalizer = IF label = "addLogs" THEN "logs" ELSE "status",
             AddFinalizer(label, finalizer)
      PROVE  FALSE
  <2> DEFINE new == [inst EXCEPT !.fins = @ \cup {finalizer}]
  <2>1. new \in Op /\ new.life = inst.life /\ finalizer \in new.fins
    BY <1>0, <1>2 DEF Op, Finalizers
  <2>2. Write(new, Refetch(label)) /\ pc = label /\ Within /\ UNCHANGED elsewhere
    BY <1>0, <1>2 DEF AddFinalizer
  <2>3. Refetch(label) => UNCHANGED queued
    BY DEF Refetch
  <2> HIDE DEF new
  <2>4. new = op /\ OnCourse
    BY <2>1, <2>2, <2>3, WriteOnCourse
  <2> QED
    BY <1>2, <2>1, <2>2, <2>4 DEF OnCourse
<1>3. CASE refetch
  <2>1. /\ pc = "refetch" /\ Within /\ UNCHANGED <<op, owned, elsewhere, queued>>
        /\ Keep(IF "opCache" \in current THEN current \cup {"inst"} ELSE current \ {"inst"})
    BY <1>0, <1>3 DEF refetch, cluster
  <2>2. \A x \in {"opCache", "ownedCache"} : x \in current' => x \in current
    BY <2>1, KeepFacts
  <2>3. Delivered
    BY <2>1, <2>2, Undelivered
  <2> QED
    BY <2>1, <2>3, OnAccount DEF OnCourse
<1> QED
  BY <1>1, <1>2, <1>3 DEF AddLogsFinalizer, AddStatusFinalizer

\* A finalizer that is removed was there.
LEMMA ReleaseAccount == ASSUME ClusterInv, WakeInv, removeFinalizer, Delivered' PROVE FALSE
<1> DEFINE first == IF "logs" \in inst.fins THEN "logs" ELSE "status"
           new   == [inst EXCEPT !.fins = @ \ {first}]
           Go    == IF inst.life = "deleting" THEN Return ELSE inst' = op' /\ Goto("cleanup")
<1>1. inst \in Op
  BY DEF ClusterInv, CopyInv, CopyTypeOK
<1>2. new \in Op /\ new.life = inst.life /\ (inst.fins # {} => new.fins # inst.fins)
  BY <1>1 DEF Op, Finalizers
<1>3. /\ Write(new, Go) /\ pc = "removeFinalizer" /\ UNCHANGED elsewhere /\ Within
      /\ Go => UNCHANGED queued
  BY DEF removeFinalizer, ReleaseFinalizer, Return, Goto
<1> HIDE DEF new, Go
<1>4. new = op /\ inst = op /\ OnCourse
  BY <1>2, <1>3, WriteOnCourse
<1> QED
  BY <1>2, <1>3, <1>4 DEF OnCourse

\* The write that reports a failed call.
LEMMA StoreAccount == ASSUME ClusterInv, WakeInv, writeStatus, Delivered' PROVE Account'
<1> DEFINE Go == inst' = op' /\ Goto("sync")
<1>1. Write(inst, Go) /\ pc = "write" /\ Within /\ UNCHANGED elsewhere
  BY DEF writeStatus, StoreStatus
<1> HIDE DEF Go
<1>2. /\ op' = op /\ owned' = owned /\ Go /\ {"opCache", "ownedCache"} \subseteq current
      /\ pc' # "idle" => "inst" \in current'
  BY <1>1, WriteQuiet
<1>3. /\ inst' = op' /\ pc' = "sync" /\ then' = then /\ queued' = queued
  BY <1>2 DEF Go, Goto
<1>4. Delivered
  BY <1>1, <1>2, <1>3 DEF Delivered
<1>5. then = "error"
  BY <1>1, <1>4, OnAccount DEF OnCourse
<1> QED
  BY <1>2, <1>3, <1>5 DEF Account, OnCourse

\* The reports, and the finalizers of an operation that is to end.
LEMMA ReportAccount ==
  ASSUME ClusterInv, WakeInv, instanceSyncStatus \/ handleFinalizersStop, Delivered'
  PROVE  Account'
<1>1. CASE instanceSyncStatus
  <2>1. /\ pc = "sync" /\ Within /\ Keep(current) /\ UNCHANGED <<op, owned, elsewhere>>
        /\ \/ then = "done" /\ Return
           \/ then \in {"error", "requeue"} /\ ReturnError
           \/ then \notin {"done", "error", "requeue"} /\ Goto(then) /\ UNCHANGED inst
    BY <1>1 DEF instanceSyncStatus, ReportStatus, cluster
  <2>2. ~ReturnError
    BY DEF Delivered, ReturnError
  <2>3. UNCHANGED queued /\ \A x \in current' : x \in current
    BY <2>1, <2>2, KeepFacts DEF Return, Goto
  <2>4. Delivered /\ UNCHANGED subject
    BY <2>1, <2>3, Undelivered
  <2>5. "inst" \in current /\ (then = "error" \/ (then = "deadline" /\ Tended /\ Judged))
    BY <2>1, <2>4, OnAccount DEF OnCourse
  <2>6. pc' = "deadline" /\ Tended /\ Judged
    BY <2>1, <2>2, <2>5 DEF Goto
  <2>7. "inst" \in current' /\ Tended' /\ Judged'
    BY <2>1, <2>4, <2>5, <2>6, SubjectStays DEF Keep
  <2> QED
    BY <2>6, <2>7 DEF Account, OnCourse
<1>2. CASE handleFinalizersStop
  <2>1. /\ pc = "syncStopped" /\ Within /\ pc' = "collect"
        /\ UNCHANGED <<op, owned, queued, elsewhere, current>>
    BY <1>2 DEF handleFinalizersStop, ReportStopped, cluster, Goto
  <2>2. Delivered
    BY <2>1, Undelivered
  <2>3. "inst" \in current
    BY <2>1, <2>2, OnAccount
  <2> QED
    BY <2>1, <2>3 DEF Account, OnCourse
<1> QED
  BY <1>1, <1>2

LEMMA CollectAccount == ASSUME ClusterInv, WakeInv, collectLogs, Delivered' PROVE Account'
<1>1. /\ pc = "collect" /\ Within /\ Keep(current) /\ UNCHANGED <<op, owned, elsewhere, timer>>
  BY DEF collectLogs, CollectHeld, cluster
<1>2. UNCHANGED queued /\ \A x \in current' : x \in current
  BY <1>1, KeepFacts DEF collectLogs, CollectHeld, AfterFinalizers, Return, Goto
<1>3. Delivered /\ UNCHANGED subject
  BY <1>1, <1>2, Undelivered
<1>4. inst = op /\ "inst" \in current /\ op \in Op
  BY <1>1, <1>3, OnAccount
<1>5. CASE AfterFinalizers /\ op.life = "deleting"
  <2>1. pc' = "idle"
    BY <1>4, <1>5 DEF AfterFinalizers, Return, Forget
  <2>2. op.fins # {} /\ op.fins \subseteq Finalizers
    BY <1>4, <1>5 DEF ClusterInv, CopyInv, Lives, Op
  <2>3. Fail
    BY <1>4, <2>1, <2>2 DEF collectLogs, CollectHeld, Goto, Finalizers
  <2>4. faults' > 0
    BY <2>3 DEF Fail, ClusterInv, PassInv, CountsOK
  <2> QED
    BY <1>1, <1>5, <2>1, <2>4 DEF Account, Calm
<1>6. CASE AfterFinalizers /\ op.life # "deleting"
  <2>1. pc' = "cleanup"
    BY <1>4, <1>6 DEF AfterFinalizers, Goto
  <2> QED
    BY <1>1, <1>4, <1>6, <2>1 DEF Account, OnCourse, Keep
<1>7. CASE ~AfterFinalizers
  <2>1. pc' = "removeFinalizer" /\ inst.fins # {}
    BY <1>7 DEF collectLogs, CollectHeld, Goto
  <2> QED
    BY <1>1, <1>4, <2>1 DEF Account, OnCourse, Keep
<1> QED
  BY <1>5, <1>6, <1>7

\* A delete of a live operation is an event, or is tried again.
LEMMA DeleteQuiet ==
  ASSUME ClusterInv, WakeInv, Within, UNCHANGED elsewhere, pc # "idle", NEW requeue, Delete(requeue),
         Delivered'
  PROVE  OnCourse /\ op.life = "deleting"
<1>1. ~ReturnError
  BY DEF Delivered, ReturnError
<1>2. DeleteOp /\ Return /\ Keep(Unchanged)
  BY <1>1 DEF Delete
<1>3. {"opCache", "ownedCache"} \subseteq current' /\ op' = op /\ queued' = queued
  BY <1>2 DEF Delivered, Keep, Unchanged, OpCopies, Return
<1>4. Delivered
  BY <1>2, <1>3 DEF Delivered, Keep, Unchanged
<1>5. OnCourse /\ op \in Op
  BY <1>4, OnAccount
<1>6. op.life = "deleting"
  <2> DEFINE new == [op EXCEPT !.life = "deleting"]
  <2>1. new \in Op /\ new.life = "deleting" /\ Put(new) /\ op.life # "gone"
    BY <1>2, <1>5 DEF DeleteOp, Op
  <2> HIDE DEF new
  <2>2. op'.life \in {"deleting", "gone"}
    BY <2>1, PutStores
  <2> QED
    BY <1>3, <2>1, <2>2
<1> QED
  BY <1>5, <1>6

LEMMA CleanUpAccount == ASSUME ClusterInv, WakeInv, handleTTL, Delivered' PROVE Account'
<1>1. pc = "cleanup" /\ Within /\ UNCHANGED elsewhere
  BY DEF handleTTL, CleanUp
<1>2. ~ReturnError
  BY DEF Delivered, ReturnError
<1>3. ~Delete(FALSE)
  BY <1>1, DeleteQuiet DEF OnCourse
<1>4. Return /\ Keep(current) /\ UNCHANGED <<op, owned>>
  BY <1>2, <1>3 DEF handleTTL, CleanUp, cluster
<1>5. queued' = queued /\ pc' = "idle" /\ \A x \in current' : x \in current
  BY <1>4, KeepFacts DEF Return, Forget
<1>6. Delivered
  BY <1>1, <1>4, <1>5, Undelivered
<1>7. inst = op /\ op.life # "deleting"
  BY <1>1, <1>6, OnAccount DEF OnCourse
<1>8. IsDone(op.status)
  BY <1>1, <1>7 DEF ClusterInv, CopyInv, EndPhases
<1> QED
  BY <1>4, <1>5, <1>7, <1>8 DEF Account, Calm

LEMMA DeleteAccount == ASSUME ClusterInv, WakeInv, delete, Delivered' PROVE FALSE
BY DeleteQuiet DEF delete, OnCourse

(***************************************************************************)
(* The pass over the cluster.                                              *)
(***************************************************************************)
\* The cluster is read; it is not missing, or its creation has failed.
LEMMA RuntimeAccount ==
  ASSUME ClusterInv, WakeInv, reconcileRayCluster \/ reconcileDaskCluster, Delivered'
  PROVE  Account'
<1>1. pc = "runtime" /\ Within /\ UNCHANGED elsewhere /\ inst.status \in OperationStatusType
  BY DEF reconcileRayCluster, reconcileDaskCluster, ClusterInv, CopyInv, CopyTypeOK, Op
<1>2. ~ReturnError
  BY DEF Delivered, ReturnError
<1>3. Delivered => OnCourse /\ Tended /\ inst = op /\ "inst" \in current
  BY <1>1, OnAccount DEF OnCourse
<1>4. ASSUME NEW ended, NEW deleted \in Reasons, reconcileCluster(ended, deleted)
      PROVE  Account'
  <2>1. CASE /\ owned.live /\ found' = owned /\ pc' \in {"update", "checkStatus"}
             /\ current' = current \cup {"found"} /\ UNCHANGED <<cluster, inst, then, queued, faults>>
    <3>1. UNCHANGED <<op, owned, queued>>
      BY <2>1 DEF cluster
    <3>2. Delivered /\ UNCHANGED subject
      BY <1>1, <2>1, <3>1, Undelivered
    <3>3. Tended' /\ "inst" \in current'
      BY <1>3, <2>1, <3>2, SubjectStays
    <3> QED
      BY <2>1, <3>1, <3>3 DEF Account, OnCourse
  <2>2. CASE ~owned.live /\ IsDone(inst.status) /\ Return /\ Keep(current) /\ UNCHANGED <<cluster, faults>>
    <3>1. UNCHANGED <<op, owned, queued>> /\ \A x \in current' : x \in current
      BY <2>2, KeepFacts DEF cluster, Return
    <3>2. Delivered
      BY <1>1, <3>1, Undelivered
    <3> QED
      BY <1>3, <2>2, <3>2 DEF Tended
  <2>3. CASE WriteStatus(LogStopped(inst.status, deleted), "done")
    <3>1. LogStopped(inst.status, deleted) \in OperationStatusType
      BY <1>1, LoggersAdd DEF Adds
    <3>2. op.status = LogStopped(inst.status, deleted) /\ inst = op /\ Delivered
      BY <1>1, <2>3, <3>1, StatusQuiet
    <3> QED
      BY <1>1, <1>3, <3>2, EndsLogged DEF Tended
  <2>4. CASE Create(NoClusterStatus,
                    pc' = "refetch" /\ then' = "runtime" /\ UNCHANGED <<inst, found, queued>>,
                    "OperatorCreateCluster")
    <3>1. ~Keep(current \ OwnedCopies)
      <4>1. "ownedCache" \in current' /\ "ownedCache" \notin current \ OwnedCopies
        BY DEF Delivered, OwnedCopies
      <4> QED
        BY <4>1, KeepFacts
    <3>2. /\ CreateFailed("OperatorCreateCluster") /\ Keep(current) /\ UNCHANGED <<op, owned>>
      BY <2>4, <3>1 DEF Create
    <3>3. pc' = "write" /\ then' = "error" /\ queued' = queued
      BY <1>2, <3>2 DEF CreateFailed, Log
    <3>4. Delivered
      BY <1>1, <3>2, <3>3, KeepFacts, Undelivered
    <3>5. "inst" \in current'
      BY <1>3, <3>2, <3>3, <3>4 DEF Keep
    <3> QED
      BY <3>3, <3>5 DEF Account, OnCourse
  <2> QED
    BY <1>2, <1>4, <2>1, <2>2, <2>3, <2>4 DEF reconcileCluster
<1> QED
  BY <1>4, ClusterReasons DEF reconcileRayCluster, reconcileDaskCluster

\* The cluster is written back.
LEMMA UpdateAccount == ASSUME ClusterInv, WakeInv, updateCluster, Delivered' PROVE Account'
<1>1. pc = "update" /\ Within /\ UNCHANGED elsewhere /\ Keep(current) /\ UNCHANGED <<op, owned>>
  BY DEF updateCluster, UpdateFound, cluster
<1>2. ~ReturnError
  BY DEF Delivered, ReturnError
<1>3. pc' = "checkStatus" /\ UNCHANGED <<found, then, queued, inst>>
  BY <1>2 DEF updateCluster, UpdateFound, Goto
<1>4. Delivered /\ UNCHANGED subject
  BY <1>1, <1>3, KeepFacts, Undelivered
<1>5. OnCourse
  BY <1>1, <1>4, OnAccount
<1>6. Tended' /\ "inst" \in current'
  BY <1>1, <1>3, <1>4, <1>5, SubjectStays DEF OnCourse, Keep
<1>7. owned'.live /\ (Kind' = "DaskCluster" => found' = owned')
  BY <1>1, <1>3, <1>4, <1>5 DEF OnCourse, Kind, subject
<1> QED
  BY <1>3, <1>6, <1>7 DEF Account, OnCourse

\* The timer for the deadline is set, for the deadline has not passed.
LEMMA DeadlineAccount ==
  ASSUME ClusterInv, WakeInv, pc \in {"checkStatus", "deadline"}, handlePastActiveDeadline,
         UNCHANGED elsewhere, Within, Delivered => Judged, Delivered'
  PROVE  Account'
<1> DEFINE applies == ActiveDeadline /\ inst.status.start /\ ~IsDone(inst.status)
<1>1. Delivered => Tended /\ inst = op
  BY OnAccount DEF OnCourse
<1>2. inst.status \in OperationStatusType
  BY DEF ClusterInv, CopyInv, CopyTypeOK, Op
<1>3. CASE WriteStatus(LogStopped(inst.status, "DeadlineExceeded"), "delete")
  <2>1. LogStopped(inst.status, "DeadlineExceeded") \in OperationStatusType
    BY <1>2, LoggersAdd, ClusterReasons DEF Adds
  <2>2. op.status = LogStopped(inst.status, "DeadlineExceeded") /\ inst = op /\ Delivered
    BY <1>3, <2>1, StatusQuiet
  <2> QED
    BY <1>1, <1>2, <2>2, EndsLogged DEF Tended
<1>4. CASE timer' = (timer \/ applies) /\ Return /\ Keep(current) /\ UNCHANGED <<cluster, faults>>
  <2>1. UNCHANGED <<op, owned, queued>> /\ pc' = "idle" /\ \A x \in current' : x \in current
    BY <1>4, KeepFacts DEF cluster, Return, Forget
  <2>2. Delivered /\ UNCHANGED subject
    BY <2>1, Undelivered
  <2>3. Tended /\ Judged /\ inst = op /\ setup' = setup
    BY <1>1, <2>2 DEF subject
  <2>4. Tended' /\ Judged'
    BY <2>2, <2>3, SubjectStays
  <2>5. ActiveDeadline' => timer'
    BY <1>4, <2>3 DEF Tended, ActiveDeadline
  <2>6. op'.life = "live"
    BY <2>4 DEF Tended
  <2> QED
    BY <2>1, <2>4, <2>5, <2>6 DEF Account, Calm
<1> QED
  BY <1>3, <1>4 DEF handlePastActiveDeadline

\* A status that is not written is the one that was there; one that is written is one.
LEMMA StatusResult ==
  ASSUME NEW status \in OperationStatusType, NEW resource, NEW podList, NEW replicaFailure
  PROVE  LET result == reconcileStatus(status, resource, podList, replicaFailure)
         IN  /\ result.write => result.status \in OperationStatusType
             /\ ~result.write => result.status = status
<1> DEFINE result == reconcileStatus(status, resource, podList, replicaFailure)
           Fine(r) == r.write \/ r.status = status
           pod == HasUnschedulablePods(podList)
<1>1. result.write => result.status \in OperationStatusType
  <2>1. \E failure, success : Grounded(result, status, failure, success)
    BY RayGrounded, DaskGrounded DEF reconcileStatus
  <2> HIDE DEF result
  <2> QED
    BY <2>1 DEF Grounded, Adds
<1>2. /\ \A new : Fine(Logged(new))
      /\ Fine(Same(status))
      /\ \A why : Fine(Warned(status, why))
  BY DEF Logged, Same, Warned
<1>3. Fine(result)
  <2> HIDE DEF Fine
  <2>1. Fine(reconcileRayClusterStatus(status, ClusterStatus(resource), podList))
    BY <1>2, Zenon DEF reconcileRayClusterStatus
  <2>2. Fine(daskRunning(status, podList, replicaFailure))
    BY <1>2, Zenon DEF daskRunning
  <2> DEFINE dask == reconcileDaskClusterStatus(status, ClusterStatus(resource), podList, replicaFailure)
  <2>3. \/ \E new : dask = Logged(new)
        \/ \E why : dask = Warned(status, why)
        \/ dask = Same(status)
        \/ dask = daskRunning(status, podList, replicaFailure)
    BY DEF reconcileDaskClusterStatus
  <2>4. Fine(dask)
    <3> HIDE DEF dask
    <3> QED
      BY <1>2, <2>2, <2>3
  <2> QED
    BY <2>1, <2>4, Zenon DEF reconcileStatus
<1> QED
  BY <1>1, <1>3

\* The status of the cluster is looked at, and the deadline.
LEMMA CheckAccount ==
  ASSUME ClusterInv, WakeInv, checkStatus \/ checkDeadline, Delivered'
  PROVE  Account'
<1>1. CASE checkDeadline
  <2>1. pc = "deadline" /\ handlePastActiveDeadline /\ UNCHANGED elsewhere /\ Within
    BY <1>1 DEF checkDeadline
  <2>2. Delivered => Judged
    BY <2>1, OnAccount DEF OnCourse
  <2> QED
    BY <2>1, <2>2, DeadlineAccount
<1>2. CASE checkStatus
  <2>1. PICK podList \in ListInstancePods(podCache) :
          LET result == reconcileStatus(inst.status, found, podList, shortCache)
          IN  IF result.write
              THEN WriteStatus(result.status, "deadline") /\ UNCHANGED timer
              ELSE handlePastActiveDeadline
    BY <1>2 DEF checkStatus
  <2> DEFINE result == reconcileStatus(inst.status, found, podList, shortCache)
  <2>2. pc = "checkStatus" /\ UNCHANGED elsewhere /\ Within /\ inst.status \in OperationStatusType
    BY <1>2 DEF checkStatus, ClusterInv, CopyInv, CopyTypeOK, Op
  <2>3. /\ result.write => result.status \in OperationStatusType
        /\ ~result.write => result.status = inst.status
    BY <2>2, StatusResult
  <2>4. Delivered => /\ OnCourse /\ Tended /\ inst = op /\ owned.live
                     /\ Kind = "DaskCluster" => found = owned
    BY <2>2, OnAccount DEF OnCourse
  <2>5. Delivered /\ result.status = inst.status => Judged
    BY <2>4 DEF Judged
  <2>6. CASE ~result.write
    BY <2>1, <2>2, <2>3, <2>5, <2>6, DeadlineAccount
  <2>7. CASE result.write
    <3>1. WriteStatus(result.status, "deadline")
      BY <2>1, <2>7
    <3> HIDE DEF result
    <3>2. /\ op.status = result.status /\ inst = op /\ UNCHANGED subject /\ Delivered
          /\ pc' = "sync" /\ then' = "deadline" /\ "inst" \in current'
      BY <2>2, <2>3, <2>7, <3>1, StatusQuiet
    <3>3. Tended' /\ Judged'
      BY <2>4, <2>5, <3>2, SubjectStays
    <3> QED
      BY <3>2, <3>3 DEF Account, OnCourse
  <2> QED
    BY <2>6, <2>7
<1> QED
  BY <1>1, <1>2

(***************************************************************************)
(* Beside the pass.                                                        *)
(***************************************************************************)
\* What reaches the controller, or is going to.
LEMMA HeardAccount ==
  ASSUME \/ Watch \/ Replay \/ Requeue \/ Restart
         \/ UserStops \/ ClusterDeleted \/ Collected \/ DaskReports,
         Enabled \/ ~mapClusterDeploymentToRequest
  PROVE  ~Delivered'
<1>1. CASE Watch \/ Replay \/ Requeue \/ Restart
  <2>1. queued' = TRUE
    BY <1>1 DEF Watch, WatchCluster, WatchRuntime, mapClusterPodToRequest, mapClusterDeploymentToRequest,
         WatchOp, NotifyOwned, WatchPods, Replay, Resync, Requeue, RequeueAfter, Restart, Crash
  <2> QED
    BY <2>1 DEF Delivered
<1>2. CASE UserStops
  BY <1>2 DEF UserStops, UserDeletes, OpCopies, Delivered
<1>3. CASE ClusterDeleted \/ Collected
  BY <1>3 DEF ClusterDeleted, Collected, OwnedDeleted, OwnedCollected, DropOwned, OwnedCopies, Delivered
<1>4. CASE DaskReports
  <2>1. PICK p : Reports(DaskPhase(p)) /\ owned.status.state # p /\ p # ""
    BY <1>4 DEF DaskReports
  <2>2. clusterResourcePredicate(owned.status, DaskPhase(p))
    BY <2>1 DEF clusterResourcePredicate, DaskPhase
  <2>3. current' = current \ OwnedCopies
    BY <2>1, <2>2 DEF Reports, OwnedReports
  <2> QED
    BY <2>3 DEF OwnedCopies, Delivered
<1> QED
  BY <1>1, <1>2, <1>3, <1>4

\* What the controller is not told of makes no difference to what it has to do: the
\* Deployments of a Dask cluster that is not watched,
LEMMA UnwatchedAccount ==
  ASSUME WakeInv, mapClusterDeploymentToRequest, ~Enabled, Delivered'
  PROVE  Account'
<1>1. /\ UNCHANGED <<setup, op, owned, pc, inst, found, then, timer, faults, current>>
      /\ ~queued' => ~queued
  BY DEF mapClusterDeploymentToRequest, cluster, elsewhere, worker
<1>2. Delivered /\ Account
  BY <1>1 DEF Delivered, WakeInv
<1>3. /\ (Tended' <=> Tended) /\ (ActiveDeadline' <=> ActiveDeadline) /\ Kind' = Kind
      /\ Judged => Judged'
  BY <1>1 DEF Tended, Guarded, EnableLogsFinalizers, EnableStatusFinalizers, ActiveDeadline, Kind,
         Judged, Enabled
<1>4. CASE pc = "idle"
  BY <1>1, <1>2, <1>3, <1>4 DEF Account, Calm
<1>5. CASE pc # "idle"
  BY <1>1, <1>2, <1>3, <1>5 DEF Account, OnCourse
<1> QED
  BY <1>4, <1>5

\* the conditions of a RayCluster,
LEMMA RayAccount == ASSUME WakeInv, RayReports, Delivered' PROVE Account'
<1>1. PICK status : Reports(status)
  BY DEF RayReports
<1>2. Kind = "RayCluster" /\ owned'.live
  BY <1>1 DEF RayReports, Reports, OwnedReports, Live
<1>3. /\ UNCHANGED <<setup, op, podCache, shortCache, pc, inst, found, then, timer, faults, queued>>
      /\ \A x \in {"opCache", "ownedCache", "inst"} : x \in current' => x \in current
      /\ "inst" \in current => "inst" \in current'
  BY <1>1 DEF Reports, OwnedReports, operator, worker, caches, OwnedCopies
<1>4. Delivered /\ Account
  BY <1>3 DEF Delivered, WakeInv
<1>5. Kind' = "RayCluster" /\ (Tended' <=> Tended) /\ (ActiveDeadline' <=> ActiveDeadline)
  BY <1>2, <1>3 DEF Kind, Tended, Guarded, EnableLogsFinalizers, EnableStatusFinalizers, ActiveDeadline
<1>6. Judged'
  BY <1>2, <1>5 DEF Judged
<1>7. CASE pc = "idle"
  BY <1>3, <1>4, <1>5, <1>6, <1>7 DEF Account, Calm
<1>8. CASE pc # "idle"
  BY <1>2, <1>3, <1>4, <1>5, <1>6, <1>8 DEF Account, OnCourse
<1> QED
  BY <1>7, <1>8

\* and the pods, the quota and the clock, which the caches know nothing of.
LEMMA AsideAccount ==
  ASSUME WakeInv, Delivered',
         PodMoves \/ PodStarts \/ QuotaChanges \/ DeadlinePasses \/ Expire \/ UNCHANGED vars
  PROVE  Account'
<1>1. /\ UNCHANGED <<setup, op, owned, podCache, shortCache, pc, inst, found, then, timer, faults>>
      /\ UNCHANGED <<current, queued>>
  BY DEF PodMoves, PodStarts, QuotaChanges, DeadlinePasses, Expire, TTLPasses, Within, around, vars,
         kubeVars, cluster, elsewhere, caches, worker, operator
<1>2. Delivered /\ Account /\ UNCHANGED subject
  BY <1>1 DEF Delivered, WakeInv, subject
<1> QED
  BY <1>1, <1>2, AccountStays

LEMMA NextAccount == ASSUME ClusterInv, WakeInv, [Next]_vars PROVE WakeInv'
<1> SUFFICES ASSUME Delivered' PROVE Account'
  BY DEF WakeInv
<1>1. CASE Reconcile
  BY <1>1, FetchAccount, StartAccount, ReleaseAccount, StoreAccount, ReportAccount, CollectAccount,
     CleanUpAccount, DeleteAccount, RuntimeAccount, UpdateAccount, CheckAccount DEF Reconcile
<1>2. CASE Watch \/ Replay \/ Requeue \/ Restart
  BY <1>2, HeardAccount, UnwatchedAccount
<1>3. CASE World
  <2>1. mapClusterDeploymentToRequest => Watch
    BY DEF Watch
  <2> QED
    BY <1>2, <1>3, <2>1, HeardAccount, RayAccount, AsideAccount DEF World
<1>4. CASE UNCHANGED vars
  BY <1>4, AsideAccount
<1> QED
  BY <1>1, <1>2, <1>3, <1>4 DEF Next

\* When nothing is to be delivered, the pass that is under way comes past what is to
\* be done, and without a pass there is nothing to do.
THEOREM WakeInvariance == Spec => [](ClusterInv /\ WakeInv)
<1>1. Init => ClusterInv /\ WakeInv
  <2>1. Init => ClusterInv
    BY InitHolds
  <2>2. Init => queued
    BY DEF Init, KubeInit
  <2>3. Init => WakeInv
    BY <2>2 DEF WakeInv, Delivered
  <2> QED
    BY <2>1, <2>3
<1>2. ClusterInv /\ WakeInv /\ [Next]_vars => (ClusterInv /\ WakeInv)'
  <2>1. ClusterInv /\ [Next]_vars => ClusterInv'
    BY NextKeeps DEF Kept
  <2> QED
    BY <2>1, NextAccount
<1> QED
  BY <1>1, <1>2, PTL DEF Spec

\* A controller that has nothing left to do has left nothing to do: the cluster, the
\* finalizers and the timer of an unfinished operation are there, whatever was lost,
\* late or read again.
THEOREM NoLostWakeupHolds == Spec => []NoLostWakeup
<1>1. ClusterInv /\ WakeInv => NoLostWakeup
  <2> SUFFICES ASSUME ClusterInv, WakeInv, Rested
               PROVE  /\ op.life = "live" /\ ~IsDone(op.status) =>
                           /\ Tended /\ (ActiveDeadline => timer) /\ owned.live
                           /\ Kind = "DaskCluster" /\ Enabled =>
                                \E podList \in ListInstancePods(pods) :
                                   reconcileStatus(op.status, owned, podList, short).status = op.status
                      /\ op.life = "deleting" => faults > 0
    BY DEF NoLostWakeup, Tended, Guarded
  <2>1. Delivered /\ pc = "idle" /\ podCache = pods /\ shortCache = short
    BY DEF Rested, Settled, Delivered
  <2>2. Calm
    BY <2>1 DEF WakeInv, Account
  <2> QED
    BY <2>1, <2>2 DEF Calm, Judged
<1> QED
  BY <1>1, WakeInvariance, PTL


(***************************************************************************)
(* What RunningMeansServing needs besides: a Dask cluster that is recorded *)
(* as running has run.                                                     *)
(***************************************************************************)
\* The phases of a Dask cluster from Running on.
HasRun(resource) ==
  resource.live /\ resource.status.state \in {"Running", "CrashLoopBackOff", "Successful", "Error"}

\* The scheduler of a cluster that nobody deletes keeps running, and its phase does
\* not go back.
Served ==
  Undisturbed /\ Kind = "DaskCluster" =>
    /\ podCache # <<>> /\ podCache[1] = "Running" => HeadRuns
    /\ HasRun(found) => HasRun(owned)
    /\ IsRunning(op.status) => HeadRuns /\ HasRun(owned)

\* What is about to be written is never that the cluster runs.
NotYetRunning == pc = "write" => ~IsRunning(inst.status)

\* The inductive invariant, on top of ClusterInv.
RunInv == Served /\ NotYetRunning

(***************************************************************************)
(* What the scheduler and its cluster do, and what a pass makes of it.     *)
(***************************************************************************)
\* The scheduler and the cluster keep on, what is read of them is what is or was
\* there, and the operation is only marked as running when they run.
RunMove ==
  /\ setup' = setup /\ (Undisturbed' => Undisturbed)
  /\ NotYetRunning'
  /\ Undisturbed' /\ Kind = "DaskCluster" =>
       /\ HeadRuns => HeadRuns'
       /\ HasRun(owned) => HasRun(owned)'
       /\ podCache' \in {podCache, pods} /\ found' \in {found, owned, Nothing}
       /\ IsRunning(op'.status) => IsRunning(op.status) \/ (HeadRuns /\ HasRun(owned))

LEMMA RunMoveKeeps == ASSUME RunInv, RunMove PROVE RunInv'
<1>1. ~HasRun(Nothing)
  BY DEF HasRun, Nothing
<1>2. ASSUME Undisturbed', Kind' = "DaskCluster"
      PROVE  /\ podCache' # <<>> /\ podCache'[1] = "Running" => HeadRuns'
             /\ HasRun(found)' => HasRun(owned)'
             /\ IsRunning(op.status)' => HeadRuns' /\ HasRun(owned)'
  <2>1. /\ HeadRuns => HeadRuns'
        /\ HasRun(owned) => HasRun(owned)'
        /\ podCache' \in {podCache, pods} /\ found' \in {found, owned, Nothing}
        /\ IsRunning(op'.status) => IsRunning(op.status) \/ (HeadRuns /\ HasRun(owned))
        /\ Undisturbed /\ Kind = "DaskCluster"
    BY <1>2 DEF RunMove, Kind
  <2>2. /\ podCache # <<>> /\ podCache[1] = "Running" => HeadRuns
        /\ HasRun(found) => HasRun(owned)
        /\ IsRunning(op.status) => HeadRuns /\ HasRun(owned)
    BY <2>1 DEF RunInv, Served
  <2>3. podCache' # <<>> /\ podCache'[1] = "Running" => HeadRuns'
    BY <2>1, <2>2 DEF HeadRuns
  <2>4. HasRun(found)' => HasRun(owned)'
    BY <1>1, <2>1, <2>2 DEF HasRun
  <2>5. IsRunning(op.status)' => HeadRuns' /\ HasRun(owned)'
    BY <2>1, <2>2 DEF IsRunning
  <2> QED
    BY <2>3, <2>4, <2>5
<1> QED
  BY <1>2 DEF RunInv, Served, RunMove

\* A step of the controller.
LEMMA PassRuns ==
  ASSUME Kept, UNCHANGED <<elsewhere, pods>>, owned' = owned \/ ~owned.live,
         found' \in {found, owned, Nothing}, NotYetRunning',
         Undisturbed /\ Kind = "DaskCluster" /\ IsRunning(op'.status) =>
           IsRunning(op.status) \/ (HeadRuns /\ HasRun(owned))
  PROVE  RunMove
<1>1. setup' = setup /\ podCache' = podCache /\ removals' = removals
  BY DEF elsewhere, caches
<1>2. Undisturbed' => Undisturbed
  BY <1>1 DEF Undisturbed, Kept, StoredMove
<1>3. (HeadRuns => HeadRuns') /\ (HasRun(owned) => HasRun(owned)')
  BY DEF HeadRuns, HasRun
<1> QED
  BY <1>1, <1>2, <1>3 DEF RunMove

\* One that stores nothing and does not log.
LEMMA StayRuns ==
  ASSUME Kept, UNCHANGED <<elsewhere, pods, op>>, owned' = owned \/ ~owned.live,
         found' \in {found, owned, Nothing}, pc' # "write"
  PROVE  RunMove
<1>1. NotYetRunning'
  BY DEF NotYetRunning
<1> QED
  BY <1>1, PassRuns

\* One that writes the operation.
LEMMA WriteRuns ==
  ASSUME ClusterInv, Kept, NEW new \in Op, NEW ACTION Go, Write(new, Go), UNCHANGED elsewhere,
         Go => found' \in {found, Nothing} /\ pc' # "write",
         "inst" \in current /\ Undisturbed /\ Kind = "DaskCluster" /\ IsRunning(new.status) =>
           IsRunning(op.status) \/ (HeadRuns /\ HasRun(owned))
  PROVE  RunMove
<1>1. /\ UNCHANGED <<owned, pods>>
      /\ op' = op \/ (op.life # "gone" /\ "inst" \in current /\ op'.status = new.status)
      /\ Forget \/ Go
  BY WriteFacts DEF ClusterInv
<1>2. found' \in {found, Nothing} /\ pc' # "write"
  BY <1>1 DEF Forget
<1>3. NotYetRunning'
  BY <1>2 DEF NotYetRunning
<1> QED
  BY <1>1, <1>2, <1>3, PassRuns

\* One that writes a status.
LEMMA StatusRuns ==
  ASSUME ClusterInv, Kept, NEW new \in OperationStatusType, NEW next, WriteStatus(new, next),
         UNCHANGED elsewhere,
         Undisturbed /\ Kind = "DaskCluster" /\ IsRunning(new) => HeadRuns /\ HasRun(owned)
  PROVE  RunMove
<1> DEFINE copy == [inst EXCEPT !.status = new]
           Go   == inst' = op' /\ pc' = "sync" /\ then' = next /\ UNCHANGED <<found, queued>>
<1>1. copy \in Op /\ copy.status = new
  BY DEF ClusterInv, CopyInv, CopyTypeOK, Op
<1>2. Write(copy, Go) /\ (Go => found' \in {found, Nothing} /\ pc' # "write")
  BY DEF WriteStatus
<1> HIDE DEF copy, Go
<1> QED
  BY <1>1, <1>2, WriteRuns

\* One that deletes the operation.
LEMMA DeleteRuns ==
  ASSUME ClusterInv, Kept, NEW requeue, Delete(requeue), UNCHANGED elsewhere
  PROVE  RunMove
<1>1. Forget
  BY DEF Delete, Return, ReturnError
<1>2. UNCHANGED <<owned, pods>> /\ op'.status = op.status
  BY DeleteCopies DEF Delete, cluster, ClusterInv
<1>3. NotYetRunning'
  BY <1>1 DEF NotYetRunning, Forget
<1> QED
  BY <1>1, <1>2, <1>3, PassRuns DEF Forget

\* A condition that is logged is the last one.
LEMMA LastLogged ==
  ASSUME NEW status \in OperationStatusType, NEW why \in Reasons
  PROVE  /\ ~IsRunning(LogStarting(status)) /\ ~IsRunning(LogWarning(status, why))
         /\ ~IsRunning(LogSucceeded(status)) /\ ~IsRunning(LogFailed(status, why))
         /\ ~IsRunning(LogStopped(status, why))
BY LoggersAdd DEF Adds, IsRunning

\* Only a pod that runs has a main container that runs.
LEMMA OnlyRunningRuns ==
  ASSUME NEW at \in PodStages, at # "Running", NEW role
  PROVE  ~IsMainContainerRunning(<<PodAt(at, role)>>)
<1>1. ASSUME NEW pod, NEW phase, NEW conds, NEW reason,
             pod = podStatus(phase, conds, container("waiting", reason, NoCode, NoCode, 0)),
             PodAt(at, role) = [f \in DOMAIN pod \cup {"role"} |-> IF f = "role" THEN role ELSE pod[f]]
      PROVE  ~IsMainContainerRunning(<<PodAt(at, role)>>)
  <2> DEFINE list == container("waiting", reason, NoCode, NoCode, 0)
             here == PodAt(at, role)
  <2>1. DOMAIN list = {1} /\ list[1].state = "waiting"
    <3>1. PICK none : list = <<[name |-> "main", state |-> "waiting", reason |-> reason, code |-> NoCode,
                                lastCode |-> NoCode, lastReason |-> none, restarts |-> 0,
                                ready |-> "waiting" = "running"]>>
      BY Zenon DEF container
    <3> HIDE DEF list
    <3> QED
      BY <3>1
  <2>2. "containers" \in DOMAIN pod /\ pod.containers = list
    BY <1>1 DEF podStatus
  <2> HIDE DEF list
  <2>3. here.containers = list
    BY <1>1, <2>2
  <2> HIDE DEF here
  <2>4. MainIndices(here) \subseteq {1}
    BY <2>1, <2>3 DEF MainIndices
  <2>5. HasMainContainerStatus(here) => getMainContainerStatus(here).state = "waiting"
    <3>1. HasMainContainerStatus(here) => MainIndices(here) = {1}
      BY <2>4 DEF HasMainContainerStatus
    <3>2. Min({1}) = 1
      BY DEF Min
    <3> QED
      BY <2>1, <2>3, <3>1, <3>2 DEF getMainContainerStatus
  <2> QED
    BY <2>5 DEF IsMainContainerRunning, here
<1>2. at \in {"NotReady", "NoPull", "BadImage"}
  BY DEF PodStages
<1>3. PICK reason :
        LET pod == podStatus("Pending", "notReady", container("waiting", reason, NoCode, NoCode, 0))
        IN  PodAt(at, role) = [f \in DOMAIN pod \cup {"role"} |-> IF f = "role" THEN role ELSE pod[f]]
  <2>1. CASE at = "NotReady"
    BY <2>1, Zenon DEF PodAt
  <2>2. CASE at = "NoPull"
    BY <2>2, Zenon DEF PodAt
  <2>3. CASE at = "BadImage"
    BY <2>3, Zenon DEF PodAt
  <2> QED
    BY <1>2, <2>1, <2>2, <2>3
<1> QED
  BY <1>1, <1>3

\* The scheduler that a pass finds running is the first pod of the cache.
LEMMA SchedulerListed ==
  ASSUME NEW list \in Seq(PodStages), NEW podList \in ListInstancePods(list),
         isDaskSchedulerRunning(podList)
  PROVE  list # <<>> /\ list[1] = "Running"
<1> DEFINE roles == [i \in DOMAIN list |-> PodAt(list[i], IF i = 1 THEN "head" ELSE "worker")]
<1>1. podList \in Orders(roles) /\ DOMAIN roles = DOMAIN list
  BY DEF ListInstancePods
<1>2. PICK p \in [DOMAIN list -> DOMAIN list] : podList = [i \in DOMAIN list |-> roles[p[i]]]
  <2> HIDE DEF roles
  <2> QED
    BY <1>1 DEF Orders
<1>3. PICK i \in DOMAIN list :
         podList[i].role = "head" /\ IsMainContainerRunning(<<podList[i]>>)
  BY <1>2 DEF isDaskSchedulerRunning
<1> DEFINE j == p[i]
<1>4. j \in DOMAIN list /\ list[j] \in PodStages
  BY <1>2, <1>3
<1>5. podList[i] = PodAt(list[j], IF j = 1 THEN "head" ELSE "worker")
  BY <1>2, <1>3, <1>4
<1>6. \A at, role : PodAt(at, role).role = role
  BY DEF PodAt
<1> HIDE DEF j
<1>7. j = 1
  BY <1>3, <1>5, <1>6
<1>8. list[1] = "Running"
  BY <1>3, <1>4, <1>5, <1>7, OnlyRunningRuns
<1> QED
  BY <1>4, <1>7, <1>8

\* A Dask cluster is found running when it says so and its scheduler runs.
LEMMA DaskRuns ==
  ASSUME NEW status \in OperationStatusType, NEW dask, NEW podList, NEW replicaFailure,
         reconcileDaskClusterStatus(status, dask, podList, replicaFailure).write,
         IsRunning(reconcileDaskClusterStatus(status, dask, podList, replicaFailure).status)
  PROVE  dask.state = "Running" /\ isDaskSchedulerRunning(podList)
<1> DEFINE pod == HasUnschedulablePods(podList)
           result == reconcileDaskClusterStatus(status, dask, podList, replicaFailure)
           Runs(r) == r.write /\ IsRunning(r.status)
<1>1. pod.why \in Reasons
  BY VerdictReason
<1>2. \A why \in Reasons :
         /\ ~Runs(Warned(status, why)) /\ ~Runs(Same(status))
         /\ ~Runs(Logged(LogStarting(status))) /\ ~Runs(Logged(LogSucceeded(status)))
         /\ ~Runs(Logged(LogFailed(status, why)))
  BY LastLogged DEF Warned, Logged, Same
<1> HIDE DEF Runs
<1>3. Runs(daskRunning(status, podList, replicaFailure)) => isDaskSchedulerRunning(podList)
  <2>1. \/ isDaskSchedulerRunning(podList)
        \/ daskRunning(status, podList, replicaFailure) \in
             {Warned(status, "ReplicaFailure"), Warned(status, pod.why), Same(status)}
    BY DEF daskRunning
  <2> HIDE DEF pod
  <2> QED
    BY <1>1, <1>2, <2>1, ClusterReasons
<1>4. \/ result = daskRunning(status, podList, replicaFailure) /\ dask.state = "Running"
      \/ result \in {Logged(LogFailed(status, "InvalidImageName")), Logged(LogFailed(status, pod.why)),
                     Logged(LogSucceeded(status)), Logged(LogStarting(status)),
                     Warned(status, "ClusterPending"), Warned(status, "HealthChecking"),
                     Warned(status, "CrashLoopBackOff"), Warned(status, pod.why), Same(status)}
  BY DEF reconcileDaskClusterStatus
<1>5. Runs(result)
  BY DEF Runs
<1> HIDE DEF pod, result
<1> QED
  BY <1>1, <1>2, <1>3, <1>4, <1>5, ClusterReasons

\* A copy with the stored version is running when what is stored is.
LEMMA CopyRuns ==
  ASSUME ClusterInv, "inst" \in current, pc # "write"
  PROVE  inst.status = op.status
BY DEF ClusterInv, CopyInv, Versions

(***************************************************************************)
(* The steps.                                                              *)
(***************************************************************************)
LEMMA EarlyRuns ==
  ASSUME ClusterInv, Kept, Fetch \/ AddStartTime \/ AddLogsFinalizer \/ AddStatusFinalizer \/ refetch
  PROVE  RunMove
<1>0. inst \in Op /\ opCache.status \in OperationStatusType
  BY DEF ClusterInv, CopyInv, CopyTypeOK, Op
<1>1. CASE Fetch
  <2>1. UNCHANGED <<elsewhere, pods, op, owned, found>>
    BY <1>1 DEF Fetch, FetchOp, cluster, worker
  <2>2. pc' # "write"
    BY <1>1, Dispatched DEF Fetch, FetchOp, worker
  <2> QED
    BY <2>1, <2>2, StayRuns
<1>2. CASE AddStartTime
  <2> DEFINE new == [inst EXCEPT !.status.start = TRUE]
  <2>1. new \in Op /\ new.status.last = inst.status.last
    BY <1>0 DEF Op, OperationStatusType
  <2>2. Write(new, Refetch("addStart")) /\ pc = "addStart" /\ UNCHANGED elsewhere
    BY <1>2 DEF AddStartTime
  <2>3. Refetch("addStart") => found' \in {found, Nothing} /\ pc' # "write"
    BY DEF Refetch
  <2> HIDE DEF new
  <2> QED
    BY <2>1, <2>2, <2>3, WriteRuns, CopyRuns DEF IsRunning
<1>3. ASSUME NEW label \in {"addLogs", "addStatus"}, NEW finalizer \in Finalizers,
             AddFinalizer(label, finalizer)
      PROVE  RunMove
  <2> DEFINE new == [inst EXCEPT !.fins = @ \cup {finalizer}]
  <2>1. new \in Op /\ new.status = inst.status
    BY <1>0 DEF Op
  <2>2. UNCHANGED elsewhere /\ pc # "write"
    BY <1>3 DEF AddFinalizer
  <2>3. CASE ReturnError /\ UNCHANGED cluster
    BY <2>2, <2>3, StayRuns DEF ReturnError, Forget, cluster
  <2>4. CASE Write(new, Refetch(label))
    <3>1. Refetch(label) => found' \in {found, Nothing} /\ pc' # "write"
      BY DEF Refetch
    <3> HIDE DEF new
    <3> QED
      BY <2>1, <2>2, <2>4, <3>1, WriteRuns, CopyRuns
  <2> QED
    BY <1>3, <2>3, <2>4 DEF AddFinalizer
<1>4. CASE refetch
  <2>1. UNCHANGED <<elsewhere, pods, op, owned>> /\ found' \in {found, Nothing} /\ pc = "refetch"
    BY <1>4 DEF refetch, cluster, ReturnError, Forget
  <2>2. NotYetRunning'
    <3>1. CASE ReturnError
      BY <3>1 DEF ReturnError, Forget, NotYetRunning
    <3>2. CASE then # "runtime" /\ pc' = After(then, opCache)
      <4>1. then \in {"addStart", "addLogs", "addStatus"}
        BY <2>1, <3>2 DEF ClusterInv, CopyInv, Thens, Reread
      <4>2. pc' # "write"
        BY <3>2, <4>1, Dispatched DEF After
      <4> QED
        BY <4>2 DEF NotYetRunning
    <3>3. CASE inst' = [opCache EXCEPT !.status = LogStarting(@)]
      <4>1. opCache \in Op /\ "OperatorController" \in Reasons
        BY OperatorReasons DEF ClusterInv, CopyInv, CopyTypeOK
      <4>2. inst'.status = LogStarting(opCache.status)
        BY <3>3, <4>1 DEF Op
      <4> QED
        BY <1>0, <4>1, <4>2, LastLogged DEF NotYetRunning
    <3> QED
      BY <1>4, <3>1, <3>2, <3>3 DEF refetch
  <2> QED
    BY <2>1, <2>2, PassRuns
<1>5. "logs" \in Finalizers /\ "status" \in Finalizers
  BY DEF Finalizers
<1> QED
  BY <1>1, <1>2, <1>3, <1>4, <1>5 DEF AddLogsFinalizer, AddStatusFinalizer

LEMMA LateRuns ==
  ASSUME ClusterInv, Kept, NotYetRunning,
         \/ handleFinalizersStop \/ collectLogs \/ removeFinalizer \/ handleTTL \/ delete
         \/ writeStatus \/ instanceSyncStatus
  PROVE  RunMove
<1>0. inst \in Op
  BY DEF ClusterInv, CopyInv, CopyTypeOK
<1>1. CASE handleFinalizersStop \/ collectLogs
  <2>1. UNCHANGED <<elsewhere, pods, op, owned>>
    BY <1>1 DEF handleFinalizersStop, ReportStopped, collectLogs, CollectHeld, cluster
  <2>2. pc' # "write" /\ found' \in {found, Nothing}
    BY <1>1 DEF handleFinalizersStop, ReportStopped, collectLogs, CollectHeld, AfterFinalizers, Goto,
                Return, Forget
  <2> QED
    BY <2>1, <2>2, StayRuns
<1>2. CASE removeFinalizer
  <2> DEFINE first == IF "logs" \in inst.fins THEN "logs" ELSE "status"
             new   == [inst EXCEPT !.fins = @ \ {first}]
             Go    == IF inst.life = "deleting" THEN Return ELSE inst' = op' /\ Goto("cleanup")
  <2>1. new \in Op /\ new.status = inst.status
    BY <1>0 DEF Op
  <2>2. Write(new, Go) /\ pc = "removeFinalizer" /\ UNCHANGED elsewhere
    BY <1>2 DEF removeFinalizer, ReleaseFinalizer
  <2>3. Go => found' \in {found, Nothing} /\ pc' # "write"
    BY DEF Return, Forget, Goto
  <2> HIDE DEF new, Go
  <2> QED
    BY <2>1, <2>2, <2>3, WriteRuns, CopyRuns
<1>3. CASE handleTTL
  <2>1. UNCHANGED elsewhere
    BY <1>3 DEF handleTTL, CleanUp
  <2>2. CASE Forget /\ UNCHANGED cluster
    BY <2>1, <2>2, StayRuns DEF Forget, cluster
  <2> QED
    BY <1>3, <2>1, <2>2, DeleteRuns DEF handleTTL, CleanUp, Return, ReturnError
<1>4. CASE delete
  BY <1>4, DeleteRuns DEF delete
<1>5. CASE writeStatus
  <2> DEFINE Go == inst' = op' /\ Goto("sync")
  <2>1. Write(inst, Go) /\ ~IsRunning(inst.status) /\ UNCHANGED elsewhere
    BY <1>5 DEF writeStatus, StoreStatus, NotYetRunning
  <2>2. Go => found' \in {found, Nothing} /\ pc' # "write"
    BY DEF Goto
  <2> HIDE DEF Go
  <2> QED
    BY <1>0, <2>1, <2>2, WriteRuns
<1>6. CASE instanceSyncStatus
  <2>1. UNCHANGED <<elsewhere, pods, op, owned>> /\ pc = "sync"
    BY <1>6 DEF instanceSyncStatus, ReportStatus, cluster
  <2>2. then # "write"
    BY <2>1 DEF ClusterInv, CopyInv, Thens, Reported
  <2>3. pc' # "write" /\ found' \in {found, Nothing}
    BY <1>6, <2>2 DEF instanceSyncStatus, ReportStatus, Goto, Return, ReturnError, Forget
  <2> QED
    BY <2>1, <2>3, StayRuns
<1> QED
  BY <1>1, <1>2, <1>3, <1>4, <1>5, <1>6

LEMMA RuntimeRuns ==
  ASSUME ClusterInv, Kept, reconcileRayCluster \/ reconcileDaskCluster \/ updateCluster
  PROVE  RunMove
<1>1. UNCHANGED elsewhere /\ inst.status \in OperationStatusType /\ inst \in Op
  BY DEF reconcileRayCluster, reconcileDaskCluster, updateCluster, ClusterInv, CopyInv, CopyTypeOK, Op
<1>2. ASSUME NEW ended, NEW deleted \in Reasons, reconcileCluster(ended, deleted)
      PROVE  RunMove
  <2>1. CASE found' = owned /\ pc' \in {"update", "checkStatus"} /\ UNCHANGED cluster
    BY <1>1, <2>1, StayRuns DEF cluster
  <2>2. CASE Forget /\ UNCHANGED cluster
    BY <1>1, <2>2, StayRuns DEF cluster, Forget
  <2>3. CASE WriteStatus(LogStopped(inst.status, deleted), "done")
    <3>1. /\ LogStopped(inst.status, deleted) \in OperationStatusType
          /\ ~IsRunning(LogStopped(inst.status, deleted))
      BY <1>1, LoggersAdd, LastLogged DEF Adds
    <3> QED
      BY <1>1, <2>3, <3>1, StatusRuns
  <2>4. CASE /\ ~owned.live
             /\ Create(NoClusterStatus,
                       pc' = "refetch" /\ then' = "runtime" /\ UNCHANGED <<inst, found, queued>>,
                       "OperatorCreateCluster")
    <3>1. UNCHANGED <<op, pods>>
      BY <2>4 DEF Create
    <3>2. CASE pc' = "refetch" /\ found' = found
      BY <1>1, <2>4, <3>1, <3>2, StayRuns
    <3>3. CASE CreateFailed("OperatorCreateCluster")
      <4>1. CASE Forget
        BY <1>1, <2>4, <3>1, <4>1, StayRuns DEF Forget
      <4>2. CASE Log(LogWarning(inst.status, "OperatorCreateCluster"), "error")
        <5>1. found' = found /\ inst'.status = LogWarning(inst.status, "OperatorCreateCluster")
          BY <1>1, <4>2 DEF Log, Op
        <5>2. NotYetRunning'
          BY <1>1, <5>1, LastLogged, ClusterReasons DEF NotYetRunning
        <5> QED
          BY <1>1, <2>4, <3>1, <5>1, <5>2, PassRuns
      <4> QED
        BY <3>3, <4>1, <4>2 DEF CreateFailed, ReturnError
    <3> QED
      BY <2>4, <3>2, <3>3 DEF Create
  <2> QED
    BY <1>2, <2>1, <2>2, <2>3, <2>4 DEF reconcileCluster, Return, ReturnError
<1>3. CASE updateCluster
  <2>1. UNCHANGED <<pods, op, owned>> /\ found' \in {found, Nothing} /\ pc' # "write"
    BY <1>3 DEF updateCluster, UpdateFound, cluster, Goto, ReturnError, Forget
  <2> QED
    BY <1>1, <2>1, StayRuns
<1> QED
  BY <1>2, <1>3, ClusterReasons DEF reconcileRayCluster, reconcileDaskCluster

LEMMA DeadlineRuns ==
  ASSUME ClusterInv, Kept, handlePastActiveDeadline, UNCHANGED elsewhere
  PROVE  RunMove
<1>1. inst.status \in OperationStatusType
  BY DEF ClusterInv, CopyInv, CopyTypeOK, Op
<1>2. CASE WriteStatus(LogStopped(inst.status, "DeadlineExceeded"), "delete")
  <2>1. /\ LogStopped(inst.status, "DeadlineExceeded") \in OperationStatusType
        /\ ~IsRunning(LogStopped(inst.status, "DeadlineExceeded"))
    BY <1>1, LoggersAdd, LastLogged, ClusterReasons DEF Adds
  <2> QED
    BY <1>2, <2>1, StatusRuns
<1>3. CASE Forget /\ UNCHANGED cluster
  BY <1>3, StayRuns DEF Forget, cluster
<1> QED
  BY <1>2, <1>3 DEF handlePastActiveDeadline, Return

\* The only step that marks the operation as running.
LEMMA CheckRuns == ASSUME ClusterInv, Kept, Served, checkStatus \/ checkDeadline PROVE RunMove
<1>1. CASE checkDeadline
  BY <1>1, DeadlineRuns DEF checkDeadline
<1>2. CASE checkStatus
  <2>1. PICK podList \in ListInstancePods(podCache) :
          LET result == reconcileStatus(inst.status, found, podList, shortCache)
          IN  IF result.write
              THEN WriteStatus(result.status, "deadline") /\ UNCHANGED timer
              ELSE handlePastActiveDeadline
    BY <1>2 DEF checkStatus
  <2> DEFINE result == reconcileStatus(inst.status, found, podList, shortCache)
  <2>2. UNCHANGED elsewhere /\ inst.status \in OperationStatusType /\ podCache \in Seq(PodStages)
    BY <1>2 DEF checkStatus, ClusterInv, CopyInv, CopyTypeOK, Op, PassInv, CountsOK
  <2>3. CASE ~result.write
    BY <2>1, <2>2, <2>3, DeadlineRuns
  <2>4. CASE result.write
    <3>1. WriteStatus(result.status, "deadline") /\ result.status \in OperationStatusType
      BY <2>1, <2>2, <2>4, StatusResult
    <3>2. ASSUME Undisturbed, Kind = "DaskCluster", IsRunning(result.status)
          PROVE  HeadRuns /\ HasRun(owned)
      <4>1. result = reconcileDaskClusterStatus(inst.status, ClusterStatus(found), podList, shortCache)
        BY <3>2 DEF reconcileStatus
      <4>2. ClusterStatus(found).state = "Running" /\ isDaskSchedulerRunning(podList)
        BY <2>2, <2>4, <3>2, <4>1, DaskRuns
      <4>3. podCache # <<>> /\ podCache[1] = "Running"
        BY <2>1, <2>2, <4>2, SchedulerListed
      <4>4. HasRun(found)
        BY <4>2 DEF ClusterStatus, NoClusterStatus, HasRun
      <4> QED
        BY <3>2, <4>3, <4>4 DEF Served
    <3> HIDE DEF result
    <3> QED
      BY <2>2, <3>1, <3>2, StatusRuns
  <2> QED
    BY <2>3, <2>4
<1> QED
  BY <1>1, <1>2

\* The watches, the clock and the user.
LEMMA WatchRuns ==
  ASSUME ClusterInv, Kept, NotYetRunning,
         \/ Watch \/ Replay \/ Requeue \/ Restart \/ UserStops
         \/ Expire \/ DeadlinePasses \/ QuotaChanges \/ UNCHANGED vars
  PROVE  RunMove
<1>1. /\ UNCHANGED <<setup, owned, pods, removals>> /\ op'.status = op.status
      /\ podCache' \in {podCache, pods} /\ found' \in {found, Nothing}
      /\ pc' = "idle" \/ UNCHANGED <<pc, inst>>
  <2>1. CASE UserStops
    <3>1. DeleteOp /\ UNCHANGED <<elsewhere, worker>>
      BY <2>1 DEF UserStops, UserDeletes
    <3> QED
      BY <3>1, DeleteCopies DEF elsewhere, caches, worker, ClusterInv
  <2>2. CASE Watch \/ Replay \/ Requeue \/ Restart
    BY <2>2 DEF Watch, WatchCluster, WatchRuntime, mapClusterPodToRequest, mapClusterDeploymentToRequest,
         WatchOp, NotifyOwned, WatchPods, Replay, Resync, Requeue, RequeueAfter, Restart, Crash, Forget,
         outside, cluster, elsewhere, caches, worker
  <2>3. CASE Expire \/ DeadlinePasses \/ QuotaChanges \/ UNCHANGED vars
    BY <2>3 DEF Expire, TTLPasses, DeadlinePasses, QuotaChanges, vars, kubeVars, cluster, elsewhere, caches,
         worker
  <2> QED
    BY <2>1, <2>2, <2>3
<1>2. NotYetRunning'
  BY <1>1 DEF NotYetRunning
<1>3. Undisturbed' => Undisturbed
  BY <1>1 DEF Undisturbed, Kept, StoredMove
<1> QED
  BY <1>1, <1>2, <1>3 DEF RunMove, HeadRuns, HasRun, IsRunning

\* The cluster and its pods go through their phases.
LEMMA WorldRuns ==
  ASSUME ClusterInv, NotYetRunning,
         RayReports \/ DaskReports \/ PodMoves \/ PodStarts \/ ClusterDeleted \/ Collected
  PROVE  RunMove
<1>0. removals \in Nat /\ pods \in Seq(PodStages)
  BY DEF ClusterInv, PassInv, CountsOK
<1>1. UNCHANGED operator
  BY DEF RayReports, DaskReports, Reports, OwnedReports, PodMoves, PodStarts, ClusterDeleted, Collected,
         OwnedDeleted, OwnedCollected, DropOwned
<1>2. UNCHANGED <<setup, op, podCache, pc, inst, found>> /\ NotYetRunning'
  BY <1>1 DEF operator, caches, worker, NotYetRunning
<1>3. SUFFICES ASSUME Undisturbed' => Undisturbed
                          /\ (Kind = "DaskCluster" => (HeadRuns => HeadRuns') /\ (HasRun(owned) => HasRun(owned)'))
               PROVE  RunMove
  <2>1. CASE ClusterDeleted \/ Collected
    <3>1. removals' > 0 \/ op'.life = "gone"
      BY <1>0, <1>2, <2>1 DEF ClusterDeleted, Collected, OwnedDeleted, OwnedCollected
    <3>2. ~Undisturbed'
      BY <3>1 DEF Undisturbed
    <3> QED
      BY <3>2
  <2>2. CASE RayReports \/ DaskReports
    <3>1. PICK status : /\ Reports(status)
                        /\ Kind = "DaskCluster" /\ HasRun(owned) =>
                             status.state \in {"Successful", "CrashLoopBackOff", "Error"}
      <4>1. CASE RayReports
        BY <4>1 DEF RayReports
      <4>2. CASE DaskReports
        <5>1. PICK p : /\ Reports(DaskPhase(p))
                       /\ HasRun(owned) => p \in {"Successful", "CrashLoopBackOff", "Error"}
          BY <4>2 DEF DaskReports, HasRun
        <5> QED
          BY <5>1 DEF DaskPhase
      <4> QED
        BY <2>2, <4>1, <4>2
    <3>2. owned' = Live(status) /\ pods' = pods /\ removals' = removals
      BY <3>1 DEF Reports, OwnedReports
    <3> QED
      BY <1>2, <3>1, <3>2 DEF Undisturbed, HeadRuns, HasRun, Live
  <2>3. CASE PodMoves
    <3>1. PICK i \in DOMAIN pods : pods[i] # "Running" /\ \E at : pods' = [pods EXCEPT ![i] = at]
      BY <2>3 DEF PodMoves
    <3>2. HeadRuns => HeadRuns'
      BY <1>0, <3>1 DEF HeadRuns
    <3> QED
      BY <1>2, <2>3, <3>2 DEF PodMoves, Undisturbed, HasRun
  <2>4. CASE PodStarts
    <3>1. HeadRuns => HeadRuns'
      BY <1>0, <2>4 DEF PodStarts, HeadRuns
    <3> QED
      BY <1>2, <2>4, <3>1 DEF PodStarts, Undisturbed, HasRun
  <2> QED
    BY <2>1, <2>2, <2>3, <2>4
<1> QED
  BY <1>2, <1>3 DEF RunMove

LEMMA NextRuns == ASSUME ClusterInv, RunInv, [Next]_vars PROVE RunInv'
<1>1. Kept /\ Served /\ NotYetRunning
  BY NextKeeps DEF RunInv
<1>2. CASE Reconcile
  BY <1>1, <1>2, EarlyRuns, LateRuns, RuntimeRuns, CheckRuns, RunMoveKeeps DEF Reconcile
<1>3. CASE Watch \/ Replay \/ Requeue \/ Restart \/ UNCHANGED vars
  BY <1>1, <1>3, WatchRuns, RunMoveKeeps
<1>4. CASE World
  BY <1>1, <1>4, WatchRuns, WorldRuns, RunMoveKeeps DEF World
<1> QED
  BY <1>2, <1>3, <1>4 DEF Next

\* A cluster that has run and lacks its quota is one there is a status to record of.
LEMMA ShortIsWarned ==
  ASSUME Judged, Kind = "DaskCluster", Enabled, op.status \in OperationStatusType, IsRunning(op.status),
         HasRun(owned)
  PROVE  ~shortCache
<1>1. PICK podList \in ListInstancePods(podCache) :
        reconcileDaskClusterStatus(op.status, owned.status, podList, shortCache).status = op.status
  BY DEF Judged, HasRun, reconcileStatus, ClusterStatus
<1> DEFINE pod == HasUnschedulablePods(podList)
           result == reconcileDaskClusterStatus(op.status, owned.status, podList, TRUE)
<1>2. SUFFICES ASSUME shortCache = TRUE PROVE FALSE
  OBVIOUS
<1>3. pod.why \in Reasons
  BY VerdictReason
<1>4. \A why \in Reasons :
         /\ ~IsRunning(Warned(op.status, why).status)
         /\ ~IsRunning(Logged(LogSucceeded(op.status)).status)
         /\ ~IsRunning(Logged(LogFailed(op.status, why)).status)
  <2> SUFFICES ASSUME NEW why \in Reasons
               PROVE  /\ ~IsRunning(Warned(op.status, why).status)
                      /\ ~IsRunning(Logged(LogSucceeded(op.status)).status)
                      /\ ~IsRunning(Logged(LogFailed(op.status, why)).status)
    OBVIOUS
  <2>1. IsUpdated(op.status, "Warning", why)
    BY DEF IsRunning, IsUpdated, getOrUpdateOperationCondition, NewOperationCondition
  <2> QED
    BY <2>1, LastLogged DEF Warned, Logged
<1>5. result \in {Logged(LogFailed(op.status, "InvalidImageName")), Logged(LogFailed(op.status, pod.why)),
                  Logged(LogSucceeded(op.status)), Warned(op.status, "ReplicaFailure"),
                  Warned(op.status, "CrashLoopBackOff")}
  BY DEF reconcileDaskClusterStatus, daskRunning, HasRun
<1>6. result.status = op.status
  BY <1>1, <1>2
<1> HIDE DEF pod, result
<1> QED
  BY <1>3, <1>4, <1>5, <1>6, ClusterReasons

\* A Dask cluster that is shown as running has a scheduler that runs and all its pods,
\* when the controller has nothing left to do and nobody else deleted the cluster.
THEOREM RunningMeansServingHolds == Spec => []RunningMeansServing
<1>1. Init => RunInv
  <2>1. Init => /\ podCache = <<>> /\ found = Nothing /\ pc = "idle" /\ op.status = NewStatus
    BY DEF Init, KubeInit, NewOp
  <2>2. ~IsRunning(NewStatus) /\ ~HasRun(Nothing)
    BY DEF IsRunning, NewStatus, NoCondition, HasRun, Nothing
  <2> QED
    BY <2>1, <2>2 DEF RunInv, Served, NotYetRunning
<1>2. ClusterInv /\ RunInv /\ [Next]_vars => RunInv'
  BY NextRuns
<1>3. ClusterInv /\ WakeInv /\ RunInv => RunningMeansServing
  <2> SUFFICES ASSUME ClusterInv, WakeInv, RunInv, Rested, removals = 0, op.life = "live",
                      Kind = "DaskCluster", IsRunning(op.status)
               PROVE  HeadRuns /\ (Enabled => ~short)
    BY DEF RunningMeansServing
  <2>1. HeadRuns /\ HasRun(owned)
    BY DEF RunInv, Served, Undisturbed
  <2>2. Delivered /\ pc = "idle" /\ shortCache = short
    BY DEF Rested, Settled, Delivered
  <2>3. ~IsDone(op.status)
    <3>1. IsDone(op.status) => "Running" \in Outcomes(op.status)
      BY DEF ClusterInv, PassInv, Recorded, OneEnd, IsRunning
    <3> QED
      BY <3>1 DEF Outcomes, FinalTypes
  <2>4. Judged
    BY <2>2, <2>3 DEF WakeInv, Account, Calm
  <2>5. op.status \in OperationStatusType
    BY DEF ClusterInv, CopyInv, CopyTypeOK, Op
  <2> QED
    BY <2>1, <2>2, <2>4, <2>5, ShortIsWarned
<1> QED
  BY <1>1, <1>2, <1>3, WakeInvariance, PTL DEF Spec
=============================================================================
