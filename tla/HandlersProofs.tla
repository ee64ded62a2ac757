--------------------------- MODULE HandlersProofs ---------------------------
(***************************************************************************)
(* Lemmas about Kube and Handlers that hold for every setup: what each     *)
(* step does to the stored operation and to the copies of it, and the      *)
(* invariant that follows.  The theorems about KfJobController and         *)
(* ServiceController rest on them.  (ClusterController reads its copy      *)
(* again in the middle of a pass and keeps less.)                          *)
(***************************************************************************)
EXTENDS Handlers, TLAPS

Op == [life : {"live", "deleting", "gone"}, fins : SUBSET Finalizers,
       status : OperationStatusType]

(***************************************************************************)
(* The invariant.                                                          *)
(***************************************************************************)
\* The labels of a pass over an unfinished operation, and those that an
\* operation which was ended by this pass may also come to.
Early == {"addLogs", "addStatus", "runtime", "update", "checkStatus"}

Later == {"service", "deadline", "write"}

Ending == {"syncStopped", "collect", "removeFinalizer", "cleanup"}

\* Where a report may lead.
Nexts == {"done", "error", "requeue", "checkStatus", "service", "deadline", "delete"}

SharedTypeOK ==
  /\ op \in Op /\ opCache \in Op /\ inst \in Op
  /\ then \in Nexts /\ collected \in BOOLEAN /\ reported \subseteq FinalTypes

\* One outcome, and a final condition that is the last of its list is on the list.
OneListed(status) ==
  /\ \A s, t \in Outcomes(status) : s = t
  /\ status.last.type \in FinalTypes => status.last.type \in status.has

Statuses == OneListed(op.status) /\ OneListed(opCache.status) /\ OneListed(inst.status)

\* What a copy with the stored resource version says of the stored resource.
CopiesCurrent ==
  /\ "opCache" \in current => opCache = op
  /\ "inst" \in current =>
       /\ pc # "idle"
       /\ inst.life = op.life /\ inst.fins = op.fins
       /\ Outcomes(inst.status) = Outcomes(op.status)

\* What a copy of any age says of it.
Older(copy) ==
  /\ copy.life # "live" => op.life # "live"
  /\ copy.life # "live" /\ ~IsDone(copy.status) => ~IsDone(op.status)
  /\ IsDone(copy.status) => Outcomes(copy.status) = Outcomes(op.status)

CopiesOlder == Older(opCache) /\ Older(inst)

Lives ==
  /\ inst.life # "gone"
  /\ op.life = "deleting" => op.fins # {}

\* What the controller has established about its copy at each label.
Phases ==
  /\ \/ pc \in Early \cup Later
     \/ pc = "sync" /\ then \in Early \cup Later
     => inst.life = "live"
  /\ \/ pc \in Early
     \/ pc \in {"write", "sync"} /\ then \in Early
     => ~IsDone(inst.status)
  /\ pc \in Ending => inst.life = "deleting" \/ IsDone(inst.status)
  /\ pc = "cleanup" => inst.life = "live"
  /\ pc = "removeFinalizer" /\ "logs" \in inst.fins => collected
  /\ pc = "syncStopped" => inst.life = "deleting" /\ ~IsDone(inst.status)

\* What the control plane has heard of the end.
HeardOutcome ==
  \A t \in reported :
     IF IsDone(op.status) THEN t \in op.status.has
     ELSE op.life # "live" /\ t = "Stopped"

SharedInv ==
  /\ SharedTypeOK /\ Statuses /\ CopiesCurrent /\ CopiesOlder /\ Lives /\ Phases
  /\ HeardOutcome

(***************************************************************************)
(* How a step moves the stored operation, the copies and the reports.      *)
(***************************************************************************)
\* It logs, finishes, gains a finalizer, loses one, or is asked to go.
OpMove ==
  /\ op' \in Op /\ OneListed(op'.status)
  /\ \/ op' = op
     \/ /\ op.life # "gone" /\ op'.life = op.life /\ op'.fins = op.fins
        /\ \/ Outcomes(op'.status) = Outcomes(op.status)
           \/ op.life = "live" /\ ~IsDone(op.status)
     \/ /\ op.life = "live" /\ ~IsDone(op.status) /\ op.fins \subseteq op'.fins
        /\ op'.life = op.life /\ Outcomes(op'.status) = Outcomes(op.status)
     \/ /\ op.life = "deleting" \/ (op.life = "live" /\ IsDone(op.status))
        /\ op'.fins \subseteq op.fins
        /\ "logs" \in op.fins => "logs" \in op'.fins \/ collected
        /\ op'.life = IF op.life = "deleting" /\ op'.fins = {} THEN "gone" ELSE op.life
        /\ Outcomes(op'.status) = Outcomes(op.status)
     \/ /\ op.life # "gone"
        /\ op'.life = IF op.fins = {} THEN "gone" ELSE "deleting"
        /\ op'.fins = op.fins /\ op'.status = op.status

\* The cache keeps its copy or takes the stored operation.
CacheMove ==
  /\ opCache' = opCache \/ (opCache' = op /\ op' = op)
  /\ "opCache" \in current' => opCache' = op' /\ op' = op

\* The controller forgets its copy, takes the cached one, takes the answer of a
\* write, or keeps it up to conditions that are not final.
InstMove ==
  /\ "inst" \in current' => pc' # "idle"
  /\ \/ inst' = NewOp /\ "inst" \notin current'
     \/ /\ inst' = opCache /\ op' = op /\ opCache.life # "gone"
        /\ "inst" \in current' => "opCache" \in current
     \/ inst' = op' /\ op'.life # "gone"
     \/ /\ inst' \in Op /\ inst'.life = inst.life /\ inst'.fins = inst.fins
        /\ Outcomes(inst'.status) = Outcomes(inst.status) /\ OneListed(inst'.status)
        /\ "inst" \in current' => "inst" \in current /\ op' = op

\* A report leaves the stored operation alone and is of the last condition of the
\* controller's copy, or of Stopped.
ReportMove ==
  \/ reported' = reported
  \/ /\ op' = op
     /\ \/ pc = "sync" /\ reported' = reported \cup ({inst.status.last.type} \cap FinalTypes)
        \/ pc = "syncStopped" /\ reported' = reported \cup {"Stopped"}

\* Logs are collected one way, in a step that stores nothing.
CollectMove == collected' = collected \/ (collected' = TRUE /\ op' = op)

Move ==
  /\ OpMove /\ CacheMove /\ InstMove /\ ReportMove /\ CollectMove
  /\ then' \in Nexts /\ Phases'

(***************************************************************************)
(* A move keeps the invariant.                                             *)
(***************************************************************************)
\* An operation is done if it has an outcome.
LEMMA DoneOutcomes == \A status : IsDone(status) <=> Outcomes(status) # {}
BY DEF IsDone, Outcomes

\* A deletion request is never taken back, an outcome never changes, and none is
\* recorded once a deletion has been asked for.
LEMMA OpMoves ==
  ASSUME SharedInv, OpMove
  PROVE  /\ op.life # "live" => op'.life # "live"
         /\ op.life = "gone" => op' = op
         /\ IsDone(op.status) => Outcomes(op'.status) = Outcomes(op.status)
         /\ Outcomes(op'.status) # Outcomes(op.status) => op.life = "live" /\ op'.life = "live"
         /\ op'.life = "deleting" => op'.fins # {}
<1>1. op \in Op /\ (op.life = "deleting" => op.fins # {})
  BY DEF SharedInv, SharedTypeOK, Lives
<1>2. op.life \in {"live", "deleting", "gone"}
  BY <1>1 DEF Op
<1> QED
  BY <1>1, <1>2 DEF OpMove

\* The operation never falls behind a copy of it.
LEMMA OlderStays ==
  ASSUME SharedInv, OpMove, NEW copy, Older(copy)
  PROVE  /\ copy.life # "live" => op'.life # "live"
         /\ copy.life # "live" /\ ~IsDone(copy.status) => ~IsDone(op'.status)
         /\ IsDone(copy.status) => Outcomes(copy.status) = Outcomes(op'.status)
BY OpMoves, DoneOutcomes DEF Older

\* A new operation has no outcome and no condition.
LEMMA NewOpFacts ==
  /\ NewOp \in Op /\ NewOp.life = "live" /\ NewOp.fins = {} /\ NewOp.status = NewStatus
  /\ Outcomes(NewOp.status) = {} /\ ~IsDone(NewOp.status) /\ OneListed(NewOp.status)
<1>1. NewStatus \in OperationStatusType
  BY DEF NewStatus, OperationStatusType, NoCondition
<1>2. NewOp \in Op /\ NewOp.life = "live" /\ NewOp.fins = {} /\ NewOp.status = NewStatus
  BY <1>1 DEF NewOp, Op
<1>3. NewStatus.has = {} /\ NewStatus.last.type = "None"
  BY DEF NewStatus, NoCondition
<1> QED
  BY <1>2, <1>3 DEF Outcomes, IsDone, OneListed, FinalTypes

\* Every move keeps the invariant.
LEMMA MoveKeeps ==
  ASSUME SharedInv, Move
  PROVE  SharedInv'
<1>1. OpMove /\ CacheMove /\ InstMove /\ ReportMove /\ CollectMove /\ then' \in Nexts /\ Phases'
  BY DEF Move
<1>2. /\ op \in Op /\ opCache \in Op /\ inst \in Op /\ collected \in BOOLEAN
      /\ reported \subseteq FinalTypes
  BY DEF SharedInv, SharedTypeOK
<1>3. Statuses /\ CopiesCurrent /\ CopiesOlder /\ Lives /\ HeardOutcome
  BY DEF SharedInv
<1>4. SharedTypeOK'
  <2>1. op' \in Op
    BY <1>1 DEF OpMove
  <2>2. opCache' \in Op
    BY <1>1, <1>2 DEF CacheMove
  <2>3. inst' \in Op
    BY <1>1, <1>2, <2>1, NewOpFacts DEF InstMove
  <2>4. collected' \in BOOLEAN
    BY <1>1, <1>2 DEF CollectMove
  <2>5. reported' \subseteq FinalTypes
    BY <1>1, <1>2 DEF ReportMove, FinalTypes
  <2> QED
    BY <1>1, <2>1, <2>2, <2>3, <2>4, <2>5 DEF SharedTypeOK
<1>5. Statuses'
  BY <1>1, <1>3, NewOpFacts DEF Statuses, OpMove, CacheMove, InstMove
<1>6. CopiesCurrent'
  <2>1. "opCache" \in current' => opCache' = op'
    BY <1>1 DEF CacheMove
  <2>2. ASSUME "inst" \in current'
        PROVE  /\ pc' # "idle" /\ inst'.life = op'.life /\ inst'.fins = op'.fins
               /\ Outcomes(inst'.status) = Outcomes(op'.status)
    BY <1>1, <1>3, <2>2 DEF InstMove, CopiesCurrent
  <2> QED
    BY <2>1, <2>2 DEF CopiesCurrent
<1>7. CopiesOlder'
  <2>1. Older(op)'
    BY DEF Older
  <2>2. Older(opCache)'
    <3>1. CASE opCache' = opCache
      BY <1>1, <1>3, <3>1, OlderStays DEF CopiesOlder, Older
    <3>2. CASE opCache' = op /\ op' = op
      BY <3>2 DEF Older
    <3> QED
      BY <1>1, <3>1, <3>2 DEF CacheMove
  <2>3. CASE inst' = NewOp
    BY <2>2, <2>3, NewOpFacts DEF CopiesOlder, Older
  <2>4. CASE inst' = opCache /\ op' = op
    BY <1>3, <2>2, <2>4 DEF CopiesOlder, Older
  <2>5. CASE inst' = op'
    BY <2>1, <2>2, <2>5 DEF CopiesOlder, Older
  <2>6. CASE inst'.life = inst.life /\ Outcomes(inst'.status) = Outcomes(inst.status)
    <3>1. Older(inst)'
      BY <1>1, <1>3, <2>6, OlderStays, DoneOutcomes DEF CopiesOlder, Older
    <3> QED
      BY <2>2, <3>1 DEF CopiesOlder
  <2> QED
    BY <1>1, <2>3, <2>4, <2>5, <2>6 DEF InstMove
<1>8. Lives'
  <2>1. op'.life = "deleting" => op'.fins # {}
    BY <1>1, OpMoves
  <2>2. inst'.life # "gone"
    BY <1>1, <1>3, NewOpFacts DEF InstMove, Lives
  <2> QED
    BY <2>1, <2>2 DEF Lives
<1>9. HeardOutcome'
  <2>1. \A status : \A t \in FinalTypes : t \in Outcomes(status) <=> t \in status.has
    BY DEF Outcomes
  <2>2. CASE reported' = reported
    BY <1>1, <1>2, <1>3, <2>1, <2>2, OpMoves, DoneOutcomes DEF HeardOutcome
  <2>3. CASE op' = op /\ pc = "sync" /\ reported' = reported \cup ({inst.status.last.type} \cap FinalTypes)
    <3>1. inst.status.last.type \in FinalTypes => inst.status.last.type \in Outcomes(op.status)
      BY <1>3, <2>1, DoneOutcomes DEF Statuses, OneListed, CopiesOlder, Older
    <3> QED
      BY <1>3, <2>1, <2>3, <3>1, DoneOutcomes DEF HeardOutcome
  <2>4. CASE op' = op /\ pc = "syncStopped" /\ reported' = reported \cup {"Stopped"}
    <3>1. ~IsDone(op.status) /\ op.life # "live"
      BY <1>3, <2>4 DEF SharedInv, Phases, CopiesOlder, Older
    <3> QED
      BY <1>3, <2>4, <3>1 DEF HeardOutcome
  <2> QED
    BY <1>1, <2>2, <2>3, <2>4 DEF ReportMove
<1> QED
  BY <1>1, <1>4, <1>5, <1>6, <1>7, <1>8, <1>9 DEF SharedInv

(***************************************************************************)
(* A move is a step of OperationLifecycle or a stutter.                    *)
(***************************************************************************)
\* The outcome of an operation is none until it is done.
LEMMA OutcomeValue ==
  /\ ~IsDone(op.status) => Outcome = "none"
  /\ IsDone(op.status) => Outcome \in FinalTypes /\ Outcome # "none"
BY DEF Outcome, Outcomes, IsDone, FinalTypes

\* The same after a step.
LEMMA OutcomeNext ==
  /\ ~IsDone(op'.status) => Outcome' = "none"
  /\ IsDone(op'.status) => Outcome' \in FinalTypes
BY DEF Outcome, Outcomes, IsDone, FinalTypes

\* Operations with the same outcomes have the same outcome.
LEMMA SameOutcome == Outcomes(op'.status) = Outcomes(op.status) => Outcome' = Outcome
BY DoneOutcomes DEF Outcome

LifecycleStep == [Abstract!LifecycleNext]_(Abstract!abstractVars)

\* What a controller stores and collects, it does as OperationLifecycle promises.
LEMMA Simulates ==
  ASSUME SharedInv, Move
  PROVE  LifecycleStep
<1>1. /\ OpMove /\ (collected' = collected \/ (collected' = TRUE /\ op' = op))
      /\ op \in Op /\ collected \in BOOLEAN
  BY DEF Move, CollectMove, SharedInv, SharedTypeOK
<1>2. op.life \in {"live", "deleting", "gone"} /\ (op.life = "deleting" => op.fins # {})
  BY <1>1 DEF Op, SharedInv, Lives
<1>3. CASE op' = op
  <2>1. Outcome' = Outcome
    BY <1>3, SameOutcome
  <2>2. CASE collected' = collected
    BY <1>3, <2>1, <2>2 DEF LifecycleStep, Abstract!abstractVars
  <2>3. CASE collected' = TRUE /\ ~collected
    BY <1>3, <2>1, <2>3 DEF LifecycleStep, Abstract!LifecycleNext, Abstract!Collect
  <2> QED
    BY <1>1, <2>2, <2>3, Zenon
<1>4. ASSUME op' # op, op'.life = op.life, ("logs" \in op'.fins) = ("logs" \in op.fins),
             Outcomes(op'.status) = Outcomes(op.status)
      PROVE  LifecycleStep
  <2>1. Outcome' = Outcome /\ collected' = collected
    BY <1>1, <1>4, SameOutcome
  <2> QED
    BY <1>4, <2>1 DEF LifecycleStep, Abstract!abstractVars
<1>5. CASE op' # op /\ op.life = "live" /\ ~IsDone(op.status) /\ op'.life = op.life
           /\ op'.fins = op.fins /\ Outcomes(op'.status) # Outcomes(op.status)
  <2>1. IsDone(op'.status)
    BY <1>5, DoneOutcomes
  <2>2. Outcome = "none" /\ Outcome' \in FinalTypes /\ collected' = collected
    BY <1>1, <1>5, <2>1, OutcomeValue, OutcomeNext
  <2> QED
    BY <1>5, <2>2 DEF LifecycleStep, Abstract!LifecycleNext, Abstract!Finish, FinalTypes
<1>6. CASE op' # op /\ op.life = "live" /\ ~IsDone(op.status) /\ op.fins \subseteq op'.fins
           /\ op'.life = op.life /\ Outcomes(op'.status) = Outcomes(op.status)
  <2>1. Outcome = "none" /\ Outcome' = Outcome /\ collected' = collected
    BY <1>1, <1>6, OutcomeValue, SameOutcome
  <2>2. CASE "logs" \in op'.fins /\ "logs" \notin op.fins
    BY <1>6, <2>1, <2>2 DEF LifecycleStep, Abstract!LifecycleNext, Abstract!Hold
  <2> QED
    BY <1>4, <1>6, <2>2
<1>7. CASE /\ op' # op
           /\ op.life = "deleting" \/ (op.life = "live" /\ IsDone(op.status))
           /\ op'.fins \subseteq op.fins
           /\ "logs" \in op.fins => "logs" \in op'.fins \/ collected
           /\ op'.life = IF op.life = "deleting" /\ op'.fins = {} THEN "gone" ELSE op.life
           /\ Outcomes(op'.status) = Outcomes(op.status)
  <2>1. Outcome' = Outcome /\ collected' = collected
    BY <1>1, <1>7, SameOutcome
  <2>2. CASE "logs" \in op.fins /\ "logs" \notin op'.fins
    <3>1. Outcome # "none" \/ op.life = "deleting"
      BY <1>7, OutcomeValue
    <3>2. op'.life = op.life \/ (op.life = "deleting" /\ op'.life = "gone")
      BY <1>7
    <3>3. collected /\ ("logs" \in op'.fins) = FALSE
      BY <1>7, <2>2
    <3> QED
      BY <2>1, <2>2, <3>1, <3>2, <3>3
         DEF LifecycleStep, Abstract!LifecycleNext, Abstract!Release
  <2>3. CASE ("logs" \in op'.fins) = ("logs" \in op.fins) /\ op'.life # op.life
    <3>1. op.life # "gone" /\ op'.life = "gone" /\ "logs" \notin op.fins
      BY <1>7, <2>3
    <3> QED
      BY <2>1, <2>3, <3>1 DEF LifecycleStep, Abstract!LifecycleNext, Abstract!Remove
  <2> QED
    BY <1>4, <1>7, <2>2, <2>3
<1>8. CASE /\ op' # op /\ op.life # "gone"
           /\ op'.life = IF op.fins = {} THEN "gone" ELSE "deleting"
           /\ op'.fins = op.fins /\ op'.status = op.status
  <2>1. Outcome' = Outcome /\ collected' = collected /\ ("logs" \in op'.fins) = ("logs" \in op.fins)
    BY <1>1, <1>8, SameOutcome
  <2>2. CASE op.fins = {}
    BY <1>8, <2>1, <2>2 DEF LifecycleStep, Abstract!LifecycleNext, Abstract!Remove
  <2>3. CASE op.fins # {} /\ op.life = "live"
    BY <1>8, <2>1, <2>3 DEF LifecycleStep, Abstract!LifecycleNext, Abstract!RequestDeletion
  <2>4. CASE op.fins # {} /\ op.life = "deleting"
    BY <1>4, <1>8, <2>1, <2>4
  <2> QED
    BY <1>2, <1>8, <2>2, <2>3, <2>4
<1> QED
  BY <1>1, <1>3, <1>4, <1>5, <1>6, <1>7, <1>8 DEF OpMove

(***************************************************************************)
(* The shapes of a step.                                                   *)
(***************************************************************************)
\* The copies that stay current after a step of the controller.
LEMMA KeepFacts ==
  ASSUME NEW copies, Keep(copies)
  PROVE  /\ \A x \in current' : x \in copies
         /\ pc' = "idle" => "inst" \notin current'
         /\ pc' # "idle" => current' = copies
BY DEF Keep

\* Nothing is known of the copy of an idle controller.
LEMMA IdlePhases == pc' = "idle" => Phases'
BY DEF Phases, Early, Later, Ending

\* A step that leaves the cache alone, and its version too if it stores nothing.
LEMMA CacheStays ==
  ASSUME SharedInv, opCache' = opCache, "opCache" \in current' => "opCache" \in current /\ op' = op
  PROVE  CacheMove
BY DEF CacheMove, SharedInv, CopiesCurrent

\* A step that leaves the stored operation alone.
LEMMA OpStays == ASSUME SharedInv, op' = op PROVE OpMove
BY DEF OpMove, SharedInv, SharedTypeOK, Statuses

\* A step of the world, of a watch or of the clock.
LEMMA AsideMoves ==
  ASSUME SharedInv, UNCHANGED <<op, opCache, pc, inst, then, reported, collected>>,
         \A x \in {"opCache", "inst"} : x \in current' => x \in current
  PROVE  Move
<1>1. OpMove /\ CacheMove
  BY OpStays, CacheStays
<1>2. InstMove
  BY DEF InstMove, SharedInv, SharedTypeOK, Statuses, CopiesCurrent
<1>3. Phases' /\ then' \in Nexts
  BY DEF SharedInv, SharedTypeOK, Phases
<1> QED
  BY <1>1, <1>2, <1>3 DEF Move, ReportMove, CollectMove

\* A pass that ends, whatever it stored last.
LEMMA EndMoves ==
  ASSUME SharedInv, Forget, OpMove, ReportMove, CollectMove, opCache' = opCache,
         "inst" \notin current', "opCache" \in current' => "opCache" \in current /\ op' = op
  PROVE  Move
<1>1. CacheMove /\ Phases' /\ inst' = NewOp /\ then' \in Nexts
  BY CacheStays, IdlePhases DEF Forget, Nexts
<1> QED
  BY <1>1 DEF Move, InstMove

\* A pass that ends without storing anything.
LEMMA QuietEndMoves ==
  ASSUME SharedInv, Forget, Keep(current), op' = op, opCache' = opCache, ReportMove, CollectMove
  PROVE  Move
<1>1. \A x \in current' : x \in current
  BY KeepFacts
<1>2. "inst" \notin current'
  BY KeepFacts DEF Forget
<1> QED
  BY <1>1, <1>2, OpStays, EndMoves

\* A pass that goes on without storing anything, with its copy.
LEMMA GoMoves ==
  ASSUME SharedInv, pc # "idle", pc' # "idle", inst' = inst, op' = op, opCache' = opCache,
         then' \in Nexts,
         \A x \in {"opCache", "inst"} : x \in current' => x \in current,
         ReportMove, CollectMove, Phases'
  PROVE  Move
<1>1. OpMove /\ CacheMove
  BY OpStays, CacheStays
<1>2. InstMove
  BY DEF InstMove, SharedInv, SharedTypeOK, Statuses
<1> QED
  BY <1>1, <1>2 DEF Move

\* What a put stores.
LEMMA PutStores ==
  ASSUME NEW new \in Op, Put(new)
  PROVE  /\ op'.fins = new.fins /\ op'.status = new.status /\ op' \in Op
         /\ op'.life = IF new.life = "deleting" /\ new.fins = {} THEN "gone" ELSE new.life
         /\ new.life # "deleting" \/ new.fins # {} => op' = new
BY DEF Put, Op

\* A write of the controller that, when it is accepted, stores what may be stored,
\* and after which the pass ends or goes on with the answer.
LEMMA WriteMoves ==
  ASSUME SharedInv, NEW new \in Op, NEW ACTION After, Write(new, After),
         opCache' = opCache, reported' = reported, collected' = collected,
         Put(new) /\ op.life # "gone" /\ "inst" \in current => OpMove,
         Put(new) /\ op.life # "gone" /\ "inst" \in current /\ After =>
           \/ Forget
           \/ inst' = op' /\ op'.life # "gone" /\ pc' # "idle" /\ then' \in Nexts /\ Phases'
  PROVE  Move
<1>1. ReportMove /\ CollectMove
  BY DEF ReportMove, CollectMove
<1>2. CASE Current /\ Put(new) /\ After /\ Keep(Unchanged \cup {"inst"})
  <2>1. OpMove
    BY <1>2 DEF Current
  <2>2. "opCache" \in current' => "opCache" \in current /\ op' = op
    BY <1>2, KeepFacts DEF Unchanged, OpCopies
  <2>3. CASE Forget
    <3>1. "inst" \notin current'
      BY <1>2, <2>3, KeepFacts DEF Forget
    <3> QED
      BY <1>1, <2>1, <2>2, <2>3, <3>1, EndMoves
  <2>4. CASE inst' = op' /\ op'.life # "gone" /\ pc' # "idle" /\ then' \in Nexts /\ Phases'
    BY <1>1, <2>1, <2>2, <2>4, CacheStays DEF Move, InstMove
  <2> QED
    BY <1>2, <2>3, <2>4 DEF Current
<1>3. CASE Current /\ Put(new) /\ ReturnError /\ Keep(Unchanged)
  <2>1. Forget /\ OpMove
    BY <1>3 DEF Current, ReturnError
  <2>2. "opCache" \in current' => "opCache" \in current /\ op' = op
    BY <1>3, KeepFacts DEF Unchanged, OpCopies
  <2>3. "inst" \notin current'
    BY <1>3, <2>1, KeepFacts DEF Forget
  <2> QED
    BY <1>1, <2>1, <2>2, <2>3, EndMoves
<1>4. CASE ReturnError /\ Keep(current) /\ UNCHANGED cluster
  BY <1>1, <1>4, QuietEndMoves DEF ReturnError, cluster
<1> QED
  BY <1>2, <1>3, <1>4 DEF Write

\* A delete marks the operation, or removes it when it has no finalizer.
LEMMA DeleteStores == ASSUME SharedInv, DeleteOp PROVE OpMove
<1> DEFINE new == [op EXCEPT !.life = "deleting"]
<1>1. op \in Op /\ OneListed(op.status) /\ op.life # "gone" /\ Put(new)
  BY DEF SharedInv, SharedTypeOK, Statuses, DeleteOp
<1>2. new \in Op /\ new.fins = op.fins /\ new.status = op.status /\ new.life = "deleting"
  BY <1>1 DEF Op
<1> HIDE DEF new
<1> QED
  BY <1>1, <1>2, PutStores DEF OpMove

\* A delete by the controller ends the pass.
LEMMA DeleteMoves ==
  ASSUME SharedInv, NEW requeue, Delete(requeue), opCache' = opCache, reported' = reported,
         collected' = collected
  PROVE  Move
<1>1. ReportMove /\ CollectMove
  BY DEF ReportMove, CollectMove
<1>2. CASE DeleteOp /\ Forget /\ Keep(Unchanged)
  <2>1. "opCache" \in current' => "opCache" \in current /\ op' = op
    BY <1>2, KeepFacts DEF Unchanged, OpCopies
  <2>2. "inst" \notin current'
    BY <1>2, KeepFacts DEF Forget
  <2> QED
    BY <1>1, <1>2, <2>1, <2>2, DeleteStores, EndMoves
<1>3. CASE Forget /\ Keep(current) /\ op' = op
  BY <1>1, <1>3, QuietEndMoves
<1> QED
  BY <1>2, <1>3 DEF Delete, Return, ReturnError, cluster

(***************************************************************************)
(* The conditions that are logged.                                         *)
(***************************************************************************)
\* What logCondition leaves.
LEMMA LogFacts ==
  ASSUME NEW status \in OperationStatusType, NEW type \in ConditionTypes, NEW why \in Reasons
  PROVE  /\ logCondition(status, type, why) \in OperationStatusType
         /\ logCondition(status, type, why).has = status.has \cup {type}
         /\ logCondition(status, type, why).last.type = type
         /\ logCondition(status, type, why).completion = status.completion
<1>1. NewOperationCondition(type, why) \in Condition /\ NewOperationCondition(type, why).type = type
  BY DEF NewOperationCondition, Condition
<1>2. /\ status.has \subseteq ConditionTypes /\ status.start \in BOOLEAN
      /\ status.completion \in BOOLEAN
  BY DEF OperationStatusType
<1> HIDE DEF NewOperationCondition
<1> QED
  BY <1>1, <1>2 DEF logCondition, OperationStatusType

\* A condition that is not final changes no outcome.
LEMMA LogOpen ==
  ASSUME NEW status \in OperationStatusType, NEW type \in ConditionTypes \ FinalTypes,
         NEW why \in Reasons, OneListed(status)
  PROVE  /\ OneListed(logCondition(status, type, why))
         /\ Outcomes(logCondition(status, type, why)) = Outcomes(status)
<1>1. Outcomes(logCondition(status, type, why)) = Outcomes(status)
  BY LogFacts DEF Outcomes
<1> QED
  BY <1>1, LogFacts DEF OneListed

\* A final condition is the only outcome of an operation that was not done.
LEMMA LogFinal ==
  ASSUME NEW status \in OperationStatusType, NEW type \in FinalTypes, NEW why \in Reasons,
         ~IsDone(status)
  PROVE  /\ OneListed(logCondition(status, type, why))
         /\ Outcomes(logCondition(status, type, why)) = {type}
<1>1. type \in ConditionTypes
  BY DEF FinalTypes, ConditionTypes
<1>2. Outcomes(logCondition(status, type, why)) = {type}
  BY <1>1, LogFacts, DoneOutcomes DEF Outcomes
<1> QED
  BY <1>1, <1>2, LogFacts DEF OneListed

\* The reasons the shared code logs.
LEMMA OperatorReasons == {"OperatorController", "JobDeleted", "DeadlineExceeded"} \subseteq Reasons
BY Zenon DEF Reasons

\* What each logger leaves of an unfinished operation.
LEMMA LoggerFacts ==
  ASSUME NEW status \in OperationStatusType, NEW why \in Reasons, OneListed(status)
  PROVE  /\ \A new \in {LogStarting(status), LogRunning(status), LogWarning(status, why)} :
              /\ new \in OperationStatusType /\ OneListed(new) /\ Outcomes(new) = Outcomes(status)
              /\ new.completion = status.completion /\ new.last.type \notin FinalTypes
         /\ ~IsDone(status) =>
              /\ \A new \in {LogSucceeded(status), LogFailed(status, why), LogStopped(status, why),
                             MarkJobAsDeleted(status)} :
                   new \in OperationStatusType /\ OneListed(new) /\ Outcomes(new) = {new.last.type}
              /\ \A new \in {LogSucceeded(status), LogFailed(status, why), MarkJobAsDeleted(status)} :
                   new.completion
              /\ LogSucceeded(status).last.type = "Succeeded"
              /\ LogFailed(status, why).last.type = "Failed"
              /\ LogStopped(status, why).last.type = "Stopped"
              /\ MarkJobAsDeleted(status).last.type = "Stopped"
<1> DEFINE Timed(s) == [s EXCEPT !.completion = TRUE]
<1>1. {"Starting", "Running", "Warning"} \subseteq ConditionTypes \ FinalTypes
  BY DEF ConditionTypes, FinalTypes
<1>2. {"Succeeded", "Failed", "Stopped"} = FinalTypes /\ FinalTypes \subseteq ConditionTypes
  BY DEF ConditionTypes, FinalTypes
<1>3. ASSUME NEW type \in {"Starting", "Running", "Warning"}, NEW w \in Reasons
      PROVE  /\ logCondition(status, type, w) \in OperationStatusType
             /\ OneListed(logCondition(status, type, w))
             /\ Outcomes(logCondition(status, type, w)) = Outcomes(status)
             /\ logCondition(status, type, w).completion = status.completion
             /\ logCondition(status, type, w).last.type \notin FinalTypes
  <2>1. type \in ConditionTypes \ FinalTypes
    BY <1>1
  <2>2. type \in ConditionTypes /\ type \notin FinalTypes
    BY <2>1
  <2> QED
    BY <2>1, <2>2, LogFacts, LogOpen
<1>4. ASSUME ~IsDone(status), NEW type \in FinalTypes, NEW w \in Reasons
      PROVE  /\ logCondition(status, type, w) \in OperationStatusType
             /\ OneListed(logCondition(status, type, w))
             /\ Outcomes(logCondition(status, type, w)) = {type}
             /\ logCondition(status, type, w).last.type = type
  BY <1>2, <1>4, LogFacts, LogFinal
<1>5. ASSUME NEW s \in OperationStatusType
      PROVE  /\ Timed(s) \in OperationStatusType /\ Timed(s).has = s.has
             /\ Timed(s).last = s.last /\ Timed(s).completion
  BY DEF OperationStatusType
<1>6. ASSUME NEW s \in OperationStatusType, OneListed(s)
      PROVE  OneListed(Timed(s)) /\ Outcomes(Timed(s)) = Outcomes(s)
  <2> HIDE DEF Timed
  <2> QED
    BY <1>5, <1>6 DEF OneListed, Outcomes
<1>7. /\ LogSucceeded(status) = Timed(logCondition(status, "Succeeded", "OperatorController"))
      /\ LogFailed(status, why) = Timed(logCondition(status, "Failed", why))
      /\ LogStopped(status, why) = logCondition(status, "Stopped", why)
      /\ MarkJobAsDeleted(status) = Timed(logCondition(status, "Stopped", "JobDeleted"))
  BY DEF LogSucceeded, LogFailed, LogStopped, MarkJobAsDeleted
<1>8. /\ LogStarting(status) = logCondition(status, "Starting", "OperatorController")
      /\ LogRunning(status) = logCondition(status, "Running", "OperatorController")
      /\ LogWarning(status, why) = logCondition(status, "Warning", why)
  BY DEF LogStarting, LogRunning, LogWarning
<1> HIDE DEF Timed
<1>9. {"OperatorController", "JobDeleted", why} \subseteq Reasons
  BY OperatorReasons
<1>10. \A new \in {LogStarting(status), LogRunning(status), LogWarning(status, why)} :
              /\ new \in OperationStatusType /\ OneListed(new) /\ Outcomes(new) = Outcomes(status)
              /\ new.completion = status.completion /\ new.last.type \notin FinalTypes
  BY <1>3, <1>8, <1>9
<1>11. ASSUME ~IsDone(status), NEW type \in FinalTypes, NEW w \in Reasons
       PROVE  LET new == Timed(logCondition(status, type, w))
              IN  /\ new \in OperationStatusType /\ OneListed(new) /\ Outcomes(new) = {type}
                  /\ new.last.type = type /\ new.completion
  BY <1>4, <1>5, <1>6, <1>11
<1>12. ASSUME ~IsDone(status)
       PROVE  /\ LogSucceeded(status) \in OperationStatusType /\ OneListed(LogSucceeded(status))
              /\ Outcomes(LogSucceeded(status)) = {"Succeeded"}
              /\ LogSucceeded(status).last.type = "Succeeded" /\ LogSucceeded(status).completion
  <2>1. "Succeeded" \in FinalTypes /\ "OperatorController" \in Reasons
    BY <1>2, <1>9
  <2> QED
    BY <1>7, <1>11, <1>12, <2>1
<1>13. ASSUME ~IsDone(status)
       PROVE  /\ LogFailed(status, why) \in OperationStatusType /\ OneListed(LogFailed(status, why))
              /\ Outcomes(LogFailed(status, why)) = {"Failed"}
              /\ LogFailed(status, why).last.type = "Failed" /\ LogFailed(status, why).completion
  BY <1>2, <1>7, <1>9, <1>11, <1>13
<1>14. ASSUME ~IsDone(status)
       PROVE  /\ MarkJobAsDeleted(status) \in OperationStatusType
              /\ OneListed(MarkJobAsDeleted(status))
              /\ Outcomes(MarkJobAsDeleted(status)) = {"Stopped"}
              /\ MarkJobAsDeleted(status).last.type = "Stopped"
              /\ MarkJobAsDeleted(status).completion
  BY <1>2, <1>7, <1>9, <1>11, <1>14
<1>15. ASSUME ~IsDone(status)
       PROVE  /\ LogStopped(status, why) \in OperationStatusType /\ OneListed(LogStopped(status, why))
              /\ Outcomes(LogStopped(status, why)) = {"Stopped"}
              /\ LogStopped(status, why).last.type = "Stopped"
  BY <1>2, <1>4, <1>7, <1>9, <1>15
<1> QED
  BY <1>10, <1>12, <1>13, <1>14, <1>15

(***************************************************************************)
(* The shared handlers.                                                    *)
(***************************************************************************)
\* Where the dispatch of Reconcile leads.
LEMMA DispatchFacts ==
  ASSUME NEW copy \in Op, copy.life # "gone"
  PROVE  \/ Dispatch(copy) = "collect" /\ IsDone(copy.status)
         \/ Dispatch(copy) = "syncStopped" /\ copy.life = "deleting" /\ ~IsDone(copy.status)
         \/ /\ Dispatch(copy) \in {"addLogs", "addStatus", "runtime"}
            /\ copy.life = "live" /\ ~IsDone(copy.status)
<1>1. copy.life \in {"live", "deleting"}
  BY DEF Op
<1> QED
  BY <1>1 DEF Dispatch

\* The controller knows of its copy what the dispatch has looked at.
LEMMA DispatchPhases ==
  ASSUME NEW copy \in Op, copy.life # "gone", pc' = Dispatch(copy), inst' = copy
  PROVE  Phases' /\ pc' # "idle"
<1>1. CASE pc' = "collect" /\ IsDone(copy.status)
  BY <1>1 DEF Phases, Early, Later, Ending
<1>2. CASE pc' = "syncStopped" /\ copy.life = "deleting" /\ ~IsDone(copy.status)
  BY <1>2 DEF Phases, Early, Later, Ending
<1>3. CASE /\ pc' \in {"addLogs", "addStatus", "runtime"}
           /\ copy.life = "live" /\ ~IsDone(copy.status)
  BY <1>3 DEF Phases, Early, Later, Ending
<1> QED
  BY <1>1, <1>2, <1>3, DispatchFacts

\* A pass begins with the cached copy.
LEMMA FetchMoves == ASSUME SharedInv, FetchOp PROVE Move
<1>1. /\ op' = op /\ opCache' = opCache /\ reported' = reported /\ collected' = collected
      /\ pc = "idle" /\ opCache \in Op /\ OpMove /\ ReportMove /\ CollectMove
  BY OpStays DEF FetchOp, cluster, elsewhere, caches, plane, SharedInv, SharedTypeOK,
                 ReportMove, CollectMove
<1>2. CASE opCache.life = "gone"
  BY <1>1, <1>2, AsideMoves DEF FetchOp, worker
<1>3. CASE opCache.life # "gone"
  <2>1. /\ inst' = opCache /\ then' = then
        /\ pc' = IF opCache.status.start THEN Dispatch(opCache) ELSE "addStart"
        /\ Keep(IF "opCache" \in current THEN current \cup {"inst"} ELSE current)
    BY <1>3 DEF FetchOp
  <2>2. Phases' /\ pc' # "idle"
    <3>1. CASE pc' = Dispatch(opCache)
      BY <1>1, <1>3, <2>1, <3>1, DispatchPhases
    <3>2. CASE pc' = "addStart"
      BY <3>2 DEF Phases, Early, Later, Ending
    <3> QED
      BY <2>1, <3>1, <3>2
  <2>3. "inst" \notin current
    BY <1>1 DEF SharedInv, CopiesCurrent
  <2>4. /\ "opCache" \in current' => "opCache" \in current
        /\ "inst" \in current' => "opCache" \in current
    BY <2>1, <2>3, KeepFacts
  <2>5. CacheMove /\ InstMove /\ then' \in Nexts
    BY <1>1, <1>3, <2>1, <2>2, <2>4, CacheStays DEF InstMove, SharedInv, SharedTypeOK
  <2> QED
    BY <1>1, <2>2, <2>5 DEF Move
<1> QED
  BY <1>2, <1>3

\* A current copy, put back with a new status or new finalizers, stays in its life.
LEMMA PutCurrent ==
  ASSUME SharedInv, NEW new \in Op, Put(new), op.life # "gone", "inst" \in current,
         new.life = inst.life
  PROVE  /\ op \in Op /\ op'.fins = new.fins /\ op'.status = new.status /\ op' \in Op
         /\ inst.life = op.life /\ inst.fins = op.fins
         /\ Outcomes(inst.status) = Outcomes(op.status)
         /\ IsDone(inst.status) <=> IsDone(op.status)
         /\ op'.life = IF op.life = "deleting" /\ new.fins = {} THEN "gone" ELSE op.life
         /\ op.fins \subseteq new.fins \/ op.life = "live" => op' = new /\ op'.life = op.life
<1>1. /\ op \in Op /\ inst.life = op.life /\ inst.fins = op.fins
      /\ Outcomes(inst.status) = Outcomes(op.status)
      /\ op.life = "deleting" => op.fins # {}
  BY DEF SharedInv, SharedTypeOK, CopiesCurrent, Lives
<1>2. IsDone(inst.status) <=> IsDone(op.status)
  BY <1>1, DoneOutcomes
<1> QED
  BY <1>1, <1>2, PutStores

\* AddStartTime writes a copy with a start time.
LEMMA StartMoves == ASSUME SharedInv, SetStartTime PROVE Move
<1> DEFINE new == [inst EXCEPT !.status.start = TRUE]
<1>1. /\ inst \in Op /\ OneListed(inst.status) /\ inst.life # "gone" /\ then \in Nexts
      /\ opCache' = opCache /\ reported' = reported /\ collected' = collected
  BY DEF SharedInv, SharedTypeOK, Statuses, Lives, SetStartTime, elsewhere, caches, plane
<1>2. /\ new \in Op /\ new.life = inst.life /\ new.fins = inst.fins
      /\ new.status.has = inst.status.has /\ new.status.last = inst.status.last
  BY <1>1 DEF Op, OperationStatusType
<1>3. Write(new, inst' = op' /\ Goto(Dispatch(new)))
  BY DEF SetStartTime
<1> HIDE DEF new
<1>4. OneListed(new.status) /\ Outcomes(new.status) = Outcomes(inst.status)
  BY <1>1, <1>2 DEF OneListed, Outcomes
<1>5. ASSUME Put(new), op.life # "gone", "inst" \in current
      PROVE  OpMove /\ op' = new
  BY <1>1, <1>2, <1>4, <1>5, PutCurrent DEF OpMove
<1>6. ASSUME Put(new), op.life # "gone", "inst" \in current, inst' = op', Goto(Dispatch(new))
      PROVE  op'.life # "gone" /\ pc' # "idle" /\ then' \in Nexts /\ Phases'
  BY <1>1, <1>2, <1>5, <1>6, DispatchPhases DEF Goto
<1> QED
  BY <1>1, <1>2, <1>3, <1>5, <1>6, WriteMoves

\* AddFinalizer writes a copy with one more finalizer.
LEMMA FinalizerMoves ==
  ASSUME SharedInv, NEW label \in {"addLogs", "addStatus"}, NEW finalizer \in Finalizers,
         SetFinalizer(label, finalizer)
  PROVE  Move
<1> DEFINE new == [inst EXCEPT !.fins = @ \cup {finalizer}]
<1>1. /\ inst \in Op /\ OneListed(inst.status) /\ then \in Nexts /\ pc \in {"addLogs", "addStatus"}
      /\ opCache' = opCache /\ reported' = reported /\ collected' = collected
  BY DEF SharedInv, SharedTypeOK, Statuses, SetFinalizer, elsewhere, caches, plane
<1>2. inst.life = "live" /\ ~IsDone(inst.status)
  BY <1>1 DEF SharedInv, Phases, Early
<1>3. /\ new \in Op /\ new.life = inst.life /\ new.status = inst.status
      /\ inst.fins \subseteq new.fins
  BY <1>1 DEF Op
<1>4. Write(new, inst' = op' /\ Goto(Dispatch(new)))
  BY DEF SetFinalizer
<1> HIDE DEF new
<1>5. ASSUME Put(new), op.life # "gone", "inst" \in current
      PROVE  OpMove /\ op' = new
  BY <1>1, <1>2, <1>3, <1>5, PutCurrent DEF OpMove
<1>6. ASSUME Put(new), op.life # "gone", "inst" \in current, inst' = op', Goto(Dispatch(new))
      PROVE  op'.life # "gone" /\ pc' # "idle" /\ then' \in Nexts /\ Phases'
  BY <1>1, <1>2, <1>3, <1>5, <1>6, DispatchPhases DEF Goto
<1> QED
  BY <1>1, <1>3, <1>4, <1>5, <1>6, WriteMoves

\* The status that was logged is written, over the life and the finalizers that
\* the copy has in common with the stored operation.
LEMMA StoreMoves == ASSUME SharedInv, StoreStatus PROVE Move
<1>1. /\ inst \in Op /\ OneListed(inst.status) /\ then \in Nexts /\ pc = "write"
      /\ opCache' = opCache /\ reported' = reported /\ collected' = collected
  BY DEF SharedInv, SharedTypeOK, Statuses, StoreStatus, elsewhere, caches, plane
<1>2. inst.life = "live" /\ (then \in Early => ~IsDone(inst.status))
  BY <1>1 DEF SharedInv, Phases, Later
<1>3. Write(inst, inst' = op' /\ Goto("sync"))
  BY DEF StoreStatus
<1>4. ASSUME Put(inst), op.life # "gone", "inst" \in current
      PROVE  OpMove /\ op' = inst
  BY <1>1, <1>2, <1>4, PutCurrent DEF OpMove
<1>5. ASSUME Put(inst), op.life # "gone", "inst" \in current, inst' = op', Goto("sync")
      PROVE  op'.life # "gone" /\ pc' # "idle" /\ then' \in Nexts /\ Phases'
  BY <1>1, <1>2, <1>4, <1>5 DEF Goto, Phases, Early, Later, Ending
<1> QED
  BY <1>1, <1>3, <1>4, <1>5, WriteMoves

\* A new status is written from a copy that is live and not done.
LEMMA StatusMoves ==
  ASSUME SharedInv, inst.life = "live", ~IsDone(inst.status),
         NEW new \in OperationStatusType, OneListed(new), NEW next \in Nexts,
         next \in Early => ~IsDone(new), WriteStatus(new, next),
         opCache' = opCache, reported' = reported, collected' = collected
  PROVE  Move
<1> DEFINE copy == [inst EXCEPT !.status = new]
<1>1. inst \in Op
  BY DEF SharedInv, SharedTypeOK
<1>2. /\ copy \in Op /\ copy.life = inst.life /\ copy.fins = inst.fins
      /\ copy.status = new
  BY <1>1 DEF Op
<1>3. Write(copy, inst' = op' /\ pc' = "sync" /\ then' = next /\ UNCHANGED <<found, queued>>)
  BY DEF WriteStatus
<1> HIDE DEF copy
<1>4. ASSUME Put(copy), op.life # "gone", "inst" \in current
      PROVE  OpMove /\ op' = copy
  BY <1>1, <1>2, <1>4, PutCurrent DEF OpMove
<1>5. ASSUME Put(copy), op.life # "gone", "inst" \in current, inst' = op', pc' = "sync", then' = next
      PROVE  op'.life # "gone" /\ pc' # "idle" /\ then' \in Nexts /\ Phases'
  BY <1>2, <1>4, <1>5 DEF Phases, Early, Later, Ending
<1> QED
  BY <1>2, <1>3, <1>4, <1>5, WriteMoves

\* What a report adds.
LEMMA SyncFacts ==
  ASSUME NEW type, syncStatus(type)
  PROVE  /\ reported' = reported \/ reported' = reported \cup ({type} \cap FinalTypes)
         /\ collected' = collected
BY DEF syncStatus, plane

\* The last condition of the copy is reported, and the pass ends or goes on.
LEMMA ReportMoves == ASSUME SharedInv, ReportStatus PROVE Move
<1>1. /\ op' = op /\ opCache' = opCache /\ pc = "sync" /\ then \in Nexts /\ Keep(current)
      /\ syncStatus(inst.status.last.type)
  BY DEF SharedInv, SharedTypeOK, ReportStatus, cluster, elsewhere, caches
<1>2. ReportMove /\ CollectMove
  BY <1>1, SyncFacts DEF ReportMove, CollectMove
<1>3. CASE Forget
  BY <1>1, <1>2, <1>3, QuietEndMoves
<1>4. CASE then \notin {"done", "error", "requeue"} /\ Goto(then) /\ UNCHANGED inst
  <2>1. pc' \in {"checkStatus", "service", "deadline", "delete"} /\ then' \in Nexts
    BY <1>1, <1>4 DEF Goto, Nexts
  <2>2. Phases'
    BY <1>1, <1>4, <2>1 DEF SharedInv, Phases, Goto, Early, Later, Ending
  <2>3. \A x \in current' : x \in current
    BY <1>1, KeepFacts
  <2> QED
    BY <1>1, <1>2, <1>4, <2>1, <2>2, <2>3, GoMoves
<1> QED
  BY <1>3, <1>4 DEF ReportStatus, Return, ReturnError

\* Stopped is reported of an operation that is deleted before it is done.
LEMMA ReportStoppedMoves == ASSUME SharedInv, ReportStopped PROVE Move
<1>1. /\ op' = op /\ opCache' = opCache /\ pc = "syncStopped" /\ then' \in Nexts
      /\ pc' = "collect" /\ inst' = inst /\ current' = current /\ syncStatus("Stopped")
  BY DEF SharedInv, SharedTypeOK, ReportStopped, Goto, cluster, elsewhere, caches
<1>2. ReportMove /\ CollectMove
  BY <1>1, SyncFacts DEF ReportMove, CollectMove, FinalTypes
<1>3. Phases'
  BY <1>1 DEF SharedInv, Phases, Early, Later, Ending
<1> QED
  BY <1>1, <1>2, <1>3, GoMoves

\* The end of handleFinalizers.
LEMMA AfterFinalizersMoves ==
  ASSUME SharedInv, pc = "collect", AfterFinalizers, Keep(current), op' = op, opCache' = opCache,
         reported' = reported, collected' = collected
  PROVE  Move
<1>1. ReportMove /\ CollectMove
  BY DEF ReportMove, CollectMove
<1>2. CASE inst.life = "deleting"
  BY <1>1, <1>2, QuietEndMoves DEF AfterFinalizers, Return
<1>3. CASE inst.life # "deleting"
  <2>1. inst.life = "live" /\ IsDone(inst.status)
    BY <1>3 DEF SharedInv, SharedTypeOK, Op, Lives, Phases, Ending
  <2>2. pc' = "cleanup" /\ inst' = inst /\ then' \in Nexts
    BY <1>3 DEF AfterFinalizers, Goto, SharedInv, SharedTypeOK
  <2>3. Phases'
    BY <2>1, <2>2 DEF Phases, Early, Later, Ending
  <2>4. \A x \in current' : x \in current
    BY KeepFacts
  <2> QED
    BY <1>1, <2>2, <2>3, <2>4, GoMoves
<1> QED
  BY <1>2, <1>3

\* The logs are collected before the finalizer that holds them is removed.
LEMMA CollectMoves == ASSUME SharedInv, CollectHeld PROVE Move
<1>1. /\ op' = op /\ opCache' = opCache /\ pc = "collect" /\ reported' = reported /\ Keep(current)
  BY DEF CollectHeld, cluster, elsewhere, caches
<1>2. CASE AfterFinalizers /\ UNCHANGED collected
  BY <1>1, <1>2, AfterFinalizersMoves
<1>3. CASE /\ Goto("removeFinalizer") /\ UNCHANGED inst
           /\ collected' = TRUE \/ (collected' = collected /\ "logs" \notin inst.fins)
  <2>1. pc' = "removeFinalizer" /\ inst' = inst /\ then' \in Nexts /\ ReportMove /\ CollectMove
    BY <1>1, <1>3 DEF Goto, SharedInv, SharedTypeOK, ReportMove, CollectMove
  <2>2. Phases'
    BY <1>1, <1>3, <2>1 DEF SharedInv, Phases, Early, Later, Ending
  <2>3. \A x \in current' : x \in current
    BY <1>1, KeepFacts
  <2> QED
    BY <1>1, <2>1, <2>2, <2>3, GoMoves
<1> QED
  BY <1>2, <1>3 DEF CollectHeld

\* One finalizer is removed, that of the logs only once they are collected.
LEMMA ReleaseMoves == ASSUME SharedInv, ReleaseFinalizer PROVE Move
<1> DEFINE first == IF "logs" \in inst.fins THEN "logs" ELSE "status"
           new   == [inst EXCEPT !.fins = @ \ {first}]
           After == IF inst.life = "deleting" THEN Return ELSE inst' = op' /\ Goto("cleanup")
<1>1. /\ inst \in Op /\ OneListed(inst.status) /\ then \in Nexts /\ pc = "removeFinalizer"
      /\ opCache' = opCache /\ reported' = reported /\ collected' = collected
  BY DEF SharedInv, SharedTypeOK, Statuses, ReleaseFinalizer, elsewhere, caches, plane
<1>2. /\ inst.life \in {"live", "deleting"} /\ (inst.life = "deleting" \/ IsDone(inst.status))
      /\ "logs" \in inst.fins => collected
  BY <1>1 DEF SharedInv, Lives, Phases, Ending, Op
<1>3. /\ new \in Op /\ new.life = inst.life /\ new.status = inst.status
      /\ new.fins \subseteq inst.fins
  BY <1>1 DEF Op
<1>4. Write(new, After)
  BY DEF ReleaseFinalizer
<1> HIDE DEF new
<1>5. ASSUME Put(new), op.life # "gone", "inst" \in current
      PROVE  OpMove
  BY <1>1, <1>2, <1>3, <1>5, PutCurrent DEF OpMove
<1>6. ASSUME Put(new), op.life # "gone", "inst" \in current, inst.life = "live", inst' = op', Goto("cleanup")
      PROVE  op'.life # "gone" /\ pc' # "idle" /\ then' \in Nexts /\ Phases'
  <2>1. op' = new /\ pc' = "cleanup"
    BY <1>1, <1>3, <1>6, PutCurrent DEF Goto
  <2> QED
    BY <1>1, <1>2, <1>3, <1>6, <2>1 DEF Goto, Phases, Early, Later, Ending
<1>7. ASSUME Put(new), op.life # "gone", "inst" \in current, After
      PROVE  \/ Forget
             \/ inst' = op' /\ op'.life # "gone" /\ pc' # "idle" /\ then' \in Nexts /\ Phases'
  BY <1>2, <1>6, <1>7 DEF Return
<1> HIDE DEF After
<1> QED
  BY <1>1, <1>3, <1>4, <1>5, <1>7, WriteMoves

\* A done operation is deleted or waits for its TTL.
LEMMA CleanUpMoves == ASSUME SharedInv, CleanUp PROVE Move
<1>1. opCache' = opCache /\ reported' = reported /\ collected' = collected
  BY DEF CleanUp, elsewhere, caches, plane
<1>2. CASE Delete(FALSE)
  BY <1>1, <1>2, DeleteMoves
<1>3. CASE Forget /\ Keep(current) /\ UNCHANGED cluster
  BY <1>1, <1>3, QuietEndMoves DEF cluster, ReportMove, CollectMove
<1> QED
  BY <1>2, <1>3 DEF CleanUp, Return, ReturnError

(***************************************************************************)
(* The parts of a pass over the owned resource.                            *)
(***************************************************************************)
\* A condition that is not final is logged on the copy, to be written next.
LEMMA LogMoves ==
  ASSUME SharedInv, pc # "idle", inst.life = "live",
         NEW new \in OperationStatusType, OneListed(new), Outcomes(new) = Outcomes(inst.status),
         NEW next \in Nexts, next \in Early => ~IsDone(inst.status), Log(new, next),
         op' = op, opCache' = opCache, reported' = reported, collected' = collected,
         \A x \in {"opCache", "inst"} : x \in current' => x \in current
  PROVE  Move
<1>1. inst \in Op /\ inst' = [inst EXCEPT !.status = new] /\ pc' = "write" /\ then' = next
  BY DEF SharedInv, SharedTypeOK, Log
<1>2. inst' \in Op /\ inst'.life = inst.life /\ inst'.fins = inst.fins /\ inst'.status = new
  BY <1>1 DEF Op
<1>3. IsDone(new) <=> IsDone(inst.status)
  BY DoneOutcomes
<1>4. Phases'
  BY <1>1, <1>2, <1>3 DEF Phases, Early, Later, Ending
<1>5. OpMove /\ CacheMove /\ ReportMove /\ CollectMove
  BY OpStays, CacheStays DEF ReportMove, CollectMove
<1>6. InstMove
  BY <1>1, <1>2 DEF InstMove
<1> QED
  BY <1>1, <1>4, <1>5, <1>6 DEF Move

\* A Create that failed is logged as a warning once, and ends the pass otherwise.
LEMMA CreateFailedMoves ==
  ASSUME SharedInv, pc # "idle", inst.life = "live", NEW why \in Reasons, CreateFailed(why),
         NEW copies, Keep(copies), \A x \in {"opCache", "inst"} : x \in copies => x \in current,
         op' = op, opCache' = opCache, reported' = reported, collected' = collected
  PROVE  Move
<1>1. \A x \in {"opCache", "inst"} : x \in current' => x \in current
  BY KeepFacts
<1>2. CASE Log(LogWarning(inst.status, why), "error")
  <2>1. inst.status \in OperationStatusType /\ OneListed(inst.status)
    BY DEF SharedInv, SharedTypeOK, Op, Statuses
  <2>2. /\ LogWarning(inst.status, why) \in OperationStatusType
        /\ OneListed(LogWarning(inst.status, why))
        /\ Outcomes(LogWarning(inst.status, why)) = Outcomes(inst.status)
    BY <2>1, LoggerFacts
  <2>3. "error" \in Nexts /\ "error" \notin Early
    BY DEF Nexts, Early
  <2> QED
    BY <1>1, <1>2, <2>2, <2>3, LogMoves
<1>3. CASE Forget
  <2>1. "inst" \notin current'
    BY <1>3, KeepFacts DEF Forget
  <2> QED
    BY <1>1, <1>3, <2>1, OpStays, EndMoves DEF ReportMove, CollectMove
<1> QED
  BY <1>2, <1>3 DEF CreateFailed, ReturnError

\* The owned resource is created and the operation is logged as starting.
LEMMA CreateMoves ==
  ASSUME SharedInv, pc \in Early, NEW status, NEW why \in Reasons,
         Create(status, Log(LogStarting(inst.status), "checkStatus"), why),
         opCache' = opCache, reported' = reported, collected' = collected
  PROVE  Move
<1>1. /\ pc # "idle" /\ inst.life = "live" /\ ~IsDone(inst.status)
      /\ inst.status \in OperationStatusType /\ OneListed(inst.status)
  BY DEF SharedInv, SharedTypeOK, Op, Statuses, Phases, Early
<1>2. op' = op /\ "opCache" \notin OwnedCopies /\ "inst" \notin OwnedCopies
  BY DEF Create, OwnedCopies
<1>3. CASE Log(LogStarting(inst.status), "checkStatus") /\ Keep(current \ OwnedCopies)
  <2>1. \A x \in {"opCache", "inst"} : x \in current' => x \in current
    BY <1>3, KeepFacts
  <2>2. why \in Reasons /\ "checkStatus" \in Nexts
    BY DEF Nexts
  <2>3. /\ LogStarting(inst.status) \in OperationStatusType /\ OneListed(LogStarting(inst.status))
        /\ Outcomes(LogStarting(inst.status)) = Outcomes(inst.status)
    BY <1>1, <2>2, LoggerFacts
  <2> QED
    BY <1>1, <1>2, <1>3, <2>1, <2>2, <2>3, LogMoves
<1>4. CASE CreateFailed(why) /\ Keep(current \ OwnedCopies)
  <2> DEFINE copies == current \ OwnedCopies
  <2>1. Keep(copies) /\ \A x \in {"opCache", "inst"} : x \in copies => x \in current
    BY <1>4
  <2> HIDE DEF copies
  <2> QED
    BY <1>1, <1>2, <1>4, <2>1, CreateFailedMoves
<1>5. CASE CreateFailed(why) /\ Keep(current)
  BY <1>1, <1>2, <1>5, CreateFailedMoves
<1> QED
  BY <1>3, <1>4, <1>5 DEF Create

\* The pass goes on to look at the status of the owned resource.
LEMMA CheckMoves ==
  ASSUME SharedInv, pc \in Early, pc' \in {"update", "checkStatus"}, inst' = inst, then' = then,
         op' = op, opCache' = opCache, reported' = reported, collected' = collected,
         \A x \in {"opCache", "inst"} : x \in current' => x \in current
  PROVE  Move
<1>1. pc # "idle" /\ pc' # "idle" /\ then' \in Nexts /\ ReportMove /\ CollectMove
  BY DEF Early, SharedInv, SharedTypeOK, ReportMove, CollectMove
<1>2. Phases'
  BY DEF SharedInv, Phases, Early, Later, Ending
<1> QED
  BY <1>1, <1>2, GoMoves

\* The owned resource is written back.
LEMMA UpdateMoves ==
  ASSUME SharedInv, pc \in Early, UpdateOwned("checkStatus") \/ UpdateFound("checkStatus"),
         opCache' = opCache, reported' = reported, collected' = collected
  PROVE  Move
<1>1. op' = op /\ Keep(current)
  BY DEF UpdateOwned, UpdateFound, cluster
<1>2. \A x \in current' : x \in current
  BY <1>1, KeepFacts
<1>3. CASE Forget
  BY <1>1, <1>3, QuietEndMoves DEF ReportMove, CollectMove
<1>4. CASE pc' = "checkStatus" /\ inst' = inst /\ then' = then
  BY <1>1, <1>2, <1>4, CheckMoves
<1> QED
  BY <1>3, <1>4 DEF UpdateOwned, UpdateFound, ReturnError, Goto

(***************************************************************************)
(* The watches, the clock, restarts and the world.                         *)
(***************************************************************************)
\* The watches and timers.
LEMMA WatchMoves ==
  ASSUME SharedInv,
         WatchOp \/ WatchOwned \/ NotifyOwned \/ WatchPods \/ Resync \/ TTLPasses
  PROVE  Move
<1>1. /\ UNCHANGED <<op, pc, inst, then, reported, collected>>
      /\ "inst" \in current' => "inst" \in current
  BY DEF WatchOp, WatchOwned, NotifyOwned, WatchPods, Resync, TTLPasses, outside, cluster,
         worker, plane
<1>2. CASE WatchOp
  <2>1. OpMove /\ CacheMove
    BY <1>1, <1>2, OpStays DEF WatchOp, CacheMove
  <2>2. InstMove
    BY <1>1 DEF InstMove, SharedInv, SharedTypeOK, Statuses, CopiesCurrent
  <2>3. Phases' /\ then' \in Nexts
    BY <1>1 DEF SharedInv, SharedTypeOK, Phases
  <2> QED
    BY <1>1, <2>1, <2>2, <2>3 DEF Move, ReportMove, CollectMove
<1>3. CASE WatchOwned \/ NotifyOwned \/ WatchPods \/ Resync \/ TTLPasses
  <2>1. opCache' = opCache /\ ("opCache" \in current' => "opCache" \in current)
    BY <1>3 DEF WatchOwned, NotifyOwned, WatchPods, Resync, TTLPasses, caches
  <2> QED
    BY <1>1, <2>1, AsideMoves
<1> QED
  BY <1>2, <1>3

\* The end of a delay.
LEMMA RequeueMoves == ASSUME SharedInv, NEW due, RequeueAfter(due) PROVE Move
BY AsideMoves DEF RequeueAfter, cluster, elsewhere, caches, worker, plane

\* A restart forgets the copy and lists the operation afresh.
LEMMA CrashMoves == ASSUME SharedInv, Crash PROVE Move
<1>1. /\ op' = op /\ opCache' = op /\ Forget /\ "inst" \notin current'
      /\ reported' = reported /\ collected' = collected
  BY DEF Crash, cluster, plane
<1>2. OpMove /\ CacheMove /\ Phases' /\ then' \in Nexts
  BY <1>1, OpStays, IdlePhases DEF CacheMove, Forget, Nexts
<1> QED
  BY <1>1, <1>2 DEF Move, InstMove, ReportMove, CollectMove, Forget

\* The user deletes the operation under the controller.
LEMMA UserDeletesMoves == ASSUME SharedInv, UserDeletes PROVE Move
<1>1. /\ OpMove /\ opCache' = opCache /\ UNCHANGED <<pc, inst, then, reported, collected>>
      /\ "inst" \notin current' /\ "opCache" \notin current'
  BY DeleteStores DEF UserDeletes, OpCopies, elsewhere, caches, worker, plane
<1>2. CacheMove /\ InstMove
  BY <1>1, CacheStays DEF InstMove, SharedInv, SharedTypeOK, Statuses
<1>3. Phases' /\ then' \in Nexts
  BY <1>1 DEF SharedInv, SharedTypeOK, Phases
<1> QED
  BY <1>1, <1>2, <1>3 DEF Move, ReportMove, CollectMove

\* What the controllers of the cluster do.
LEMMA ClusterMoves ==
  ASSUME SharedInv, UNCHANGED operator,
         \A x \in {"opCache", "inst"} : x \in current' => x \in current
  PROVE  Move
BY AsideMoves DEF operator, caches, worker, plane

\* The owned resource goes or reports.
LEMMA OwnedMoves ==
  ASSUME SharedInv, NEW status, NEW heard,
         DropOwned \/ OwnedReports(status, heard)
  PROVE  Move
BY ClusterMoves DEF DropOwned, OwnedReports, operator, OwnedCopies

\* A new operation satisfies the invariant.
LEMMA InitShared == ASSUME KubeInit PROVE SharedInv
<1>1. /\ op = NewOp /\ opCache = NewOp /\ inst = NewOp /\ then = "done" /\ pc = "idle"
      /\ collected = FALSE /\ reported = {} /\ current = {"opCache", "ownedCache"}
  BY DEF KubeInit
<1>2. SharedTypeOK /\ Statuses /\ CopiesOlder
  BY <1>1, NewOpFacts DEF SharedTypeOK, Statuses, CopiesOlder, Older, Nexts
<1>3. CopiesCurrent /\ Lives /\ HeardOutcome
  BY <1>1, NewOpFacts DEF CopiesCurrent, Lives, HeardOutcome
<1>4. Phases
  BY <1>1 DEF Phases, Early, Later, Ending
<1> QED
  BY <1>2, <1>3, <1>4 DEF SharedInv

\* It maps to an initial state of OperationLifecycle.
LEMMA InitSimulates == ASSUME KubeInit PROVE Abstract!LifecycleInit
<1>1. op = NewOp /\ collected = FALSE
  BY DEF KubeInit
<1>2. Outcome = "none" /\ op.life = "live" /\ ("logs" \in op.fins) = FALSE
  BY <1>1, NewOpFacts, OutcomeValue
<1> QED
  BY <1>1, <1>2 DEF Abstract!LifecycleInit

(***************************************************************************)
(* The shared handlers carry statuses from one copy to another and log     *)
(* nothing of their own.                                                   *)
(***************************************************************************)
\* Two statuses that differ at most in their StartTime.
Alike(s, t) == s.has = t.has /\ s.last = t.last /\ s.completion = t.completion

\* The controller looks at the owned resource, or will after a report.
Checking ==
  \/ pc \in {"update", "checkStatus"}
  \/ pc \in {"write", "sync"} /\ then = "checkStatus"

\* Every status is one that was there before.
Carried ==
  /\ Alike(op'.status, op.status) \/ Alike(op'.status, inst.status)
  /\ opCache' \in {opCache, op}
  /\ inst' \in {NewOp, opCache, op', inst}

\* A step of a shared handler.
HandlerStep ==
  /\ Carried
  /\ UNCHANGED <<setup, owned, ownedCache, pods, podCache, removals>>
  /\ faults' \in {faults, faults + 1}
  /\ found' \in {found, Nothing}
  /\ Checking' => Checking

\* The controller has nothing to look at when it is idle.
LEMMA ForgetSteps ==
  ASSUME Forget
  PROVE  inst' = NewOp /\ found' = Nothing /\ ~Checking'
BY DEF Forget, Checking

\* A write of a copy whose conditions are those the controller has.
LEMMA WriteSteps ==
  ASSUME NEW new \in Op, NEW ACTION After, Write(new, After), Alike(new.status, inst.status),
         UNCHANGED elsewhere,
         After => \/ Forget
                  \/ inst' = op' /\ found' = found /\ (Checking' => Checking)
  PROVE  HandlerStep
<1>1. /\ UNCHANGED <<setup, opCache, ownedCache, podCache, removals>>
      /\ faults' \in {faults, faults + 1}
  BY DEF elsewhere, caches, Write, Fail
<1>2. UNCHANGED <<owned, pods>> /\ (op' = op \/ op'.status = new.status)
  BY PutStores DEF Write, Put, cluster
<1>3. Forget \/ (inst' = op' /\ found' = found /\ (Checking' => Checking))
  BY DEF Write, ReturnError
<1>4. Alike(op'.status, op.status) \/ Alike(op'.status, inst.status)
  BY <1>2 DEF Alike
<1> QED
  BY <1>1, <1>2, <1>3, <1>4, ForgetSteps DEF HandlerStep, Carried

\* No dispatch leads to the owned resource.
LEMMA DispatchNotChecking == \A copy : pc' = Dispatch(copy) => ~Checking'
BY DEF Dispatch, Checking

\* The handlers that write.
LEMMA WritersCarry ==
  ASSUME SharedInv,
         \/ SetStartTime \/ SetLogsFinalizer \/ SetStatusFinalizer
         \/ StoreStatus \/ ReleaseFinalizer
  PROVE  HandlerStep
<1>1. inst \in Op /\ UNCHANGED elsewhere
  BY DEF SharedInv, SharedTypeOK, SetStartTime, SetLogsFinalizer, SetStatusFinalizer,
         SetFinalizer, StoreStatus, ReleaseFinalizer
<1>2. CASE SetStartTime
  <2> DEFINE new == [inst EXCEPT !.status.start = TRUE]
  <2>1. new \in Op /\ Alike(new.status, inst.status)
    BY <1>1 DEF Op, OperationStatusType, Alike
  <2>2. Write(new, inst' = op' /\ Goto(Dispatch(new)))
    BY <1>2 DEF SetStartTime
  <2> HIDE DEF new
  <2>3. Goto(Dispatch(new)) => found' = found /\ ~Checking'
    BY DispatchNotChecking DEF Goto
  <2> QED
    BY <1>1, <2>1, <2>2, <2>3, WriteSteps
<1>3. ASSUME NEW label, NEW finalizer \in Finalizers, SetFinalizer(label, finalizer)
      PROVE  HandlerStep
  <2> DEFINE new == [inst EXCEPT !.fins = @ \cup {finalizer}]
  <2>1. new \in Op /\ Alike(new.status, inst.status)
    BY <1>1 DEF Op, Alike
  <2>2. Write(new, inst' = op' /\ Goto(Dispatch(new)))
    BY <1>3 DEF SetFinalizer
  <2> HIDE DEF new
  <2>3. Goto(Dispatch(new)) => found' = found /\ ~Checking'
    BY DispatchNotChecking DEF Goto
  <2> QED
    BY <1>1, <2>1, <2>2, <2>3, WriteSteps
<1>4. CASE SetLogsFinalizer \/ SetStatusFinalizer
  BY <1>3, <1>4 DEF SetLogsFinalizer, SetStatusFinalizer, Finalizers
<1>5. CASE StoreStatus
  <2>1. Write(inst, inst' = op' /\ Goto("sync")) /\ pc = "write" /\ Alike(inst.status, inst.status)
    BY <1>5 DEF StoreStatus, Alike
  <2>2. Goto("sync") => found' = found /\ (Checking' => Checking)
    BY <2>1 DEF Goto, Checking
  <2> QED
    BY <1>1, <2>1, <2>2, WriteSteps
<1>6. CASE ReleaseFinalizer
  <2> DEFINE first == IF "logs" \in inst.fins THEN "logs" ELSE "status"
             new   == [inst EXCEPT !.fins = @ \ {first}]
             After == IF inst.life = "deleting" THEN Return ELSE inst' = op' /\ Goto("cleanup")
  <2>1. new \in Op /\ Alike(new.status, inst.status)
    BY <1>1 DEF Op, Alike
  <2>2. Write(new, After)
    BY <1>6 DEF ReleaseFinalizer
  <2> HIDE DEF new
  <2>3. After => Forget \/ (inst' = op' /\ found' = found /\ ~Checking')
    BY DEF Return, Goto, Checking
  <2> HIDE DEF After
  <2> QED
    BY <1>1, <2>1, <2>2, <2>3, WriteSteps
<1> QED
  BY <1>2, <1>4, <1>5, <1>6

\* The handlers that read, report, collect and delete.
LEMMA ReadersCarry ==
  ASSUME SharedInv, FetchOp \/ ReportStatus \/ ReportStopped \/ CollectHeld \/ CleanUp
  PROVE  HandlerStep
<1>1. /\ UNCHANGED <<setup, opCache, ownedCache, podCache, removals>>
  BY DEF FetchOp, ReportStatus, ReportStopped, CollectHeld, CleanUp, elsewhere, caches
<1>2. CASE FetchOp
  <2>1. UNCHANGED <<op, owned, pods, found, faults>>
    BY <1>2 DEF FetchOp, cluster, worker
  <2>2. inst' \in {opCache, inst} /\ (Checking' => Checking)
    BY <1>2, DispatchNotChecking DEF FetchOp, worker, Checking
  <2> QED
    BY <1>1, <2>1, <2>2 DEF HandlerStep, Carried, Alike
<1>3. CASE ReportStatus
  <2>1. UNCHANGED <<op, owned, pods>> /\ faults' \in {faults, faults + 1}
    BY <1>3 DEF ReportStatus, syncStatus, Fail, cluster
  <2>2. Forget \/ (inst' = inst /\ found' = found /\ (Checking' => Checking))
    BY <1>3 DEF ReportStatus, Return, ReturnError, Goto, Checking, SharedInv, SharedTypeOK, Nexts
  <2> QED
    BY <1>1, <2>1, <2>2, ForgetSteps DEF HandlerStep, Carried, Alike
<1>4. CASE ReportStopped
  <2>1. UNCHANGED <<op, owned, pods, inst, found>> /\ faults' \in {faults, faults + 1} /\ ~Checking'
    BY <1>4 DEF ReportStopped, syncStatus, Fail, cluster, Goto, Checking
  <2> QED
    BY <1>1, <2>1 DEF HandlerStep, Carried, Alike
<1>5. CASE CollectHeld
  <2>1. UNCHANGED <<op, owned, pods>> /\ faults' \in {faults, faults + 1}
    BY <1>5 DEF CollectHeld, Fail, cluster
  <2>2. Forget \/ (inst' = inst /\ found' = found /\ ~Checking')
    BY <1>5 DEF CollectHeld, AfterFinalizers, Return, Goto, Checking
  <2> QED
    BY <1>1, <2>1, <2>2, ForgetSteps DEF HandlerStep, Carried, Alike
<1>6. CASE CleanUp
  <2>1. UNCHANGED <<owned, pods>> /\ faults' \in {faults, faults + 1} /\ Forget
    BY <1>6 DEF CleanUp, Delete, DeleteOp, Put, Return, ReturnError, Fail, cluster
  <2>2. op' = op \/ DeleteOp
    BY <1>6 DEF CleanUp, Delete, cluster
  <2>3. op'.status = op.status
    <3>1. CASE DeleteOp
      <4> DEFINE new == [op EXCEPT !.life = "deleting"]
      <4>1. new \in Op /\ new.status = op.status /\ Put(new)
        BY <3>1 DEF DeleteOp, SharedInv, SharedTypeOK, Op
      <4> HIDE DEF new
      <4> QED
        BY <4>1, PutStores
    <3> QED
      BY <2>2, <3>1
  <2> QED
    BY <1>1, <2>1, <2>3, ForgetSteps DEF HandlerStep, Carried, Alike
<1> QED
  BY <1>2, <1>3, <1>4, <1>5, <1>6

\* A verdict on pods has a reason whatever the pods look like.
LEMMA VerdictReason == \A podList : HasUnschedulablePods(podList).why \in Reasons
<1>1. \A pod : PodVerdict(pod).why \in Reasons
  BY DEF PodVerdict, Verdict, NoVerdict, Reasons
<1> QED
  BY <1>1 DEF HasUnschedulablePods, Verdict, NoVerdict, Reasons

\* A new status is stored as it is or not at all.
LEMMA StatusSteps ==
  ASSUME SharedInv, NEW new \in OperationStatusType, NEW next, WriteStatus(new, next)
  PROVE  /\ UNCHANGED <<owned, pods>> /\ faults' \in {faults, faults + 1}
         /\ op' = op \/ (op.life # "gone" /\ op'.status = new)
         /\ inst' \in {NewOp, op'} /\ found' \in {found, Nothing}
         /\ Checking' => next = "checkStatus"
<1> DEFINE copy == [inst EXCEPT !.status = new]
<1>1. copy \in Op /\ copy.status = new
  BY DEF Op, SharedInv, SharedTypeOK
<1>2. Write(copy, inst' = op' /\ pc' = "sync" /\ then' = next /\ UNCHANGED <<found, queued>>)
  BY DEF WriteStatus
<1> HIDE DEF copy
<1>3. Forget \/ (inst' = op' /\ pc' = "sync" /\ then' = next /\ found' = found)
  BY <1>2 DEF Write, ReturnError
<1>4. UNCHANGED <<owned, pods>> /\ faults' \in {faults, faults + 1}
  BY <1>2 DEF Write, Put, Fail, cluster
<1>5. op' = op \/ (op.life # "gone" /\ op'.status = new)
  BY <1>1, <1>2, PutStores DEF Write, Current, cluster
<1> QED
  BY <1>3, <1>4, <1>5, ForgetSteps DEF Checking
=============================================================================
