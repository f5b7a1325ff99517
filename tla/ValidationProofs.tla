-------------------------- MODULE ValidationProofs --------------------------
(***************************************************************************)
(* Proofs about the validation of blocks and transactions.                 *)
(*   - CheckQueue, for any number of workers, checks and any batch size:   *)
(*     Wait() returns the conjunction of all checks, and the assertion of  *)
(*     the CCheckQueueControl constructor holds.                           *)
(*   - Mempool, for any tree of blocks and any transactions: after any     *)
(*     sequence of connects and disconnects the coins are those the chain  *)
(*     leaves unspent, every pool transaction can be mined in the next     *)
(*     block, the orphans are indexed by the outputs they wait for, and a  *)
(*     reorganisation drops a transaction only for a reason of the code.   *)
(***************************************************************************)
EXTENDS CheckQueue, Mempool, FiniteSetTheorems, WellFoundedInduction,
        NaturalsInduction, TLAPS

(* Threads the code has counted into nIdle and that can still come back.   *)
Waiting(p) == {t \in Threads : p[t] \in {"wait", "woken"}}

(* Where a thread can be, and when it holds a batch.                       *)
PcInv ==
    /\ \A t \in Threads : vChecks[t] # {} => pc[t] \in {"work", "lock"}
    /\ \A t \in Threads : pc[t] = "work" => vChecks[t] # {}
    /\ \A w \in Workers : pc[w] \notin {"out", "adding"}
    /\ pc[Master] # "exited"
    /\ verdict # None => pc[Master] = "out"

(* nTotal and nIdle differ by the threads that hold a batch; a thread that *)
(* was interrupted stays counted in both.                                  *)
CountInv ==
    /\ nTotal = nIdle + Cardinality(Active)
    /\ Cardinality(Waiting(pc)) <= nIdle

(* fAllOk and the threads' fOk against the checks completed so far.        *)
ResultInv ==
    /\ Outstanding \subseteq added
    /\ fAllOk /\ pc[Master] # "out" => (added \ Outstanding) \intersect Bad = {}
    /\ ~fAllOk => added \intersect Bad # {}
    /\ \A t \in Threads : vChecks[t] # {} /\ ~fOk[t] => added \intersect Bad # {}
    /\ \A t \in Threads :
          pc[t] = "lock" /\ vChecks[t] # {} /\ fOk[t] => vChecks[t] \intersect Bad = {}

(* Between two rounds nothing is left over.                                *)
OutInv == pc[Master] = "out" => Outstanding = {} /\ fAllOk

(* The inductive invariant.                                                *)
IInv == TypeOK /\ PcInv /\ TodoExact /\ CountInv /\ ResultInv /\ OutInv /\ VerdictCorrect

-----------------------------------------------------------------------------

(* A thread t is in Loop's critical section after the clean-up: the values *)
(* the clean-up left, and t counted as neither idle nor active.            *)
Mid(t, idle, total, ok, todo, p) ==
    /\ pc[t] \in {"lock", "woken"}
    /\ idle \in Nat /\ ok \in BOOLEAN
    /\ total = idle + Cardinality(Active \ {t}) + 1
    /\ todo = Cardinality(Outstanding \ vChecks[t])
    /\ p \in [Threads -> PCs]
    /\ \A u \in Threads : p[u] = pc[u] \/ (pc[u] = "wait" /\ p[u] = "woken")
    /\ Cardinality(Waiting(p) \ {t}) <= idle
    /\ pc[Master] = "out" => ok
    /\ ok /\ pc[Master] # "out" =>
          (added \ (Outstanding \ vChecks[t])) \intersect Bad = {}
    /\ ~ok => added \intersect Bad # {}

(* Sets of threads and of checks are finite.                               *)
LEMMA Finite ==
    /\ IsFiniteSet(Threads)
    /\ \A S \in SUBSET Threads : IsFiniteSet(S) /\ Cardinality(S) \in Nat
    /\ \A S \in SUBSET Checks : IsFiniteSet(S) /\ Cardinality(S) \in Nat
  <1>1. IsFiniteSet(Threads)
    BY WorkersAssumption, FS_AddElement DEF Threads
  <1>2. QED
    BY <1>1, ChecksAssumption, FS_Subset, FS_CardinalityType

(* Removing a subset subtracts its cardinality.                            *)
LEMMA CardinalityDiff ==
  ASSUME NEW S, IsFiniteSet(S), NEW T \in SUBSET S
  PROVE  Cardinality(S) = Cardinality(S \ T) + Cardinality(T)
  <1>1. IsFiniteSet(S \ T) /\ IsFiniteSet(T)
    BY FS_Subset
  <1>2. Cardinality((S \ T) \union T) =
          Cardinality(S \ T) + Cardinality(T) - Cardinality((S \ T) \intersect T)
    BY <1>1, FS_Union
  <1>3. (S \ T) \union T = S /\ (S \ T) \intersect T = {}
    OBVIOUS
  <1>4. Cardinality(S) = Cardinality(S \ T) + Cardinality(T) - Cardinality({})
    BY <1>2, <1>3, Zenon
  <1>. QED BY <1>1, <1>4, FS_EmptySet, FS_CardinalityType

(* Dropping t's batch: what is outstanding shrinks by exactly that batch.  *)
LEMMA DropBatch ==
  ASSUME TypeOK, TodoExact, NEW t \in Threads
  PROVE  /\ Outstanding \ vChecks[t] =
              {c \in Checks : c \in queue \/ \E u \in Threads \ {t} : c \in vChecks[u]}
         /\ Cardinality(Outstanding \ vChecks[t]) = nTodo - Cardinality(vChecks[t])
         /\ Cardinality(Outstanding \ vChecks[t]) \in Nat
  <1>1. vChecks[t] \subseteq Outstanding /\ Outstanding \subseteq Checks
    BY DEF TypeOK, Outstanding
  <1>2. Cardinality(Outstanding) = Cardinality(Outstanding \ vChecks[t]) + Cardinality(vChecks[t])
    BY <1>1, Finite, CardinalityDiff, Zenon
  <1>3. Cardinality(Outstanding \ vChecks[t]) \in Nat /\ Cardinality(vChecks[t]) \in Nat
    BY <1>1, Finite, Zenon
  <1>4. Outstanding \ vChecks[t] =
          {c \in Checks : c \in queue \/ \E u \in Threads \ {t} : c \in vChecks[u]}
    BY DEF TypeOK, TodoExact, Outstanding
  <1>. QED BY <1>2, <1>3, <1>4 DEF TodoExact

(* The batch size is a positive number, at most nBatchSize.                *)
LEMMA BatchSizeType ==
  ASSUME NEW size \in Nat, NEW total \in Nat, NEW idle \in Nat
  PROVE  BatchSize(size, total, idle) \in Nat \ {0}
  <1>1. size \div (total + idle + 1) \in Nat
    OBVIOUS
  <1>. QED BY <1>1, BatchAssumption DEF BatchSize

(* Loop's decision to return, to wait or to take a batch preserves the     *)
(* invariant, whatever clean-up preceded it.                               *)
LEMMA ScheduleStep ==
  ASSUME IInv, NEW t \in Threads, NEW idle, NEW total, NEW ok, NEW todo, NEW p,
         Mid(t, idle, total, ok, todo, p), Schedule(t, idle, total, ok, todo, p)
  PROVE  IInv'
  <1> DEFINE rest == {c \in Checks : c \in queue \/ \E u \in Threads \ {t} : c \in vChecks[u]}
  <1>0. todo \in Nat
    BY DropBatch DEF IInv, Mid
  <1>1. Outstanding \ vChecks[t] = rest /\ todo = Cardinality(rest)
    BY DropBatch DEF IInv, Mid
  <1>2. Cardinality(Active \ {t}) \in Nat /\ total \in Nat /\ total = idle + Cardinality(Active \ {t}) + 1
        /\ idle \in Nat /\ ok \in BOOLEAN /\ p \in [Threads -> PCs]
    <2>1. Cardinality(Active \ {t}) \in Nat
      BY Finite DEF Active
    <2>. QED BY <2>1 DEF Mid
  <1>3. Master \in Threads
    BY DEF Threads
  <1>4. CASE Return(t, idle, total, ok, todo, p)
    <2>1. rest = {}
      <3>1. IsFiniteSet(rest)
        BY Finite
      <3>. HIDE DEF rest
      <3>. QED BY <1>1, <1>4, <3>1, FS_EmptySet DEF Return
    <2>2. Outstanding' = {}
      BY <1>4, <2>1 DEF IInv, TypeOK, Return, Outstanding
    <2>3. Active' = {} /\ Active \ {t} = {}
      BY <1>4, <2>1 DEF IInv, TypeOK, Return, Active
    <2>4. nTotal' = idle /\ nIdle' = idle /\ nTodo' = 0
      <3>1. Cardinality(Active \ {t}) = 0
        BY <2>3, FS_EmptySet, Zenon
      <3>2. nTotal' = total - 1 /\ nIdle' = idle /\ nTodo' = 0
        BY <1>4, Zenon DEF Return
      <3>. QED BY <1>2, <3>1, <3>2
    <2>5. Waiting(pc') = Waiting(p) \ {t}
      BY <1>2, <1>4 DEF Return, Waiting
    <2>6. ok <=> added \intersect Bad = {}
      BY <1>1, <1>2, <1>4, <2>1 DEF Mid, Return
    <2>7. TypeOK'
      <3>1. pc' \in [Threads -> PCs]
        BY <1>2, <1>4 DEF Return, PCs
      <3>2. vChecks' \in [Threads -> SUBSET Checks]
        BY <1>4 DEF IInv, TypeOK, Return
      <3>3. fAllOk' \in BOOLEAN /\ queue' = queue /\ fOk' = fOk
            /\ verdict' \in BOOLEAN \union {None}
            /\ inDtor' = inDtor /\ interrupted' = interrupted /\ added' = added
        BY <1>2, <1>4, Zenon DEF Return, Schedule
      <3>4. nIdle' \in Nat /\ nTotal' \in Nat /\ nTodo' \in Nat
        BY <1>2, <2>4
      <3>. QED BY <3>1, <3>2, <3>3, <3>4, Zenon DEF IInv, TypeOK
    <2>8. CountInv'
      <3>1. Cardinality(Active') = 0
        BY <2>3, FS_EmptySet, Zenon
      <3>2. Cardinality(Waiting(pc')) <= idle
        BY <2>5, Zenon DEF Mid
      <3>. QED BY <1>2, <2>4, <3>1, <3>2 DEF CountInv
    <2>9. PcInv'
      BY <1>2, <1>3, <1>4, WorkersAssumption DEF IInv, TypeOK, PcInv, Return, Mid, Threads
    <2>10. TodoExact'
      <3>1. nTodo' = Cardinality(Outstanding')
        BY <2>2, <2>4, FS_EmptySet, Zenon
      <3>. QED BY <3>1, <1>4 DEF IInv, TypeOK, TodoExact, Return
    <2>11. pc'[Master] = "out" /\ fAllOk' = TRUE
      BY <1>2, <1>4 DEF Return
    <2>12. ResultInv'
      BY <1>4, <2>2, <2>3, <2>11 DEF ResultInv, Active
    <2>13. OutInv'
      BY <2>2, <2>11, Zenon DEF OutInv
    <2>14. VerdictCorrect'
      BY <1>4, <2>6, Zenon DEF VerdictCorrect, Return, Schedule
    <2>. QED BY <2>7, <2>8, <2>9, <2>10, <2>12, <2>13, <2>14 DEF IInv
  <1>5. CASE Block(t, idle, total, ok, todo, p)
    <2>1. TypeOK'
      <3>1. pc' \in [Threads -> PCs]
        BY <1>2, <1>5 DEF Block, PCs
      <3>2. vChecks' \in [Threads -> SUBSET Checks]
        BY <1>5 DEF IInv, TypeOK, Block
      <3>3. nIdle' \in Nat /\ nTotal' \in Nat /\ nTodo' \in Nat
        BY <1>0, <1>2, <1>5 DEF Block
      <3>4. fAllOk' \in BOOLEAN /\ queue' = queue /\ fOk' = fOk /\ verdict' = verdict
            /\ inDtor' = inDtor /\ interrupted' = interrupted /\ added' = added
        BY <1>2, <1>5, Zenon DEF Block, Schedule
      <3>. QED BY <3>1, <3>2, <3>3, <3>4, Zenon DEF IInv, TypeOK
    <2>2. Outstanding' = rest /\ queue' = {}
      BY <1>5 DEF IInv, TypeOK, Block, Outstanding
    <2>3. Active' = Active \ {t}
      BY <1>5 DEF IInv, TypeOK, Block, Active
    <2>4. Waiting(pc') = (Waiting(p) \ {t}) \union {t}
      BY <1>2, <1>5 DEF IInv, TypeOK, Block, Waiting, PCs
    <2>5. CountInv'
      <3>1. Cardinality(Active') = Cardinality(Active \ {t})
        BY <2>3, Zenon
      <3>2. Cardinality(Waiting(pc')) = Cardinality(Waiting(p) \ {t}) + 1
        <4>1. IsFiniteSet(Waiting(p) \ {t})
          BY Finite DEF Waiting
        <4>. QED BY <4>1, <2>4, FS_AddElement, Zenon
      <3>3. Cardinality(Waiting(p) \ {t}) \in Nat
        BY Finite DEF Waiting
      <3>. QED BY <1>2, <1>5, <3>1, <3>2, <3>3 DEF CountInv, Block, Mid
    <2>6. PcInv'
      BY <1>2, <1>3, <1>5, WorkersAssumption DEF IInv, TypeOK, PcInv, Block, Mid, Threads
    <2>7. TodoExact'
      <3>1. nTodo' = Cardinality(Outstanding')
        BY <1>1, <1>5, <2>2, Zenon DEF Block
      <3>. QED BY <3>1, <1>5 DEF IInv, TypeOK, TodoExact, Block
    <2>8. ResultInv'
      BY <1>1, <1>2, <1>3, <1>5, <2>2 DEF IInv, TypeOK, PcInv, ResultInv, Block, Schedule, Mid
    <2>9. OutInv'
      BY <1>1, <1>2, <1>3, <1>5, <2>2 DEF IInv, TypeOK, PcInv, OutInv, Block, Schedule, Mid
    <2>10. VerdictCorrect'
      BY <1>5 DEF IInv, VerdictCorrect, Block, Schedule
    <2>. QED BY <2>1, <2>5, <2>6, <2>7, <2>8, <2>9, <2>10 DEF IInv
  <1>6. CASE Take(t, idle, total, ok, todo, p)
    <2>1. PICK S \in SUBSET queue :
             /\ Cardinality(S) = BatchSize(Cardinality(queue), total, idle)
             /\ vChecks' = [vChecks EXCEPT ![t] = S]
             /\ queue' = queue \ S
      BY <1>6, Zenon DEF Take
    <2>2. S # {}
      <3>1. Cardinality(queue) \in Nat
        BY Finite DEF IInv, TypeOK
      <3>2. Cardinality(S) # 0
        BY <1>2, <2>1, <3>1, BatchSizeType
      <3>. QED BY <3>2, FS_EmptySet
    <2>3. Outstanding' = rest
      BY <2>1 DEF IInv, TypeOK, Outstanding
    <2>4. Active' = (Active \ {t}) \union {t}
      BY <2>1, <2>2 DEF IInv, TypeOK, Active
    <2>5. Waiting(pc') = Waiting(p) \ {t}
      BY <1>2, <1>6 DEF Take, Waiting
    <2>6. TypeOK'
      <3>1. pc' \in [Threads -> PCs]
        BY <1>2, <1>6 DEF Take, PCs
      <3>2. vChecks' \in [Threads -> SUBSET Checks] /\ queue' \in SUBSET Checks
        BY <2>1 DEF IInv, TypeOK
      <3>3. nIdle' \in Nat /\ nTotal' \in Nat /\ nTodo' \in Nat
        BY <1>0, <1>2, <1>6 DEF Take
      <3>4. fOk' \in [Threads -> BOOLEAN]
        BY <1>2, <1>6 DEF IInv, TypeOK, Take
      <3>5. fAllOk' \in BOOLEAN /\ verdict' = verdict
            /\ inDtor' = inDtor /\ interrupted' = interrupted /\ added' = added
        BY <1>2, <1>6, Zenon DEF Take, Schedule
      <3>. QED BY <3>1, <3>2, <3>3, <3>4, <3>5, Zenon DEF IInv, TypeOK
    <2>7. CountInv'
      <3>1. Cardinality(Active') = Cardinality(Active \ {t}) + 1
        <4>1. IsFiniteSet(Active \ {t})
          BY Finite DEF Active
        <4>. QED BY <2>4, <4>1, FS_AddElement, Zenon
      <3>2. Cardinality(Waiting(pc')) <= idle
        BY <2>5, Zenon DEF Mid
      <3>. QED BY <1>2, <1>6, <3>1, <3>2 DEF CountInv, Take
    <2>8. PcInv'
      BY <1>2, <1>3, <1>6, <2>1, <2>2, WorkersAssumption
      DEF IInv, TypeOK, PcInv, Take, Mid, Threads
    <2>9. TodoExact'
      <3>1. nTodo' = Cardinality(Outstanding')
        BY <1>1, <1>6, <2>3, Zenon DEF Take
      <3>2. \A u \in Threads : vChecks'[u] \intersect queue' = {}
        BY <2>1 DEF IInv, TypeOK, TodoExact
      <3>3. \A u, v \in Threads : u # v => vChecks'[u] \intersect vChecks'[v] = {}
        BY <2>1 DEF IInv, TypeOK, TodoExact
      <3>. QED BY <3>1, <3>2, <3>3 DEF TodoExact
    <2>10. fAllOk' = ok /\ added' = added /\ fOk' = [fOk EXCEPT ![t] = ok]
           /\ \A u \in Threads \ {t} : pc'[u] = p[u]
      BY <1>2, <1>6 DEF Take, Schedule
    <2>11. pc'[t] = "work" /\ (pc'[Master] = "out" => pc[Master] = "out")
      BY <1>2, <1>3, <1>6, <2>10 DEF Take, Mid, IInv, TypeOK
    <2>12. ResultInv'
      <3>1. Outstanding' \subseteq added' /\ (fAllOk' /\ pc'[Master] # "out" =>
               (added' \ Outstanding') \intersect Bad = {})
        BY <1>1, <1>2, <1>3, <1>6, <2>3, <2>10, <2>11
        DEF IInv, TypeOK, ResultInv, Mid, Take
      <3>2. ~fAllOk' => added' \intersect Bad # {}
        BY <1>2, <2>10 DEF Mid
      <3>3. \A u \in Threads : vChecks'[u] # {} /\ ~fOk'[u] => added' \intersect Bad # {}
        BY <1>2, <2>1, <2>10 DEF IInv, TypeOK, ResultInv, Mid
      <3>4. \A u \in Threads : pc'[u] = "lock" /\ vChecks'[u] # {} /\ fOk'[u]
                                 => vChecks'[u] \intersect Bad = {}
        BY <1>2, <2>1, <2>10, <2>11 DEF IInv, TypeOK, ResultInv, Mid
      <3>. QED BY <3>1, <3>2, <3>3, <3>4, Zenon DEF ResultInv
    <2>13. OutInv'
      BY <1>1, <1>6, <2>3, <2>10, <2>11 DEF IInv, TypeOK, OutInv, Mid, Outstanding, Take
    <2>14. VerdictCorrect'
      BY <1>6, Zenon DEF IInv, VerdictCorrect, Take, Schedule
    <2>. QED BY <2>6, <2>7, <2>8, <2>9, <2>12, <2>13, <2>14 DEF IInv
  <1>. QED BY <1>4, <1>5, <1>6 DEF Schedule

(* The first iteration of Loop counts the thread in.                       *)
LEMMA EnterStep ==
  ASSUME IInv, NEW t \in Threads, Enter(t)
  PROVE  IInv'
  <1>1. Outstanding \ vChecks[t] = Outstanding /\ Active \ {t} = Active
    BY DEF Enter, Active
  <1>2. pc[t] = "lock" /\ Waiting(pc) \ {t} = Waiting(pc)
    BY DEF Enter, Waiting
  <1>3. Mid(t, nIdle, nTotal + 1, fAllOk, nTodo, pc)
    <2>1. Cardinality(Active) \in Nat
      BY Finite DEF Active
    <2>2. nTotal + 1 = nIdle + Cardinality(Active \ {t}) + 1
      BY <1>1, <2>1 DEF IInv, TypeOK, CountInv
    <2>3. nTodo = Cardinality(Outstanding \ vChecks[t])
      BY <1>1, Zenon DEF IInv, TodoExact
    <2>4. Cardinality(Waiting(pc) \ {t}) <= nIdle
      BY <1>2, Zenon DEF IInv, CountInv
    <2>5. nIdle \in Nat /\ fAllOk \in BOOLEAN /\ pc \in [Threads -> PCs]
      BY DEF IInv, TypeOK
    <2>6. /\ pc[Master] = "out" => fAllOk
          /\ fAllOk /\ pc[Master] # "out" =>
               (added \ (Outstanding \ vChecks[t])) \intersect Bad = {}
          /\ ~fAllOk => added \intersect Bad # {}
      BY <1>1, Zenon DEF IInv, ResultInv, OutInv
    <2>. QED BY <1>2, <2>2, <2>3, <2>4, <2>5, <2>6, Zenon DEF Mid
  <1>. QED BY <1>3, ScheduleStep DEF Enter

(* The clean-up after a batch.                                             *)
LEMMA CompleteStep ==
  ASSUME IInv, NEW t \in Threads, Complete(t)
  PROVE  IInv'
  <1> DEFINE todo == nTodo - Cardinality(vChecks[t])
             p == NotifyMaster(t, todo, pc)
             ok == fAllOk /\ fOk[t]
  <1>1. pc[t] = "lock" /\ vChecks[t] # {} /\ Waiting(pc) \ {t} = Waiting(pc)
    BY DEF Complete, Waiting
  <1>2. todo = Cardinality(Outstanding \ vChecks[t])
    BY DropBatch DEF IInv
  <1>3. p \in [Threads -> PCs] /\ Waiting(p) = Waiting(pc)
        /\ \A u \in Threads : p[u] = pc[u] \/ (pc[u] = "wait" /\ p[u] = "woken")
    BY DEF IInv, TypeOK, NotifyMaster, Waiting, PCs
  <1>4. nTotal = nIdle + Cardinality(Active \ {t}) + 1
    <2>1. t \in Active /\ IsFiniteSet(Active) /\ Cardinality(Active \ {t}) \in Nat
      BY <1>1, Finite DEF Active
    <2>2. Cardinality(Active \ {t}) = Cardinality(Active) - 1 /\ Cardinality(Active) \in Nat
      BY <2>1, FS_RemoveElement, FS_CardinalityType, Zenon
    <2>. QED BY <2>1, <2>2 DEF IInv, TypeOK, CountInv
  <1>5. pc[Master] # "out"
    BY <1>1 DEF IInv, OutInv, TypeOK, Outstanding
  <1>6. ok \in BOOLEAN /\ nIdle \in Nat
    BY DEF IInv, TypeOK
  <1>7. ok => (added \ (Outstanding \ vChecks[t])) \intersect Bad = {}
    BY <1>1, <1>5 DEF IInv, ResultInv
  <1>8. ~ok => added \intersect Bad # {}
    BY <1>1 DEF IInv, ResultInv
  <1>9. Cardinality(Waiting(p) \ {t}) <= nIdle
    BY <1>1, <1>3, Zenon DEF IInv, CountInv
  <1>10. Schedule(t, nIdle, nTotal, ok, todo, p)
    BY DEF Complete
  <1> HIDE DEF todo, p, ok
  <1>11. Mid(t, nIdle, nTotal, ok, todo, p)
    BY <1>1, <1>2, <1>3, <1>4, <1>5, <1>6, <1>7, <1>8, <1>9, Zenon DEF Mid
  <1>. QED BY <1>10, <1>11, ScheduleStep

(* cond.wait() returns.                                                    *)
LEMMA ResumeStep ==
  ASSUME IInv, NEW t \in Threads, Resume(t)
  PROVE  IInv'
  <1>1. pc[t] = "woken" /\ vChecks[t] = {} /\ t \in Waiting(pc)
    BY DEF IInv, PcInv, Resume, Waiting
  <1>2. Outstanding \ vChecks[t] = Outstanding /\ Active \ {t} = Active
    BY <1>1 DEF Active
  <1>3. Cardinality(Waiting(pc) \ {t}) = Cardinality(Waiting(pc)) - 1
        /\ Cardinality(Waiting(pc)) \in Nat /\ Cardinality(Waiting(pc) \ {t}) \in Nat
    <2>1. IsFiniteSet(Waiting(pc)) /\ Cardinality(Waiting(pc) \ {t}) \in Nat
          /\ Cardinality(Waiting(pc)) \in Nat
      BY Finite DEF Waiting
    <2>. QED BY <1>1, <2>1, FS_RemoveElement, Zenon
  <1>4. Mid(t, nIdle - 1, nTotal, fAllOk, nTodo, pc)
    <2>1. Cardinality(Active) \in Nat
      BY Finite DEF Active
    <2>2. nIdle - 1 \in Nat /\ Cardinality(Waiting(pc) \ {t}) <= nIdle - 1
      BY <1>3 DEF IInv, TypeOK, CountInv
    <2>3. nTotal = (nIdle - 1) + Cardinality(Active \ {t}) + 1
      <3>1. nTotal = nIdle + Cardinality(Active \ {t}) /\ Cardinality(Active \ {t}) \in Nat
        BY <1>2, <2>1, Zenon DEF IInv, CountInv
      <3>. QED BY <2>2, <3>1 DEF IInv, TypeOK
    <2>4. nTodo = Cardinality(Outstanding \ vChecks[t])
      BY <1>2, Zenon DEF IInv, TodoExact
    <2>5. fAllOk \in BOOLEAN /\ pc \in [Threads -> PCs]
      BY DEF IInv, TypeOK
    <2>6. /\ pc[Master] = "out" => fAllOk
          /\ fAllOk /\ pc[Master] # "out" =>
               (added \ (Outstanding \ vChecks[t])) \intersect Bad = {}
          /\ ~fAllOk => added \intersect Bad # {}
      BY <1>2, Zenon DEF IInv, ResultInv, OutInv
    <2>. QED BY <1>1, <2>2, <2>3, <2>4, <2>5, <2>6, Zenon DEF Mid
  <1>. QED BY <1>4, ScheduleStep DEF Resume

-----------------------------------------------------------------------------

(* The constructor of CCheckQueueControl starts a round; only pc and the     *)
(* history of the round change.                                            *)
LEMMA NewControlStep ==
  ASSUME IInv, NewControl
  PROVE  IInv'
  <1>1. Master \in Threads /\ pc[Master] = "out" /\ Outstanding = {} /\ fAllOk
    BY DEF IInv, OutInv, NewControl, Threads
  <1>2. Outstanding' = {} /\ Active' = Active /\ Waiting(pc') = Waiting(pc)
    BY <1>1 DEF IInv, TypeOK, NewControl, Outstanding, Active, Waiting
  <1>3. TypeOK'
    BY <1>1 DEF IInv, TypeOK, NewControl, PCs
  <1>4. PcInv'
    BY <1>1, WorkersAssumption DEF IInv, TypeOK, PcInv, NewControl
  <1>5. TodoExact'
    <2>1. nTodo' = Cardinality(Outstanding')
      BY <1>1, <1>2, Zenon DEF IInv, TodoExact, NewControl
    <2>. QED BY <2>1 DEF IInv, TodoExact, NewControl
  <1>6. CountInv'
    BY <1>2, Zenon DEF IInv, CountInv, NewControl
  <1>7. ResultInv'
    <2>1. \A t \in Threads : vChecks[t] = {}
      BY <1>1 DEF IInv, TypeOK, Outstanding
    <2>. QED BY <1>1, <1>2, <2>1 DEF ResultInv, NewControl
  <1>8. OutInv' /\ VerdictCorrect'
    BY <1>1 DEF IInv, TypeOK, OutInv, VerdictCorrect, NewControl
  <1>. QED BY <1>3, <1>4, <1>5, <1>6, <1>7, <1>8 DEF IInv

(* Add: nTodo grows by the number of new checks, waiting threads may wake. *)
LEMMA AddStep ==
  ASSUME IInv, NEW S \in SUBSET (Checks \ added), Add(S)
  PROVE  IInv'
  <1>1. Master \in Threads /\ pc[Master] = "adding"
    BY DEF Add, Threads
  <1>2. pc' \in [Threads -> PCs]
        /\ \A t \in Threads : pc'[t] = pc[t] \/ (t \in Workers /\ pc[t] = "wait" /\ pc'[t] = "woken")
    BY DEF IInv, TypeOK, Add, NotifyWorkers, PCs, Threads
  <1>3. pc'[Master] = "adding" /\ Waiting(pc') = Waiting(pc)
    BY <1>1, <1>2, WorkersAssumption DEF Waiting
  <1>4. Outstanding' = Outstanding \union S /\ Outstanding \intersect S = {} /\ Active' = Active
    BY DEF IInv, TypeOK, ResultInv, Add, Outstanding, Active
  <1>5. Cardinality(Outstanding') = nTodo + Cardinality(S) /\ nTodo' = nTodo + Cardinality(S)
        /\ nTodo' \in Nat
    <2>1. IsFiniteSet(Outstanding) /\ IsFiniteSet(S) /\ Cardinality(S) \in Nat
      BY Finite DEF Outstanding
    <2>2. Cardinality(Outstanding \union S) =
            Cardinality(Outstanding) + Cardinality(S) - Cardinality({})
      BY <2>1, <1>4, FS_Union, Zenon
    <2>3. Cardinality(Outstanding') = nTodo + Cardinality(S) - Cardinality({})
      BY <2>2, <1>4, Zenon DEF IInv, TodoExact
    <2>4. nTodo' = nTodo + Cardinality(S) /\ nTodo \in Nat
      BY DEF IInv, TypeOK, Add
    <2>. QED BY <2>1, <2>3, <2>4, FS_EmptySet
  <1>6. TypeOK'
    BY <1>2, <1>5 DEF IInv, TypeOK, Add
  <1>7. PcInv'
    BY <1>1, <1>2, <1>3, WorkersAssumption DEF IInv, PcInv, Add, Threads
  <1>8. TodoExact'
    <2>1. \A t \in Threads : vChecks'[t] \intersect queue' = {}
      BY DEF IInv, TypeOK, TodoExact, ResultInv, Outstanding, Add
    <2>. QED BY <1>5, <2>1 DEF IInv, TodoExact, Add
  <1>9. CountInv'
    BY <1>3, <1>4, Zenon DEF IInv, CountInv, Add
  <1>10. ResultInv'
    <2>1. Outstanding' \subseteq added' /\ added' \ Outstanding' = added \ Outstanding
      BY <1>4 DEF IInv, ResultInv, Add
    <2>2. fAllOk' = fAllOk /\ fOk' = fOk /\ vChecks' = vChecks /\ added \subseteq added'
      BY DEF Add
    <2>3. \A t \in Threads : pc'[t] = "lock" => pc[t] = "lock"
      BY <1>2
    <2>4. fAllOk' => (added' \ Outstanding') \intersect Bad = {}
      BY <1>1, <2>1, <2>2, Zenon DEF IInv, ResultInv
    <2>5. (~fAllOk' => added' \intersect Bad # {})
          /\ \A t \in Threads : vChecks'[t] # {} /\ ~fOk'[t] => added' \intersect Bad # {}
      BY <2>2 DEF IInv, ResultInv
    <2>6. \A t \in Threads : pc'[t] = "lock" /\ vChecks'[t] # {} /\ fOk'[t]
                                => vChecks'[t] \intersect Bad = {}
      BY <2>2, <2>3, Zenon DEF IInv, ResultInv
    <2>. QED BY <2>1, <2>4, <2>5, <2>6, Zenon DEF ResultInv
  <1>11. OutInv' /\ VerdictCorrect'
    BY <1>1, <1>3 DEF IInv, PcInv, OutInv, VerdictCorrect, Add
  <1>. QED BY <1>6, <1>7, <1>8, <1>9, <1>10, <1>11 DEF IInv

(* control.Wait() or the control's destructor.                             *)
LEMMA WaitStep ==
  ASSUME IInv, NEW early \in BOOLEAN, Wait(early)
  PROVE  IInv'
  <1>1. Master \in Threads /\ pc[Master] = "adding" /\ vChecks[Master] = {}
    BY DEF IInv, PcInv, Wait, Threads
  <1>2. Outstanding' = Outstanding /\ Active' = Active /\ Waiting(pc') = Waiting(pc)
    BY <1>1 DEF IInv, TypeOK, Wait, Outstanding, Active, Waiting
  <1>3. TypeOK'
    BY <1>1 DEF IInv, TypeOK, Wait, PCs
  <1>4. PcInv'
    BY <1>1, WorkersAssumption DEF IInv, TypeOK, PcInv, Wait
  <1>5. TodoExact' /\ CountInv'
    BY <1>2, Zenon DEF IInv, TodoExact, CountInv, Wait
  <1>6. ResultInv'
    BY <1>1, <1>2 DEF IInv, TypeOK, ResultInv, Wait
  <1>7. OutInv' /\ VerdictCorrect'
    BY <1>1 DEF IInv, TypeOK, OutInv, VerdictCorrect, Wait
  <1>. QED BY <1>3, <1>4, <1>5, <1>6, <1>7 DEF IInv

(* A batch is executed.                                                    *)
LEMMA ExecuteStep ==
  ASSUME IInv, NEW t \in Threads, Execute(t)
  PROVE  IInv'
  <1>1. pc[t] = "work" /\ vChecks[t] # {}
    BY DEF IInv, PcInv, Execute
  <1>2. Outstanding' = Outstanding /\ Active' = Active /\ Waiting(pc') = Waiting(pc)
    BY <1>1 DEF IInv, TypeOK, Execute, Outstanding, Active, Waiting
  <1>3. TypeOK'
    <2>1. pc' \in [Threads -> PCs]
      BY DEF IInv, TypeOK, Execute, PCs
    <2>2. fOk' \in [Threads -> BOOLEAN]
      BY DEF IInv, TypeOK, Execute
    <2>. QED BY <2>1, <2>2 DEF IInv, TypeOK, Execute
  <1>4. PcInv'
    BY <1>1 DEF IInv, TypeOK, PcInv, Execute
  <1>5. TodoExact' /\ CountInv'
    BY <1>2, Zenon DEF IInv, TodoExact, CountInv, Execute
  <1>6. pc[Master] # "out" /\ pc'[Master] # "out"
    BY <1>1 DEF IInv, TypeOK, OutInv, Execute, Outstanding, Threads
  <1>7. vChecks[t] \subseteq added
    BY DEF IInv, TypeOK, ResultInv, Outstanding
  <1>8. ResultInv'
    BY <1>1, <1>2, <1>6, <1>7 DEF IInv, TypeOK, ResultInv, Execute
  <1>9. OutInv' /\ VerdictCorrect'
    BY <1>6 DEF IInv, OutInv, VerdictCorrect, Execute
  <1>. QED BY <1>3, <1>4, <1>5, <1>8, <1>9 DEF IInv

(* A waiter wakes for no reason.                                           *)
LEMMA SpuriousWakeStep ==
  ASSUME IInv, NEW t \in Threads, SpuriousWake(t)
  PROVE  IInv'
  <1>1. pc[t] = "wait" /\ vChecks[t] = {}
    BY DEF IInv, PcInv, SpuriousWake
  <1>2. Outstanding' = Outstanding /\ Active' = Active /\ Waiting(pc') = Waiting(pc)
    BY <1>1 DEF IInv, TypeOK, SpuriousWake, Outstanding, Active, Waiting
  <1>3. TypeOK'
    BY <1>1 DEF IInv, TypeOK, SpuriousWake, PCs
  <1>4. PcInv'
    BY <1>1 DEF IInv, TypeOK, PcInv, SpuriousWake
  <1>5. TodoExact' /\ CountInv'
    BY <1>2, Zenon DEF IInv, TodoExact, CountInv, SpuriousWake
  <1>6. pc'[Master] = "out" <=> pc[Master] = "out"
    BY <1>1 DEF IInv, TypeOK, SpuriousWake, Threads
  <1>7. ResultInv'
    BY <1>1, <1>2, <1>6 DEF IInv, TypeOK, ResultInv, SpuriousWake
  <1>8. OutInv' /\ VerdictCorrect'
    BY <1>2, <1>6, Zenon DEF IInv, OutInv, VerdictCorrect, SpuriousWake
  <1>. QED BY <1>3, <1>4, <1>5, <1>7, <1>8 DEF IInv

(* Shutdown interrupts a waiter: it stays counted in nIdle and nTotal.     *)
LEMMA InterruptStep ==
  ASSUME IInv, NEW t \in Threads, Interrupt(t)
  PROVE  IInv'
  <1>1. pc[t] \in {"wait", "woken"} /\ vChecks[t] = {} /\ Master \in Threads
        /\ pc' \in [Threads -> PCs]
        /\ pc'[t] = (IF t = Master THEN "lock" ELSE "exited")
        /\ \A u \in Threads \ {t} : pc'[u] = pc[u]
    BY DEF IInv, TypeOK, PcInv, Interrupt, PCs, Threads
  <1>2. Outstanding' = Outstanding /\ Active' = Active /\ Waiting(pc') = Waiting(pc) \ {t}
    BY <1>1 DEF IInv, TypeOK, Interrupt, Outstanding, Active, Waiting
  <1>3. Cardinality(Waiting(pc')) <= nIdle
    <2>1. t \in Waiting(pc) /\ IsFiniteSet(Waiting(pc)) /\ Cardinality(Waiting(pc)) \in Nat
      BY <1>1, Finite DEF Waiting
    <2>2. Cardinality(Waiting(pc')) = Cardinality(Waiting(pc)) - 1
      BY <1>2, <2>1, FS_RemoveElement, Zenon
    <2>. QED BY <2>1, <2>2 DEF IInv, TypeOK, CountInv
  <1>4. inDtor' \in BOOLEAN /\ UNCHANGED <<queue, nIdle, nTotal, fAllOk, nTodo, vChecks, fOk, added, verdict>>
    BY DEF IInv, TypeOK, Interrupt
  <1>5. TypeOK'
    <2>1. interrupted' \in SUBSET Threads
      BY DEF IInv, TypeOK, Interrupt
    <2>. QED BY <1>1, <1>4, <2>1, Zenon DEF IInv, TypeOK
  <1>6. PcInv'
    BY <1>1, <1>4, WorkersAssumption DEF IInv, PcInv, Threads
  <1>7. TodoExact' /\ CountInv'
    BY <1>2, <1>3, <1>4, Zenon DEF IInv, TodoExact, CountInv
  <1>8. pc'[Master] = "out" <=> pc[Master] = "out"
    BY <1>1
  <1>9. ResultInv'
    BY <1>1, <1>2, <1>4, <1>8 DEF IInv, TypeOK, ResultInv
  <1>10. OutInv' /\ VerdictCorrect'
    BY <1>2, <1>4, <1>8, Zenon DEF IInv, OutInv, VerdictCorrect
  <1>. QED BY <1>5, <1>6, <1>7, <1>9, <1>10 DEF IInv

-----------------------------------------------------------------------------

(* The invariant holds before the first block is connected.                *)
LEMMA InitInv == Init => IInv
  <1> SUFFICES ASSUME Init PROVE IInv
    OBVIOUS
  <1>1. Outstanding = {} /\ Active = {} /\ Waiting(pc) = {}
    BY DEF Init, Outstanding, Active, Waiting
  <1>2. Cardinality(Outstanding) = 0 /\ Cardinality(Active) = 0 /\ Cardinality(Waiting(pc)) = 0
    BY <1>1, FS_EmptySet, Zenon
  <1>3. TypeOK
    BY DEF Init, TypeOK, PCs
  <1>4. PcInv
    BY WorkersAssumption DEF Init, PcInv, Threads
  <1>5. TodoExact /\ CountInv
    BY <1>2 DEF Init, TodoExact, CountInv
  <1>6. ResultInv
    BY <1>1 DEF Init, ResultInv, Threads
  <1>7. OutInv /\ VerdictCorrect
    BY <1>1 DEF Init, OutInv, VerdictCorrect
  <1>. QED BY <1>3, <1>4, <1>5, <1>6, <1>7 DEF IInv

(* Every step of every thread preserves the invariant.                     *)
LEMMA NextInv == IInv /\ [Next]_vars => IInv'
  <1> SUFFICES ASSUME IInv, [Next]_vars PROVE IInv'
    OBVIOUS
  <1>1. CASE UNCHANGED vars
    BY <1>1, Zenon DEF vars, IInv, TypeOK, PcInv, TodoExact, CountInv, ResultInv, OutInv,
       VerdictCorrect, Outstanding, Active, Waiting
  <1>2. CASE NewControl
    BY <1>2, NewControlStep
  <1>3. CASE \E S \in SUBSET (Checks \ added) : Add(S)
    BY <1>3, AddStep
  <1>4. CASE \E early \in BOOLEAN : Wait(early)
    BY <1>4, WaitStep
  <1>5. ASSUME NEW t \in Threads, ThreadStep(t) \/ SpuriousWake(t) \/ Interrupt(t)
        PROVE  IInv'
    BY <1>5, EnterStep, CompleteStep, ResumeStep, ExecuteStep, SpuriousWakeStep, InterruptStep
    DEF ThreadStep
  <1>. QED BY <1>1, <1>2, <1>3, <1>4, <1>5 DEF Next

(* IInv is an invariant of the queue.                                      *)
THEOREM Invariance == Spec => []IInv
  BY InitInv, NextInv, PTL DEF Spec

(* The counters of CCheckQueue never leave their type: nTodo, an unsigned  *)
(* int, never wraps below zero in Loop's clean-up (checkqueue.h:82).       *)
THEOREM TypeCorrect == Spec => []TypeOK
  <1>1. IInv => TypeOK
    BY DEF IInv
  <1>. QED BY <1>1, Invariance, PTL

(* For any number of threads, checks and any batch size, Wait() returns    *)
(* true to ConnectBlock exactly when every check added is true.            *)
THEOREM VerdictTheorem == Spec => []VerdictCorrect
  <1>1. IInv => VerdictCorrect
    BY DEF IInv
  <1>. QED BY <1>1, Invariance, PTL

(* No check is run by two threads or forgotten, and nTodo counts them.     *)
THEOREM TodoTheorem == Spec => []TodoExact
  <1>1. IInv => TodoExact
    BY DEF IInv
  <1>. QED BY <1>1, Invariance, PTL

(* assert(isIdle) in the constructor of CCheckQueueControl never fails.    *)
THEOREM IdleTheorem == Spec => []IdleBetweenRounds
  <1>1. IInv => IdleBetweenRounds
    <2> SUFFICES ASSUME IInv, pc[Master] = "out" PROVE IsIdle
      BY DEF IdleBetweenRounds
    <2>1. Outstanding = {} /\ fAllOk
      BY DEF IInv, OutInv
    <2>2. Active = {}
      BY <2>1 DEF IInv, TypeOK, Outstanding, Active
    <2>3. Cardinality(Outstanding) = 0 /\ Cardinality(Active) = 0
      BY <2>1, <2>2, FS_EmptySet, Zenon
    <2>4. nTotal = nIdle /\ nTodo = 0
      BY <2>3 DEF IInv, TypeOK, CountInv, TodoExact
    <2>. QED BY <2>1, <2>4 DEF IsIdle
  <1>. QED BY <1>1, Invariance, PTL

-----------------------------------------------------------------------------
(* The memory pool. First, induction and recursion over 0 .. N.            *)

(* A non-empty set of natural numbers has a least element.                 *)
LEMMA LeastNumber ==
    ASSUME NEW T \in SUBSET Nat, T # {}
    PROVE  \E n \in T : \A m \in T : n <= m
<1>1. PICK n \in T : \A m \in T : ~(<<m, n>> \in OpToRel(<, Nat))
  BY NatLessThanWellFounded, WFMin
<1>2. \A m \in T : ~(m < n)
  BY <1>1 DEF OpToRel
<1>3. \A m \in T : n <= m
  BY <1>2
<1>. QED  BY <1>3

(* Induction over 0 .. N: the numbers with a property are a set.           *)
LEMMA Ladder ==
    ASSUME NEW N \in Nat, NEW T, 0 \in T, \A n \in 1 .. N : n - 1 \in T => n \in T
    PROVE  (\A n \in 0 .. N : n \in T) /\ N \in T
<1>. DEFINE F == {n \in 0 .. N : n \notin T}
<1>. SUFFICES ASSUME F # {} PROVE FALSE
  OBVIOUS
<1>1. F \in SUBSET Nat
  OBVIOUS
<1>2. PICK n \in F : \A m \in F : n <= m
  <2>. HIDE DEF F
  <2>. QED  BY <1>1, LeastNumber
<1>3. n \in 1 .. N /\ n - 1 \in 0 .. N /\ n - 1 \notin F
  BY <1>2
<1>. QED  BY <1>3

(* Recursion over 0 .. N. The step from n - 1 to n is the function f, and  *)
(* I[n] is a set that the value at n is shown to be in.                    *)
Leads(N, I, f) == \A n \in 1 .. N : \A y \in I[n - 1] : f[<<n, y>>] \in I[n]
Recurs(g, N, f, x) == g = [n \in 0 .. N |-> IF n = 0 THEN x ELSE f[<<n, g[n - 1]>>]]
Within(g, N, I) == \A n \in 0 .. N : g[n] \in I[n]

(* When every step leads from I[n - 1] to I[n], a recursive function       *)
(* exists, and its values are in I.                                        *)
LEMMA Recursion ==
    ASSUME NEW N \in Nat, NEW I, NEW f, NEW x \in I[0], Leads(N, I, f)
    PROVE  \E g : Recurs(g, N, f, x) /\ Within(g, N, I)
<1>. USE DEF Leads, Recurs, Within
<1>. DEFINE Run(h, n) == /\ h = [m \in 0 .. n |-> IF m = 0 THEN x ELSE f[<<m, h[m - 1]>>]]
                         /\ \A m \in 0 .. n : h[m] \in I[m]
            T == {n \in 0 .. N : \E h : Run(h, n)}
<1>1. 0 \in T
  <2>1. Run([m \in 0 .. 0 |-> x], 0)
    OBVIOUS
  <2>. HIDE DEF Run
  <2>. QED  BY <2>1
<1>2. ASSUME NEW n \in 1 .. N, n - 1 \in T PROVE n \in T
  <2>1. PICK h : Run(h, n - 1)
    BY <1>2
  <2>. DEFINE e == [m \in 0 .. n |-> IF m = n THEN f[<<n, h[n - 1]>>] ELSE h[m]]
  <2>2. DOMAIN h = 0 .. n - 1 /\ h[0] = x /\ \A m \in 1 .. n - 1 : h[m] = f[<<m, h[m - 1]>>]
    BY <2>1
  <2>. HIDE DEF T, Run
  <2>3. ASSUME NEW m \in 0 .. n PROVE e[m] = IF m = 0 THEN x ELSE f[<<m, e[m - 1]>>]
    <3>1. CASE m = 0
      BY <2>2, <3>1
    <3>2. CASE m = n
      <4>1. e[n - 1] = h[n - 1]
        OBVIOUS
      <4>. QED  BY <3>2, <4>1
    <3>3. CASE m # 0 /\ m # n
      <4>1. e[m - 1] = h[m - 1] /\ e[m] = h[m] /\ m \in 1 .. n - 1
        BY <3>3
      <4>. QED  BY <2>2, <3>3, <4>1
    <3>. QED  BY <3>1, <3>2, <3>3
  <2>4. ASSUME NEW m \in 0 .. n PROVE e[m] \in I[m]
    <3>1. CASE m = n
      <4>1. h[n - 1] \in I[n - 1]
        BY <2>1 DEF Run
      <4>. QED  BY <3>1, <4>1
    <3>2. CASE m # n
      <4>1. m \in 0 .. n - 1
        BY <3>2
      <4>. QED  BY <2>1, <3>2, <4>1 DEF Run
    <3>. QED  BY <3>1, <3>2
  <2>5. e = [m \in 0 .. n |-> IF m = 0 THEN x ELSE f[<<m, e[m - 1]>>]]
    <3>1. DOMAIN e = 0 .. n /\ e = [m \in 0 .. n |-> e[m]]
      OBVIOUS
    <3>. HIDE DEF e
    <3>. QED  BY <2>3, <3>1
  <2>6. Run(e, n)
    <3>. HIDE DEF e
    <3>. QED  BY <2>4, <2>5 DEF Run
  <2>. QED  BY <2>6 DEF T
<1>. HIDE DEF T
<1>3. N \in T
  BY <1>1, <1>2, Ladder
<1>. QED  BY <1>3 DEF T

(* And so are those of every function that takes these steps.              *)
LEMMA StaysWithin ==
    ASSUME NEW N \in Nat, NEW I, NEW h, h[0] \in I[0], \A n \in 1 .. N : h[n - 1] \in I[n - 1] => h[n] \in I[n]
    PROVE  Within(h, N, I)
<1>. DEFINE T == {n \in 0 .. N : h[n] \in I[n]}
<1>1. 0 \in T /\ \A n \in 1 .. N : n - 1 \in T => n \in T
  OBVIOUS
<1>2. \A n \in 0 .. N : n \in T
  <2>. HIDE DEF T
  <2>. QED  BY <1>1, Ladder
<1>. QED  BY <1>2 DEF Within

(* Among finitely many things there is one of the least value.             *)
LEMMA Least ==
    ASSUME NEW S, IsFiniteSet(S), S # {}, NEW v, \A a \in S : v[a] \in Int
    PROVE  \E m \in S : \A d \in S : v[m] <= v[d]
<1>. DEFINE Has(T) == \E m \in T : \A d \in T : v[m] <= v[d]
            Wrong == {T \in SUBSET S : T # {} /\ ~Has(T)}
<1>. SUFFICES ASSUME Wrong # {} PROVE FALSE
  OBVIOUS
<1>1. IsWellFoundedOn(StrictSubsetOrdering(S), SUBSET S)
  BY FS_StrictSubsetOrderingWellFounded, FS_FiniteSubsetsOfFinite
<1>2. PICK T \in Wrong : \A U \in Wrong : ~(<<U, T>> \in StrictSubsetOrdering(S))
  <2>1. Wrong \subseteq SUBSET S
    OBVIOUS
  <2>. HIDE DEF Wrong
  <2>. QED  BY <1>1, <2>1, WFMin
<1>3. T \subseteq S /\ T # {} /\ ~Has(T)
  OBVIOUS
<1>4. PICK x \in T : TRUE
  BY <1>3
<1>5. T \ {x} \notin Wrong
  BY <1>2, <1>3, <1>4 DEF StrictSubsetOrdering
<1>6. CASE T \ {x} = {}
  <2>1. T = {x} /\ v[x] \in Int
    BY <1>3, <1>4, <1>6
  <2>. QED  BY <1>3, <2>1
<1>7. CASE T \ {x} # {}
  <2>1. PICK m \in T \ {x} : \A d \in T \ {x} : v[m] <= v[d]
    BY <1>3, <1>5, <1>7
  <2>2. \A d \in T : v[d] \in Int
    BY <1>3
  <2>3. CASE v[m] <= v[x]
    BY <1>3, <2>1, <2>3
  <2>4. CASE ~(v[m] <= v[x])
    <3>1. \A d \in T : v[x] <= v[d]
      BY <1>4, <2>1, <2>2, <2>4
    <3>. QED  BY <1>3, <1>4, <3>1
  <2>. QED  BY <2>3, <2>4
<1>. QED  BY <1>6, <1>7

-----------------------------------------------------------------------------
(* The orphans.                                                            *)

OrphanType == orphans \in [Txs -> Peers \union {Null}] /\ byPrev \in [Txs -> SUBSET Txs]
Indexed(orph, prev) == \A p, t \in Txs : t \in prev[p] <=> orph[t] # Null /\ p \in Parents(t)
OrphanInv == OrphanType /\ OrphansIndexed

(* Erasing keeps the index and adds no orphan.                             *)
LEMMA EraseKeeps ==
    ASSUME NEW orph \in [Txs -> Peers \union {Null}], NEW prev \in [Txs -> SUBSET Txs], NEW S,
           Indexed(orph, prev), EraseOrphans(orph, prev, S)
    PROVE  /\ OrphanType' /\ Indexed(orphans', byPrev')
           /\ {t \in Txs : orphans'[t] # Null} = {t \in Txs : orph[t] # Null} \ S
<1>. DEFINE erased == {t \in S : orph[t] # Null}
<1>1. /\ orphans' = [t \in Txs |-> IF t \in erased THEN Null ELSE orph[t]]
      /\ byPrev' = [p \in Txs |-> prev[p] \ {t \in erased : p \in Parents(t)}]
  BY DEF EraseOrphans
<1>2. OrphanType'
  BY <1>1 DEF OrphanType
<1>3. Indexed(orphans', byPrev')
  BY <1>1 DEF Indexed
<1>. QED  BY <1>1, <1>2, <1>3

(* The orphans in memory stay within the limit.                            *)
LEMMA EraseStep ==
    ASSUME OrphanInv, NEW S, EraseOrphans(orphans, byPrev, S)
    PROVE  OrphanInv'
<1>1. orphans \in [Txs -> Peers \union {Null}] /\ byPrev \in [Txs -> SUBSET Txs] /\ Indexed(orphans, byPrev)
  BY DEF OrphanInv, OrphanType, OrphansIndexed, Indexed
<1>2. OrphanType' /\ Indexed(orphans', byPrev')
  BY <1>1, EraseKeeps
<1>. DEFINE A == {t \in Txs : orphans[t] # Null}
            B == {t \in Txs : orphans'[t] # Null}
<1>3. B \subseteq A
  BY <1>1, EraseKeeps
<1>4. IsFiniteSet(A)
  BY TxAssumption, FS_Subset
<1>5. Cardinality(A) <= MaxOrphans /\ MaxOrphans \in Nat
  BY TxAssumption DEF OrphanInv, OrphansIndexed
<1>6. Cardinality(A) \in Nat /\ Cardinality(B) \in Nat /\ Cardinality(B) <= Cardinality(A)
  <2>. HIDE DEF A, B
  <2>. QED  BY <1>3, <1>4, FS_Subset, FS_CardinalityType
<1>7. Cardinality(B) <= MaxOrphans
  <2>. HIDE DEF A, B
  <2>. QED  BY <1>5, <1>6
<1>. QED  BY <1>2, <1>7 DEF OrphanInv, OrphansIndexed, Indexed

(* The larger of a number and 0.                                           *)
LEMMA MaxZero ==
    ASSUME NEW n \in Int
    PROVE  Max({0, n}) = IF n > 0 THEN n ELSE 0
<1>. DEFINE m == IF n > 0 THEN n ELSE 0
<1>1. m \in {0, n} /\ \A y \in {0, n} : m >= y
  OBVIOUS
<1>2. \A z \in {0, n} : (\A y \in {0, n} : z >= y) => z = m
  OBVIOUS
<1>. QED  BY <1>1, <1>2 DEF Max

(* AddOrphanTx and LimitOrphanTxSize.                                      *)
LEMMA AddOrphanStep ==
    ASSUME OrphanInv, NEW t \in Txs, NEW peer \in Peers, AddOrphan(t, peer)
    PROVE  OrphanInv'
<1>. DEFINE orph == [orphans EXCEPT ![t] = IF @ = Null /\ t \notin Big THEN peer ELSE @]
            prev == [p \in Txs |-> IF p \in Parents(t) /\ orph[t] # Null THEN byPrev[p] \union {t} ELSE byPrev[p]]
            all == {x \in Txs : orph[x] # Null}
<1>1. PICK S \in SUBSET all : /\ Cardinality(S) = Max({0, Cardinality(all) - MaxOrphans})
                              /\ EraseOrphans(orph, prev, S)
  BY DEF AddOrphan
<1>2. orph \in [Txs -> Peers \union {Null}] /\ prev \in [Txs -> SUBSET Txs]
  BY DEF OrphanInv, OrphanType
<1>3. (orph[t] = Null => orphans[t] = Null) /\ \A x \in Txs \ {t} : orph[x] = orphans[x]
  BY TxAssumption DEF OrphanInv, OrphanType
<1>4. Indexed(orph, prev)
  BY <1>3 DEF OrphanInv, OrphanType, OrphansIndexed, Indexed
<1>. HIDE DEF orph, prev
<1>5. OrphanType' /\ Indexed(orphans', byPrev') /\ {x \in Txs : orphans'[x] # Null} = all \ S
  BY <1>1, <1>2, <1>4, EraseKeeps
<1>6. IsFiniteSet(all) /\ MaxOrphans \in Nat
  BY TxAssumption, FS_Subset
<1>. HIDE DEF all
<1>7. /\ IsFiniteSet(S) /\ Cardinality(S) \in Nat /\ Cardinality(all) \in Nat
      /\ Cardinality(all \ S) = Cardinality(all) - Cardinality(S)
  <2>1. all \intersect S = S
    BY <1>1
  <2>2. IsFiniteSet(S)
    BY <1>1, <1>6, FS_Subset
  <2>3. Cardinality(all \ S) = Cardinality(all) - Cardinality(all \intersect S)
    BY <1>6, FS_Difference
  <2>. QED  BY <1>6, <2>1, <2>2, <2>3, FS_CardinalityType
<1>8. Cardinality(S) = IF Cardinality(all) - MaxOrphans > 0 THEN Cardinality(all) - MaxOrphans ELSE 0
  BY <1>1, <1>6, <1>7, MaxZero
<1>9. Cardinality(all \ S) <= MaxOrphans
  BY <1>6, <1>7, <1>8
<1>. QED  BY <1>5, <1>9 DEF OrphanInv, OrphansIndexed, Indexed

-----------------------------------------------------------------------------
(* The path from Root to a block.                                          *)

ClosedUp(P) == \A x \in P \ {Root} : Parent[x] \in P

(* A set that holds b and the parent of each of its blocks holds the path. *)
LEMMA PathLeast ==
    ASSUME NEW b, NEW P \in SUBSET Blocks, b \in P, ClosedUp(P)
    PROVE  Path(b) \subseteq P
BY DEF Path, ClosedUp

(* The path is such a set.                                                 *)
LEMMA PathClosed ==
    ASSUME NEW b \in Blocks
    PROVE  b \in Path(b) /\ Path(b) \in SUBSET Blocks /\ ClosedUp(Path(b))
<1>1. b \in Path(b) /\ Path(b) \in SUBSET Blocks
  BY DEF Path
<1>2. ASSUME NEW x \in Path(b) \ {Root} PROVE Parent[x] \in Path(b)
  <2>1. Parent[x] \in Blocks
    BY <1>1, <1>2, BlockAssumption
  <2>2. ASSUME NEW P \in SUBSET Blocks, b \in P, \A y \in P \ {Root} : Parent[y] \in P
        PROVE  Parent[x] \in P
    <3>1. x \in P
      BY <1>2, <2>2 DEF Path
    <3>. QED  BY <2>2, <3>1
  <2>. QED  BY <2>1, <2>2 DEF Path
<1>. QED  BY <1>1, <1>2 DEF ClosedUp

(* The paths of Root, of a child and of a block on the way.                *)
LEMMA PathFacts ==
    /\ Path(Root) = {Root}
    /\ \A b \in Blocks \ {Root} : Path(b) = Path(Parent[b]) \union {b}
    /\ \A b \in Blocks : \A c \in Path(b) : Path(c) \subseteq Path(b) /\ Height[c] <= Height[b]
<1>1. Path(Root) = {Root}
  <2>1. {Root} \in SUBSET Blocks /\ ClosedUp({Root})
    BY BlockAssumption DEF ClosedUp
  <2>. QED  BY <2>1, PathLeast, PathClosed
<1>2. ASSUME NEW b \in Blocks, NEW c \in Path(b) PROVE Path(c) \subseteq Path(b) /\ Height[c] <= Height[b]
  <2>1. Path(c) \subseteq Path(b)
    BY PathLeast, PathClosed
  <2>. DEFINE P == {x \in Blocks : Height[x] <= Height[b]}
  <2>2. b \in P /\ P \in SUBSET Blocks
    BY BlockAssumption
  <2>3. ClosedUp(P)
    BY BlockAssumption DEF ClosedUp
  <2>4. Path(b) \subseteq P
    <3>. HIDE DEF P
    <3>. QED  BY <2>2, <2>3, PathLeast
  <2>. QED  BY <2>1, <2>4
<1>3. ASSUME NEW b \in Blocks \ {Root} PROVE Path(b) = Path(Parent[b]) \union {b}
  <2>. DEFINE P == Path(Parent[b]) \union {b}
  <2>1. Parent[b] \in Blocks
    BY BlockAssumption
  <2>2. Parent[b] \in Path(Parent[b]) /\ Path(Parent[b]) \in SUBSET Blocks /\ ClosedUp(Path(Parent[b]))
    BY <2>1, PathClosed
  <2>3. b \in P /\ P \in SUBSET Blocks /\ ClosedUp(P)
    BY <2>2 DEF ClosedUp
  <2>4. Path(b) \subseteq P
    <3>. HIDE DEF P
    <3>. QED  BY <2>3, PathLeast
  <2>5. b \in Path(b) /\ Parent[b] \in Path(b)
    BY PathClosed DEF ClosedUp
  <2>6. Path(Parent[b]) \subseteq Path(b)
    BY <1>2, <2>5
  <2>. QED  BY <2>4, <2>5, <2>6
<1>. QED  BY <1>1, <1>2, <1>3

-----------------------------------------------------------------------------
(* Coins as what a set of transactions leaves.                             *)

AllInputs == UNION {Inputs(t) : t \in Txs}
Rest(B, x) == {m \in Vout[x] : <<x, m>> \notin B}
CoinOf(x, L, h, S) == [vout |-> L, height |-> h, base |-> x \in CoinBases, stake |-> x \in S]

(* The coins of the transactions C, confirmed at the heights H, when the   *)
(* outputs B are spent and S are the ones flagged as coinstakes.           *)
CoinView(C, H, B, S) == [x \in Txs |-> IF x \in C /\ Rest(B, x) # {} THEN CoinOf(x, Rest(B, x), H[x], S) ELSE Pruned]

(* Transactions, their inputs and their outputs.                           *)
LEMMA TxFacts ==
    /\ \A t \in Txs : /\ Len(Vin[t]) \in Nat /\ DOMAIN Vin[t] = 1 .. Len(Vin[t])
                      /\ Inputs(t) = {Vin[t][i] : i \in 1 .. Len(Vin[t])}
                      /\ Inputs(t) \subseteq OutPoints
    /\ \A o \in OutPoints : o = <<o[1], o[2]>> /\ o[1] \in Txs /\ o[2] \in Vout[o[1]]
    /\ AllInputs \subseteq OutPoints
<1>1. ASSUME NEW t \in Txs
      PROVE  /\ Len(Vin[t]) \in Nat /\ DOMAIN Vin[t] = 1 .. Len(Vin[t])
             /\ Inputs(t) = {Vin[t][i] : i \in 1 .. Len(Vin[t])}
             /\ Inputs(t) \subseteq OutPoints
  <2>1. Vin[t] \in Seq(OutPoints)
    BY TxAssumption
  <2>. HIDE DEF OutPoints
  <2>2. Len(Vin[t]) \in Nat /\ DOMAIN Vin[t] = 1 .. Len(Vin[t]) /\ \A i \in 1 .. Len(Vin[t]) : Vin[t][i] \in OutPoints
    BY <2>1
  <2>. QED  BY <2>2 DEF Inputs, ToSet
<1>2. \A o \in OutPoints : o = <<o[1], o[2]>> /\ o[1] \in Txs /\ o[2] \in Vout[o[1]]
  BY DEF OutPoints
<1>3. AllInputs \subseteq OutPoints
  BY <1>1 DEF AllInputs
<1>. QED  BY <1>1, <1>2, <1>3

FlagsOf(y, S, p, q) ==
    /\ (p <=> y \in CoinBases) /\ (q <=> y \in S)
    /\ \A L, h : CoinOf(y, L, h, S) = [vout |-> L, height |-> h, base |-> p, stake |-> q]

(* The flags of a coin are Booleans.                                       *)
LEMMA CoinFlags ==
    ASSUME NEW y, NEW S
    PROVE  \E p, q \in BOOLEAN : FlagsOf(y, S, p, q)
<1>1. (y \in CoinBases) \in BOOLEAN /\ (y \in S) \in BOOLEAN
  OBVIOUS
<1>2. WITNESS (y \in CoinBases) \in BOOLEAN, (y \in S) \in BOOLEAN
<1>. QED  BY DEF CoinOf, FlagsOf

(* The coin of y only depends on whether y itself is flagged.              *)
LEMMA CoinOfSame ==
    ASSUME NEW y, NEW L, NEW h, NEW S, NEW Z, y \in S <=> y \in Z
    PROVE  CoinOf(y, L, h, S) = CoinOf(y, L, h, Z)
<1>1. (y \in S) = (y \in Z)
  OBVIOUS
<1>. QED  BY <1>1 DEF CoinOf

(* One available output is spent.                                          *)
LEMMA SpendOne ==
    ASSUME NEW C, NEW H, NEW B, NEW S, NEW o \in OutPoints, Available(CoinView(C, H, B, S), o)
    PROVE  /\ [CoinView(C, H, B, S) EXCEPT ![o[1]] = Spent(@, o[2])] = CoinView(C, H, B \union {o}, S)
           /\ o[1] \in C /\ o \notin B
<1>. DEFINE y == o[1]
            n == o[2]
            V == CoinView(C, H, B, S)
            W == CoinView(C, H, B \union {o}, S)
<1>1. o = <<y, n>> /\ y \in Txs /\ n \in Vout[y]
  BY TxFacts
<1>2. n \in V[y].vout
  BY DEF Available
<1>3. y \in C /\ n \in Rest(B, y) /\ V[y] = CoinOf(y, Rest(B, y), H[y], S)
  BY <1>1, <1>2 DEF CoinView, Pruned, CoinOf
<1>4. Rest(B \union {o}, y) = Rest(B, y) \ {n}
  BY <1>1 DEF Rest
<1>5. \A x \in Txs \ {y} : Rest(B \union {o}, x) = Rest(B, x)
  BY <1>1 DEF Rest
<1>6. Spent(V[y], n) = W[y]
  <2>1. CASE Rest(B, y) = {n}
    BY <1>1, <1>3, <1>4, <2>1 DEF Spent, CoinView, CoinOf
  <2>2. CASE Rest(B, y) # {n}
    <3>1. Rest(B, y) \ {n} # {}
      BY <1>3, <2>2
    <3>2. W[y] = CoinOf(y, Rest(B, y) \ {n}, H[y], S)
      BY <1>1, <1>3, <1>4, <3>1 DEF CoinView
    <3>. QED  BY <1>3, <2>2, <3>2 DEF Spent, CoinOf
  <2>. QED  BY <2>1, <2>2
<1>7. \A x \in Txs \ {y} : W[x] = V[x]
  BY <1>5 DEF CoinView
<1>8. DOMAIN V = Txs /\ DOMAIN W = Txs /\ W = [x \in Txs |-> W[x]] /\ V = [x \in Txs |-> V[x]]
  BY DEF CoinView
<1>9. [V EXCEPT ![y] = Spent(V[y], n)] = W
  <2>. HIDE DEF V, W, y, n
  <2>. QED  BY <1>1, <1>6, <1>7, <1>8
<1>. QED  BY <1>1, <1>3, <1>9 DEF Rest

(* The undo data of an output that is spent, but for the stake flag, which *)
(* nobody reads.                                                           *)
UndoIs(u, c, n) == u.height = InUndo(c, n).height /\ u.base = InUndo(c, n).base

(* It was spent last; a coin that it left pruned is not flagged.           *)
SpentLast(C, H, B, S, o, u) ==
    /\ H \in [Txs -> Nat \ {0}] /\ o \in AllInputs /\ o[1] \in C /\ o \notin B
    /\ Rest(B \union {o}, o[1]) = {} => o[1] \notin S
    /\ UndoIs(u, CoinView(C, H, B, S)[o[1]], o[2])

(* Then it comes back from them.                                           *)
LEMMA RestoreOne ==
    ASSUME NEW C, NEW H, NEW B, NEW S, NEW o, NEW u, SpentLast(C, H, B, S, o, u)
    PROVE  RestoreInput(CoinView(C, H, B \union {o}, S), o, u) = CoinView(C, H, B, S)
<1>. DEFINE y == o[1]
            n == o[2]
            V == CoinView(C, H, B, S)
            W == CoinView(C, H, B \union {o}, S)
<1>. USE DEF SpentLast
<1>1. o = <<y, n>> /\ y \in Txs /\ n \in Vout[y] /\ H[y] # 0
  BY TxFacts
<1>2. n \in Rest(B, y) /\ V[y] = CoinOf(y, Rest(B, y), H[y], S)
  BY <1>1 DEF CoinView, Rest
<1>3. Rest(B \union {o}, y) = Rest(B, y) \ {n}
  BY <1>1 DEF Rest
<1>4. \A x \in Txs \ {y} : Rest(B \union {o}, x) = Rest(B, x)
  BY <1>1 DEF Rest
<1>5. Restored(W[y], n, u) = V[y]
  <2>1. CASE Rest(B, y) = {n}
    <3>1. y \notin S
      BY <1>3, <2>1
    <3>2. u.height = V[y].height /\ u.base = V[y].base
      BY <1>2, <2>1 DEF UndoIs, InUndo, CoinOf
    <3>. HIDE DEF V, W
    <3>3. PICK p, q \in BOOLEAN : FlagsOf(y, S, p, q)
      BY CoinFlags, Zenon
    <3>4. q = FALSE /\ V[y] = [vout |-> {n}, height |-> H[y], base |-> p, stake |-> q]
      BY <1>2, <2>1, <3>1, <3>3 DEF FlagsOf
    <3>5. u.height = H[y] /\ u.base = p
      BY <3>2, <3>4
    <3>6. Restored(W[y], n, u) = [vout |-> {n}, height |-> H[y], base |-> p, stake |-> FALSE]
      BY <1>1, <3>5 DEF Restored
    <3>. QED  BY <3>4, <3>6
  <2>2. CASE Rest(B, y) # {n}
    <3>1. Rest(B, y) \ {n} # {} /\ (Rest(B, y) \ {n}) \union {n} = Rest(B, y)
      BY <1>2, <2>2
    <3>2. W[y] = CoinOf(y, Rest(B, y) \ {n}, H[y], S)
      BY <1>1, <1>3, <3>1 DEF CoinView
    <3>3. u.height = 0
      BY <1>2, <2>2 DEF UndoIs, InUndo, CoinOf
    <3>. HIDE DEF V, W
    <3>4. Restored(W[y], n, u) = [W[y] EXCEPT !.vout = @ \union {n}]
      BY <3>3 DEF Restored
    <3>5. PICK p, q \in BOOLEAN : FlagsOf(y, S, p, q)
      BY CoinFlags, Zenon
    <3>6. /\ W[y] = [vout |-> Rest(B, y) \ {n}, height |-> H[y], base |-> p, stake |-> q]
          /\ V[y] = [vout |-> Rest(B, y), height |-> H[y], base |-> p, stake |-> q]
      BY <1>2, <3>2, <3>5 DEF FlagsOf
    <3>. QED  BY <3>1, <3>4, <3>6
  <2>. QED  BY <2>1, <2>2
<1>6. \A x \in Txs \ {y} : W[x] = V[x]
  BY <1>4 DEF CoinView
<1>7. DOMAIN V = Txs /\ DOMAIN W = Txs /\ W = [x \in Txs |-> W[x]] /\ V = [x \in Txs |-> V[x]]
  BY DEF CoinView
<1>8. [W EXCEPT ![y] = Restored(W[y], n, u)] = V
  <2>. HIDE DEF V, W, y, n
  <2>. QED  BY <1>1, <1>5, <1>6, <1>7
<1>. QED  BY <1>8 DEF RestoreInput

-----------------------------------------------------------------------------
(* The loops over the inputs of a transaction.                             *)

Coin == [vout : SUBSET Nat, height : Nat, base : BOOLEAN, stake : BOOLEAN]
Views == [Txs -> Coin]
InUndos == [height : Nat, base : BOOLEAN, stake : BOOLEAN]
SpendState == [view : Views, undo : Seq(InUndos)]

(* Spending an output of a view gives a view.                              *)
LEMMA SpendType ==
    ASSUME NEW s \in SpendState, NEW o \in OutPoints
    PROVE  Spend(s, o) \in SpendState
<1>1. s.view \in Views /\ s.undo \in Seq(InUndos) /\ o[1] \in Txs
  BY TxFacts DEF SpendState
<1>2. s.view[o[1]] \in Coin
  BY <1>1 DEF Views
<1>3. Pruned \in Coin
  BY DEF Pruned, Coin
<1>4. Spent(s.view[o[1]], o[2]) \in Coin /\ InUndo(s.view[o[1]], o[2]) \in InUndos
  <2>. DEFINE c == s.view[o[1]]
  <2>1. c.vout \in SUBSET Nat /\ c.height \in Nat /\ c.base \in BOOLEAN /\ c.stake \in BOOLEAN
    BY <1>2 DEF Coin
  <2>. HIDE DEF c
  <2>2. [c EXCEPT !.vout = @ \ {o[2]}] \in Coin
    BY <1>2, <2>1 DEF Coin, c
  <2>3. /\ [height |-> c.height, base |-> c.base, stake |-> c.stake] \in InUndos
        /\ [height |-> 0, base |-> FALSE, stake |-> FALSE] \in InUndos
    BY <2>1 DEF InUndos
  <2>. QED  BY <1>3, <2>2, <2>3 DEF Spent, InUndo, c
<1>5. [s.view EXCEPT ![o[1]] = Spent(@, o[2])] \in Views
  BY <1>1, <1>4 DEF Views
<1>6. Append(s.undo, InUndo(s.view[o[1]], o[2])) \in Seq(InUndos)
  BY <1>1, <1>4
<1>. QED  BY <1>5, <1>6 DEF Spend, SpendState

Spends(h, view, t) ==
    /\ h[0] = [view |-> view, undo |-> << >>]
    /\ \A n \in 1 .. Len(Vin[t]) : h[n] = Spend(h[n - 1], Vin[t][n])
    /\ \A n \in 0 .. Len(Vin[t]) : h[n] \in SpendState

(* The loop of UpdateCoins.                                                *)
LEMMA SpendRun ==
    ASSUME NEW t \in Txs, NEW view \in Views
    PROVE  \E h : Spends(h, view, t) /\ SpentInputs(view, t) = h[Len(Vin[t])]
<1>. DEFINE N == Len(Vin[t])
            x == [view |-> view, undo |-> << >>]
            I == [n \in 0 .. N |-> SpendState]
            f == [y \in (1 .. N) \X SpendState |-> Spend(y[2], Vin[t][y[1]])]
            Is(g) == g = [n \in 0 .. N |-> IF n = 0 THEN x ELSE Spend(g[n - 1], Vin[t][n])]
<1>1. N \in Nat /\ \A n \in 1 .. N : Vin[t][n] \in OutPoints
  BY TxFacts
<1>2. x \in I[0]
  <2>1. << >> \in Seq(InUndos)
    OBVIOUS
  <2>2. x \in SpendState /\ 0 \in 0 .. N
    BY <1>1, <2>1 DEF SpendState
  <2>. HIDE DEF x
  <2>. QED  BY <2>2
<1>3. ASSUME NEW n \in 1 .. N, NEW s \in I[n - 1]
      PROVE  Spend(s, Vin[t][n]) \in I[n] /\ f[<<n, s>>] = Spend(s, Vin[t][n])
  <2>1. s \in SpendState
    BY <1>1
  <2>2. Spend(s, Vin[t][n]) \in SpendState
    BY <1>1, <2>1, SpendType
  <2>. QED  BY <1>1, <2>1, <2>2
<1>. HIDE DEF f, x, I, N
<1>4. PICK g : Recurs(g, N, f, x) /\ Within(g, N, I)
  <2>1. Leads(N, I, f)
    BY <1>3 DEF Leads
  <2>. QED  BY <1>1, <1>2, <2>1, Recursion
<1>5. Is(g)
  <2>1. ASSUME NEW n \in 0 .. N
        PROVE  (IF n = 0 THEN x ELSE f[<<n, g[n - 1]>>]) = IF n = 0 THEN x ELSE Spend(g[n - 1], Vin[t][n])
    BY <1>1, <1>3, <1>4 DEF Within
  <2>. QED  BY <1>4, <2>1 DEF Recurs
<1>. DEFINE h == CHOOSE h : Is(h)
<1>6. SpentInputs(view, t) = h[N]
  BY DEF SpentInputs, N, x
<1>7. Is(h)
  BY <1>5
<1>. HIDE DEF h
<1>8. h[0] = x /\ \A n \in 1 .. N : h[n] = Spend(h[n - 1], Vin[t][n])
  BY <1>1, <1>7
<1>9. Within(h, N, I)
  BY <1>1, <1>2, <1>3, <1>8, StaysWithin
<1>. QED  BY <1>6, <1>8, <1>9 DEF Spends, Within, N, I, x

(* What is available among the coins that C leaves.                        *)
LEMMA AvailableIs ==
    ASSUME NEW C, NEW H, NEW B, NEW S, NEW o \in OutPoints
    PROVE  Available(CoinView(C, H, B, S), o) <=> o[1] \in C /\ o \notin B
<1>1. o = <<o[1], o[2]>> /\ o[1] \in Txs /\ o[2] \in Vout[o[1]]
  BY TxFacts
<1>2. o[2] \in Rest(B, o[1]) <=> o \notin B
  BY <1>1 DEF Rest
<1>3. CASE o[1] \in C /\ Rest(B, o[1]) # {}
  <2>1. CoinView(C, H, B, S)[o[1]].vout = Rest(B, o[1])
    BY <1>1, <1>3 DEF CoinView, CoinOf
  <2>. QED  BY <1>2, <1>3, <2>1 DEF Available
<1>4. CASE ~(o[1] \in C /\ Rest(B, o[1]) # {})
  <2>1. CoinView(C, H, B, S)[o[1]].vout = {}
    BY <1>1, <1>4 DEF CoinView, Pruned
  <2>. QED  BY <1>2, <1>4, <2>1 DEF Available
<1>. QED  BY <1>3, <1>4

(* They are a view.                                                        *)
LEMMA ViewType ==
    ASSUME NEW C, NEW H \in [Txs -> Nat \ {0}], NEW B, NEW S
    PROVE  CoinView(C, H, B, S) \in Views
<1>1. Pruned \in Coin
  BY DEF Pruned, Coin
<1>2. ASSUME NEW x \in Txs PROVE CoinOf(x, Rest(B, x), H[x], S) \in Coin
  <2>1. Rest(B, x) \in SUBSET Nat /\ H[x] \in Nat
    BY TxAssumption DEF Rest
  <2>2. PICK p, q \in BOOLEAN : FlagsOf(x, S, p, q)
    BY CoinFlags, Zenon
  <2>. QED  BY <2>1, <2>2 DEF Coin, FlagsOf
<1>. QED  BY <1>1, <1>2 DEF CoinView, Views

First(t, n) == {Vin[t][i] : i \in 1 .. n}
Undoes(u, C, H, B, S, t) ==
    \A n \in 1 .. Len(Vin[t]) :
        UndoIs(u[n], CoinView(C, H, B \union First(t, n - 1), S)[Vin[t][n][1]], Vin[t][n][2])

(* The undo data do not depend on the flags.                               *)
LEMMA UndoesAny ==
    ASSUME NEW t \in Txs, NEW u, NEW C, NEW H, NEW B, NEW S, NEW Z, Undoes(u, C, H, B, S, t)
    PROVE  Undoes(u, C, H, B, Z, t)
<1>1. ASSUME NEW E, NEW y \in Txs, NEW n, NEW v, UndoIs(v, CoinView(C, H, E, S)[y], n)
      PROVE  UndoIs(v, CoinView(C, H, E, Z)[y], n)
  <2>. DEFINE c == CoinView(C, H, E, S)[y]
              d == CoinView(C, H, E, Z)[y]
  <2>1. c.vout = d.vout /\ c.height = d.height /\ c.base = d.base
    <3>1. CASE y \in C /\ Rest(E, y) # {}
      <4>1. c = CoinOf(y, Rest(E, y), H[y], S) /\ d = CoinOf(y, Rest(E, y), H[y], Z)
        BY <3>1 DEF CoinView
      <4>. HIDE DEF c, d
      <4>. QED  BY <4>1 DEF CoinOf
    <3>2. CASE ~(y \in C /\ Rest(E, y) # {})
      BY <3>2 DEF CoinView
    <3>. QED  BY <3>1, <3>2
  <2>2. UndoIs(v, c, n)
    BY <1>1
  <2>. HIDE DEF c, d
  <2>3. InUndo(c, n).height = InUndo(d, n).height /\ InUndo(c, n).base = InUndo(d, n).base
    BY <2>1 DEF InUndo
  <2>4. UndoIs(v, d, n)
    BY <2>2, <2>3 DEF UndoIs
  <2>. QED  BY <2>4 DEF d
<1>2. ASSUME NEW n \in 1 .. Len(Vin[t])
      PROVE  UndoIs(u[n], CoinView(C, H, B \union First(t, n - 1), Z)[Vin[t][n][1]], Vin[t][n][2])
  <2>1. Vin[t][n] \in OutPoints /\ Vin[t][n][1] \in Txs
    BY TxFacts
  <2>2. UndoIs(u[n], CoinView(C, H, B \union First(t, n - 1), S)[Vin[t][n][1]], Vin[t][n][2])
    BY DEF Undoes
  <2>. QED  BY <1>1, <2>1, <2>2
<1>. QED  BY <1>2 DEF Undoes

(* The inputs one by one.                                                  *)
LEMMA FirstFacts ==
    ASSUME NEW t \in Txs
    PROVE  /\ First(t, 0) = {} /\ First(t, Len(Vin[t])) = Inputs(t)
           /\ \A n \in 1 .. Len(Vin[t]) :
                 /\ First(t, n) = First(t, n - 1) \union {Vin[t][n]} /\ Vin[t][n] \notin First(t, n - 1)
                 /\ Vin[t][n] \in Inputs(t) /\ Vin[t][n] \in OutPoints /\ Vin[t][n] \in AllInputs
                 /\ First(t, n - 1) \subseteq AllInputs
<1>. DEFINE N == Len(Vin[t])
<1>1. /\ N \in Nat /\ DOMAIN Vin[t] = 1 .. N /\ Inputs(t) = {Vin[t][i] : i \in 1 .. N}
      /\ Inputs(t) \subseteq OutPoints /\ Inputs(t) \subseteq AllInputs
  BY TxFacts DEF AllInputs
<1>2. \A i, j \in 1 .. N : Vin[t][i] = Vin[t][j] => i = j
  BY <1>1, TxAssumption
<1>. HIDE DEF N
<1>3. First(t, 0) = {} /\ First(t, N) = Inputs(t)
  BY <1>1 DEF First
<1>4. ASSUME NEW n \in 1 .. N
      PROVE  /\ First(t, n) = First(t, n - 1) \union {Vin[t][n]} /\ Vin[t][n] \notin First(t, n - 1)
             /\ Vin[t][n] \in Inputs(t) /\ First(t, n - 1) \subseteq Inputs(t)
  <2>1. 1 .. n = (1 .. n - 1) \union {n} /\ n \notin 1 .. n - 1 /\ 1 .. n - 1 \subseteq 1 .. N
    BY <1>1
  <2>2. First(t, n) = First(t, n - 1) \union {Vin[t][n]}
    BY <2>1 DEF First
  <2>3. Vin[t][n] \notin First(t, n - 1)
    BY <1>2, <2>1 DEF First
  <2>. QED  BY <1>1, <2>1, <2>2, <2>3 DEF First
<1>. QED  BY <1>1, <1>3, <1>4 DEF N

(* Spending the inputs of t.                                               *)
LEMMA SpendForm ==
    ASSUME NEW t \in Txs, NEW C, NEW H \in [Txs -> Nat \ {0}], NEW B, NEW S,
           \A o \in Inputs(t) : Available(CoinView(C, H, B, S), o)
    PROVE  /\ SpentInputs(CoinView(C, H, B, S), t).view = CoinView(C, H, B \union Inputs(t), S)
           /\ SpentInputs(CoinView(C, H, B, S), t).undo \in Seq(InUndos)
           /\ Undoes(SpentInputs(CoinView(C, H, B, S), t).undo, C, H, B, S, t)
<1>. DEFINE N == Len(Vin[t])
            V(n) == CoinView(C, H, B \union First(t, n), S)
            UndoAt(i) == InUndo(V(i - 1)[Vin[t][i][1]], Vin[t][i][2])
<1>1. N \in Nat /\ V(0) = CoinView(C, H, B, S) /\ V(0) \in Views
  <2>1. B \union First(t, 0) = B
    BY FirstFacts
  <2>. QED  BY <2>1, TxFacts, ViewType
<1>2. PICK h : Spends(h, V(0), t) /\ SpentInputs(V(0), t) = h[N]
  BY <1>1, SpendRun
<1>. DEFINE OK(n) == /\ h[n].view = V(n) /\ Len(h[n].undo) = n
                     /\ \A i \in 1 .. n : h[n].undo[i] = UndoAt(i)
            T == {n \in 0 .. N : OK(n)}
<1>. HIDE DEF V, N
<1>3. 0 \in T
  <2>1. h[0].view = V(0) /\ Len(h[0].undo) = 0
    BY <1>2 DEF Spends
  <2>. QED  BY <1>1, <2>1
<1>4. ASSUME NEW n \in 1 .. N, n - 1 \in T PROVE n \in T
  <2>. DEFINE o == Vin[t][n]
  <2>1. OK(n - 1)
    BY <1>4
  <2>2. o \in OutPoints /\ o \in Inputs(t) /\ o \notin First(t, n - 1) /\ First(t, n) = First(t, n - 1) \union {o}
    BY FirstFacts DEF N
  <2>3. Available(V(n - 1), o)
    BY <2>2, AvailableIs DEF V
  <2>4. [V(n - 1) EXCEPT ![o[1]] = Spent(@, o[2])] = V(n)
    <3>. DEFINE E == B \union First(t, n - 1)
    <3>1. E \union {o} = B \union First(t, n) /\ V(n - 1) = CoinView(C, H, E, S)
      BY <2>2 DEF V
    <3>2. Available(CoinView(C, H, E, S), o)
      BY <2>3, <3>1
    <3>. HIDE DEF E, o
    <3>3. [CoinView(C, H, E, S) EXCEPT ![o[1]] = Spent(@, o[2])] = CoinView(C, H, E \union {o}, S)
      BY <2>2, <3>2, SpendOne
    <3>. QED  BY <3>1, <3>3 DEF V
  <2>5. h[n] = Spend(h[n - 1], o) /\ h[n - 1] \in SpendState /\ h[n] \in SpendState
    BY <1>1, <1>2 DEF Spends, N
  <2>6. /\ h[n].view = [h[n - 1].view EXCEPT ![o[1]] = Spent(@, o[2])]
        /\ h[n].undo = Append(h[n - 1].undo, InUndo(h[n - 1].view[o[1]], o[2]))
    BY <2>5 DEF Spend
  <2>7. h[n - 1].undo \in Seq(InUndos)
    BY <2>5 DEF SpendState
  <2>8. InUndo(h[n - 1].view[o[1]], o[2]) = UndoAt(n)
    BY <2>1
  <2>9. h[n].view = V(n)
    BY <2>1, <2>4, <2>6
  <2>10. Len(h[n].undo) = n /\ \A i \in 1 .. n : h[n].undo[i] = UndoAt(i)
    <3>. HIDE DEF o
    <3>1. Len(h[n].undo) = n /\ h[n].undo[n] = UndoAt(n) /\ \A i \in 1 .. n - 1 : h[n].undo[i] = h[n - 1].undo[i]
      BY <1>1, <2>1, <2>6, <2>7, <2>8
    <3>2. \A i \in 1 .. n : i = n \/ i \in 1 .. n - 1
      BY <1>1
    <3>. QED  BY <2>1, <3>1, <3>2
  <2>. QED  BY <2>9, <2>10
<1>. HIDE DEF T
<1>5. N \in T
  BY <1>1, <1>3, <1>4, Ladder
<1>6. OK(N) /\ h[N].undo \in Seq(InUndos)
  BY <1>1, <1>2, <1>5 DEF T, Spends, N, SpendState
<1>7. Undoes(h[N].undo, C, H, B, S, t)
  BY <1>6 DEF Undoes, UndoIs, UndoAt, V, N
<1>. QED  BY <1>1, <1>2, <1>6, <1>7, FirstFacts DEF V, N

(* The inputs of t were spent last; no coin they left pruned is flagged.   *)
AllSpentLast(t, C, H, B, S, u) ==
    /\ t \in Txs /\ H \in [Txs -> Nat \ {0}]
    /\ \A o \in Inputs(t) : o[1] \in C /\ o \notin B
    /\ \A y \in S : Rest(B \union Inputs(t), y) # {}
    /\ Undoes(u, C, H, B, S, t)

(* Restoring them.                                                         *)
LEMMA RestoreForm ==
    ASSUME NEW t, NEW C, NEW H, NEW B, NEW S, NEW u, AllSpentLast(t, C, H, B, S, u)
    PROVE  RestoredInputs(CoinView(C, H, B \union Inputs(t), S), t, u) = CoinView(C, H, B, S)
<1>0. /\ t \in Txs /\ H \in [Txs -> Nat \ {0}]
      /\ \A o \in Inputs(t) : o[1] \in C /\ o \notin B
      /\ \A y \in S : Rest(B \union Inputs(t), y) # {}
      /\ Undoes(u, C, H, B, S, t)
  BY DEF AllSpentLast
<1>. USE <1>0
<1>. DEFINE N == Len(Vin[t])
            V(n) == CoinView(C, H, B \union First(t, n), S)
            Is(g) == g = [n \in 0 .. N |-> IF n = 0 THEN V(N)
                                           ELSE RestoreInput(g[n - 1], Vin[t][N + 1 - n], u[N + 1 - n])]
            e == [n \in 0 .. N |-> V(N - n)]
            h == CHOOSE g : Is(g)
<1>1. N \in Nat /\ V(0) = CoinView(C, H, B, S) /\ V(N) = CoinView(C, H, B \union Inputs(t), S)
  <2>1. B \union First(t, 0) = B
    BY FirstFacts
  <2>. QED  BY <2>1, TxFacts, FirstFacts
<1>2. ASSUME NEW k \in 1 .. N PROVE RestoreInput(V(k), Vin[t][k], u[k]) = V(k - 1)
  <2>. DEFINE o == Vin[t][k]
              E == B \union First(t, k - 1)
  <2>1. /\ o \in OutPoints /\ o \in Inputs(t) /\ o \in AllInputs /\ o \notin First(t, k - 1)
        /\ First(t, k) = First(t, k - 1) \union {o} /\ First(t, k - 1) \subseteq AllInputs
    BY FirstFacts
  <2>2. o[1] \in C /\ o \notin B
    BY <2>1
  <2>3. V(k - 1) = CoinView(C, H, E, S) /\ V(k) = CoinView(C, H, E \union {o}, S) /\ o \notin E
    <3>1. E \union {o} = B \union First(t, k)
      BY <2>1
    <3>. QED  BY <2>1, <2>2, <3>1
  <2>4. UndoIs(u[k], CoinView(C, H, E, S)[o[1]], o[2])
    BY DEF Undoes
  <2>5. Rest(E \union {o}, o[1]) = {} => o[1] \notin S
    <3>1. E \union {o} \subseteq B \union Inputs(t)
      <4>1. First(t, k - 1) \subseteq Inputs(t)
        BY TxFacts DEF First
      <4>. QED  BY <2>1, <4>1
    <3>2. Rest(B \union Inputs(t), o[1]) \subseteq Rest(E \union {o}, o[1])
      BY <3>1 DEF Rest
    <3>. QED  BY <3>2
  <2>. DEFINE v == u[k]
  <2>6. RestoreInput(CoinView(C, H, E \union {o}, S), o, v) = CoinView(C, H, E, S)
    <3>1. SpentLast(C, H, E, S, o, v)
      BY <2>1, <2>2, <2>3, <2>4, <2>5 DEF SpentLast
    <3>. HIDE DEF o, E, V, v
    <3>. QED  BY <3>1, RestoreOne
  <2>. HIDE DEF o, E, V, v
  <2>7. RestoreInput(V(k), o, u[k]) = V(k - 1)
    BY <2>3, <2>6 DEF v
  <2>. QED  BY <2>7 DEF o
<1>3. RestoredInputs(V(N), t, u) = h[N]
  BY DEF RestoredInputs
<1>. HIDE DEF V, N
<1>4. Is(e)
  <2>1. ASSUME NEW n \in 0 .. N
        PROVE  V(N - n) = IF n = 0 THEN V(N) ELSE RestoreInput(e[n - 1], Vin[t][N + 1 - n], u[N + 1 - n])
    <3>1. CASE n = 0
      BY <1>1, <3>1
    <3>2. CASE n # 0
      <4>1. n - 1 \in 0 .. N /\ N + 1 - n \in 1 .. N /\ N - (n - 1) = N + 1 - n /\ (N + 1 - n) - 1 = N - n
        BY <1>1, <3>2
      <4>2. e[n - 1] = V(N + 1 - n)
        BY <4>1
      <4>3. V(N - n) = RestoreInput(V(N + 1 - n), Vin[t][N + 1 - n], u[N + 1 - n])
        BY <1>2, <4>1
      <4>. QED  BY <3>2, <4>2, <4>3
    <3>. QED  BY <3>1, <3>2
  <2>. QED  BY <2>1
<1>5. Is(h)
  BY <1>4
<1>. HIDE DEF h
<1>. DEFINE T == {n \in 0 .. N : h[n] = V(N - n)}
<1>6. 0 \in T
  BY <1>1, <1>5
<1>7. ASSUME NEW n \in 1 .. N, n - 1 \in T PROVE n \in T
  <2>1. n \in 0 .. N /\ n # 0 /\ N + 1 - n \in 1 .. N /\ N - (n - 1) = N + 1 - n /\ (N + 1 - n) - 1 = N - n
    BY <1>1
  <2>2. h[n] = RestoreInput(h[n - 1], Vin[t][N + 1 - n], u[N + 1 - n])
    BY <1>5, <2>1
  <2>3. h[n - 1] = V(N + 1 - n)
    BY <1>7, <2>1
  <2>4. h[n] = V((N + 1 - n) - 1)
    BY <1>2, <2>1, <2>2, <2>3
  <2>. QED  BY <2>1, <2>4
<1>. HIDE DEF T
<1>8. N \in T
  <2>1. \A n \in 1 .. N : n - 1 \in T => n \in T
    BY <1>7
  <2>. QED  BY <1>1, <1>6, <2>1, Ladder
<1>9. h[N] = V(0)
  BY <1>1, <1>8 DEF T
<1>. QED  BY <1>1, <1>3, <1>9

-----------------------------------------------------------------------------
(* The loops over the transactions of a block.                             *)

BlockState == [view : Views, undo : Seq(Seq(InUndos))]

(* What a block has.                                                       *)
LEMMA BlockFacts ==
    ASSUME NEW b \in Blocks
    PROVE  /\ Height[b] \in Nat \ {0} /\ Len(Vtx[b]) \in Nat /\ DOMAIN Vtx[b] = 1 .. Len(Vtx[b])
           /\ \A n \in 1 .. Len(Vtx[b]) : Vtx[b][n] \in Txs
           /\ ToSet(Vtx[b]) = {Vtx[b][n] : n \in 1 .. Len(Vtx[b])} /\ ToSet(Vtx[b]) \subseteq Txs
           /\ b # Root => Parent[b] \in Blocks /\ Height[b] = Height[Parent[b]] + 1
<1>1. Vtx[b] \in Seq(Txs) /\ Height[b] \in Nat \ {0}
  BY BlockAssumption
<1>2. Len(Vtx[b]) \in Nat /\ DOMAIN Vtx[b] = 1 .. Len(Vtx[b]) /\ \A n \in 1 .. Len(Vtx[b]) : Vtx[b][n] \in Txs
  BY <1>1
<1>3. ToSet(Vtx[b]) = {Vtx[b][n] : n \in 1 .. Len(Vtx[b])}
  BY <1>2 DEF ToSet
<1>4. b # Root => Parent[b] \in Blocks /\ Height[b] = Height[Parent[b]] + 1
  BY BlockAssumption
<1>. QED  BY <1>1, <1>2, <1>3, <1>4

(* UpdateCoins gives a view.                                               *)
LEMMA UpdateType ==
    ASSUME NEW s \in BlockState, NEW t \in Txs, NEW h \in Nat
    PROVE  UpdateCoins(s, t, h) \in BlockState
<1>. DEFINE a == SpentInputs(s.view, t)
<1>1. s.view \in Views /\ s.undo \in Seq(Seq(InUndos))
  BY DEF BlockState
<1>2. a \in SpendState
  <2>1. PICK g : Spends(g, s.view, t) /\ a = g[Len(Vin[t])]
    BY <1>1, SpendRun
  <2>2. Len(Vin[t]) \in 0 .. Len(Vin[t])
    BY TxFacts
  <2>. QED  BY <2>1, <2>2 DEF Spends
<1>3. a.view \in Views /\ a.undo \in Seq(InUndos)
  BY <1>2 DEF SpendState
<1>4. FromTx(t, h) \in Coin
  <2>1. FromTx(t, h) = CoinOf(t, Vout[t], h, CoinStakes) \/ FromTx(t, h) = Pruned
    BY DEF FromTx, CoinOf
  <2>2. PICK p, q \in BOOLEAN : FlagsOf(t, CoinStakes, p, q)
    BY CoinFlags, Zenon
  <2>3. Vout[t] \in SUBSET Nat
    BY TxAssumption
  <2>4. CoinOf(t, Vout[t], h, CoinStakes) \in Coin
    BY <2>2, <2>3 DEF Coin, FlagsOf
  <2>5. Pruned \in Coin
    BY DEF Coin, Pruned
  <2>. QED  BY <2>1, <2>4, <2>5
<1>. HIDE DEF a
<1>5. [a.view EXCEPT ![t] = FromTx(t, h)] \in Views
  BY <1>3, <1>4 DEF Views
<1>6. Append(s.undo, a.undo) \in Seq(Seq(InUndos))
  BY <1>1, <1>3
<1>. QED  BY <1>5, <1>6 DEF UpdateCoins, BlockState, a

(* The loop of ConnectBlock.                                               *)
LEMMA ConnectRun ==
    ASSUME NEW b \in Blocks, NEW view \in Views
    PROVE  LET g == ConnectBlock(view, b)
           IN  /\ g[0] = [view |-> view, undo |-> << >>]
               /\ \A n \in 1 .. Len(Vtx[b]) : g[n] = UpdateCoins(g[n - 1], Vtx[b][n], Height[b])
               /\ \A n \in 0 .. Len(Vtx[b]) : g[n] \in BlockState
<1>. DEFINE N == Len(Vtx[b])
            x == [view |-> view, undo |-> << >>]
            I == [n \in 0 .. N |-> BlockState]
            f == [y \in (1 .. N) \X BlockState |-> UpdateCoins(y[2], Vtx[b][y[1]], Height[b])]
            Is(g) == g = [n \in 0 .. N |-> IF n = 0 THEN x ELSE UpdateCoins(g[n - 1], Vtx[b][n], Height[b])]
<1>1. N \in Nat /\ Height[b] \in Nat /\ \A n \in 1 .. N : Vtx[b][n] \in Txs
  BY BlockFacts
<1>2. x \in I[0]
  <2>1. << >> \in Seq(Seq(InUndos))
    OBVIOUS
  <2>2. x \in BlockState /\ 0 \in 0 .. N
    BY <1>1, <2>1 DEF BlockState
  <2>. HIDE DEF x
  <2>. QED  BY <2>2
<1>3. ASSUME NEW n \in 1 .. N, NEW s \in I[n - 1]
      PROVE  UpdateCoins(s, Vtx[b][n], Height[b]) \in I[n] /\ f[<<n, s>>] = UpdateCoins(s, Vtx[b][n], Height[b])
  <2>1. s \in BlockState
    BY <1>1
  <2>2. UpdateCoins(s, Vtx[b][n], Height[b]) \in BlockState
    BY <1>1, <2>1, UpdateType
  <2>. QED  BY <1>1, <2>1, <2>2
<1>. HIDE DEF f, x, I, N
<1>4. PICK g : Recurs(g, N, f, x) /\ Within(g, N, I)
  <2>1. Leads(N, I, f)
    BY <1>3 DEF Leads
  <2>. QED  BY <1>1, <1>2, <2>1, Recursion
<1>5. Is(g)
  <2>1. ASSUME NEW n \in 0 .. N
        PROVE  (IF n = 0 THEN x ELSE f[<<n, g[n - 1]>>]) = IF n = 0 THEN x ELSE UpdateCoins(g[n - 1], Vtx[b][n], Height[b])
    BY <1>1, <1>3, <1>4 DEF Within
  <2>. QED  BY <1>4, <2>1 DEF Recurs
<1>. DEFINE h == CHOOSE h : Is(h)
<1>6. ConnectBlock(view, b) = h
  BY DEF ConnectBlock, N, x
<1>7. Is(h)
  BY <1>5
<1>. HIDE DEF h
<1>8. h[0] = x /\ \A n \in 1 .. N : h[n] = UpdateCoins(h[n - 1], Vtx[b][n], Height[b])
  BY <1>1, <1>7
<1>9. Within(h, N, I)
  BY <1>1, <1>2, <1>3, <1>8, StaysWithin
<1>. QED  BY <1>6, <1>8, <1>9 DEF Within, N, I, x

-----------------------------------------------------------------------------
(* The coins along the chain.                                              *)

SpentBy(C) == UNION {Inputs(x) : x \in C}
Ledger(C, H, S) == CoinView(C, H, SpentBy(C), S)

(* No transaction of C spends what is not there or what another spends.    *)
Sound(C) ==
    /\ C \subseteq Txs
    /\ \A t \in C : Parents(t) \subseteq C
    /\ \A t, x \in C : t # x => Inputs(t) \intersect Inputs(x) = {}

SoundChain(b) ==
    /\ Sound(Confirmed(b))
    /\ \A c, d \in Path(b) : \A t \in ToSet(Vtx[c]) : t \in ToSet(Vtx[d]) => c = d

At(b, t) == Height[CHOOSE c \in Path(b) : t \in ToSet(Vtx[c])]

(* Inputs and the transactions they are outputs of.                        *)
LEMMA ParentsAre ==
    ASSUME NEW t \in Txs
    PROVE  \A o \in Inputs(t) : o \in OutPoints /\ o \in AllInputs /\ o[1] \in Parents(t) /\ o[1] \in Txs
BY TxFacts DEF Parents, AllInputs

(* Unspent as a ledger.                                                    *)
LEMMA UnspentIs ==
    ASSUME NEW b, NEW H, NEW U, \A t \in Confirmed(b) : H[t] = At(b, t)
    PROVE  Unspent(b, U) = Ledger(Confirmed(b), H, CoinStakes \ U)
<1>. DEFINE all == Confirmed(b)
            S == CoinStakes \ U
            left(t) == {n \in Vout[t] : \A x \in all : <<t, n>> \notin Inputs(x)}
            coin(t) == [FromTx(t, At(b, t)) EXCEPT !.vout = left(t), !.stake = @ /\ t \notin U]
<1>1. ASSUME NEW t \in Txs PROVE left(t) = Rest(SpentBy(all), t)
  BY DEF Rest, SpentBy
<1>2. ASSUME NEW t \in all, left(t) # {} PROVE coin(t) = CoinOf(t, left(t), H[t], S)
  <2>1. FromTx(t, At(b, t)) = CoinOf(t, Vout[t], H[t], CoinStakes)
    BY <1>2 DEF FromTx, CoinOf
  <2>2. PICK p, q \in BOOLEAN : FlagsOf(t, CoinStakes, p, q)
    BY CoinFlags, Zenon
  <2>3. PICK c, d \in BOOLEAN : FlagsOf(t, S, c, d)
    BY CoinFlags, Zenon
  <2>4. p = c
    <3>1. p <=> c
      BY <2>2, <2>3 DEF FlagsOf
    <3>. QED  BY <3>1
  <2>5. (q /\ t \notin U) = d
    <3>1. (q /\ t \notin U) <=> d
      BY <2>2, <2>3 DEF FlagsOf
    <3>. QED  BY <3>1
  <2>. HIDE DEF left, S
  <2>6. FromTx(t, At(b, t)) = [vout |-> Vout[t], height |-> H[t], base |-> p, stake |-> q]
    BY <2>1, <2>2 DEF FlagsOf
  <2>7. CoinOf(t, left(t), H[t], S) = [vout |-> left(t), height |-> H[t], base |-> c, stake |-> d]
    BY <2>3 DEF FlagsOf
  <2>. DEFINE e == q /\ t \notin U
  <2>. DEFINE f == FromTx(t, At(b, t))
              L == left(t)
  <2>8. coin(t) = [vout |-> L, height |-> H[t], base |-> p, stake |-> e]
    <3>1. coin(t) = [f EXCEPT !.vout = L, !.stake = @ /\ t \notin U]
      OBVIOUS
    <3>2. f = [vout |-> Vout[t], height |-> H[t], base |-> p, stake |-> q]
      BY <2>6
    <3>. HIDE DEF f, L, coin
    <3>3. coin(t) = [vout |-> L, height |-> H[t], base |-> p, stake |-> q /\ t \notin U]
      BY <3>1, <3>2, Zenon
    <3>. QED  BY <3>3
  <2>9. e = d
    BY <2>5
  <2>. HIDE DEF e, coin
  <2>. QED  BY <2>4, <2>7, <2>8, <2>9
<1>3. Unspent(b, U) = [t \in Txs |-> IF t \in all /\ left(t) # {} THEN coin(t) ELSE Pruned]
  BY DEF Unspent, At
<1>4. ASSUME NEW t \in Txs
      PROVE  (IF t \in all /\ left(t) # {} THEN coin(t) ELSE Pruned)
             = IF t \in all /\ Rest(SpentBy(all), t) # {} THEN CoinOf(t, Rest(SpentBy(all), t), H[t], S) ELSE Pruned
  <2>1. left(t) = Rest(SpentBy(all), t)
    BY <1>1
  <2>. HIDE DEF left, all, coin, S
  <2>. QED  BY <1>2, <2>1
<1>. HIDE DEF left, all, coin, S
<1>5. Unspent(b, U) = [t \in Txs |-> IF t \in all /\ Rest(SpentBy(all), t) # {}
                                     THEN CoinOf(t, Rest(SpentBy(all), t), H[t], S) ELSE Pruned]
  BY <1>3, <1>4
<1>. QED  BY <1>5 DEF Ledger, CoinView, all, S

(* A ledger only depends on the flags of the coins it has.                 *)
LEMMA LedgerSame ==
    ASSUME NEW C, NEW H, NEW S, NEW Z, \A x \in C : Rest(SpentBy(C), x) # {} => (x \in S <=> x \in Z)
    PROVE  Ledger(C, H, S) = Ledger(C, H, Z)
<1>. DEFINE B == SpentBy(C)
<1>1. ASSUME NEW x \in Txs
      PROVE  (IF x \in C /\ Rest(B, x) # {} THEN CoinOf(x, Rest(B, x), H[x], S) ELSE Pruned)
             = IF x \in C /\ Rest(B, x) # {} THEN CoinOf(x, Rest(B, x), H[x], Z) ELSE Pruned
  <2>1. CASE x \in C /\ Rest(B, x) # {}
    <3>1. x \in S <=> x \in Z
      BY <2>1
    <3>2. CoinOf(x, Rest(B, x), H[x], S) = CoinOf(x, Rest(B, x), H[x], Z)
      BY <3>1, CoinOfSame
    <3>. QED  BY <3>2
  <2>2. CASE ~(x \in C /\ Rest(B, x) # {})
    BY <2>2
  <2>. QED  BY <2>1, <2>2
<1>. QED  BY <1>1 DEF Ledger, CoinView

(* What CheckInputs lets into a ledger.                                    *)
LEMMA CheckedInputs ==
    ASSUME NEW C, Sound(C), NEW H, NEW S, NEW t \in Txs, NEW k, CheckInputs(Ledger(C, H, S), t, k)
    PROVE  /\ \A o \in Inputs(t) : Available(Ledger(C, H, S), o)
           /\ Parents(t) \subseteq C /\ Inputs(t) \intersect SpentBy(C) = {}
           /\ t \in C => t \in CoinBases
           /\ t \notin Invalid
<1>1. (\A o \in Inputs(t) : o \in OutPoints /\ Available(Ledger(C, H, S), o)) /\ t \notin Invalid
  BY ParentsAre DEF CheckInputs, Spendable
<1>2. \A o \in Inputs(t) : o[1] \in C /\ o \notin SpentBy(C)
  BY <1>1, AvailableIs DEF Ledger
<1>3. t \in C => Inputs(t) = {}
  BY <1>2 DEF SpentBy
<1>. QED  BY <1>1, <1>2, <1>3, TxAssumption DEF Parents

(* UpdateCoins adds a transaction to the ledger, with its own flag.        *)
LEMMA UpdateForm ==
    ASSUME NEW C, Sound(C), NEW H \in [Txs -> Nat \ {0}], NEW S, NEW t \in Txs \ C, NEW s, s.view = Ledger(C, H, S),
           NEW k, CheckInputs(s.view, t, k),
           NEW Z, \A x \in C : x \in S <=> x \in Z, t \in Z <=> t \in CoinStakes
    PROVE  UpdateCoins(s, t, H[t]).view = Ledger(C \union {t}, H, Z) /\ Sound(C \union {t})
<1>. DEFINE B == SpentBy(C)
            D == C \union {t}
            V == CoinView(C, H, B \union Inputs(t), Z)
            W == CoinView(D, H, B \union Inputs(t), Z)
<1>1. s.view = Ledger(C, H, Z)
  BY LedgerSame
<1>2. /\ \A o \in Inputs(t) : Available(Ledger(C, H, Z), o)
      /\ Parents(t) \subseteq C /\ Inputs(t) \intersect B = {}
  BY <1>1, CheckedInputs
<1>3. SpentInputs(s.view, t).view = V
  <2>1. s.view = CoinView(C, H, B, Z) /\ \A o \in Inputs(t) : Available(CoinView(C, H, B, Z), o)
    BY <1>1, <1>2 DEF Ledger
  <2>. HIDE DEF B
  <2>2. SpentInputs(CoinView(C, H, B, Z), t).view = V
    BY <2>1, SpendForm
  <2>. QED  BY <2>1, <2>2
<1>4. SpentBy(D) = B \union Inputs(t)
  BY DEF SpentBy
<1>5. \A m \in Vout[t] : <<t, m>> \notin B \union Inputs(t)
  <2>1. ASSUME NEW x \in D PROVE t \notin Parents(x)
    BY <1>2 DEF Sound
  <2>2. ASSUME NEW m, NEW x \in D PROVE <<t, m>> \notin Inputs(x)
    BY <2>1 DEF Parents
  <2>. QED  BY <2>2 DEF SpentBy
<1>6. Rest(B \union Inputs(t), t) = Vout[t]
  BY <1>5 DEF Rest
<1>7. W[t] = FromTx(t, H[t])
  <2>1. CASE Vout[t] = {}
    BY <1>6, <2>1 DEF CoinView, FromTx
  <2>2. CASE Vout[t] # {}
    <3>1. W[t] = CoinOf(t, Vout[t], H[t], Z)
      BY <1>6, <2>2 DEF CoinView
    <3>2. CoinOf(t, Vout[t], H[t], Z) = CoinOf(t, Vout[t], H[t], CoinStakes)
      BY CoinOfSame
    <3>3. FromTx(t, H[t]) = CoinOf(t, Vout[t], H[t], CoinStakes)
      BY <2>2 DEF FromTx, CoinOf
    <3>. HIDE DEF W
    <3>. QED  BY <3>1, <3>2, <3>3
  <2>. QED  BY <2>1, <2>2
<1>8. \A x \in Txs \ {t} : W[x] = V[x]
  BY DEF CoinView
<1>9. DOMAIN V = Txs /\ W = [x \in Txs |-> W[x]]
  BY DEF CoinView
<1>10. [V EXCEPT ![t] = FromTx(t, H[t])] = W
  <2>. HIDE DEF V, W
  <2>. QED  BY <1>7, <1>8, <1>9
<1>11. UpdateCoins(s, t, H[t]).view = [SpentInputs(s.view, t).view EXCEPT ![t] = FromTx(t, H[t])]
  BY DEF UpdateCoins
<1>12. Sound(D)
  <2>1. \A x \in C : Inputs(x) \intersect Inputs(t) = {}
    BY <1>2 DEF SpentBy
  <2>. QED  BY <1>2, <2>1 DEF Sound
<1>. HIDE DEF V, W
<1>13. UpdateCoins(s, t, H[t]).view = W
  BY <1>3, <1>10, <1>11
<1>. QED  BY <1>4, <1>12, <1>13 DEF W, Ledger

(* The transactions up to the n-th one of b.                               *)
Tried(b, n) == {Vtx[b][i] : i \in 1 .. n}
UpTo(b, n) == Confirmed(Parent[b]) \union Tried(b, n)

(* When the transactions up to b were confirmed.                           *)
HeightsOf(b) == [t \in Txs |-> IF t \in Confirmed(Parent[b]) THEN At(Parent[b], t) ELSE Height[b]]

(* The n-th transaction is new, valid, and spends what is there.           *)
Takes(b, n) ==
    /\ Vtx[b][n] \in Txs \ UpTo(b, n - 1) /\ Vtx[b][n] \notin Invalid
    /\ Parents(Vtx[b][n]) \subseteq UpTo(b, n - 1)
    /\ Inputs(Vtx[b][n]) \intersect SpentBy(UpTo(b, n - 1)) = {}

Connectable(b) == SoundChain(Parent[b]) /\ \A n \in 1 .. Len(Vtx[b]) : Takes(b, n)

(* The undo data of b, but for the stake flags.                            *)
UndoFits(b, u) ==
    \A n \in 1 .. Len(Vtx[b]) :
        Undoes(u[n], UpTo(b, n - 1), HeightsOf(b), SpentBy(UpTo(b, n - 1)), {}, Vtx[b][n])

(* Confirmed transactions are in a block of the path.                      *)
LEMMA ConfirmedIs ==
    ASSUME NEW b \in Blocks
    PROVE  /\ Confirmed(b) \subseteq Txs
           /\ \A t \in Confirmed(b) : \E c \in Path(b) : t \in ToSet(Vtx[c]) /\ At(b, t) = Height[c]
           /\ \A c \in Path(b) : c \in Blocks /\ ToSet(Vtx[c]) \subseteq Confirmed(b)
<1>1. Path(b) \in SUBSET Blocks
  BY PathClosed
<1>2. \A c \in Path(b) : c \in Blocks /\ ToSet(Vtx[c]) \subseteq Confirmed(b) /\ ToSet(Vtx[c]) \subseteq Txs
  BY <1>1, BlockFacts DEF Confirmed
<1>3. ASSUME NEW t \in Confirmed(b) PROVE \E c \in Path(b) : t \in ToSet(Vtx[c]) /\ At(b, t) = Height[c]
  <2>1. \E c \in Path(b) : t \in ToSet(Vtx[c])
    BY DEF Confirmed
  <2>. QED  BY <2>1 DEF At
<1>. QED  BY <1>2, <1>3

(* The steps from a block's parent to the block.                           *)
LEMMA UpToFacts ==
    ASSUME NEW b \in Blocks \ {Root}
    PROVE  /\ UpTo(b, 0) = Confirmed(Parent[b]) /\ UpTo(b, Len(Vtx[b])) = Confirmed(b)
           /\ Confirmed(b) = Confirmed(Parent[b]) \union ToSet(Vtx[b])
           /\ \A n \in 1 .. Len(Vtx[b]) : UpTo(b, n) = UpTo(b, n - 1) \union {Vtx[b][n]}
           /\ \A n \in 0 .. Len(Vtx[b]) : UpTo(b, n) \subseteq Txs /\ UpTo(b, n) \subseteq Confirmed(b)
           /\ HeightsOf(b) \in [Txs -> Nat \ {0}]
<1>. DEFINE p == Parent[b]
            N == Len(Vtx[b])
<1>1. /\ p \in Blocks /\ N \in Nat /\ ToSet(Vtx[b]) = {Vtx[b][n] : n \in 1 .. N}
      /\ Height[b] \in Nat \ {0} /\ ToSet(Vtx[b]) \subseteq Txs
  BY BlockFacts
<1>2. Confirmed(b) = Confirmed(p) \union ToSet(Vtx[b])
  <2>1. Path(b) = Path(p) \union {b}
    BY PathFacts
  <2>. QED  BY <2>1 DEF Confirmed
<1>3. UpTo(b, 0) = Confirmed(p) /\ UpTo(b, N) = Confirmed(b)
  BY <1>1, <1>2 DEF UpTo, Tried
<1>4. ASSUME NEW n \in 1 .. N PROVE UpTo(b, n) = UpTo(b, n - 1) \union {Vtx[b][n]}
  <2>1. 1 .. n = (1 .. n - 1) \union {n}
    BY <1>1
  <2>. QED  BY <2>1 DEF UpTo, Tried
<1>5. Confirmed(p) \subseteq Txs /\ \A t \in Confirmed(p) : At(p, t) \in Nat \ {0}
  BY <1>1, ConfirmedIs, BlockFacts
<1>6. ASSUME NEW n \in 0 .. N PROVE UpTo(b, n) \subseteq Txs /\ UpTo(b, n) \subseteq Confirmed(b)
  <2>1. 1 .. n \subseteq 1 .. N
    BY <1>1
  <2>. QED  BY <1>1, <1>2, <1>5, <2>1 DEF UpTo, Tried
<1>7. HeightsOf(b) \in [Txs -> Nat \ {0}]
  BY <1>1, <1>5 DEF HeightsOf
<1>. QED  BY <1>2, <1>3, <1>4, <1>6, <1>7

(* A transaction that passes CheckInputs in its turn was not there before. *)
LEMMA NewInTurn ==
    ASSUME NEW b \in Blocks \ {Root}, NEW n \in 1 .. Len(Vtx[b]), Sound(UpTo(b, n - 1)), NEW H, NEW S, NEW k,
           CheckInputs(Ledger(UpTo(b, n - 1), H, S), Vtx[b][n], k)
    PROVE  Takes(b, n)
<1>. DEFINE t == Vtx[b][n]
            p == Parent[b]
            N == Len(Vtx[b])
            C == UpTo(b, n - 1)
<1>1. p \in Blocks /\ N \in Nat /\ t \in Txs /\ Height[b] = Height[p] + 1 /\ Height[p] \in Nat /\ DOMAIN Vtx[b] = 1 .. N
  BY BlockFacts
<1>2. /\ Parents(t) \subseteq C /\ Inputs(t) \intersect SpentBy(C) = {} /\ t \notin Invalid
      /\ t \in C => t \in CoinBases
  <2>1. Sound(C) /\ t \in Txs /\ CheckInputs(Ledger(C, H, S), t, k)
    BY <1>1
  <2>. HIDE DEF C, t
  <2>. QED  BY <2>1, CheckedInputs
<1>. SUFFICES ASSUME t \in C PROVE FALSE
  BY <1>1, <1>2 DEF Takes
<1>3. CASE t \in Confirmed(p)
  <2>1. PICK c \in Path(p) : t \in ToSet(Vtx[c])
    BY <1>1, <1>3, ConfirmedIs
  <2>2. c \in Blocks /\ Height[c] <= Height[p]
    BY <1>1, <2>1, PathFacts, ConfirmedIs
  <2>3. PICK j \in DOMAIN Vtx[c] : Vtx[c][j] = t
    BY <2>1 DEF ToSet
  <2>4. Height[c] = Height[b]
    BY <1>1, <1>2, <2>2, <2>3, BlockAssumption
  <2>. QED  BY <1>1, <2>2, <2>4
<1>4. CASE t \notin Confirmed(p)
  <2>1. PICK i \in 1 .. n - 1 : Vtx[b][i] = t
    BY <1>4 DEF UpTo, Tried
  <2>2. i \in DOMAIN Vtx[b] /\ n \in DOMAIN Vtx[b] /\ i # n
    BY <1>1
  <2>. QED  BY <1>2, <2>1, <2>2, BlockAssumption
<1>. QED  BY <1>3, <1>4

(* A block that spends what is there keeps the chain sound.                *)
LEMMA SoundUpTo ==
    ASSUME NEW b \in Blocks \ {Root}, Connectable(b)
    PROVE  \A n \in 0 .. Len(Vtx[b]) : Sound(UpTo(b, n))
<1>. DEFINE N == Len(Vtx[b])
            T == {n \in 0 .. N : Sound(UpTo(b, n))}
<1>1. N \in Nat /\ 0 \in T
  BY BlockFacts, UpToFacts DEF Connectable, SoundChain
<1>2. ASSUME NEW n \in 1 .. N, n - 1 \in T PROVE n \in T
  <2>. DEFINE C == UpTo(b, n - 1)
              t == Vtx[b][n]
  <2>1. UpTo(b, n) = C \union {t} /\ Sound(C)
    BY <1>2, UpToFacts
  <2>2. t \in Txs /\ Parents(t) \subseteq C /\ Inputs(t) \intersect SpentBy(C) = {}
    BY DEF Connectable, Takes
  <2>. HIDE DEF C, t
  <2>3. \A x \in C : Inputs(x) \intersect Inputs(t) = {}
    BY <2>2 DEF SpentBy
  <2>4. Sound(C \union {t})
    BY <2>1, <2>2, <2>3 DEF Sound
  <2>5. n \in 0 .. N /\ Sound(UpTo(b, n))
    BY <1>1, <2>1, <2>4
  <2>. QED  BY <2>5
<1>3. \A n \in 0 .. N : n \in T
  <2>1. \A n \in 1 .. N : n - 1 \in T => n \in T
    BY <1>2
  <2>. HIDE DEF T
  <2>. QED  BY <1>1, <2>1, Ladder
<1>. QED  BY <1>3

(* ConnectBlock step by step: each transaction is new, the views are the   *)
(* ledgers, and the undo data of each transaction are what spending gave.  *)
LEMMA ConnectForm ==
    ASSUME NEW b \in Blocks \ {Root}, SoundChain(Parent[b]), NEW S \in SUBSET CoinStakes,
           NEW U, U = Ledger(Confirmed(Parent[b]), HeightsOf(b), S), Connects(U, b)
    PROVE  LET g == ConnectBlock(U, b)[Len(Vtx[b])]
           IN  /\ g.view = Ledger(Confirmed(b), HeightsOf(b), S \union (CoinStakes \intersect ToSet(Vtx[b])))
               /\ UndoFits(b, g.undo) /\ Connectable(b)
<1>. DEFINE p == Parent[b]
            N == Len(Vtx[b])
            H == HeightsOf(b)
            g == ConnectBlock(U, b)
            M(n) == S \union (CoinStakes \intersect Tried(b, n))
            V(n) == Ledger(UpTo(b, n), H, M(n))
            Fits(u, i) == Undoes(u, UpTo(b, i - 1), H, SpentBy(UpTo(b, i - 1)), {}, Vtx[b][i])
            OK(n) == /\ g[n].view = V(n) /\ Sound(UpTo(b, n)) /\ Len(g[n].undo) = n
                     /\ \A i \in 1 .. n : Takes(b, i) /\ Fits(g[n].undo[i], i)
            T == {n \in 0 .. N : OK(n)}
<1>1. /\ p \in Blocks /\ N \in Nat /\ \A n \in 1 .. N : Vtx[b][n] \in Txs
      /\ ToSet(Vtx[b]) = {Vtx[b][n] : n \in 1 .. N}
  BY BlockFacts
<1>2. H \in [Txs -> Nat \ {0}] /\ UpTo(b, 0) = Confirmed(p) /\ Sound(UpTo(b, 0)) /\ UpTo(b, N) = Confirmed(b)
  BY <1>1, UpToFacts DEF SoundChain
<1>3. U = V(0) /\ M(0) = S /\ M(N) = S \union (CoinStakes \intersect ToSet(Vtx[b]))
  <2>1. Tried(b, 0) = {} /\ Tried(b, N) = ToSet(Vtx[b])
    BY <1>1 DEF Tried
  <2>2. M(0) = S /\ M(N) = S \union (CoinStakes \intersect ToSet(Vtx[b]))
    BY <2>1
  <2>. HIDE DEF M
  <2>. QED  BY <1>2, <2>2
<1>4. U \in Views
  BY <1>2, ViewType DEF Ledger
<1>5. /\ g[0] = [view |-> U, undo |-> << >>]
      /\ \A n \in 1 .. N : g[n] = UpdateCoins(g[n - 1], Vtx[b][n], Height[b])
      /\ \A n \in 0 .. N : g[n] \in BlockState
  BY <1>4, ConnectRun
<1>6. \A n \in 1 .. N : CheckInputs(g[n - 1].view, Vtx[b][n], Height[b])
  BY DEF Connects
<1>. HIDE DEF g, H, N, p, V, M, Fits
<1>7. 0 \in T
  <2>1. g[0].view = V(0) /\ Len(g[0].undo) = 0
    BY <1>3, <1>5
  <2>. QED  BY <1>1, <1>2, <2>1
<1>8. ASSUME NEW n \in 1 .. N, n - 1 \in T PROVE n \in T
  <2>. DEFINE t == Vtx[b][n]
              C == UpTo(b, n - 1)
              s == g[n - 1]
              Y == M(n - 1)
              Z == M(n)
  <2>1. OK(n - 1) /\ n - 1 \in 0 .. N /\ n \in 0 .. N
    BY <1>1, <1>8
  <2>2. s.view = Ledger(C, H, Y) /\ Sound(C) /\ t \in Txs /\ CheckInputs(Ledger(C, H, Y), t, Height[b])
    BY <1>1, <1>6, <2>1 DEF V
  <2>3. Takes(b, n) /\ t \notin C
    <3>1. Takes(b, n)
      <4>. HIDE DEF Y
      <4>. QED  BY <2>2, NewInTurn DEF N
    <3>. QED  BY <3>1 DEF Takes
  <2>4. H[t] = Height[b]
    <3>1. t \notin Confirmed(p)
      BY <2>3 DEF UpTo, p
    <3>. QED  BY <2>2, <3>1 DEF H, HeightsOf, p
  <2>5. UpTo(b, n) = C \union {t} /\ Tried(b, n) = Tried(b, n - 1) \union {t}
    <3>1. 1 .. n = (1 .. n - 1) \union {n}
      BY <1>1
    <3>2. Tried(b, n) = Tried(b, n - 1) \union {t}
      BY <3>1 DEF Tried
    <3>. QED  BY <3>2 DEF UpTo
  <2>6. s \in BlockState /\ g[n] = UpdateCoins(s, t, H[t])
    BY <1>5, <2>1, <2>4
  <2>7. (\A x \in C : x \in Y <=> x \in Z) /\ (t \in Z <=> t \in CoinStakes)
    BY <2>3, <2>5 DEF M
  <2>8. g[n].view = V(n) /\ Sound(UpTo(b, n))
    <3>1. t \in Txs \ C
      BY <2>2, <2>3
    <3>. HIDE DEF t, C, s, Y, Z
    <3>2. CheckInputs(s.view, t, Height[b])
      BY <2>2
    <3>3. UpdateCoins(s, t, H[t]).view = Ledger(C \union {t}, H, Z) /\ Sound(C \union {t})
      BY <1>2, <2>2, <2>7, <3>1, <3>2, UpdateForm
    <3>. QED  BY <2>5, <2>6, <3>3 DEF V, Z
  <2>9. g[n].undo = Append(s.undo, SpentInputs(s.view, t).undo)
    BY <2>6 DEF UpdateCoins
  <2>10. SpentInputs(s.view, t).undo \in Seq(InUndos) /\ Fits(SpentInputs(s.view, t).undo, n)
    <3>. DEFINE B == SpentBy(C)
                u == SpentInputs(s.view, t).undo
    <3>1. s.view = CoinView(C, H, B, Y) /\ \A o \in Inputs(t) : Available(CoinView(C, H, B, Y), o)
      <4>. HIDE DEF t, C, s, Y
      <4>. QED  BY <2>2, CheckedInputs DEF Ledger
    <3>2. u \in Seq(InUndos) /\ Undoes(u, C, H, B, Y, t)
      <4>. HIDE DEF t, C, s, Y, B
      <4>1. SpentInputs(CoinView(C, H, B, Y), t).undo \in Seq(InUndos)
        BY <1>2, <2>2, <3>1, SpendForm
      <4>2. Undoes(SpentInputs(CoinView(C, H, B, Y), t).undo, C, H, B, Y, t)
        BY <1>2, <2>2, <3>1, SpendForm
      <4>. QED  BY <3>1, <4>1, <4>2
    <3>3. Undoes(u, C, H, B, {}, t)
      <4>. HIDE DEF t, C, s, Y, B, u
      <4>. QED  BY <2>2, <3>2, UndoesAny
    <3>. QED  BY <3>2, <3>3 DEF Fits
  <2>11. s.undo \in Seq(Seq(InUndos)) /\ Len(s.undo) = n - 1
    BY <2>1, <2>6 DEF BlockState
  <2>12. Len(g[n].undo) = n /\ \A i \in 1 .. n : Takes(b, i) /\ Fits(g[n].undo[i], i)
    <3>. DEFINE u == SpentInputs(s.view, t).undo
    <3>1. u \in Seq(InUndos) /\ Fits(u, n)
      BY <2>10
    <3>. HIDE DEF u
    <3>2. Len(g[n].undo) = n /\ g[n].undo[n] = u /\ \A i \in 1 .. n - 1 : g[n].undo[i] = s.undo[i]
      <4>. HIDE DEF s, t
      <4>. QED  BY <1>1, <2>9, <2>11, <3>1 DEF u
    <3>3. \A i \in 1 .. n : i = n \/ i \in 1 .. n - 1
      BY <1>1
    <3>. QED  BY <2>1, <2>3, <3>1, <3>2, <3>3
  <2>. QED  BY <2>1, <2>8, <2>12
<1>9. OK(N)
  <2>1. \A n \in 1 .. N : n - 1 \in T => n \in T
    BY <1>8
  <2>2. N \in T
    <3>. HIDE DEF T
    <3>. QED  BY <1>1, <1>7, <2>1, Ladder
  <2>. QED  BY <2>2
<1>10. g[N].view = Ledger(Confirmed(b), H, S \union (CoinStakes \intersect ToSet(Vtx[b])))
  BY <1>2, <1>3, <1>9 DEF V
<1>11. UndoFits(b, g[N].undo) /\ Connectable(b)
  BY <1>9 DEF UndoFits, Connectable, Fits, N, H
<1>. QED  BY <1>10, <1>11 DEF g, H, N

(* The longer chain is sound, and the coins it leaves are a ledger with    *)
(* the same heights as those of the shorter one.                           *)
LEMMA Connected ==
    ASSUME NEW b \in Blocks \ {Root}, Connectable(b)
    PROVE  /\ SoundChain(b) /\ ToSet(Vtx[b]) \intersect Confirmed(Parent[b]) = {}
           /\ \A U : /\ Unspent(b, U) = Ledger(Confirmed(b), HeightsOf(b), CoinStakes \ U)
                     /\ Unspent(Parent[b], U) = Ledger(Confirmed(Parent[b]), HeightsOf(b), CoinStakes \ U)
<1>. DEFINE p == Parent[b]
            N == Len(Vtx[b])
            H == HeightsOf(b)
<1>1. p \in Blocks /\ N \in Nat /\ N \in 0 .. N /\ ToSet(Vtx[b]) = {Vtx[b][n] : n \in 1 .. N}
  <2>1. p \in Blocks /\ N \in Nat /\ ToSet(Vtx[b]) = {Vtx[b][n] : n \in 1 .. N}
    BY BlockFacts
  <2>2. N \in 0 .. N
    <3>. HIDE DEF N
    <3>. QED  BY <2>1
  <2>. QED  BY <2>1, <2>2
<1>2. Sound(UpTo(b, N)) /\ \A n \in 1 .. N : Vtx[b][n] \in Txs \ UpTo(b, n - 1)
  BY <1>1, SoundUpTo DEF Connectable, Takes
<1>3. UpTo(b, N) = Confirmed(b) /\ Confirmed(b) = Confirmed(p) \union ToSet(Vtx[b]) /\ Confirmed(p) \subseteq Txs
  BY <1>1, UpToFacts, ConfirmedIs
<1>4. Path(b) = Path(p) \union {b}
  BY PathFacts
<1>5. ToSet(Vtx[b]) \intersect Confirmed(p) = {}
  BY <1>1, <1>2 DEF UpTo
<1>6. SoundChain(b)
  <2>1. Sound(Confirmed(b))
    BY <1>2, <1>3
  <2>2. ASSUME NEW c \in Path(b), NEW d \in Path(b), NEW t \in ToSet(Vtx[c]), t \in ToSet(Vtx[d]) PROVE c = d
    <3>1. \A a \in Path(p) : ToSet(Vtx[a]) \subseteq Confirmed(p)
      BY <1>1, ConfirmedIs
    <3>2. CASE c \in Path(p) /\ d \in Path(p)
      BY <2>2, <3>2 DEF Connectable, SoundChain
    <3>. QED  BY <1>4, <1>5, <2>2, <3>1, <3>2
  <2>. QED  BY <2>1, <2>2 DEF SoundChain
<1>7. \A t \in Confirmed(b) : H[t] = At(b, t)
  <2>. SUFFICES ASSUME NEW t \in Confirmed(b) PROVE H[t] = At(b, t)
    OBVIOUS
  <2>1. PICK c \in Path(b) : t \in ToSet(Vtx[c]) /\ At(b, t) = Height[c]
    BY ConfirmedIs
  <2>2. t \in Txs
    BY ConfirmedIs
  <2>3. CASE t \in Confirmed(p)
    <3>1. PICK d \in Path(p) : t \in ToSet(Vtx[d]) /\ At(p, t) = Height[d]
      BY <1>1, <2>3, ConfirmedIs
    <3>2. c = d
      BY <1>4, <1>6, <2>1, <3>1 DEF SoundChain
    <3>. QED  BY <2>1, <2>2, <2>3, <3>1, <3>2 DEF HeightsOf
  <2>4. CASE t \notin Confirmed(p)
    <3>1. t \in ToSet(Vtx[b]) /\ b \in Path(b)
      BY <1>3, <1>4, <2>4
    <3>2. c = b
      BY <1>6, <2>1, <3>1 DEF SoundChain
    <3>. QED  BY <2>1, <2>2, <2>4, <3>2 DEF HeightsOf
  <2>. QED  BY <2>3, <2>4
<1>8. \A t \in Confirmed(p) : H[t] = At(p, t)
  BY <1>3 DEF HeightsOf
<1>9. ASSUME NEW U PROVE /\ Unspent(b, U) = Ledger(Confirmed(b), H, CoinStakes \ U)
                         /\ Unspent(p, U) = Ledger(Confirmed(p), H, CoinStakes \ U)
  <2>. HIDE DEF H, p
  <2>. QED  BY <1>7, <1>8, UnspentIs
<1>. QED  BY <1>5, <1>6, <1>9

(* DisconnectTx takes the last step of ConnectBlock back.                  *)
LEMMA DisconnectOne ==
    ASSUME NEW b \in Blocks \ {Root}, Connectable(b), NEW k \in 1 .. Len(Vtx[b]), UndoFits(b, undo[b]),
           NEW S, \A y \in S : Rest(SpentBy(UpTo(b, k)), y) # {}
    PROVE  DisconnectTx(Ledger(UpTo(b, k), HeightsOf(b), S), b, k) = Ledger(UpTo(b, k - 1), HeightsOf(b), S)
<1>. DEFINE t == Vtx[b][k]
            C == UpTo(b, k - 1)
            H == HeightsOf(b)
            B == SpentBy(C)
            V == CoinView(C, H, B \union Inputs(t), S)
            W == Ledger(UpTo(b, k), H, S)
            u == undo[b][k]
<1>1. t \in Txs \ C /\ Parents(t) \subseteq C /\ Inputs(t) \intersect B = {}
  BY DEF Connectable, Takes
<1>2. H \in [Txs -> Nat \ {0}] /\ UpTo(b, k) = C \union {t}
  BY UpToFacts
<1>3. \A o \in Inputs(t) : o[1] \in C /\ o \notin B
  BY <1>1 DEF Parents
<1>4. SpentBy(C \union {t}) = B \union Inputs(t)
  BY DEF SpentBy
<1>5. Undoes(u, C, H, B, S, t)
  <2>1. Undoes(u, C, H, B, {}, t)
    BY DEF UndoFits
  <2>. HIDE DEF C, H, t, B, u
  <2>. QED  BY <1>1, <2>1, UndoesAny
<1>6. W = CoinView(C \union {t}, H, B \union Inputs(t), S)
  BY <1>2, <1>4 DEF Ledger
<1>7. V[t] = Pruned /\ \A x \in Txs \ {t} : W[x] = V[x]
  <2>. HIDE DEF C, H, t, B, W
  <2>. QED  BY <1>1, <1>6 DEF CoinView
<1>8. [W EXCEPT ![t] = Pruned] = V
  <2>1. DOMAIN W = Txs /\ V = [x \in Txs |-> V[x]]
    BY DEF Ledger, CoinView
  <2>. HIDE DEF V, W, t
  <2>. QED  BY <1>1, <1>7, <2>1
<1>9. RestoredInputs(V, t, u) = CoinView(C, H, B, S)
  <2>1. \A y \in S : Rest(B \union Inputs(t), y) # {}
    BY <1>2, <1>4
  <2>2. t \in Txs
    BY <1>1
  <2>3. H \in [Txs -> Nat \ {0}]
    BY <1>2
  <2>4. AllSpentLast(t, C, H, B, S, u)
    <3>. HIDE DEF C, H, t, B, u
    <3>. QED  BY <1>3, <1>5, <2>1, <2>2, <2>3 DEF AllSpentLast
  <2>. HIDE DEF C, H, t, B, u
  <2>. QED  BY <2>4, RestoreForm
<1>10. DisconnectTx(W, b, k) = Ledger(C, H, S)
  <2>. HIDE DEF V, W
  <2>. QED  BY <1>8, <1>9 DEF DisconnectTx, Ledger
<1>. QED  BY <1>10

(* DisconnectBlock gives the coins of the shorter chain back, flagged as   *)
(* the coins were that had not been pruned.                                *)
LEMMA DisconnectForm ==
    ASSUME NEW b \in Blocks \ {Root}, Connectable(b), UndoFits(b, undo[b]),
           NEW S, \A y \in S : Rest(SpentBy(Confirmed(b)), y) # {}
    PROVE  DisconnectBlock(Ledger(Confirmed(b), HeightsOf(b), S), b)[Len(Vtx[b])]
           = Ledger(Confirmed(Parent[b]), HeightsOf(b), S)
<1>. DEFINE N == Len(Vtx[b])
            V(n) == Ledger(UpTo(b, n), HeightsOf(b), S)
            Is(g) == g = [n \in 0 .. N |-> IF n = 0 THEN V(N) ELSE DisconnectTx(g[n - 1], b, N + 1 - n)]
            e == [n \in 0 .. N |-> V(N - n)]
            h == CHOOSE g : Is(g)
<1>1. N \in Nat /\ V(0) = Ledger(Confirmed(Parent[b]), HeightsOf(b), S) /\ V(N) = Ledger(Confirmed(b), HeightsOf(b), S)
  BY BlockFacts, UpToFacts
<1>2. ASSUME NEW k \in 1 .. N PROVE DisconnectTx(V(k), b, k) = V(k - 1)
  <2>1. UpTo(b, k) \subseteq Confirmed(b)
    <3>1. k \in 0 .. N
      BY <1>1
    <3>. QED  BY <3>1, UpToFacts
  <2>2. \A y : Rest(SpentBy(Confirmed(b)), y) \subseteq Rest(SpentBy(UpTo(b, k)), y)
    BY <2>1 DEF Rest, SpentBy
  <2>3. \A y \in S : Rest(SpentBy(UpTo(b, k)), y) # {}
    BY <2>2
  <2>. QED  BY <2>3, DisconnectOne
<1>3. DisconnectBlock(V(N), b) = h
  BY DEF DisconnectBlock
<1>. HIDE DEF V, N
<1>4. Is(e)
  <2>1. ASSUME NEW n \in 0 .. N
        PROVE  V(N - n) = IF n = 0 THEN V(N) ELSE DisconnectTx(e[n - 1], b, N + 1 - n)
    <3>1. CASE n = 0
      BY <1>1, <3>1
    <3>2. CASE n # 0
      <4>1. n - 1 \in 0 .. N /\ N + 1 - n \in 1 .. N /\ N - (n - 1) = N + 1 - n /\ (N + 1 - n) - 1 = N - n
        BY <1>1, <3>2
      <4>2. e[n - 1] = V(N + 1 - n)
        BY <4>1
      <4>3. V(N - n) = DisconnectTx(V(N + 1 - n), b, N + 1 - n)
        BY <1>2, <4>1
      <4>. QED  BY <3>2, <4>2, <4>3
    <3>. QED  BY <3>1, <3>2
  <2>. QED  BY <2>1
<1>5. Is(h)
  BY <1>4
<1>. HIDE DEF h
<1>. DEFINE T == {n \in 0 .. N : h[n] = V(N - n)}
<1>6. 0 \in T
  BY <1>1, <1>5
<1>7. ASSUME NEW n \in 1 .. N, n - 1 \in T PROVE n \in T
  <2>1. n \in 0 .. N /\ n # 0 /\ N + 1 - n \in 1 .. N /\ N - (n - 1) = N + 1 - n /\ (N + 1 - n) - 1 = N - n
    BY <1>1
  <2>2. h[n] = DisconnectTx(h[n - 1], b, N + 1 - n)
    BY <1>5, <2>1
  <2>3. h[n - 1] = V(N + 1 - n)
    BY <1>7, <2>1
  <2>4. h[n] = V((N + 1 - n) - 1)
    BY <1>2, <2>1, <2>2, <2>3
  <2>. QED  BY <2>1, <2>4
<1>8. N \in T
  <2>1. \A n \in 1 .. N : n - 1 \in T => n \in T
    BY <1>7
  <2>. HIDE DEF T
  <2>. QED  BY <1>1, <1>6, <2>1, Ladder
<1>9. h[N] = V(0)
  BY <1>1, <1>8
<1>. QED  BY <1>1, <1>3, <1>9 DEF N

-----------------------------------------------------------------------------
(* The chain and the coins.                                                *)

ChainInv ==
    /\ tip \in Blocks /\ CoinsMatchChain /\ DOMAIN undo = Blocks
    /\ \A b \in Path(tip) : SoundChain(b)
    /\ \A b \in Path(tip) \ {Root} : Connectable(b) /\ UndoFits(b, undo[b])

(* Every block of the active chain was connected to what its parent left.  *)
LEMMA TipConnectable ==
    ASSUME ChainInv, tip # Root
    PROVE  tip \in Blocks \ {Root} /\ Connectable(tip) /\ Parent[tip] \in Blocks /\ UndoFits(tip, undo[tip])
<1>1. tip \in Blocks /\ tip \in Path(tip) /\ Parent[tip] \in Blocks
  BY PathClosed, BlockFacts DEF ChainInv
<1>. QED  BY <1>1 DEF ChainInv

(* The first state.                                                        *)
LEMMA ChainInit == MempoolInit => ChainInv
<1>. SUFFICES ASSUME MempoolInit PROVE ChainInv
  OBVIOUS
<1>1. /\ tip = Root /\ Root \in Blocks /\ Path(tip) = {Root} /\ DOMAIN undo = Blocks
      /\ coins = Unspent(tip, {}) /\ unstaked = {}
  BY PathFacts, BlockAssumption DEF MempoolInit
<1>2. Confirmed(Root) = ToSet(Vtx[Root])
  BY <1>1 DEF Confirmed
<1>3. SoundChain(Root)
  BY <1>1, <1>2, BlockAssumption, BlockFacts DEF SoundChain, Sound
<1>. QED  BY <1>1, <1>3 DEF ChainInv, CoinsMatchChain

(* A block is connected.                                                   *)
LEMMA ChainConnect ==
    ASSUME ChainInv, NEW b \in Blocks \ {Root}, ConnectTip(b)
    PROVE  ChainInv' /\ Connectable(b) /\ Parent[b] = tip /\ unstaked' = unstaked \ ToSet(Vtx[b])
<1>. DEFINE c == ConnectBlock(coins, b)[Len(Vtx[b])]
            H == HeightsOf(b)
            S == CoinStakes \ unstaked
            Z == S \union (CoinStakes \intersect ToSet(Vtx[b]))
<1>1. /\ Parent[b] = tip /\ Connects(coins, b) /\ tip' = b /\ coins' = c.view
      /\ undo' = [undo EXCEPT ![b] = c.undo] /\ unstaked' = unstaked \ ToSet(Vtx[b])
  BY DEF ConnectTip
<1>2. tip \in Blocks /\ tip \in Path(tip) /\ SoundChain(tip) /\ DOMAIN undo = Blocks /\ coins = Unspent(tip, unstaked)
  BY PathClosed DEF ChainInv, CoinsMatchChain
<1>3. coins = Ledger(Confirmed(Parent[b]), H, S)
  <2>1. \A t \in Confirmed(tip) : H[t] = At(tip, t)
    BY <1>1, <1>2, ConfirmedIs DEF HeightsOf
  <2>. HIDE DEF H
  <2>. QED  BY <1>1, <1>2, <2>1, UnspentIs
<1>4. c.view = Ledger(Confirmed(b), H, Z) /\ UndoFits(b, c.undo) /\ Connectable(b)
  <2>1. S \in SUBSET CoinStakes
    OBVIOUS
  <2>. HIDE DEF S
  <2>. QED  BY <1>1, <1>2, <1>3, <2>1, ConnectForm
<1>5. Z = CoinStakes \ unstaked'
  BY <1>1
<1>. HIDE DEF c
<1>6. coins' = Unspent(b, unstaked') /\ SoundChain(b)
  <2>. DEFINE Y == unstaked'
  <2>1. Z = CoinStakes \ Y
    BY <1>5
  <2>. HIDE DEF Y, Z, H
  <2>2. Unspent(b, Y) = Ledger(Confirmed(b), H, CoinStakes \ Y) /\ SoundChain(b)
    BY <1>4, Connected DEF H
  <2>. QED  BY <1>1, <1>4, <2>1, <2>2 DEF Y
<1>7. Path(b) = Path(tip) \union {b}
  BY <1>1, PathFacts
<1>8. DOMAIN undo' = Blocks /\ undo'[b] = c.undo /\ \A d \in Blocks \ {b} : undo'[d] = undo[d]
  BY <1>1, <1>2
<1>9. ASSUME NEW d \in Path(b) \ {Root} PROVE Connectable(d) /\ UndoFits(d, undo'[d])
  <2>1. CASE d = b
    BY <1>4, <1>8, <2>1
  <2>2. CASE d # b
    <3>1. d \in Path(tip) \ {Root} /\ d \in Blocks
      BY <1>2, <1>7, <1>9, <2>2, PathClosed
    <3>. QED  BY <1>8, <2>2, <3>1 DEF ChainInv
  <2>. QED  BY <2>1, <2>2
<1>10. \A d \in Path(b) : SoundChain(d)
  BY <1>6, <1>7 DEF ChainInv
<1>. QED  BY <1>1, <1>4, <1>6, <1>8, <1>9, <1>10 DEF ChainInv, CoinsMatchChain

(* The tip is disconnected.                                                *)
LEMMA ChainDisconnect ==
    ASSUME ChainInv, DisconnectTip
    PROVE  ChainInv' /\ tip' = Parent[tip] /\ coins' = Unspent(Parent[tip], unstaked')
<1>. DEFINE b == tip
            p == Parent[tip]
            H == HeightsOf(tip)
            A == Confirmed(tip)
            C == Confirmed(p)
            S == CoinStakes \ unstaked
            Z == {x \in S : Rest(SpentBy(A), x) # {}}
            view == DisconnectBlock(coins, tip)[Len(Vtx[tip])]
<1>1. /\ tip # Root /\ tip' = p /\ undo' = undo /\ coins' = view
      /\ unstaked' = unstaked \union {t \in CoinStakes : coins[t].vout = {} /\ view[t].vout # {}}
  BY DEF DisconnectTip
<1>2. tip \in Blocks \ {Root} /\ Connectable(tip) /\ p \in Blocks /\ UndoFits(tip, undo[tip])
  BY <1>1, TipConnectable
<1>3. coins = Ledger(A, H, S) /\ \A U : Unspent(p, U) = Ledger(C, H, CoinStakes \ U)
  BY <1>2, Connected DEF ChainInv, CoinsMatchChain
<1>4. view = Ledger(C, H, Z)
  <2>1. Ledger(A, H, S) = Ledger(A, H, Z)
    <3>. HIDE DEF A, H, S
    <3>. QED  BY LedgerSame
  <2>2. DisconnectBlock(Ledger(A, H, Z), tip)[Len(Vtx[tip])] = Ledger(C, H, Z)
    <3>1. \A y \in Z : Rest(SpentBy(A), y) # {}
      OBVIOUS
    <3>. HIDE DEF Z
    <3>. QED  BY <1>2, <3>1, DisconnectForm
  <2>. QED  BY <1>3, <2>1, <2>2
<1>. HIDE DEF view, H
<1>5. C \subseteq A /\ A \subseteq Txs
  BY <1>2, UpToFacts, ConfirmedIs
<1>6. ASSUME NEW x \in C, Rest(SpentBy(C), x) # {} PROVE x \in Z <=> x \in CoinStakes \ unstaked'
  <2>1. x \in Txs /\ x \in A
    BY <1>5
  <2>2. view[x].vout # {}
    <3>1. view[x] = CoinOf(x, Rest(SpentBy(C), x), H[x], Z)
      <4>. HIDE DEF C, Z
      <4>. QED  BY <1>4, <1>6, <2>1 DEF Ledger, CoinView
    <3>. HIDE DEF Z, C
    <3>. QED  BY <1>6, <3>1 DEF CoinOf
  <2>3. coins[x].vout = {} <=> Rest(SpentBy(A), x) = {}
    <3>. HIDE DEF A, S
    <3>1. CASE Rest(SpentBy(A), x) # {}
      <4>1. coins[x] = CoinOf(x, Rest(SpentBy(A), x), H[x], S)
        BY <1>3, <2>1, <3>1 DEF Ledger, CoinView
      <4>. QED  BY <3>1, <4>1 DEF CoinOf
    <3>2. CASE Rest(SpentBy(A), x) = {}
      <4>1. coins[x] = Pruned
        BY <1>3, <2>1, <3>2 DEF Ledger, CoinView
      <4>. QED  BY <3>2, <4>1 DEF Pruned
    <3>. QED  BY <3>1, <3>2
  <2>. QED  BY <1>1, <2>2, <2>3
<1>7. coins' = Unspent(p, unstaked')
  <2>. DEFINE Y == CoinStakes \ unstaked'
  <2>1. Ledger(C, H, Z) = Ledger(C, H, Y)
    <3>1. \A x \in C : Rest(SpentBy(C), x) # {} => (x \in Z <=> x \in Y)
      BY <1>6
    <3>. HIDE DEF C, Z, Y
    <3>. QED  BY <3>1, LedgerSame
  <2>. QED  BY <1>1, <1>3, <1>4, <2>1
<1>8. Path(tip') \subseteq Path(tip)
  BY <1>1, <1>2, PathFacts
<1>. QED  BY <1>1, <1>2, <1>7, <1>8 DEF ChainInv, CoinsMatchChain

-----------------------------------------------------------------------------
(* The pool.                                                               *)

Pools == [txs : SUBSET Txs, next : [OutPoints -> Txs \union {Null}]]

(* mapNextTx has exactly the inputs of the pool.                           *)
NextOK(p) ==
    /\ p \in Pools /\ p.txs \subseteq Txs \ Generated
    /\ \A t \in p.txs : \A o \in Inputs(t) : p.next[o] = t
    /\ \A o \in OutPoints : p.next[o] # Null => p.next[o] \in p.txs /\ o \in Inputs(p.next[o])

(* What the pool does not hold itself is an unspent and mature coin.       *)
Funded(p, view, h) ==
    \A t \in p.txs : \A o \in Inputs(t) : o[1] \notin p.txs => Available(view, o) /\ Mature(view[o[1]], h)

(* Taking transactions out of the pool.                                    *)
LEMMA WithoutKeeps ==
    ASSUME NEW p, NextOK(p), NEW S
    PROVE  NextOK(Without(p, S)) /\ Without(p, S).txs = p.txs \ S
<1>. DEFINE gone == S \intersect p.txs
            q == Without(p, S)
<1>1. p.txs \in SUBSET Txs /\ p.next \in [OutPoints -> Txs \union {Null}]
  BY DEF NextOK, Pools
<1>2. /\ q.txs = p.txs \ S
      /\ q.next = [o \in OutPoints |-> IF \E t \in gone : o \in Inputs(t) THEN Null ELSE p.next[o]]
      /\ q = [txs |-> q.txs, next |-> q.next]
  BY DEF Without
<1>. HIDE DEF q
<1>3. q \in Pools
  BY <1>1, <1>2 DEF Pools
<1>4. ASSUME NEW t \in q.txs, NEW o \in Inputs(t) PROVE q.next[o] = t
  <2>1. t \in p.txs /\ t \in Txs /\ t \notin gone /\ o \in OutPoints
    BY <1>1, <1>2, ParentsAre
  <2>2. \A x \in p.txs : o \in Inputs(x) => x = t
    BY <2>1 DEF NextOK
  <2>3. q.next[o] = p.next[o]
    BY <1>2, <2>1, <2>2
  <2>. QED  BY <2>1, <2>3 DEF NextOK
<1>5. ASSUME NEW o \in OutPoints, q.next[o] # Null PROVE q.next[o] \in q.txs /\ o \in Inputs(q.next[o])
  BY <1>2, <1>5 DEF NextOK
<1>. QED  BY <1>2, <1>3, <1>4, <1>5 DEF NextOK, q

(* Adding one whose inputs nobody spends yet.                              *)
LEMMA AddKeeps ==
    ASSUME NEW p, NextOK(p), NEW t \in Txs \ Generated, t \notin p.txs, \A o \in Inputs(t) : p.next[o] = Null
    PROVE  NextOK(AddUnchecked(p, t)) /\ AddUnchecked(p, t).txs = p.txs \union {t}
<1>. DEFINE q == AddUnchecked(p, t)
<1>1. p.txs \in SUBSET Txs /\ p.next \in [OutPoints -> Txs \union {Null}] /\ Null \notin Txs
  BY TxAssumption DEF NextOK, Pools
<1>2. /\ q.txs = p.txs \union {t} /\ q.next = [o \in OutPoints |-> IF o \in Inputs(t) THEN t ELSE p.next[o]]
      /\ q = [txs |-> q.txs, next |-> q.next]
  BY DEF AddUnchecked
<1>. HIDE DEF q
<1>3. q \in Pools
  BY <1>1, <1>2 DEF Pools
<1>4. ASSUME NEW x \in q.txs, NEW o \in Inputs(x) PROVE q.next[o] = x
  <2>1. x \in Txs /\ o \in OutPoints
    BY <1>1, <1>2, ParentsAre
  <2>2. CASE x = t
    BY <1>2, <2>1, <2>2
  <2>3. CASE x \in p.txs
    BY <1>1, <1>2, <2>1, <2>3 DEF NextOK
  <2>. QED  BY <1>2, <2>2, <2>3
<1>5. ASSUME NEW o \in OutPoints, q.next[o] # Null PROVE q.next[o] \in q.txs /\ o \in Inputs(q.next[o])
  BY <1>2, <1>5 DEF NextOK
<1>. QED  BY <1>1, <1>2, <1>3, <1>4, <1>5 DEF NextOK, q

(* The descendants of S are closed under spending, and whoever is not in S *)
(* itself spends one of them.                                              *)
LEMMA DescendantsAre ==
    ASSUME NEW p, NextOK(p), NEW S
    PROVE  /\ S \subseteq Descendants(p, S) /\ Descendants(p, S) \subseteq S \union p.txs
           /\ \A X \in SUBSET (S \union p.txs) :
                 S \subseteq X /\ Children(p, X) \subseteq X => Descendants(p, S) \subseteq X
           /\ \A x \in p.txs \ Descendants(p, S) : \A o \in Inputs(x) : o[1] \notin Descendants(p, S)
           /\ \A x \in Descendants(p, S) \ S : \E o \in Inputs(x) : o[1] \in Descendants(p, S)
<1>. DEFINE D == Descendants(p, S)
<1>1. S \subseteq D /\ D \subseteq S \union p.txs
  BY DEF Descendants
<1>2. \A X \in SUBSET (S \union p.txs) : S \subseteq X /\ Children(p, X) \subseteq X => D \subseteq X
  BY DEF Descendants
<1>3. \A X, Y : X \subseteq Y => Children(p, X) \subseteq Children(p, Y)
  BY DEF Children
<1>4. \A X : Children(p, X) \subseteq p.txs
  BY DEF Children, NextOK
<1>5. Children(p, D) \subseteq D
  <2>. SUFFICES ASSUME NEW c \in Children(p, D), NEW X \in SUBSET (S \union p.txs), S \subseteq X, Children(p, X) \subseteq X
                PROVE  c \in X
    BY <1>4 DEF Descendants
  <2>1. D \subseteq X
    BY <1>2
  <2>. HIDE DEF D
  <2>. QED  BY <1>3, <2>1
<1>6. ASSUME NEW x \in p.txs, NEW o \in Inputs(x), o[1] \in D PROVE x \in D
  <2>1. x \in Txs /\ o \in OutPoints /\ p.next[o] = x /\ x # Null
    BY ParentsAre, TxAssumption DEF NextOK, Pools
  <2>2. x \in Children(p, D)
    BY <1>6, <2>1 DEF Children
  <2>. QED  BY <1>5, <2>2
<1>7. ASSUME NEW x \in D \ S, \A o \in Inputs(x) : o[1] \notin D PROVE FALSE
  <2>. DEFINE X == D \ {x}
  <2>1. X \in SUBSET (S \union p.txs) /\ S \subseteq X
    BY <1>1, <1>7
  <2>2. ASSUME NEW c \in Children(p, X) PROVE c \in X
    <3>1. PICK o \in OutPoints : o[1] \in X /\ c = p.next[o] /\ c # Null
      BY DEF Children
    <3>2. o \in Inputs(c)
      BY <3>1 DEF NextOK
    <3>3. c \in Children(p, D)
      BY <3>1 DEF Children
    <3>. QED  BY <1>5, <1>7, <3>1, <3>2, <3>3
  <2>3. D \subseteq X
    BY <1>2, <2>1, <2>2
  <2>. QED  BY <2>3
<1>. QED  BY <1>1, <1>2, <1>6, <1>7

Ripe(x, H, Z, k) == x \in CoinBases \union Z => k - H[x] >= Maturity

(* The maturity of a coin that is there.                                   *)
LEMMA MatureIs ==
    ASSUME NEW C, NEW H, NEW B, NEW Z, NEW o \in OutPoints, Available(CoinView(C, H, B, Z), o), NEW k
    PROVE  Mature(CoinView(C, H, B, Z)[o[1]], k) <=> Ripe(o[1], H, Z, k)
<1>. DEFINE x == o[1]
<1>1. o = <<x, o[2]>> /\ x \in Txs /\ o[2] \in Vout[x] /\ x \in C /\ o \notin B
  BY TxFacts, AvailableIs
<1>2. CoinView(C, H, B, Z)[x] = CoinOf(x, Rest(B, x), H[x], Z)
  BY <1>1 DEF CoinView, Rest
<1>. HIDE DEF x
<1>3. Mature(CoinOf(x, Rest(B, x), H[x], Z), k) <=> Ripe(x, H, Z, k)
  BY DEF Mature, CoinOf, Ripe
<1>. QED  BY <1>2, <1>3 DEF x

Covered(p, C, H, Z, k) ==
    \A t \in p.txs : \A o \in Inputs(t) :
        o[1] \notin p.txs => o[1] \in C /\ o \notin SpentBy(C) /\ Ripe(o[1], H, Z, k)

(* Funded, of a ledger.                                                    *)
LEMMA FundedIs ==
    ASSUME NEW p, NextOK(p), NEW C, NEW H, NEW Z, NEW k
    PROVE  Funded(p, Ledger(C, H, Z), k) <=> Covered(p, C, H, Z, k)
<1>1. ASSUME NEW t \in p.txs, NEW o \in Inputs(t)
      PROVE  (Available(Ledger(C, H, Z), o) /\ Mature(Ledger(C, H, Z)[o[1]], k))
             <=> (o[1] \in C /\ o \notin SpentBy(C) /\ Ripe(o[1], H, Z, k))
  <2>1. o \in OutPoints
    BY ParentsAre DEF NextOK, Pools
  <2>. DEFINE B == SpentBy(C)
  <2>. HIDE DEF B
  <2>2. Available(CoinView(C, H, B, Z), o) <=> o[1] \in C /\ o \notin B
    BY <2>1, AvailableIs
  <2>3. Available(CoinView(C, H, B, Z), o) => (Mature(CoinView(C, H, B, Z)[o[1]], k) <=> Ripe(o[1], H, Z, k))
    BY <2>1, MatureIs
  <2>. QED  BY <2>2, <2>3 DEF Ledger, B
<1>. QED  BY <1>1 DEF Funded, Covered

(* What a chain C and a pool P that lost x say for it: one of its inputs   *)
(* is spent by the chain, or is of a transaction that neither holds.       *)
SpentOrGone(x, C, P) == \E o \in Inputs(x) : o[1] \notin C \union P \/ \E y \in C : o \in Inputs(y)

(* A transaction of a new block leaves the pool and takes what conflicts   *)
(* with it along.                                                          *)
LEMMA RemoveStep ==
    ASSUME NEW b \in Blocks \ {Root}, Connectable(b), NEW n \in 1 .. Len(Vtx[b]),
           NEW Z \in SUBSET CoinStakes, NEW k, NEW q, NextOK(q),
           Covered(q, UpTo(b, n - 1), HeightsOf(b), Z, k), q.txs \intersect UpTo(b, n - 1) = {}
    PROVE  LET r == RemoveConflicts(Removed(q, Vtx[b][n], FALSE), Vtx[b][n])
           IN  /\ NextOK(r) /\ r.txs \subseteq q.txs /\ r.txs \intersect UpTo(b, n) = {}
               /\ Covered(r, UpTo(b, n), HeightsOf(b), Z, k)
               /\ \A x \in q.txs \ r.txs : x \in Confirmed(b) \/ SpentOrGone(x, Confirmed(b), r.txs)
<1>. DEFINE t == Vtx[b][n]
            C == UpTo(b, n - 1)
            H == HeightsOf(b)
            A == Confirmed(b)
            p == Removed(q, t, FALSE)
            S == {p.next[o] : o \in Inputs(t)} \ {Null, t}
            D == Descendants(p, S)
            r == RemoveConflicts(p, t)
            N == Len(Vtx[b])
<1>1. N \in Nat /\ n - 1 \in 0 .. N /\ n \in 0 .. N /\ N \in 0 .. N
  BY BlockFacts
<1>2. t \in Txs \ C /\ Sound(C) /\ Sound(UpTo(b, N))
  BY <1>1, SoundUpTo DEF Connectable, Takes
<1>3. UpTo(b, n) = C \union {t} /\ UpTo(b, n) \subseteq A /\ UpTo(b, N) = A
  BY <1>1, UpToFacts
<1>4. Parents(t) \subseteq C
  BY DEF Connectable, Takes
<1>5. NextOK(p) /\ p.txs = q.txs \ {t}
  BY WithoutKeeps DEF Removed
<1>. HIDE DEF p
<1>6. /\ S \subseteq D /\ D \subseteq S \union p.txs
      /\ \A X \in SUBSET (S \union p.txs) : S \subseteq X /\ Children(p, X) \subseteq X => D \subseteq X
      /\ \A x \in p.txs \ D : \A o \in Inputs(x) : o[1] \notin D
      /\ \A x \in D \ S : \E o \in Inputs(x) : o[1] \in D
  <2>. HIDE DEF S
  <2>. QED  BY <1>5, DescendantsAre
<1>7. ASSUME NEW x \in S PROVE x \in p.txs /\ x # t /\ \E o \in Inputs(x) : o \in Inputs(t)
  <2>1. PICK o \in Inputs(t) : x = p.next[o] /\ x # Null /\ x # t
    OBVIOUS
  <2>2. o \in OutPoints
    BY <1>2, ParentsAre
  <2>. QED  BY <1>5, <2>1, <2>2 DEF NextOK
<1>8. NextOK(r) /\ r.txs = p.txs \ D
  BY <1>5, WithoutKeeps DEF RemoveConflicts
<1>. HIDE DEF r, D
<1>9. r.txs \intersect UpTo(b, n) = {}
  BY <1>3, <1>5, <1>8
<1>10. Covered(r, UpTo(b, n), H, Z, k)
  <2>. SUFFICES ASSUME NEW x \in r.txs, NEW o \in Inputs(x), o[1] \notin r.txs
                PROVE  o[1] \in C \union {t} /\ o \notin SpentBy(C \union {t}) /\ Ripe(o[1], H, Z, k)
    BY <1>3 DEF Covered
  <2>1. x \in q.txs /\ x # t /\ x \in p.txs \ D /\ x \in Txs /\ o \in OutPoints
    BY <1>5, <1>8, ParentsAre DEF NextOK, Pools
  <2>2. CASE o[1] = t
    <3>1. o[1] \in q.txs
      BY <1>2, <2>1, <2>2 DEF Covered
    <3>2. Ripe(o[1], H, Z, k)
      BY <3>1 DEF Ripe, NextOK, Generated
    <3>3. \A y \in C \union {t} : t \notin Parents(y)
      BY <1>2, <1>4 DEF Sound
    <3>4. \A y \in C \union {t} : o \notin Inputs(y)
      BY <2>2, <3>3 DEF Parents
    <3>. QED  BY <2>2, <3>2, <3>4 DEF SpentBy
  <2>3. CASE o[1] # t
    <3>1. o[1] \notin p.txs
      BY <1>6, <1>8, <2>1
    <3>2. o[1] \notin q.txs
      BY <1>5, <2>3, <3>1
    <3>3. o[1] \in C /\ o \notin SpentBy(C) /\ Ripe(o[1], H, Z, k)
      BY <2>1, <3>2 DEF Covered
    <3>4. o \notin Inputs(t)
      <4>. SUFFICES ASSUME o \in Inputs(t) PROVE FALSE
        OBVIOUS
      <4>1. p.next[o] = x /\ x # Null
        BY <1>5, <2>1, TxAssumption DEF NextOK
      <4>2. x \in S
        BY <2>1, <4>1
      <4>. QED  BY <1>6, <2>1, <4>2
    <3>. QED  BY <3>3, <3>4 DEF SpentBy
  <2>. QED  BY <2>2, <2>3
<1>11. D \intersect A = {}
  <2>. DEFINE X == D \ A
  <2>1. X \in SUBSET (S \union p.txs)
    BY <1>6
  <2>2. ASSUME NEW x \in S PROVE x \in X
    <3>1. x \notin A
      BY <1>2, <1>3, <1>7 DEF Sound
    <3>. QED  BY <1>6, <3>1
  <2>3. ASSUME NEW c \in Children(p, X) PROVE c \in X
    <3>1. PICK o \in OutPoints : o[1] \in X /\ c = p.next[o] /\ c # Null
      BY DEF Children
    <3>2. c \in p.txs /\ o \in Inputs(c)
      BY <1>5, <3>1 DEF NextOK
    <3>3. c \in D
      BY <1>6, <3>1, <3>2
    <3>4. c \notin A
      <4>1. o[1] \in Parents(c)
        BY <3>2 DEF Parents
      <4>. QED  BY <1>2, <1>3, <3>1, <4>1 DEF Sound
    <3>. QED  BY <3>3, <3>4
  <2>4. D \subseteq X
    BY <1>6, <2>1, <2>2, <2>3
  <2>. QED  BY <2>4
<1>12. ASSUME NEW x \in q.txs \ r.txs PROVE x \in A \/ SpentOrGone(x, A, r.txs)
  <2>1. CASE x = t
    BY <1>3, <2>1
  <2>2. CASE x \in S
    <3>1. t \in A
      BY <1>3
    <3>. QED  BY <1>7, <2>2, <3>1 DEF SpentOrGone
  <2>3. CASE x # t /\ x \notin S
    <3>1. x \in D \ S
      BY <1>5, <1>8, <1>12, <2>3
    <3>2. PICK o \in Inputs(x) : o[1] \in D
      BY <1>6, <3>1
    <3>3. o[1] \notin A \union r.txs
      BY <1>8, <1>11, <3>2
    <3>. QED  BY <3>3 DEF SpentOrGone
  <2>. QED  BY <2>1, <2>2, <2>3
<1>13. r.txs \subseteq q.txs
  BY <1>5, <1>8
<1>. QED  BY <1>8, <1>9, <1>10, <1>12, <1>13 DEF r, p

(* removeForBlock.                                                         *)
LEMMA BlockRemoved ==
    ASSUME NEW b \in Blocks \ {Root}, Connectable(b), NEW Z \in SUBSET CoinStakes, NEW k, NEW p, NextOK(p),
           Covered(p, Confirmed(Parent[b]), HeightsOf(b), Z, k), p.txs \intersect Confirmed(Parent[b]) = {}
    PROVE  LET r == RemoveForBlock(p, Vtx[b])
           IN  /\ NextOK(r) /\ r.txs \intersect Confirmed(b) = {} /\ Covered(r, Confirmed(b), HeightsOf(b), Z, k)
               /\ \A x \in p.txs \ r.txs : x \in Confirmed(b) \/ SpentOrGone(x, Confirmed(b), r.txs)
<1>. DEFINE N == Len(Vtx[b])
            H == HeightsOf(b)
            A == Confirmed(b)
            F(q, n) == RemoveConflicts(Removed(q, Vtx[b][n], FALSE), Vtx[b][n])
            OK(r, n) == /\ NextOK(r) /\ r.txs \subseteq p.txs /\ r.txs \intersect UpTo(b, n) = {}
                        /\ Covered(r, UpTo(b, n), H, Z, k)
                        /\ \A x \in p.txs \ r.txs : x \in A \/ SpentOrGone(x, A, r.txs)
            I == [n \in 0 .. N |-> {r \in Pools : OK(r, n)}]
            f == [y \in (1 .. N) \X Pools |-> F(y[2], y[1])]
            Is(g) == g = [n \in 0 .. N |-> IF n = 0 THEN p ELSE F(g[n - 1], n)]
<1>1. N \in Nat /\ UpTo(b, 0) = Confirmed(Parent[b]) /\ UpTo(b, N) = A
  BY BlockFacts, UpToFacts
<1>2. p \in I[0]
  <2>1. OK(p, 0) /\ p \in Pools /\ 0 \in 0 .. N
    BY <1>1 DEF NextOK
  <2>. HIDE DEF OK
  <2>. QED  BY <2>1
<1>3. ASSUME NEW n \in 1 .. N, NEW q \in I[n - 1] PROVE F(q, n) \in I[n] /\ f[<<n, q>>] = F(q, n)
  <2>. DEFINE r == F(q, n)
  <2>1. n - 1 \in 0 .. N /\ n \in 0 .. N
    BY <1>1
  <2>2. q \in Pools /\ OK(q, n - 1)
    BY <2>1
  <2>3. /\ NextOK(r) /\ r.txs \subseteq q.txs /\ r.txs \intersect UpTo(b, n) = {} /\ Covered(r, UpTo(b, n), H, Z, k)
        /\ \A x \in q.txs \ r.txs : x \in A \/ SpentOrGone(x, A, r.txs)
    BY <2>2, RemoveStep
  <2>4. f[<<n, q>>] = r
    BY <2>2
  <2>. HIDE DEF r
  <2>5. OK(r, n)
    <3>1. \A x : SpentOrGone(x, A, q.txs) => SpentOrGone(x, A, r.txs)
      BY <2>3 DEF SpentOrGone
    <3>. QED  BY <2>2, <2>3, <3>1
  <2>6. r \in Pools
    BY <2>3 DEF NextOK
  <2>. QED  BY <2>1, <2>4, <2>5, <2>6 DEF r
<1>. HIDE DEF f, I, N, F
<1>4. PICK g : Recurs(g, N, f, p) /\ Within(g, N, I)
  <2>1. Leads(N, I, f)
    BY <1>3 DEF Leads
  <2>. QED  BY <1>1, <1>2, <2>1, Recursion
<1>5. Is(g)
  <2>1. ASSUME NEW n \in 0 .. N PROVE (IF n = 0 THEN p ELSE f[<<n, g[n - 1]>>]) = IF n = 0 THEN p ELSE F(g[n - 1], n)
    BY <1>1, <1>3, <1>4 DEF Within
  <2>. QED  BY <1>4, <2>1 DEF Recurs
<1>. DEFINE h == CHOOSE h : Is(h)
<1>6. RemoveForBlock(p, Vtx[b]) = h[N]
  BY DEF RemoveForBlock, N, F
<1>7. Is(h)
  BY <1>5
<1>. HIDE DEF h
<1>8. h[0] = p /\ \A n \in 1 .. N : h[n] = F(h[n - 1], n)
  BY <1>1, <1>7
<1>9. Within(h, N, I)
  BY <1>1, <1>2, <1>3, <1>8, StaysWithin
<1>10. OK(h[N], N)
  BY <1>1, <1>9 DEF Within, I
<1>. QED  BY <1>1, <1>6, <1>10

(* What is left of the chain and the pool when a block is disconnected,    *)
(* and n of its transactions have been tried.                              *)
Later(b, n) == {Vtx[b][i] : i \in n + 1 .. Len(Vtx[b])}

(* Why a transaction is not there although it was tried.                   *)
Refused(t) == t \in Generated \/ (t \in Fickle /\ policy[t] # "accept")
Excused(x, C, P, V, k) == Refused(x) \/ \E o \in Inputs(x) : o[1] \notin C \union P \/ ~Mature(V[o[1]], k)

(* The pool p became q, while V are the coins.                             *)
Reviving(b, p, q, V, n) ==
    LET C == Confirmed(Parent[b])
    IN  /\ NextOK(q) /\ q.txs \intersect (C \union Later(b, n)) = {} /\ q.txs \subseteq p.txs \union Tried(b, n)
        /\ \A x \in q.txs : \A o \in Inputs(x) :
              o[1] \notin q.txs => (o[1] \in C /\ o \notin SpentBy(C)) \/ o[1] \in Later(b, n)
        /\ \A x \in (p.txs \union Tried(b, n)) \ q.txs : Excused(x, C \union Later(b, n), q.txs, V, Height[b])

(* The transactions of a block, one by one.                                *)
LEMMA LaterFacts ==
    ASSUME NEW b \in Blocks \ {Root}, Connectable(b)
    PROVE  /\ Later(b, 0) = ToSet(Vtx[b]) /\ Later(b, Len(Vtx[b])) = {} /\ Tried(b, 0) = {}
           /\ Tried(b, Len(Vtx[b])) = ToSet(Vtx[b])
           /\ \A n \in 1 .. Len(Vtx[b]) :
                 /\ Later(b, n - 1) = Later(b, n) \union {Vtx[b][n]} /\ Vtx[b][n] \notin Later(b, n)
                 /\ Tried(b, n) = Tried(b, n - 1) \union {Vtx[b][n]} /\ Tried(b, n) \intersect Later(b, n) = {}
                 /\ UpTo(b, n) = Confirmed(Parent[b]) \union Tried(b, n)
                 /\ UpTo(b, n - 1) = Confirmed(Parent[b]) \union Tried(b, n - 1)
<1>. DEFINE N == Len(Vtx[b])
<1>1. N \in Nat /\ ToSet(Vtx[b]) = {Vtx[b][n] : n \in 1 .. N}
  BY BlockFacts
<1>2. Later(b, 0) = ToSet(Vtx[b]) /\ Later(b, N) = {} /\ Tried(b, 0) = {} /\ Tried(b, N) = ToSet(Vtx[b])
  <2>1. 0 + 1 .. N = 1 .. N /\ N + 1 .. N = {} /\ 1 .. 0 = {}
    BY <1>1
  <2>. QED  BY <1>1, <2>1 DEF Later, Tried
<1>3. \A n \in 1 .. N : Vtx[b][n] \notin UpTo(b, n - 1)
  BY DEF Connectable, Takes
<1>4. ASSUME NEW i \in 1 .. N, NEW j \in 1 .. N, i < j PROVE Vtx[b][i] # Vtx[b][j]
  <2>1. i \in 1 .. j - 1
    BY <1>4
  <2>. QED  BY <1>3, <2>1 DEF UpTo, Tried
<1>5. ASSUME NEW n \in 1 .. N
      PROVE  /\ Later(b, n - 1) = Later(b, n) \union {Vtx[b][n]} /\ Vtx[b][n] \notin Later(b, n)
             /\ Tried(b, n) = Tried(b, n - 1) \union {Vtx[b][n]} /\ Tried(b, n) \intersect Later(b, n) = {}
  <2>1. (n - 1) + 1 .. N = (n + 1 .. N) \union {n} /\ 1 .. n = (1 .. n - 1) \union {n}
    BY <1>1
  <2>2. \A i \in 1 .. n, j \in n + 1 .. N : i \in 1 .. N /\ j \in 1 .. N /\ i < j
    BY <1>1
  <2>. QED  BY <1>4, <2>1, <2>2 DEF Later, Tried
<1>. QED  BY <1>2, <1>5 DEF UpTo

PolicyType == policy \in [Fickle -> {"accept", "early", "late"}]

(* The pool's view.                                                        *)
LEMMA PoolViewIs ==
    ASSUME NEW p, NEW view, NEW x \in Txs
    PROVE  PoolView(p, view)[x] = IF x \in p.txs THEN FromTx(x, 0) ELSE view[x]
BY DEF PoolView

(* What the pool holds counts as mature.                                   *)
LEMMA PoolMature ==
    ASSUME NEW x, x \notin Generated, NEW k
    PROVE  Mature(FromTx(x, 0), k)
<1>1. x \notin CoinBases /\ x \notin CoinStakes
  BY DEF Generated
<1>2. CASE Vout[x] = {}
  BY <1>2 DEF FromTx, Pruned, Mature
<1>3. CASE Vout[x] # {}
  <2>1. FromTx(x, 0).base = (x \in CoinBases) /\ FromTx(x, 0).stake = (x \in CoinStakes)
    BY <1>3 DEF FromTx
  <2>. QED  BY <1>1, <2>1 DEF Mature
<1>. QED  BY <1>2, <1>3

(* A pool that fits to the chain with b, and the coins without b.          *)
Revivable(b, p) ==
    /\ NextOK(p) /\ p.txs \intersect Confirmed(b) = {}
    /\ \A t \in p.txs : \A o \in Inputs(t) : o[1] \notin p.txs => o[1] \in Confirmed(b) /\ o \notin SpentBy(Confirmed(b))
CoinsBefore(b, V) == \E S : V = Ledger(Confirmed(Parent[b]), HeightsOf(b), S)

(* Why AcceptToMemoryPool refuses a transaction that the block had.        *)
LEMMA RefusedBecause ==
    ASSUME NEW b \in Blocks \ {Root}, Connectable(b), NEW n \in 1 .. Len(Vtx[b]), PolicyType,
           NEW p, Revivable(b, p), NEW V, CoinsBefore(b, V),
           NEW q, Reviving(b, p, q, V, n - 1),
           ~Acceptable(q, V, Vtx[b][n], Height[b] - 1)
    PROVE  Excused(Vtx[b][n], Confirmed(Parent[b]) \union Later(b, n), q.txs \ {Vtx[b][n]}, V, Height[b])
<1>. DEFINE t == Vtx[b][n]
            C == Confirmed(Parent[b])
            H == HeightsOf(b)
            N == Len(Vtx[b])
            P == PoolView(q, V)
<1>1. N \in Nat /\ n - 1 \in 0 .. N /\ n \in 1 .. N /\ N \in 0 .. N /\ Height[b] \in Nat
  BY BlockFacts
<1>2. /\ t \in Txs \ UpTo(b, n - 1) /\ t \notin Invalid /\ Sound(UpTo(b, N))
      /\ \A o \in Inputs(t) : o[1] \in UpTo(b, n - 1) /\ o \notin SpentBy(UpTo(b, n - 1))
  BY <1>1, SoundUpTo DEF Connectable, Takes, Parents
<1>0. PICK S : V = Ledger(C, H, S)
  BY DEF CoinsBefore
<1>3. /\ UpTo(b, n - 1) = C \union Tried(b, n - 1) /\ UpTo(b, N) = Confirmed(b)
      /\ Confirmed(b) = C \union ToSet(Vtx[b]) /\ t \in ToSet(Vtx[b])
      /\ Later(b, n - 1) = Later(b, n) \union {t} /\ Tried(b, n) = Tried(b, n - 1) \union {t}
      /\ Tried(b, n) \intersect Later(b, n) = {} /\ Tried(b, n - 1) \subseteq ToSet(Vtx[b])
  <2>1. 1 .. n - 1 \subseteq 1 .. N
    BY <1>1
  <2>2. Tried(b, n - 1) \subseteq ToSet(Vtx[b]) /\ t \in ToSet(Vtx[b])
    <3>1. ToSet(Vtx[b]) = {Vtx[b][i] : i \in 1 .. N}
      BY BlockFacts
    <3>. QED  BY <2>1, <3>1 DEF Tried
  <2>. QED  BY <1>1, <2>2, UpToFacts, LaterFacts
<1>4. /\ NextOK(q) /\ q.txs \intersect (C \union Later(b, n - 1)) = {}
      /\ q.txs \subseteq p.txs \union Tried(b, n - 1)
  BY DEF Reviving
<1>5. t \notin q.txs /\ t \notin C
  BY <1>2, <1>3, <1>4
<1>. HIDE DEF t, C, H, N
<1>6. \A o \in Inputs(t) : q.next[o] = Null
  <2>. SUFFICES ASSUME NEW o \in Inputs(t), q.next[o] # Null PROVE FALSE
    OBVIOUS
  <2>. DEFINE y == q.next[o]
  <2>1. o \in OutPoints /\ o[1] \in Parents(t)
    BY <1>2, ParentsAre
  <2>2. y \in q.txs /\ o \in Inputs(y)
    BY <1>4, <2>1 DEF NextOK
  <2>3. t \in Confirmed(b) /\ o[1] \in Confirmed(b) /\ o \in SpentBy(Confirmed(b))
    BY <1>2, <1>3, <2>1 DEF Sound, SpentBy
  <2>. HIDE DEF y
  <2>4. CASE y \in p.txs
    BY <2>2, <2>3, <2>4 DEF Revivable
  <2>5. CASE y \in Tried(b, n - 1)
    <3>1. y \in Confirmed(b) /\ y # t
      BY <1>3, <1>5, <2>2, <2>5
    <3>. QED  BY <1>2, <1>3, <2>2, <2>3, <3>1 DEF Sound
  <2>. QED  BY <1>4, <2>2, <2>4, <2>5
<1>7. P[t].vout = {}
  <2>1. P[t] = V[t]
    BY <1>2, <1>5, PoolViewIs
  <2>2. V[t] = Pruned
    BY <1>0, <1>2, <1>5 DEF Ledger, CoinView
  <2>. QED  BY <2>1, <2>2 DEF Pruned
<1>. SUFFICES ASSUME ~Refused(t)
              PROVE  \E o \in Inputs(t) : o[1] \notin (C \union Later(b, n)) \union (q.txs \ {t}) \/ ~Mature(V[o[1]], Height[b])
  BY DEF Excused, t, C
<1>8. t \notin Generated /\ (t \in Fickle => policy[t] = "accept")
  BY DEF Refused
<1>9. ~Spendable(P, t, (Height[b] - 1) + 1)
  <2>1. ~Unwelcome(q, V, t)
    BY <1>5, <1>6, <1>7, <1>8 DEF Unwelcome
  <2>. QED  BY <1>2, <1>8, <2>1 DEF Acceptable, Welcome, t
<1>10. PICK o \in Inputs(t) : ~(Available(P, o) /\ Mature(P[o[1]], Height[b]))
  BY <1>1, <1>9 DEF Spendable
<1>11. o \in OutPoints /\ o[1] \in Txs /\ o[2] \in Vout[o[1]]
  BY <1>2, ParentsAre, TxFacts
<1>12. o[1] \notin q.txs
  <2>. SUFFICES ASSUME o[1] \in q.txs PROVE FALSE
    OBVIOUS
  <2>1. P[o[1]] = FromTx(o[1], 0) /\ o[1] \notin Generated
    BY <1>4, <1>11, PoolViewIs DEF NextOK
  <2>2. Available(P, o)
    BY <1>11, <2>1 DEF Available, FromTx
  <2>3. Mature(P[o[1]], Height[b])
    BY <2>1, PoolMature
  <2>. QED  BY <1>10, <2>2, <2>3
<1>. HIDE DEF P
<1>13. P[o[1]] = V[o[1]]
  BY <1>11, <1>12, PoolViewIs DEF P
<1>14. CASE o[1] \in C
  <2>. DEFINE B == SpentBy(C)
  <2>1. o \notin B
    BY <1>2, <1>3 DEF SpentBy
  <2>2. V = CoinView(C, H, B, S)
    BY <1>0 DEF Ledger
  <2>. HIDE DEF B
  <2>3. Available(V, o)
    BY <1>11, <1>14, <2>1, <2>2, AvailableIs
  <2>. QED  BY <1>10, <1>13, <2>3 DEF Available
<1>15. CASE o[1] \notin C
  <2>1. o[1] \in Tried(b, n - 1)
    BY <1>2, <1>3, <1>15
  <2>. QED  BY <1>3, <1>12, <1>15, <2>1
<1>. QED  BY <1>14, <1>15

(* One transaction is tried.                                               *)
LEMMA ReviveStep ==
    ASSUME NEW b \in Blocks \ {Root}, Connectable(b), NEW n \in 1 .. Len(Vtx[b]), PolicyType,
           NEW p, Revivable(b, p), NEW V, CoinsBefore(b, V), NEW q, Reviving(b, p, q, V, n - 1)
    PROVE  Reviving(b, p, Resurrect(q, V, Vtx[b][n], Height[b] - 1), V, n)
<1>. DEFINE t == Vtx[b][n]
            C == Confirmed(Parent[b])
            k == Height[b]
            L == Later(b, n)
            M == Tried(b, n - 1)
            A == p.txs \union M
<1>1. /\ Later(b, n - 1) = L \union {t} /\ t \notin L /\ Tried(b, n) = M \union {t} /\ (M \union {t}) \intersect L = {}
      /\ UpTo(b, n - 1) = C \union M
  BY LaterFacts
<1>2. t \in Txs /\ t \notin C
  BY <1>1 DEF Connectable, Takes
<1>0. PICK S : V = Ledger(C, HeightsOf(b), S)
  BY DEF CoinsBefore
<1>3. /\ NextOK(q) /\ q.txs \intersect (C \union (L \union {t})) = {} /\ q.txs \subseteq A
      /\ \A x \in q.txs : \A o \in Inputs(x) :
            o[1] \notin q.txs => (o[1] \in C /\ o \notin SpentBy(C)) \/ o[1] \in L \union {t}
      /\ \A x \in A \ q.txs : Excused(x, C \union (L \union {t}), q.txs, V, k)
  BY <1>1 DEF Reviving
<1>4. ~Acceptable(q, V, t, Height[b] - 1) => Excused(t, C \union L, q.txs \ {t}, V, k)
  BY RefusedBecause
<1>. DEFINE r == Resurrect(q, V, t, Height[b] - 1)
<1>5. CASE Acceptable(q, V, t, Height[b] - 1)
  <2>1. /\ t \notin Generated /\ t \notin q.txs /\ \A o \in Inputs(t) : q.next[o] = Null
        /\ Spendable(PoolView(q, V), t, (Height[b] - 1) + 1)
    BY <1>5 DEF Acceptable, Welcome, Unwelcome
  <2>2. r = AddUnchecked(q, t)
    BY <1>5 DEF Resurrect
  <2>. HIDE DEF t, C, L, M, r, k
  <2>3. NextOK(r) /\ r.txs = q.txs \union {t}
    BY <1>2, <1>3, <2>1, <2>2, AddKeeps
  <2>4. ASSUME NEW o \in Inputs(t), o[1] \notin q.txs PROVE o[1] \in C /\ o \notin SpentBy(C)
    <3>1. o \in OutPoints /\ o[1] \in Txs
      BY <1>2, ParentsAre
    <3>2. Available(PoolView(q, V), o)
      BY <2>1 DEF Spendable
    <3>3. Available(V, o)
      BY <2>4, <3>1, <3>2, PoolViewIs DEF Available
    <3>. DEFINE B == SpentBy(C)
                H == HeightsOf(b)
    <3>4. V = CoinView(C, H, B, S)
      BY <1>0 DEF Ledger
    <3>. HIDE DEF B, H
    <3>5. o[1] \in C /\ o \notin B
      BY <3>1, <3>3, <3>4, AvailableIs
    <3>. QED  BY <3>5 DEF B
  <2>5. r.txs \intersect (C \union L) = {} /\ r.txs \subseteq A \union {t}
    BY <1>1, <1>2, <1>3, <2>3
  <2>6. ASSUME NEW x \in r.txs, NEW o \in Inputs(x), o[1] \notin r.txs
        PROVE  (o[1] \in C /\ o \notin SpentBy(C)) \/ o[1] \in L
    BY <1>3, <2>3, <2>4, <2>6
  <2>7. ASSUME NEW x \in (A \union {t}) \ r.txs PROVE Excused(x, C \union L, r.txs, V, k)
    BY <1>3, <2>3, <2>7 DEF Excused
  <2>. QED  BY <1>1, <2>3, <2>5, <2>6, <2>7 DEF Reviving, r, t, C, L, M, k
<1>6. CASE ~Acceptable(q, V, t, Height[b] - 1)
  <2>. DEFINE D == Descendants(q, {t})
  <2>1. r = Without(q, D)
    BY <1>6 DEF Resurrect, Removed
  <2>2. Excused(t, C \union L, q.txs \ {t}, V, k)
    BY <1>4, <1>6
  <2>. HIDE DEF t, C, L, M, r, k
  <2>3. /\ t \in D /\ D \subseteq {t} \union q.txs
        /\ \A x \in q.txs \ D : \A o \in Inputs(x) : o[1] \notin D
        /\ \A x \in D \ {t} : \E o \in Inputs(x) : o[1] \in D
    BY <1>3, DescendantsAre
  <2>. HIDE DEF D
  <2>4. NextOK(r) /\ r.txs = q.txs \ D
    BY <1>3, <2>1, WithoutKeeps
  <2>5. r.txs \intersect (C \union L) = {} /\ r.txs \subseteq A \union {t}
    BY <1>3, <2>4
  <2>6. ASSUME NEW x \in r.txs, NEW o \in Inputs(x), o[1] \notin r.txs
        PROVE  (o[1] \in C /\ o \notin SpentBy(C)) \/ o[1] \in L
    <3>1. x \in q.txs \ D /\ o[1] \notin D /\ o[1] # t
      BY <2>3, <2>4
    <3>. QED  BY <1>3, <2>4, <2>6, <3>1
  <2>7. ASSUME NEW x \in (A \union {t}) \ r.txs PROVE Excused(x, C \union L, r.txs, V, k)
    <3>1. CASE x = t
      BY <2>2, <2>3, <2>4, <3>1 DEF Excused
    <3>2. CASE x \in q.txs /\ x # t
      <4>1. PICK o \in Inputs(x) : o[1] \in D
        BY <2>3, <2>4, <2>7, <3>2
      <4>2. o[1] \notin (C \union L) \union r.txs
        BY <1>1, <1>2, <1>3, <2>3, <2>4, <4>1
      <4>. QED  BY <4>2 DEF Excused
    <3>3. CASE x \notin q.txs /\ x # t
      BY <1>3, <2>4, <2>7, <3>3 DEF Excused
    <3>. QED  BY <3>1, <3>2, <3>3
  <2>. QED  BY <1>1, <2>4, <2>5, <2>6, <2>7 DEF Reviving, r, t, C, L, M, k
<1>. QED  BY <1>5, <1>6

(* All of them are.                                                        *)
LEMMA RevivedForm ==
    ASSUME NEW b \in Blocks \ {Root}, Connectable(b), PolicyType,
           NEW p, Revivable(b, p), NEW V, CoinsBefore(b, V)
    PROVE  Reviving(b, p, Resurrected(p, V, b), V, Len(Vtx[b]))
<1>. DEFINE N == Len(Vtx[b])
            F(q, n) == Resurrect(q, V, Vtx[b][n], Height[b] - 1)
            I == [n \in 0 .. N |-> {q \in Pools : Reviving(b, p, q, V, n)}]
            f == [y \in (1 .. N) \X Pools |-> F(y[2], y[1])]
            Is(g) == g = [n \in 0 .. N |-> IF n = 0 THEN p ELSE F(g[n - 1], n)]
<1>1. N \in Nat /\ UpTo(b, 0) = Confirmed(Parent[b]) /\ UpTo(b, N) = Confirmed(b)
  BY BlockFacts, UpToFacts
<1>2. p \in I[0]
  <2>1. Later(b, 0) = ToSet(Vtx[b]) /\ Tried(b, 0) = {} /\ Confirmed(b) = Confirmed(Parent[b]) \union ToSet(Vtx[b])
    BY LaterFacts, UpToFacts
  <2>2. ASSUME NEW x \in p.txs, NEW o \in Inputs(x), o[1] \notin p.txs
        PROVE  (o[1] \in Confirmed(Parent[b]) /\ o \notin SpentBy(Confirmed(Parent[b]))) \/ o[1] \in Later(b, 0)
    <3>1. o[1] \in Confirmed(b) /\ o \notin SpentBy(Confirmed(b))
      BY <2>2 DEF Revivable
    <3>. QED  BY <2>1, <3>1 DEF SpentBy
  <2>3. Reviving(b, p, p, V, 0)
    BY <2>1, <2>2 DEF Reviving, Revivable
  <2>4. p \in Pools /\ 0 \in 0 .. N
    BY <1>1 DEF NextOK, Revivable
  <2>. QED  BY <2>3, <2>4
<1>3. ASSUME NEW n \in 1 .. N, NEW q \in I[n - 1] PROVE F(q, n) \in I[n] /\ f[<<n, q>>] = F(q, n)
  <2>1. n - 1 \in 0 .. N /\ n \in 0 .. N
    BY <1>1
  <2>2. q \in Pools /\ Reviving(b, p, q, V, n - 1)
    BY <2>1
  <2>3. Reviving(b, p, F(q, n), V, n)
    BY <2>2, ReviveStep
  <2>4. F(q, n) \in Pools
    BY <2>3 DEF Reviving, NextOK
  <2>. HIDE DEF F
  <2>. QED  BY <2>1, <2>2, <2>3, <2>4
<1>. HIDE DEF f, I, N, F
<1>4. PICK g : Recurs(g, N, f, p) /\ Within(g, N, I)
  <2>1. Leads(N, I, f)
    BY <1>3 DEF Leads
  <2>. QED  BY <1>1, <1>2, <2>1, Recursion
<1>5. Is(g)
  <2>1. ASSUME NEW n \in 0 .. N PROVE (IF n = 0 THEN p ELSE f[<<n, g[n - 1]>>]) = IF n = 0 THEN p ELSE F(g[n - 1], n)
    BY <1>1, <1>3, <1>4 DEF Within
  <2>. QED  BY <1>4, <2>1 DEF Recurs
<1>. DEFINE h == CHOOSE h : Is(h)
<1>6. Resurrected(p, V, b) = h[N]
  BY DEF Resurrected, N, F
<1>7. Is(h)
  BY <1>5
<1>. HIDE DEF h
<1>8. h[0] = p /\ \A n \in 1 .. N : h[n] = F(h[n - 1], n)
  BY <1>1, <1>7
<1>9. Within(h, N, I)
  BY <1>1, <1>2, <1>3, <1>8, StaysWithin
<1>10. Reviving(b, p, h[N], V, N)
  BY <1>1, <1>9 DEF Within, I
<1>. QED  BY <1>6, <1>10 DEF N

(* The pool after a block was disconnected.                                *)
LEMMA BlockRevived ==
    ASSUME NEW b \in Blocks \ {Root}, Connectable(b), PolicyType,
           NEW p, Revivable(b, p), NEW V, CoinsBefore(b, V)
    PROVE  LET C == Confirmed(Parent[b])
               r == RemoveCoinbaseSpends(Resurrected(p, V, b), V, Height[b])
           IN  /\ NextOK(r) /\ r.txs \intersect C = {} /\ Funded(r, V, Height[b])
               /\ \A x \in (p.txs \union ToSet(Vtx[b])) \ r.txs : Excused(x, C, r.txs, V, Height[b])
<1>. DEFINE C == Confirmed(Parent[b])
            H == HeightsOf(b)
            q == Resurrected(p, V, b)
            S == {t \in q.txs : \E o \in Inputs(t) :
                     o[1] \notin q.txs /\ (V[o[1]].vout = {} \/ ~Mature(V[o[1]], Height[b]))}
            D == Descendants(q, S)
            r == RemoveCoinbaseSpends(q, V, Height[b])
<1>0. PICK Z : V = Ledger(C, H, Z)
  BY DEF CoinsBefore
<1>1. Later(b, Len(Vtx[b])) = {} /\ Tried(b, Len(Vtx[b])) = ToSet(Vtx[b])
  BY LaterFacts
<1>2. Reviving(b, p, q, V, Len(Vtx[b]))
  BY RevivedForm
<1>. HIDE DEF q
<1>3. /\ NextOK(q) /\ q.txs \intersect C = {}
      /\ \A x \in q.txs : \A o \in Inputs(x) : o[1] \notin q.txs => o[1] \in C /\ o \notin SpentBy(C)
      /\ \A x \in (p.txs \union ToSet(Vtx[b])) \ q.txs : Excused(x, C, q.txs, V, Height[b])
  BY <1>1, <1>2 DEF Reviving
<1>4. r = Without(q, D)
  BY DEF RemoveCoinbaseSpends
<1>. HIDE DEF C, H
<1>5. ASSUME NEW x \in q.txs, NEW o \in Inputs(x), o[1] \notin q.txs PROVE Available(V, o)
  <2>1. o \in OutPoints
    BY <1>3, ParentsAre DEF NextOK, Pools
  <2>. DEFINE B == SpentBy(C)
  <2>2. o[1] \in C /\ o \notin B /\ V = CoinView(C, H, B, Z)
    BY <1>0, <1>3, <1>5 DEF Ledger
  <2>. HIDE DEF B
  <2>. QED  BY <2>1, <2>2, AvailableIs
<1>6. /\ S \subseteq D /\ D \subseteq S \union q.txs
      /\ \A x \in q.txs \ D : \A o \in Inputs(x) : o[1] \notin D
      /\ \A x \in D \ S : \E o \in Inputs(x) : o[1] \in D
  <2>. HIDE DEF S
  <2>. QED  BY <1>3, DescendantsAre
<1>7. NextOK(r) /\ r.txs = q.txs \ D
  BY <1>3, <1>4, WithoutKeeps
<1>. HIDE DEF D, r
<1>8. Funded(r, V, Height[b])
  <2>. SUFFICES ASSUME NEW x \in r.txs, NEW o \in Inputs(x), o[1] \notin r.txs
                PROVE  Available(V, o) /\ Mature(V[o[1]], Height[b])
    BY DEF Funded
  <2>1. x \in q.txs \ D /\ x \notin S /\ o[1] \notin q.txs
    BY <1>6, <1>7
  <2>. QED  BY <1>5, <2>1
<1>9. ASSUME NEW x \in (p.txs \union ToSet(Vtx[b])) \ r.txs
      PROVE  Excused(x, C, r.txs, V, Height[b])
  <2>1. CASE x \notin q.txs
    BY <1>3, <1>7, <1>9, <2>1 DEF Excused
  <2>2. CASE x \in S
    <3>1. PICK o \in Inputs(x) : o[1] \notin q.txs /\ (V[o[1]].vout = {} \/ ~Mature(V[o[1]], Height[b]))
      BY <2>2
    <3>2. V[o[1]].vout # {}
      BY <1>5, <2>2, <3>1 DEF Available
    <3>. QED  BY <3>1, <3>2 DEF Excused
  <2>3. CASE x \in q.txs /\ x \notin S
    <3>1. PICK o \in Inputs(x) : o[1] \in D
      BY <1>6, <1>7, <1>9, <2>3
    <3>2. o[1] \notin C \union r.txs
      BY <1>3, <1>6, <1>7, <3>1
    <3>. QED  BY <3>2 DEF Excused
  <2>. QED  BY <2>1, <2>2, <2>3
<1>10. r.txs \intersect C = {}
  BY <1>3, <1>7
<1>. QED  BY <1>7, <1>8, <1>9, <1>10 DEF r, q, C

-----------------------------------------------------------------------------
(* Transactions that are accepted while the chain stands still.            *)

GoodPool(p) == NextOK(p) /\ Funded(p, coins, Height[tip] + 1) /\ p.txs \intersect Confirmed(tip) = {}

(* AcceptToMemoryPool.                                                     *)
LEMMA AcceptKeeps ==
    ASSUME ChainInv, NEW p, GoodPool(p), NEW t \in Txs, Acceptable(p, coins, t, Height[tip])
    PROVE  GoodPool(AddUnchecked(p, t)) /\ AddUnchecked(p, t).txs = p.txs \union {t}
<1>. DEFINE q == AddUnchecked(p, t)
            k == Height[tip] + 1
            C == Confirmed(tip)
            H == [x \in Txs |-> At(tip, x)]
            P == PoolView(p, coins)
<1>1. /\ t \notin Generated /\ t \notin p.txs /\ \A o \in Inputs(t) : p.next[o] = Null
      /\ Spendable(P, t, k)
  BY DEF Acceptable, Welcome, Unwelcome
<1>2. NextOK(p) /\ Funded(p, coins, k) /\ p.txs \intersect C = {}
  BY DEF GoodPool
<1>. HIDE DEF P, q
<1>3. NextOK(q) /\ q.txs = p.txs \union {t}
  BY <1>1, <1>2, AddKeeps DEF q
<1>4. ASSUME NEW o \in Inputs(t), o[1] \notin p.txs PROVE Available(coins, o) /\ Mature(coins[o[1]], k)
  <2>1. o[1] \in Txs
    BY ParentsAre
  <2>2. P[o[1]] = coins[o[1]]
    BY <1>4, <2>1, PoolViewIs DEF P
  <2>. QED  BY <1>1, <2>2 DEF Spendable, Available
<1>5. Funded(q, coins, k)
  BY <1>2, <1>3, <1>4 DEF Funded
<1>6. t \notin C
  <2>. SUFFICES ASSUME t \in C PROVE FALSE
    OBVIOUS
  <2>1. tip \in Blocks /\ Sound(C) /\ coins = Unspent(tip, unstaked) /\ C \subseteq Txs
    BY PathClosed, ConfirmedIs DEF ChainInv, CoinsMatchChain, SoundChain
  <2>2. PICK o \in Inputs(t) : TRUE
    BY <1>1, TxAssumption DEF Generated
  <2>3. o \in OutPoints /\ o[1] \in Parents(t)
    BY ParentsAre
  <2>4. Available(coins, o)
    BY <1>2, <1>4, <2>1, <2>3 DEF Sound
  <2>. DEFINE Z == CoinStakes \ unstaked
  <2>5. coins = Ledger(C, H, Z)
    <3>1. \A x \in C : H[x] = At(tip, x)
      BY <2>1
    <3>. HIDE DEF H
    <3>. QED  BY <2>1, <3>1, UnspentIs
  <2>. HIDE DEF H, C, Z
  <2>6. o \notin SpentBy(C)
    BY <2>3, <2>4, <2>5, AvailableIs DEF Ledger
  <2>. QED  BY <2>6 DEF SpentBy
<1>. QED  BY <1>2, <1>3, <1>5, <1>6 DEF GoodPool, q

(* The state of the "tx" handler's work queue.                             *)
Work == [pool : Pools, queue : Seq(Txs), erase : SUBSET Txs, bad : SUBSET {orphans[x] : x \in Txs}]
GoodWork == {w \in Work : GoodPool(w.pool) /\ pool.txs \subseteq w.pool.txs}

(* An orphan is tried.                                                     *)
LEMMA TryOrphanKeeps ==
    ASSUME ChainInv, NEW w \in GoodWork, NEW t \in Txs
    PROVE  TryOrphan(w, t) \in GoodWork
<1>. DEFINE accepted == Acceptable(w.pool, coins, t, Height[tip])
            v == TryOrphan(w, t)
<1>1. /\ w.pool \in Pools /\ w.queue \in Seq(Txs) /\ w.erase \in SUBSET Txs /\ w.bad \in SUBSET {orphans[x] : x \in Txs}
      /\ GoodPool(w.pool) /\ pool.txs \subseteq w.pool.txs
  BY DEF GoodWork, Work
<1>2. CASE orphans[t] \in w.bad
  BY <1>2 DEF TryOrphan
<1>3. CASE orphans[t] \notin w.bad
  <2>1. PICK q, u, e, d :
           /\ v = [pool |-> q, queue |-> u, erase |-> e, bad |-> d]
           /\ q = IF accepted THEN AddUnchecked(w.pool, t) ELSE w.pool
           /\ u \in {w.queue, Append(w.queue, t)} /\ e \in {w.erase, w.erase \union {t}}
           /\ d \in {w.bad, w.bad \union {orphans[t]}}
    BY <1>3 DEF TryOrphan
  <2>2. GoodPool(q) /\ pool.txs \subseteq q.txs
    <3>1. CASE accepted
      <4>1. GoodPool(AddUnchecked(w.pool, t)) /\ AddUnchecked(w.pool, t).txs = w.pool.txs \union {t}
        BY <1>1, <3>1, AcceptKeeps
      <4>. QED  BY <1>1, <2>1, <3>1, <4>1
    <3>2. CASE ~accepted
      BY <1>1, <2>1, <3>2
    <3>. QED  BY <3>1, <3>2
  <2>3. q \in Pools /\ u \in Seq(Txs) /\ e \in SUBSET Txs /\ d \in SUBSET {orphans[x] : x \in Txs}
    BY <1>1, <2>1, <2>2 DEF GoodPool, NextOK
  <2>. HIDE DEF v
  <2>4. v \in Work /\ v.pool = q
    BY <2>1, <2>3 DEF Work
  <2>5. v \in GoodWork
    BY <2>2, <2>4 DEF GoodWork
  <2>. QED  BY <2>5 DEF v
<1>. QED  BY <1>2, <1>3

TryState == [work : GoodWork, left : SUBSET Txs]

(* The next orphan is tried.                                               *)
LEMMA TryNextKeeps ==
    ASSUME ChainInv, NEW s \in TryState
    PROVE  TryNext(s) \in TryState
<1>. DEFINE t == CHOOSE x \in s.left : \A y \in s.left : HashOrder[x] <= HashOrder[y]
<1>1. s.work \in GoodWork /\ s.left \in SUBSET Txs
  BY DEF TryState
<1>2. CASE s.left = {}
  BY <1>2 DEF TryNext
<1>3. CASE s.left # {}
  <2>1. IsFiniteSet(s.left) /\ \A a \in s.left : HashOrder[a] \in Int
    BY <1>1, TxAssumption, FS_Subset
  <2>. DEFINE S == s.left
  <2>2. \E x \in S : \A y \in S : HashOrder[x] <= HashOrder[y]
    <3>1. IsFiniteSet(S) /\ S # {} /\ \A a \in S : HashOrder[a] \in Int
      BY <1>3, <2>1
    <3>. HIDE DEF S
    <3>. QED  BY <3>1, Least
  <2>3. t \in Txs
    BY <1>1, <2>2
  <2>4. TryNext(s) = [work |-> TryOrphan(s.work, t), left |-> s.left \ {t}]
    BY <1>3 DEF TryNext
  <2>. HIDE DEF t
  <2>5. TryOrphan(s.work, t) \in GoodWork
    BY <1>1, <2>3, TryOrphanKeeps
  <2>. QED  BY <1>1, <2>4, <2>5 DEF TryState
<1>. QED  BY <1>2, <1>3

(* The orphans that wait for p are tried.                                  *)
LEMMA TryOrphansKeeps ==
    ASSUME ChainInv, OrphanType, NEW w \in GoodWork, NEW p \in Txs
    PROVE  TryOrphansOf(w, p) \in GoodWork
<1>. DEFINE N == Cardinality(byPrev[p])
            x == [work |-> w, left |-> byPrev[p]]
            I == [n \in 0 .. N |-> TryState]
            f == [y \in (1 .. N) \X TryState |-> TryNext(y[2])]
            Is(g) == g = [n \in 0 .. N |-> IF n = 0 THEN x ELSE TryNext(g[n - 1])]
<1>1. N \in Nat /\ byPrev[p] \in SUBSET Txs
  BY TxAssumption, FS_Subset, FS_CardinalityType DEF OrphanType
<1>2. x \in I[0]
  <2>1. x \in TryState /\ 0 \in 0 .. N
    BY <1>1 DEF TryState
  <2>. HIDE DEF x
  <2>. QED  BY <2>1
<1>3. ASSUME NEW n \in 1 .. N, NEW s \in I[n - 1] PROVE TryNext(s) \in I[n] /\ f[<<n, s>>] = TryNext(s)
  <2>1. s \in TryState /\ n \in 0 .. N
    BY <1>1
  <2>2. TryNext(s) \in TryState
    BY <2>1, TryNextKeeps
  <2>. QED  BY <2>1, <2>2
<1>. HIDE DEF f, x, I, N
<1>4. PICK g : Recurs(g, N, f, x) /\ Within(g, N, I)
  <2>1. Leads(N, I, f)
    BY <1>3 DEF Leads
  <2>. QED  BY <1>1, <1>2, <2>1, Recursion
<1>5. Is(g)
  <2>1. ASSUME NEW n \in 0 .. N PROVE (IF n = 0 THEN x ELSE f[<<n, g[n - 1]>>]) = IF n = 0 THEN x ELSE TryNext(g[n - 1])
    BY <1>1, <1>3, <1>4 DEF Within
  <2>. QED  BY <1>4, <2>1 DEF Recurs
<1>. DEFINE h == CHOOSE h : Is(h)
<1>6. TryOrphansOf(w, p) = h[N].work
  BY DEF TryOrphansOf, N, x
<1>7. Is(h)
  BY <1>5
<1>. HIDE DEF h
<1>8. h[0] = x /\ \A n \in 1 .. N : h[n] = TryNext(h[n - 1])
  BY <1>1, <1>7
<1>9. Within(h, N, I)
  BY <1>1, <1>2, <1>3, <1>8, StaysWithin
<1>. QED  BY <1>1, <1>6, <1>9 DEF Within, I, TryState

(* The queue is worked through.                                            *)
LEMMA ProcessKeeps ==
    ASSUME ChainInv, OrphanType, GoodPool(pool), NEW t \in Txs, Acceptable(pool, coins, t, Height[tip])
    PROVE  ProcessOrphans(t) \in GoodWork
<1>. DEFINE N == Cardinality(Txs)
            q == AddUnchecked(pool, t)
            x == [pool |-> q, queue |-> <<t>>, erase |-> {}, bad |-> {}]
            I == [n \in 0 .. N |-> GoodWork]
            f == [y \in (1 .. N) \X GoodWork |-> TryQueued(y[2], y[1])]
            Is(g) == g = [n \in 0 .. N |-> IF n = 0 THEN x ELSE TryQueued(g[n - 1], n)]
<1>1. N \in Nat
  BY TxAssumption, FS_CardinalityType
<1>2. x \in I[0]
  <2>1. GoodPool(q) /\ q.txs = pool.txs \union {t}
    BY AcceptKeeps
  <2>. HIDE DEF q
  <2>2. q \in Pools /\ <<t>> \in Seq(Txs) /\ {} \in SUBSET Txs
    BY <2>1 DEF GoodPool, NextOK
  <2>3. x.pool = q /\ x \in Work
    BY <2>2 DEF Work
  <2>. HIDE DEF x
  <2>4. x \in GoodWork /\ 0 \in 0 .. N
    BY <1>1, <2>1, <2>3 DEF GoodWork
  <2>. QED  BY <2>4
<1>3. ASSUME NEW n \in 1 .. N, NEW w \in I[n - 1] PROVE TryQueued(w, n) \in I[n] /\ f[<<n, w>>] = TryQueued(w, n)
  <2>1. w \in GoodWork /\ n \in 0 .. N
    BY <1>1
  <2>2. w.queue \in Seq(Txs) /\ Len(w.queue) \in Nat
    BY <2>1 DEF GoodWork, Work
  <2>3. TryQueued(w, n) \in GoodWork
    <3>1. CASE n > Len(w.queue)
      BY <2>1, <3>1 DEF TryQueued
    <3>2. CASE ~(n > Len(w.queue))
      <4>1. w.queue[n] \in Txs
        BY <1>1, <2>2, <3>2
      <4>. QED  BY <2>1, <3>2, <4>1, TryOrphansKeeps DEF TryQueued
    <3>. QED  BY <3>1, <3>2
  <2>. QED  BY <2>1, <2>3
<1>. HIDE DEF f, x, I, N
<1>4. PICK g : Recurs(g, N, f, x) /\ Within(g, N, I)
  <2>1. Leads(N, I, f)
    BY <1>3 DEF Leads
  <2>. QED  BY <1>1, <1>2, <2>1, Recursion
<1>5. Is(g)
  <2>1. ASSUME NEW n \in 0 .. N PROVE (IF n = 0 THEN x ELSE f[<<n, g[n - 1]>>]) = IF n = 0 THEN x ELSE TryQueued(g[n - 1], n)
    BY <1>1, <1>3, <1>4 DEF Within
  <2>. QED  BY <1>4, <2>1 DEF Recurs
<1>. DEFINE h == CHOOSE h : Is(h)
<1>6. ProcessOrphans(t) = h[N]
  BY DEF ProcessOrphans, N, x
<1>7. Is(h)
  BY <1>5
<1>. HIDE DEF h
<1>8. h[0] = x /\ \A n \in 1 .. N : h[n] = TryQueued(h[n - 1], n)
  BY <1>1, <1>7
<1>9. Within(h, N, I)
  BY <1>1, <1>2, <1>3, <1>8, StaysWithin
<1>. QED  BY <1>1, <1>6, <1>9 DEF Within, I

-----------------------------------------------------------------------------
(* The inductive invariant.                                                *)

MempoolInv == ChainInv /\ PolicyType /\ OrphanInv /\ GoodPool(pool)

(* The lost transactions of a step, as NoTxLost wants them.                *)
Lost == Known \ Known'
Explained(t) ==
    \/ t \in Generated
    \/ t \in Fickle /\ policy[t] # "accept"
    \/ \E o \in Inputs(t) :
          \/ o[1] \notin Known'
          \/ \E x \in Confirmed(tip') : o \in Inputs(x)
          \/ ~Mature(coins'[o[1]], Height[tip'] + 1)

(* The first state.                                                        *)
LEMMA MempoolInitInv == MempoolInit => MempoolInv
<1>. SUFFICES ASSUME MempoolInit PROVE MempoolInv
  OBVIOUS
<1>1. ChainInv
  BY ChainInit
<1>2. PolicyType
  BY DEF MempoolInit, PolicyType
<1>3. OrphanInv
  <2>1. orphans = [t \in Txs |-> Null] /\ byPrev = [t \in Txs |-> {}]
    BY DEF MempoolInit
  <2>2. {t \in Txs : orphans[t] # Null} = {}
    BY <2>1
  <2>3. Cardinality({}) = 0 /\ MaxOrphans \in Nat
    BY FS_EmptySet, TxAssumption
  <2>. QED  BY <2>1, <2>2, <2>3 DEF OrphanInv, OrphanType, OrphansIndexed
<1>4. GoodPool(pool)
  BY DEF MempoolInit, GoodPool, NextOK, Pools, Funded
<1>. QED  BY <1>1, <1>2, <1>3, <1>4 DEF MempoolInv

(* Nothing but the pool, the orphans and the policy changes.               *)
LEMMA ChainStays ==
    ASSUME ChainInv, UNCHANGED <<tip, coins, undo, unstaked>>
    PROVE  ChainInv'
BY DEF ChainInv, CoinsMatchChain

(* A transaction is accepted.                                              *)
LEMMA SubmitStep ==
    ASSUME MempoolInv, NEW t \in Txs, SubmitTx(t)
    PROVE  MempoolInv' /\ Lost = {}
<1>1. /\ Acceptable(pool, coins, t, Height[tip]) /\ pool' = AddUnchecked(pool, t)
      /\ tip' = tip /\ coins' = coins /\ undo' = undo /\ orphans' = orphans /\ byPrev' = byPrev /\ policy' = policy
      /\ unstaked' = unstaked
  BY DEF SubmitTx
<1>2. ChainInv /\ PolicyType /\ OrphanInv /\ GoodPool(pool)
  BY DEF MempoolInv
<1>3. GoodPool(AddUnchecked(pool, t)) /\ AddUnchecked(pool, t).txs = pool.txs \union {t}
  BY <1>1, <1>2, AcceptKeeps
<1>4. ChainInv' /\ PolicyType' /\ OrphanInv'
  BY <1>1, <1>2, ChainStays DEF PolicyType, OrphanInv, OrphanType, OrphansIndexed
<1>5. GoodPool(pool)'
  BY <1>1, <1>3 DEF GoodPool
<1>6. Lost = {}
  BY <1>1, <1>3 DEF Lost, Known
<1>. QED  BY <1>4, <1>5, <1>6 DEF MempoolInv

(* A "tx" message.                                                         *)
LEMMA ReceiveStep ==
    ASSUME MempoolInv, NEW t \in Txs, NEW peer \in Peers, ReceiveTx(peer, t)
    PROVE  MempoolInv' /\ Lost = {}
<1>1. tip' = tip /\ coins' = coins /\ undo' = undo /\ policy' = policy /\ unstaked' = unstaked
  BY DEF ReceiveTx
<1>2. ChainInv /\ PolicyType /\ OrphanInv /\ OrphanType /\ GoodPool(pool)
  BY DEF MempoolInv, OrphanInv
<1>3. ChainInv' /\ PolicyType'
  BY <1>1, <1>2, ChainStays DEF PolicyType
<1>4. CASE /\ Acceptable(pool, coins, t, Height[tip]) /\ pool' = ProcessOrphans(t).pool
           /\ EraseOrphans(orphans, byPrev, ProcessOrphans(t).erase)
  <2>1. PICK w \in GoodWork : w = ProcessOrphans(t)
    BY <1>2, <1>4, ProcessKeeps
  <2>2. GoodPool(w.pool) /\ pool.txs \subseteq w.pool.txs /\ pool' = w.pool
    BY <1>4, <2>1 DEF GoodWork
  <2>3. OrphanInv'
    BY <1>2, <1>4, EraseStep
  <2>4. GoodPool(pool)'
    BY <1>1, <2>2 DEF GoodPool
  <2>5. Lost = {}
    BY <1>1, <2>2 DEF Lost, Known
  <2>. QED  BY <1>3, <2>3, <2>4, <2>5 DEF MempoolInv
<1>5. CASE AddOrphan(t, peer) /\ pool' = pool
  <2>1. OrphanInv'
    BY <1>2, <1>5, AddOrphanStep
  <2>2. GoodPool(pool)' /\ Lost = {}
    BY <1>1, <1>2, <1>5 DEF GoodPool, Lost, Known
  <2>. QED  BY <1>3, <2>1, <2>2 DEF MempoolInv
<1>. QED  BY <1>4, <1>5 DEF ReceiveTx

(* A peer is finalized, or the policy changes.                             *)
LEMMA OtherMempoolSteps ==
    ASSUME MempoolInv,
           \/ \E peer \in Peers : EraseOrphansFor(peer)
           \/ \E t \in Fickle : ChangePolicy(t)
    PROVE  MempoolInv' /\ Lost = {}
<1>1. tip' = tip /\ coins' = coins /\ undo' = undo /\ pool' = pool /\ unstaked' = unstaked
  BY DEF EraseOrphansFor, ChangePolicy
<1>2. ChainInv /\ PolicyType /\ OrphanInv /\ GoodPool(pool)
  BY DEF MempoolInv
<1>3. ChainInv' /\ GoodPool(pool)' /\ Lost = {}
  BY <1>1, <1>2, ChainStays DEF GoodPool, Lost, Known
<1>4. ASSUME NEW peer \in Peers, EraseOrphansFor(peer) PROVE OrphanInv' /\ PolicyType'
  <2>1. policy' = policy /\ EraseOrphans(orphans, byPrev, {t \in Txs : orphans[t] = peer})
    BY <1>4 DEF EraseOrphansFor
  <2>. QED  BY <1>2, <2>1, EraseStep DEF PolicyType
<1>5. ASSUME NEW t \in Fickle, ChangePolicy(t) PROVE OrphanInv' /\ PolicyType'
  BY <1>2, <1>5 DEF ChangePolicy, PolicyType, OrphanInv, OrphanType, OrphansIndexed
<1>. QED  BY <1>3, <1>4, <1>5 DEF MempoolInv

(* What was mature stays so at the next height.                            *)
LEMMA CoveredNext ==
    ASSUME NEW p, NextOK(p), NEW C, NEW H \in [Txs -> Nat \ {0}], NEW Z, NEW k \in Int, Covered(p, C, H, Z, k)
    PROVE  Covered(p, C, H, Z, k + 1)
<1>1. ASSUME NEW x \in Txs, Ripe(x, H, Z, k) PROVE Ripe(x, H, Z, k + 1)
  BY <1>1, BlockAssumption DEF Ripe
<1>2. \A t \in p.txs : \A o \in Inputs(t) : o[1] \in Txs
  BY ParentsAre DEF NextOK, Pools
<1>. QED  BY <1>1, <1>2 DEF Covered

(* A block is connected.                                                   *)
LEMMA ConnectStep ==
    ASSUME MempoolInv, NEW b \in Blocks \ {Root}, ConnectTip(b)
    PROVE  MempoolInv' /\ \A t \in Lost : Explained(t)
<1>. DEFINE H == HeightsOf(b)
            k == Height[b]
            Z == CoinStakes \ unstaked
            Y == CoinStakes \ unstaked'
            r == RemoveForBlock(pool, Vtx[b])
<1>1. /\ tip' = b /\ pool' = r /\ orphans' = orphans /\ byPrev' = byPrev /\ policy' = policy
  BY DEF ConnectTip
<1>2. ChainInv /\ PolicyType /\ OrphanInv /\ GoodPool(pool)
  BY DEF MempoolInv
<1>3. ChainInv' /\ Connectable(b) /\ Parent[b] = tip /\ unstaked' = unstaked \ ToSet(Vtx[b])
  BY <1>2, ChainConnect
<1>4. coins = Unspent(Parent[b], unstaked) /\ coins' = Unspent(b, unstaked')
  BY <1>1, <1>2, <1>3 DEF ChainInv, CoinsMatchChain
<1>5. k = Height[tip] + 1 /\ k \in Nat
  BY <1>3, BlockFacts
<1>6. H \in [Txs -> Nat \ {0}] /\ UpTo(b, 0) = Confirmed(Parent[b]) /\ Confirmed(Parent[b]) \subseteq Confirmed(b)
  BY UpToFacts
<1>7. /\ coins = Ledger(Confirmed(Parent[b]), H, Z) /\ coins' = Ledger(Confirmed(b), H, Y)
      /\ ToSet(Vtx[b]) \intersect Confirmed(Parent[b]) = {}
  BY <1>3, <1>4, Connected
<1>8. NextOK(pool) /\ Funded(pool, Ledger(Confirmed(Parent[b]), H, Z), k) /\ pool.txs \intersect Confirmed(Parent[b]) = {}
  BY <1>2, <1>3, <1>4, <1>5, <1>7 DEF GoodPool
<1>. HIDE DEF k, r
<1>9. Covered(pool, Confirmed(Parent[b]), H, Y, k)
  <2>. DEFINE C == Confirmed(Parent[b])
  <2>1. Covered(pool, C, H, Z, k)
    <3>. HIDE DEF C, H, Z
    <3>. QED  BY <1>8, FundedIs DEF C
  <2>2. \A x \in C : x \in Z <=> x \in Y
    BY <1>3, <1>7
  <2>. HIDE DEF C, H, Y, Z
  <2>3. \A x \in C : Ripe(x, H, Z, k) => Ripe(x, H, Y, k)
    BY <2>2 DEF Ripe
  <2>. QED  BY <2>1, <2>3 DEF Covered, C
<1>10. /\ NextOK(r) /\ r.txs \intersect Confirmed(b) = {} /\ Covered(r, Confirmed(b), H, Y, k)
       /\ \A x \in pool.txs \ r.txs : x \in Confirmed(b) \/ SpentOrGone(x, Confirmed(b), r.txs)
  <2>1. Y \in SUBSET CoinStakes
    OBVIOUS
  <2>. HIDE DEF Y
  <2>. QED  BY <1>3, <1>8, <1>9, <2>1, BlockRemoved DEF r
<1>11. Funded(r, coins', k + 1)
  <2>. DEFINE C == Confirmed(b)
  <2>. HIDE DEF C, H, Y
  <2>1. Covered(r, C, H, Y, k + 1)
    BY <1>5, <1>6, <1>10, CoveredNext DEF C
  <2>. QED  BY <1>7, <1>10, <2>1, FundedIs DEF C
<1>12. GoodPool(pool)'
  BY <1>1, <1>4, <1>10, <1>11 DEF GoodPool, k
<1>13. PolicyType' /\ OrphanInv'
  BY <1>1, <1>2 DEF PolicyType, OrphanInv, OrphanType, OrphansIndexed
<1>14. ASSUME NEW t \in Lost PROVE Explained(t)
  <2>1. Known = Confirmed(Parent[b]) \union pool.txs /\ Known' = Confirmed(b) \union r.txs
    BY <1>1, <1>3 DEF Known
  <2>2. SpentOrGone(t, Confirmed(b), r.txs)
    BY <1>6, <1>10, <2>1 DEF Lost
  <2>. QED  BY <1>1, <2>1, <2>2 DEF SpentOrGone, Explained
<1>. QED  BY <1>3, <1>12, <1>13, <1>14 DEF MempoolInv

(* The tip is disconnected.                                                *)
LEMMA DisconnectStep ==
    ASSUME MempoolInv, DisconnectTip
    PROVE  MempoolInv' /\ \A t \in Lost : Explained(t)
<1>1. ChainInv /\ PolicyType /\ OrphanInv /\ GoodPool(pool)
  BY DEF MempoolInv
<1>2. ChainInv' /\ tip' = Parent[tip] /\ coins' = Unspent(Parent[tip], unstaked')
  BY <1>1, ChainDisconnect
<1>3. /\ tip # Root /\ pool' = RemoveCoinbaseSpends(Resurrected(pool, coins', tip), coins', Height[tip])
      /\ orphans' = orphans /\ byPrev' = byPrev /\ policy' = policy
  BY DEF DisconnectTip
<1>4. PICK b \in Blocks \ {Root} : b = tip /\ Connectable(b) /\ Parent[b] \in Blocks
  BY <1>1, <1>3, TipConnectable
<1>. DEFINE H == HeightsOf(b)
            k == Height[b] + 1
            V == coins'
            Z == CoinStakes \ unstaked
            C == Confirmed(Parent[b])
            r == RemoveCoinbaseSpends(Resurrected(pool, V, b), V, Height[b])
<1>5. tip' = Parent[b] /\ pool' = r /\ Height[b] = Height[Parent[b]] + 1
  BY <1>2, <1>3, <1>4, BlockFacts
<1>6. coins = Ledger(Confirmed(b), H, Z) /\ CoinsBefore(b, V)
  <2>1. \A U : /\ Unspent(b, U) = Ledger(Confirmed(b), H, CoinStakes \ U)
               /\ Unspent(Parent[b], U) = Ledger(C, H, CoinStakes \ U)
    BY <1>4, Connected
  <2>2. coins = Unspent(b, unstaked) /\ V = Unspent(Parent[b], unstaked')
    BY <1>1, <1>2, <1>4 DEF ChainInv, CoinsMatchChain
  <2>. QED  BY <2>1, <2>2 DEF CoinsBefore
<1>7. NextOK(pool) /\ Funded(pool, Ledger(Confirmed(b), H, Z), k) /\ pool.txs \intersect Confirmed(b) = {}
  BY <1>1, <1>4, <1>6 DEF GoodPool
<1>8. Revivable(b, pool)
  <2>. DEFINE A == Confirmed(b)
  <2>1. Covered(pool, A, H, Z, k)
    <3>. HIDE DEF A, H, k, Z
    <3>. QED  BY <1>7, FundedIs DEF A
  <2>. QED  BY <1>7, <2>1 DEF Revivable, Covered
<1>9. /\ NextOK(r) /\ r.txs \intersect C = {} /\ Funded(r, V, Height[b])
      /\ \A x \in (pool.txs \union ToSet(Vtx[b])) \ r.txs : Excused(x, C, r.txs, V, Height[b])
  <2>. HIDE DEF V
  <2>. QED  BY <1>1, <1>4, <1>6, <1>8, BlockRevived
<1>. HIDE DEF r, C
<1>10. GoodPool(pool)'
  BY <1>5, <1>9 DEF GoodPool, C
<1>11. PolicyType' /\ OrphanInv'
  BY <1>1, <1>3 DEF PolicyType, OrphanInv, OrphanType, OrphansIndexed
<1>12. ASSUME NEW t \in Lost PROVE Explained(t)
  <2>1. Confirmed(b) = C \union ToSet(Vtx[b])
    BY UpToFacts DEF C
  <2>2. Known = (C \union ToSet(Vtx[b])) \union pool.txs /\ Known' = C \union r.txs
    BY <1>4, <1>5, <2>1 DEF Known, C
  <2>3. t \in (pool.txs \union ToSet(Vtx[b])) \ r.txs
    BY <2>2 DEF Lost
  <2>4. Excused(t, C, r.txs, V, Height[b]) /\ Height[tip'] + 1 = Height[b]
    BY <1>5, <1>9, <2>3
  <2>. QED  BY <2>2, <2>4 DEF Excused, Refused, Explained
<1>. QED  BY <1>2, <1>10, <1>11, <1>12 DEF MempoolInv

(* Every step.                                                             *)
LEMMA MempoolNextInv ==
    ASSUME MempoolInv, [MempoolNext]_mempoolVars
    PROVE  MempoolInv' /\ \A t \in Lost : Explained(t)
<1>1. CASE UNCHANGED mempoolVars
  <2>1. /\ tip' = tip /\ coins' = coins /\ undo' = undo /\ pool' = pool
        /\ orphans' = orphans /\ byPrev' = byPrev /\ policy' = policy /\ unstaked' = unstaked
    BY <1>1 DEF mempoolVars
  <2>2. ChainInv'
    BY <2>1, ChainStays DEF MempoolInv
  <2>. QED  BY <2>1, <2>2 DEF MempoolInv, PolicyType, OrphanInv, OrphanType, OrphansIndexed, GoodPool, Lost, Known
<1>2. CASE \E t \in Txs : SubmitTx(t) \/ \E peer \in Peers : ReceiveTx(peer, t)
  BY <1>2, SubmitStep, ReceiveStep
<1>3. CASE \E b \in Blocks \ {Root} : ConnectTip(b)
  BY <1>3, ConnectStep
<1>4. CASE DisconnectTip
  BY <1>4, DisconnectStep
<1>5. CASE (\E peer \in Peers : EraseOrphansFor(peer)) \/ \E t \in Fickle : ChangePolicy(t)
  BY <1>5, OtherMempoolSteps
<1>. QED  BY <1>1, <1>2, <1>3, <1>4, <1>5 DEF MempoolNext

(* The invariant of the memory pool.                                       *)
THEOREM MempoolInvariance == MempoolSpec => []MempoolInv
<1>1. MempoolInv /\ [MempoolNext]_mempoolVars => MempoolInv'
  BY MempoolNextInv
<1>. QED  BY <1>1, MempoolInitInv, PTL DEF MempoolSpec

(* However blocks are connected and disconnected, the coins are those that *)
(* the active chain leaves, for any transactions, blocks and undo data,    *)
(* but for fCoinStake of the coinstakes that DisconnectBlock brought back. *)
THEOREM CoinsTheorem == MempoolSpec => []CoinsMatchChain
<1>1. MempoolInv => CoinsMatchChain
  BY DEF MempoolInv, ChainInv
<1>. QED  BY <1>1, MempoolInvariance, PTL

(* The assertions of CTxMemPool::check hold in every state.                *)
THEOREM PoolCheckTheorem == MempoolSpec => []PoolCheck
<1>1. MempoolInv => PoolCheck
  BY DEF MempoolInv, GoodPool, NextOK, Funded, PoolCheck
<1>. QED  BY <1>1, MempoolInvariance, PTL

(* The index of the orphans is exact and their number is limited.          *)
THEOREM OrphansTheorem == MempoolSpec => []OrphansIndexed
<1>1. MempoolInv => OrphansIndexed
  BY DEF MempoolInv, OrphanInv
<1>. QED  BY <1>1, MempoolInvariance, PTL

(* No step loses a transaction without one of the reasons of NoTxLost.     *)
THEOREM NoTxLostTheorem == MempoolSpec => NoTxLost
<1>. DEFINE Keeps == \A t \in Known \ Known' : Explained(t)
<1>1. MempoolInv /\ [MempoolNext]_mempoolVars => [Keeps]_mempoolVars
  BY MempoolNextInv DEF Lost
<1>2. MempoolSpec => [][Keeps]_mempoolVars
  BY <1>1, MempoolInvariance, PTL DEF MempoolSpec
<1>. QED  BY <1>2 DEF NoTxLost, Explained

=============================================================================
