------------------------ MODULE ContractFunctions_proofs ------------------------
(* What send() reports is what became of its own transaction; what is sent is what
   was built; a stub that was awaited counts: for any programs, however many calls run
   concurrently and however often a connection fails. *)
EXTENDS ContractFunctions, Arithmetic, TLAPS

Ops == {"populate", "refresh", "call", "estimate", "send", "submit"}
States == {"populating", "asking", "sending", "waiting", "done", "failed"}

\* What a task holds besides its method and its state does not matter here.
TaskOf(Data) ==
  [op : Ops, fn : Data, promise : Data, state : States, answer : Data, before : Data]
Typed ==
  /\ \E Data : tasks \in Seq(TaskOf(Data))
  /\ pool \in Seq(Nat)
  /\ mined \in Seq([task : Nat, ok : BOOLEAN])
  /\ failures \in Nat

\* A task whose transaction the node has accepted.
Accepted(t) ==
  /\ t \in 1..Len(tasks)
  /\ Sends(tasks[t].op)
  /\ tasks[t].state \in {"waiting", "done", "failed"}

\* The pool and the blocks hold one transaction at most of each accepted task.
Ledger ==
  /\ \A k \in 1..Len(pool) : Accepted(pool[k])
  /\ \A k \in 1..Len(mined) : Accepted(mined[k].task)
  /\ \A k, l \in 1..Len(pool) : pool[k] = pool[l] => k = l
  /\ \A k, l \in 1..Len(mined) : mined[k].task = mined[l].task => k = l
  /\ \A k \in 1..Len(pool), l \in 1..Len(mined) : pool[k] # mined[l].task

\* What the state of a task says of its transaction.
Outcome(t) ==
  /\ tasks[t].state = "asking" => ~Sends(tasks[t].op)
  /\ tasks[t].state = "sending" => Sends(tasks[t].op)
  /\ tasks[t].op = "send" /\ tasks[t].state = "done" =>
       \E k \in 1..Len(mined) : mined[k].task = t /\ mined[k].ok
  /\ tasks[t].op = "submit" /\ tasks[t].state = "done" =>
       \/ \E k \in 1..Len(mined) : mined[k].task = t
       \/ \E k \in 1..Len(pool) : pool[k] = t
  /\ tasks[t].state = "failed" =>
       \/ failures > 0
       \/ /\ \A k \in 1..Len(pool) : pool[k] # t
          /\ \A k \in 1..Len(mined) : mined[k].task = t => ~mined[k].ok

Receipts ==
  /\ Typed
  /\ Ledger
  /\ \A t \in 1..Len(tasks) : Outcome(t)

\* The invariant implies the property.
LEMMA ReceiptsImply == Receipts => ReceiptsAreOwn
<1> SUFFICES ASSUME Receipts, NEW t \in 1..Len(tasks)
             PROVE  LET blocks == {k \in 1..Len(mined) : mined[k].task = t}
                        queued == {k \in 1..Len(pool) : pool[k] = t}
                    IN  /\ blocks = {} \/ queued = {}
                        /\ \A k, l \in blocks : k = l
                        /\ \A k, l \in queued : k = l
                        /\ (tasks[t].op = "send" /\ Done(t)) => \E k \in blocks : mined[k].ok
                        /\ (tasks[t].op = "submit" /\ Done(t)) => blocks \union queued # {}
                        /\ tasks[t].state = "failed" =>
                             failures > 0 \/ (queued = {} /\ \A k \in blocks : ~mined[k].ok)
  BY DEF ReceiptsAreOwn
<1> DEFINE blocks == {k \in 1..Len(mined) : mined[k].task = t}
           queued == {k \in 1..Len(pool) : pool[k] = t}
<1>1. Ledger /\ Outcome(t)
  BY DEF Receipts
<1>2. (blocks = {} \/ queued = {}) /\ (\A k, l \in blocks : k = l) /\ (\A k, l \in queued : k = l)
  BY <1>1 DEF Ledger
<1>3. (tasks[t].op = "send" /\ Done(t)) => \E k \in blocks : mined[k].ok
  BY <1>1 DEF Outcome, Done
<1>4. (tasks[t].op = "submit" /\ Done(t)) => blocks \union queued # {}
  BY <1>1 DEF Outcome, Done
<1>5. tasks[t].state = "failed" =>
        failures > 0 \/ (queued = {} /\ \A k \in blocks : ~mined[k].ok)
  BY <1>1 DEF Outcome
<1> QED
  BY <1>2, <1>3, <1>4, <1>5

\* Nothing has been called at first.
LEMMA ReceiptsInit == Init => Receipts
<1> SUFFICES ASSUME Init PROVE Receipts
  OBVIOUS
<1>1. tasks = <<>> /\ pool = <<>> /\ mined = <<>> /\ failures = 0
  BY DEF Init
<1>2. Typed
  BY <1>1 DEF Typed
<1> QED
  BY <1>1, <1>2 DEF Receipts, Ledger

\* Only the state of task t changes, apart from what it has besides.
Turns(t, state) ==
  /\ Len(tasks') = Len(tasks)
  /\ \E Data : tasks' \in Seq(TaskOf(Data))
  /\ \A u \in 1..Len(tasks) : u # t => tasks'[u] = tasks[u]
  /\ tasks'[t].op = tasks[t].op
  /\ tasks'[t].state = state

\* To changes a task's state only.
LEMMA ToTurns ==
  ASSUME Typed, NEW t \in 1..Len(tasks), NEW state \in States, To(t, state)
  PROVE  Turns(t, state)
<1>1. PICK Data : tasks \in Seq(TaskOf(Data))
  BY DEF Typed
<1>2. tasks[t] \in TaskOf(Data)
  BY <1>1
<1> DEFINE turned == [tasks[t] EXCEPT !.state = state]
<1>3. turned \in TaskOf(Data) /\ turned.op = tasks[t].op /\ turned.state = state
  BY <1>2 DEF TaskOf
<1>4. tasks' = [tasks EXCEPT ![t] = turned]
  BY DEF To
<1> HIDE DEF turned
<1>5. tasks' \in Seq(TaskOf(Data)) /\ Len(tasks') = Len(tasks) /\ tasks'[t] = turned
        /\ \A u \in 1..Len(tasks) : u # t => tasks'[u] = tasks[u]
  BY <1>1, <1>3, <1>4
<1> QED
  BY <1>3, <1>5 DEF Turns

\* Task t is done, with an answer.
AnswersWith(t, answer) == tasks' = [tasks EXCEPT ![t].state = "done", ![t].answer = answer]

\* So does the provider's answer, but for the answer.
LEMMA AnswerTurns ==
  ASSUME Typed, NEW t \in 1..Len(tasks), NEW answer, AnswersWith(t, answer)
  PROVE  Turns(t, "done")
<1>1. PICK Data : tasks \in Seq(TaskOf(Data))
  BY DEF Typed
<1> DEFINE More == Data \cup {answer}
           turned == [[tasks[t] EXCEPT !.state = "done"] EXCEPT !.answer = answer]
<1>2. tasks \in Seq(TaskOf(More))
  <2>1. TaskOf(Data) \subseteq TaskOf(More)
    BY DEF TaskOf
  <2> HIDE DEF More
  <2> QED
    BY <1>1, <2>1
<1>3. tasks[t] \in TaskOf(Data)
  BY <1>1
<1>4. turned \in TaskOf(More) /\ turned.op = tasks[t].op /\ turned.state = "done"
  BY <1>3 DEF TaskOf, States
<1> DEFINE Tasks == TaskOf(More)
<1>5. tasks' = [tasks EXCEPT ![t] = turned]
  BY <1>1 DEF AnswersWith
<1>6. turned \in Tasks /\ tasks \in Seq(Tasks)
  BY <1>2, <1>4
<1> HIDE DEF turned, Tasks
<1>7. tasks' \in Seq(Tasks) /\ Len(tasks') = Len(tasks) /\ tasks'[t] = turned
        /\ \A u \in 1..Len(tasks) : u # t => tasks'[u] = tasks[u]
  BY <1>5, <1>6
<1>8. \E Given : tasks' \in Seq(TaskOf(Given))
  BY <1>7 DEF Tasks
<1> QED
  BY <1>4, <1>7, <1>8 DEF Turns

\* A step that changes only the state of task t, to one that what the ledger says of
\* t allows.
LEMMA StateChanges ==
  ASSUME Receipts, UNCHANGED <<pool, mined>>, failures' \in Nat, failures' >= failures,
         NEW t \in 1..Len(tasks), NEW state \in States, Turns(t, state),
         Accepted(t) => state \in {"waiting", "done", "failed"},
         state = "asking" => ~Sends(tasks[t].op),
         state = "sending" => Sends(tasks[t].op),
         Sends(tasks[t].op) /\ state = "done" =>
           \E k \in 1..Len(mined) : mined[k].task = t /\ mined[k].ok,
         state = "failed" =>
           \/ failures' > 0
           \/ ~Accepted(t)
           \/ \E k \in 1..Len(mined) : mined[k].task = t /\ ~mined[k].ok
  PROVE  Receipts'
<1>1. Len(tasks') = Len(tasks) /\ Typed'
  BY DEF Turns, Receipts, Typed
<1>2. \A u : Accepted(u) => Accepted(u)'
  BY <1>1 DEF Turns, Accepted
<1>3. Ledger'
  BY <1>2 DEF Receipts, Ledger
<1>4. ASSUME NEW u \in 1..Len(tasks) PROVE Outcome(u)'
  <2>1. Outcome(u)
    BY DEF Receipts
  <2>2. CASE u # t
    BY <2>1, <2>2 DEF Turns, Outcome, Receipts, Typed
  <2>3. CASE u = t
    BY <2>3, SMTT(30) DEF Turns, Outcome, Receipts, Typed, Ledger, Sends
  <2> QED
    BY <2>2, <2>3
<1> QED
  BY <1>1, <1>3, <1>4 DEF Receipts

\* The task that Start makes.
TaskFor(op, i, promise, state) ==
  [op |-> op, fn |-> i, promise |-> promise, state |-> state,
   answer |-> "none", before |-> SettledTasks]

\* The object's promise, a new one that the object has from now on, or none.
Sets(i) ==
  /\ i \in 1..Len(functions)
  /\ functions' = [functions EXCEPT ![i].populated = Len(promises) + 1]
  /\ promises' = Append(promises, Executed(i))
TakesPromise(i, promise) ==
  \/ promise = 0 /\ UNCHANGED <<functions, promises>>
  \/ promise # 0 /\ promise = functions[i].populated /\ UNCHANGED <<functions, promises>>
  \/ promise = Len(promises) + 1 /\ Sets(i)

LEMMA StartBegins ==
  ASSUME Start
  PROVE  \E i \in 1..Len(functions), op \in Ops, state \in {"failed", "populating"} : \E promise :
           tasks' = Append(tasks, TaskFor(op, i, promise, state)) /\ TakesPromise(i, promise)
<1>1. PICK i \in 1..Len(functions) : \E op \in Methods(functions[i]) \intersect program.ops :
        LET refused == Sends(op) /\ ~functions[i].contract.signer
            Task == [op |-> op, fn |-> i, promise |-> 0, state |-> "failed",
                     answer |-> "none", before |-> SettledTasks]
        IN  IF refused
            THEN tasks' = Append(tasks, Task) /\ UNCHANGED <<functions, promises>>
            ELSE /\ tasks' = Append(tasks, [Task EXCEPT !.state = "populating",
                                              !.promise = PromiseOf(i, op = "refresh")])
                 /\ Populate(i, op = "refresh")
  BY DEF Start
<1>2. PICK op \in Methods(functions[i]) \intersect program.ops :
        LET refused == Sends(op) /\ ~functions[i].contract.signer
            Task == [op |-> op, fn |-> i, promise |-> 0, state |-> "failed",
                     answer |-> "none", before |-> SettledTasks]
        IN  IF refused
            THEN tasks' = Append(tasks, Task) /\ UNCHANGED <<functions, promises>>
            ELSE /\ tasks' = Append(tasks, [Task EXCEPT !.state = "populating",
                                              !.promise = PromiseOf(i, op = "refresh")])
                 /\ Populate(i, op = "refresh")
  BY <1>1
<1>3. op \in Ops
  BY DEF Methods, Ops
<1>4. CASE Sends(op) /\ ~functions[i].contract.signer
  <2>1. tasks' = Append(tasks, TaskFor(op, i, 0, "failed")) /\ UNCHANGED <<functions, promises>>
    BY <1>2, <1>4 DEF TaskFor
  <2>2. TakesPromise(i, 0)
    BY <2>1 DEF TakesPromise
  <2> QED
    BY <1>3, <2>1, <2>2
<1>5. CASE ~(Sends(op) /\ ~functions[i].contract.signer)
  <2> DEFINE Task == [op |-> op, fn |-> i, promise |-> 0, state |-> "failed",
                      answer |-> "none", before |-> SettledTasks]
  <2>1. /\ tasks' = Append(tasks, [Task EXCEPT !.state = "populating",
                                     !.promise = PromiseOf(i, op = "refresh")])
        /\ Populate(i, op = "refresh")
    BY <1>2, <1>5
  <2>2. ASSUME NEW promise
        PROVE  [Task EXCEPT !.state = "populating", !.promise = promise]
                 = TaskFor(op, i, promise, "populating")
    <3> DEFINE Begun == [op |-> op, fn |-> i, promise |-> 0, state |-> "populating",
                         answer |-> "none", before |-> SettledTasks]
    <3>1. [Task EXCEPT !.state = "populating"] = Begun
      OBVIOUS
    <3>2. [Begun EXCEPT !.promise = promise] = TaskFor(op, i, promise, "populating")
      BY DEF TaskFor
    <3>3. [Task EXCEPT !.state = "populating", !.promise = promise]
            = [[Task EXCEPT !.state = "populating"] EXCEPT !.promise = promise]
      <4> HIDE DEF Task
      <4> QED
        OBVIOUS
    <3> QED
      BY <3>1, <3>2, <3>3
  <2> HIDE DEF Task
  <2>3. PICK promise : promise = PromiseOf(i, op = "refresh")
    OBVIOUS
  <2>4. tasks' = Append(tasks, TaskFor(op, i, promise, "populating"))
    BY <2>1, <2>2, <2>3, Zenon
  <2>5. TakesPromise(i, promise)
    BY <2>1, <2>3 DEF Populate, PromiseOf, TakesPromise, Sets
  <2> QED
    BY <1>3, <2>4, <2>5
<1> QED
  BY <1>4, <1>5

\* Whatever user code calls, whatever the node, the signer and the connection do.
LEMMA ReceiptsStep == Receipts /\ [Next]_vars => Receipts'
<1> SUFFICES ASSUME Receipts, [Next]_vars PROVE Receipts'
  OBVIOUS
<1> USE DEF Receipts
<1>1. ASSUME UNCHANGED <<tasks, pool, mined>>, failures' \in Nat, failures' >= failures
      PROVE  Receipts'
  <2>1. Typed' /\ Ledger'
    BY <1>1 DEF Typed, Ledger, Accepted
  <2>2. ASSUME NEW u \in 1..Len(tasks) PROVE Outcome(u)'
    <3>1. Outcome(u) /\ (failures > 0 => failures' > 0)
      BY <1>1 DEF Typed
    <3> QED
      BY <1>1, <3>1 DEF Outcome
  <2> QED
    BY <1>1, <2>1, <2>2
<1>2. CASE Create \/ Refine \/ Attach \/ SignerAnswers \/ UNCHANGED vars
  <2>1. UNCHANGED <<tasks, pool, mined, failures>>
    BY <1>2 DEF Create, Refine, Attach, SignerAnswers, vars
  <2> QED
    BY <1>1, <2>1 DEF Typed
<1>3. CASE SignerFails
  BY <1>1, <1>3 DEF SignerFails, Typed
<1>4. CASE Start
  <2>0. PICK i \in 1..Len(functions), op \in Ops, state \in {"failed", "populating"} :
          \E promise : tasks' = Append(tasks, TaskFor(op, i, promise, state))
    BY <1>4, StartBegins
  <2>1. PICK promise : tasks' = Append(tasks, TaskFor(op, i, promise, state))
    BY <2>0
  <2> DEFINE task == TaskFor(op, i, promise, state)
  <2>2. PICK Data : tasks \in Seq(TaskOf(Data))
    BY DEF Typed
  <2> DEFINE More == Data \cup {i, promise, "none", SettledTasks}
             Tasks == TaskOf(More)
  <2>3. task \in Tasks /\ task.op = op /\ task.state = state
    BY <2>1 DEF TaskOf, States, TaskFor
  <2>4. tasks \in Seq(Tasks)
    <3>1. TaskOf(Data) \subseteq Tasks
      BY DEF TaskOf
    <3> HIDE DEF Tasks
    <3> QED
      BY <2>2, <3>1
  <2>5. tasks' = Append(tasks, task)
    BY <2>1
  <2>6. \E Given : tasks' \in Seq(TaskOf(Given))
    <3>1. tasks' \in Seq(Tasks)
      <4> HIDE DEF Tasks, task
      <4> QED
        BY <2>3, <2>4, <2>5
    <3> QED
      BY <3>1
  <2> HIDE DEF Tasks, task
  <2>7. /\ Len(tasks) \in Nat /\ Len(tasks') = Len(tasks) + 1
        /\ \A u \in 1..Len(tasks) : tasks'[u] = tasks[u]
        /\ tasks'[Len(tasks) + 1] = task
    BY <2>4, <2>5
  <2>8. UNCHANGED <<pool, mined, failures>>
    BY <1>4 DEF Start
  <2>9. Typed'
    BY <2>6, <2>8 DEF Typed
  <2>10. \A u : Accepted(u) => Accepted(u)'
    BY <2>7 DEF Accepted
  <2>11. Ledger'
    BY <2>8, <2>10 DEF Ledger
  <2>12. ASSUME NEW u \in 1..Len(tasks) PROVE Outcome(u)'
    BY <2>7, <2>8, SMTT(30) DEF Outcome
  <2>13. PICK n : n = Len(tasks) + 1
    OBVIOUS
  <2>14. ~Accepted(n)
    BY <2>7, <2>13 DEF Accepted
  <2>15. /\ \A k \in 1..Len(pool) : pool[k] # n
         /\ \A k \in 1..Len(mined) : mined[k].task # n
    BY <2>14 DEF Ledger
  <2>16. tasks'[n].state \in {"failed", "populating"}
    BY <2>1, <2>3, <2>7, <2>13
  <2>17. Outcome(n)'
    BY <2>8, <2>15, <2>16 DEF Outcome
  <2>18. \A u \in 1..Len(tasks') : u \in 1..Len(tasks) \/ u = n
    BY <2>7, <2>13
  <2>19. \A u \in 1..Len(tasks') : Outcome(u)'
    BY <2>12, <2>17, <2>18
  <2> QED
    BY <2>9, <2>11, <2>19
<1>5. ASSUME NEW t \in 1..Len(tasks), Continue(t) PROVE Receipts'
  <2>1. tasks[t].state = "populating" /\ UNCHANGED <<pool, mined, failures>>
    BY <1>5 DEF Continue, PromiseIs
  <2>2. PICK state \in States :
          /\ To(t, state)
          /\ state \in {"failed", "done", "asking", "sending"}
          /\ state \in {"done", "asking"} => ~Sends(tasks[t].op)
          /\ state = "sending" => Sends(tasks[t].op)
    BY <1>5 DEF Continue, States, Sends
  <2>3. ~Accepted(t)
    BY <2>1 DEF Accepted
  <2>4. Turns(t, state)
    BY <2>2, ToTurns
  <2>5. failures' \in Nat /\ failures' >= failures
    BY <2>1 DEF Typed
  <2> QED
    BY <2>1, <2>2, <2>3, <2>4, <2>5, StateChanges
<1>6. ASSUME NEW t \in 1..Len(tasks), ProviderAnswers(t) PROVE Receipts'
  <2>1. tasks[t].state = "asking" /\ UNCHANGED <<pool, mined, failures>>
    BY <1>6 DEF ProviderAnswers
  <2>2. Turns(t, "done")
    BY <1>6, AnswerTurns DEF ProviderAnswers, AnswersWith
  <2>3. ~Accepted(t) /\ ~Sends(tasks[t].op)
    BY <2>1 DEF Accepted, Outcome
  <2>4. failures' \in Nat /\ failures' >= failures /\ "done" \in States
    BY <2>1 DEF Typed, States
  <2> QED
    BY <2>1, <2>2, <2>3, <2>4, StateChanges
<1>7. ASSUME NEW t \in 1..Len(tasks), NodeAccepts(t) PROVE Receipts'
  <2>1. /\ tasks[t].state = "sending" /\ Sends(tasks[t].op)
        /\ pool' = Append(pool, t) /\ UNCHANGED <<mined, failures>>
    BY <1>7 DEF NodeAccepts, Outcome
  <2>2. PICK state \in {"waiting", "done"} :
          To(t, state) /\ (tasks[t].op = "send" => state = "waiting")
    BY <1>7 DEF NodeAccepts
  <2>3. Turns(t, state)
    BY <2>2, ToTurns DEF States
  <2>4. ~Accepted(t)
    BY <2>1 DEF Accepted
  <2>5. /\ Len(tasks') = Len(tasks)
        /\ \A u : Accepted(u) => Accepted(u)'
        /\ Accepted(t)'
    BY <2>1, <2>2, <2>3, <2>4 DEF Turns, Accepted
  <2>6. /\ Len(pool) \in Nat /\ Len(pool') = Len(pool) + 1
        /\ \A k \in 1..Len(pool) : pool'[k] = pool[k]
        /\ pool'[Len(pool) + 1] = t
        /\ pool' \in Seq(Nat)
    <3>1. t \in Nat
      OBVIOUS
    <3> QED
      BY <2>1, <3>1 DEF Typed
  <2>7. Typed'
    BY <2>1, <2>3, <2>6 DEF Typed, Turns
  <2>8. \A k \in 1..Len(pool) : pool[k] # t
    BY <2>4 DEF Ledger
  <2>9. \A k \in 1..Len(mined) : mined[k].task # t
    BY <2>4 DEF Ledger
  <2>10. Ledger'
    <3>1. \A k \in 1..Len(pool') : Accepted(pool[k])'
      BY <2>5, <2>6 DEF Ledger
    <3>2. \A k \in 1..Len(mined') : Accepted(mined[k].task)'
      BY <2>1, <2>5 DEF Ledger
    <3>3. \A k, l \in 1..Len(pool') : pool'[k] = pool'[l] => k = l
      BY <2>6, <2>8 DEF Ledger
    <3>4. \A k, l \in 1..Len(mined') : mined'[k].task = mined'[l].task => k = l
      BY <2>1 DEF Ledger
    <3>5. \A k \in 1..Len(pool'), l \in 1..Len(mined') : pool'[k] # mined'[l].task
      BY <2>1, <2>6, <2>9 DEF Ledger
    <3> QED
      BY <3>1, <3>2, <3>3, <3>4, <3>5 DEF Ledger
  <2>11. ASSUME NEW u \in 1..Len(tasks) PROVE Outcome(u)'
    <3>1. CASE u # t
      <4>1. \A k \in 1..Len(pool') : pool'[k] = u => k \in 1..Len(pool) /\ pool[k] = u
        BY <2>6, <3>1
      <4>2. \A k \in 1..Len(pool) : pool[k] = u => k \in 1..Len(pool') /\ pool'[k] = u
        BY <2>6
      <4>3. tasks'[u] = tasks[u]
        BY <2>3, <3>1 DEF Turns
      <4>4. Outcome(u)
        OBVIOUS
      <4>5. tasks'[u] = tasks[u] /\ mined' = mined /\ failures' = failures
        BY <2>1, <4>3
      <4> QED
        BY <4>1, <4>2, <4>4, <4>5 DEF Outcome
    <3>2. CASE u = t
      <4>1. tasks'[t].state = state /\ tasks'[t].op = tasks[t].op
        BY <2>3 DEF Turns
      <4>2. Len(pool) + 1 \in 1..Len(pool')
        BY <2>6
      <4> QED
        BY <2>1, <2>2, <2>6, <3>2, <4>1, <4>2 DEF Outcome
    <3> QED
      BY <3>1, <3>2
  <2> QED
    BY <2>5, <2>7, <2>10, <2>11
<1>8. ASSUME NEW t \in 1..Len(tasks), NodeRefuses(t) PROVE Receipts'
  <2>1. tasks[t].state = "sending" /\ To(t, "failed") /\ UNCHANGED <<pool, mined, failures>>
    BY <1>8 DEF NodeRefuses
  <2>2. Turns(t, "failed")
    BY <2>1, ToTurns DEF States
  <2>3. ~Accepted(t)
    BY <2>1 DEF Accepted
  <2>4. failures' \in Nat /\ failures' >= failures /\ "failed" \in States
    BY <2>1 DEF Typed, States
  <2> QED
    BY <2>1, <2>2, <2>3, <2>4, StateChanges
<1>9. ASSUME NEW t \in 1..Len(tasks), Receive(t) PROVE Receipts'
  <2>1. UNCHANGED <<pool, mined, failures>>
    BY <1>9 DEF Receive
  <2>2. PICK k \in 1..Len(mined) :
          mined[k].task = t /\ To(t, IF mined[k].ok THEN "done" ELSE "failed")
    BY <1>9 DEF Receive
  <2>5. failures' \in Nat /\ failures' >= failures /\ {"done", "failed"} \subseteq States
    BY <2>1 DEF Typed, States
  <2>3. CASE mined[k].ok
    BY <2>1, <2>2, <2>3, <2>5, ToTurns, StateChanges
  <2>4. CASE ~mined[k].ok
    BY <2>1, <2>2, <2>4, <2>5, ToTurns, StateChanges
  <2> QED
    BY <2>3, <2>4
<1>10. ASSUME NEW t \in 1..Len(tasks), ConnectionFails(t) PROVE Receipts'
  <2>1. UNCHANGED <<pool, mined>> /\ failures' = failures + 1 /\ To(t, "failed")
    BY <1>10 DEF ConnectionFails
  <2>2. Turns(t, "failed")
    BY <2>1, ToTurns DEF States
  <2>3. failures' \in Nat /\ failures' >= failures /\ failures' > 0
    BY <2>1 DEF Typed
  <2> QED
    BY <2>1, <2>2, <2>3, StateChanges DEF States
<1>11. CASE Mine
  <2>1. pool # <<>> /\ pool' = Tail(pool) /\ UNCHANGED <<tasks, failures>>
    BY <1>11 DEF Mine
  <2>2. PICK ok \in BOOLEAN : mined' = Append(mined, [task |-> Head(pool), ok |-> ok])
    BY <1>11 DEF Mine
  <2> DEFINE t == pool[1]
             block == [task |-> t, ok |-> ok]
  <2>3. /\ Len(pool) \in Nat /\ 1 \in 1..Len(pool) /\ Head(pool) = t /\ t \in Nat
        /\ pool' \in Seq(Nat) /\ Len(pool') = Len(pool) - 1
        /\ \A k \in 1..Len(pool') : k + 1 \in 1..Len(pool) /\ pool'[k] = pool[k + 1]
        /\ \A k \in 1..Len(pool) : k = 1 \/ (k - 1 \in 1..Len(pool') /\ pool'[k - 1] = pool[k])
    BY <2>1 DEF Typed
  <2>4. /\ Len(mined) \in Nat /\ Len(mined') = Len(mined) + 1
        /\ mined' \in Seq([task : Nat, ok : BOOLEAN])
        /\ \A k \in 1..Len(mined) : mined'[k] = mined[k]
        /\ mined'[Len(mined) + 1] = block
    <3>1. block \in [task : Nat, ok : BOOLEAN]
      BY <2>3
    <3>2. mined' = Append(mined, block)
      BY <2>2, <2>3
    <3> HIDE DEF block
    <3> QED
      BY <3>1, <3>2 DEF Typed
  <2>5. block.task = t /\ block.ok = ok
    OBVIOUS
  <2> HIDE DEF t, block
  <2>6. Typed'
    BY <2>1, <2>3, <2>4 DEF Typed
  <2>7. t = pool[1]
    BY DEF t
  <2>8. Accepted(t) /\ \A u : Accepted(u) => Accepted(u)'
    BY <2>1, <2>3, <2>7 DEF Ledger, Accepted
  <2>9. Ledger'
    <3>1. \A k \in 1..Len(pool') : Accepted(pool[k])'
      <4>1. \A k \in 1..Len(pool') : Accepted(pool[k + 1]) /\ pool'[k] = pool[k + 1]
        BY <2>3 DEF Ledger
      <4>2. \A u : Accepted(u) => Accepted(u)'
        BY <2>8
      <4> QED
        BY <2>3, <4>1, <2>1 DEF Accepted
    <3>2. \A k \in 1..Len(mined') : Accepted(mined[k].task)'
      BY <2>4, <2>5, <2>8 DEF Ledger
    <3>3. ASSUME NEW k \in 1..Len(pool'), NEW l \in 1..Len(pool'), pool'[k] = pool'[l]
          PROVE  k = l
      <4>1. k + 1 \in 1..Len(pool) /\ l + 1 \in 1..Len(pool) /\ pool[k + 1] = pool[l + 1]
        BY <2>3, <3>3
      <4>2. k + 1 = l + 1
        BY <4>1 DEF Ledger
      <4> QED
        BY <2>3, <4>2
    <3>4. \A k \in 1..Len(mined) : mined[k].task # t
      BY <2>3, <2>7 DEF Ledger
    <3>5. \A k, l \in 1..Len(mined') : mined'[k].task = mined'[l].task => k = l
      BY <2>4, <2>5, <3>4, SMTT(30) DEF Ledger
    <3>6. \A k \in 1..Len(pool') : pool'[k] # t
      BY <2>3, <2>7, SMTT(30) DEF Ledger
    <3>7. \A k \in 1..Len(pool'), l \in 1..Len(mined') : pool'[k] # mined'[l].task
      <4>1. ASSUME NEW k \in 1..Len(pool'), NEW l \in 1..Len(mined)
            PROVE  pool'[k] # mined[l].task
        BY <2>3 DEF Ledger
      <4>2. \A l \in 1..Len(mined') : l \in 1..Len(mined) \/ l = Len(mined) + 1
        BY <2>4
      <4> QED
        BY <2>4, <2>5, <3>6, <4>1, <4>2
    <3> QED
      BY <3>1, <3>2, <3>3, <3>5, <3>7 DEF Ledger
  <2>10. ASSUME NEW u \in 1..Len(tasks) PROVE Outcome(u)'
    <3>1. Outcome(u)
      OBVIOUS
    <3>2. ASSUME NEW k \in 1..Len(mined), mined[k].task = u
          PROVE  k \in 1..Len(mined') /\ mined'[k] = mined[k]
      BY <2>4
    <3>3. tasks'[u] = tasks[u] /\ failures' = failures
      BY <2>1
    <3>4. ASSUME NEW k \in 1..Len(pool), pool[k] = u
          PROVE  \/ \E l \in 1..Len(mined') : mined'[l].task = u
                 \/ \E l \in 1..Len(pool') : pool'[l] = u
      <4>1. CASE k = 1
        BY <2>4, <2>5, <2>7, <3>4, <4>1
      <4>2. CASE k # 1
        BY <2>3, <3>4, <4>2
      <4> QED
        BY <4>1, <4>2
    <3>5. ASSUME \A k \in 1..Len(pool) : pool[k] # u,
                 \A k \in 1..Len(mined) : mined[k].task = u => ~mined[k].ok
          PROVE  /\ \A k \in 1..Len(pool') : pool'[k] # u
                 /\ \A k \in 1..Len(mined') : mined'[k].task = u => ~mined'[k].ok
      <4>1. \A k \in 1..Len(pool') : pool'[k] # u
        BY <2>3, <3>5
      <4>2. t # u
        BY <2>3, <2>7, <3>5
      <4>3. \A l \in 1..Len(mined') : l \in 1..Len(mined) \/ l = Len(mined) + 1
        BY <2>4
      <4>4. \A k \in 1..Len(mined') : mined'[k].task = u => ~mined'[k].ok
        BY <2>4, <2>5, <3>5, <4>2, <4>3
      <4> QED
        BY <4>1, <4>4
    <3>6. ASSUME tasks[u].op = "send", tasks[u].state = "done"
          PROVE  \E k \in 1..Len(mined') : mined'[k].task = u /\ mined'[k].ok
      BY <3>1, <3>2, <3>6 DEF Outcome
    <3>7. ASSUME tasks[u].op = "submit", tasks[u].state = "done"
          PROVE  \/ \E l \in 1..Len(mined') : mined'[l].task = u
                 \/ \E l \in 1..Len(pool') : pool'[l] = u
      BY <3>1, <3>2, <3>4, <3>7 DEF Outcome
    <3>8. ASSUME tasks[u].state = "failed", ~(failures > 0)
          PROVE  /\ \A k \in 1..Len(pool') : pool'[k] # u
                 /\ \A k \in 1..Len(mined') : mined'[k].task = u => ~mined'[k].ok
      BY <3>1, <3>5, <3>8 DEF Outcome
    <3> QED
      BY <3>1, <3>3, <3>6, <3>7, <3>8 DEF Outcome
  <2> QED
    BY <2>1, <2>6, <2>9, <2>10
<1> QED
  BY <1>2, <1>3, <1>4, <1>5, <1>6, <1>7, <1>8, <1>9, <1>10, <1>11
  DEF Next, UserStep, Step, Goes

\* However many calls run concurrently, whatever is refused, reverted or cut off:
\* send() resolves only with the successful receipt of its own transaction, and one
\* that rejects without a failure of the connection has had no effect.
THEOREM ReceiptsAlwaysOwn == Spec => []ReceiptsAreOwn
<1> QED
  BY ReceiptsInit, ReceiptsStep, ReceiptsImply, PTL DEF Spec

-----------------------------------------------------------------------------
(* The chain of calls that built an object. *)

\* NamedLast, of any sequence of objects.
Chain(fs, n, f) ==
  LET Last[k \in 1..n] ==
        IF f \in DOMAIN fs[k].named THEN fs[k].named[f]
        ELSE IF fs[k].parent = 0 THEN "undefined" ELSE Last[fs[k].parent]
  IN  Last[n]
NextLast(fs, f, last, k) ==
  IF f \in DOMAIN fs[k].named THEN fs[k].named[f]
  ELSE IF fs[k].parent = 0 THEN "undefined" ELSE last[fs[k].parent]
IsLast(fs, f, last, n) == last = [k \in 1..n |-> NextLast(fs, f, last, k)]

\* Every object is made from an earlier one, or from none.
Rooted(fs) == Len(fs) \in Nat /\ \A k \in 1..Len(fs) : fs[k].parent \in 0..(k - 1)

LEMMA ChainChosen ==
  ASSUME NEW fs, NEW f, NEW n
  PROVE  Chain(fs, n, f) = (CHOOSE last : IsLast(fs, f, last, n))[n]
BY DEF Chain, IsLast, NextLast

\* There is such a function, by induction over the objects,
LEMMA LastExists ==
  ASSUME NEW fs, Rooted(fs), NEW f, NEW n \in 0..Len(fs)
  PROVE  \E last : IsLast(fs, f, last, n)
<1> DEFINE S == {m \in 0..Len(fs) : \E last : IsLast(fs, f, last, m)}
<1>0. Len(fs) \in Nat
  BY DEF Rooted
<1>1. 0 \in S
  <2>1. IsLast(fs, f, [k \in 1..0 |-> "undefined"], 0)
    BY DEF IsLast
  <2> QED
    BY <1>0, <2>1
<1>2. ASSUME NEW m \in 0..(Len(fs) - 1), m \in S PROVE m + 1 \in S
  <2>1. PICK last : IsLast(fs, f, last, m)
    BY <1>2
  <2> DEFINE more == [k \in 1..(m + 1) |-> IF k <= m THEN last[k] ELSE NextLast(fs, f, last, k)]
  <2>2. ASSUME NEW k \in 1..(m + 1) PROVE more[k] = NextLast(fs, f, more, k)
    <3>1. k \in 1..Len(fs) /\ k \in Nat /\ m \in Nat
      BY <1>0, <1>2
    <3>2. more[k] = NextLast(fs, f, last, k)
      BY <2>1, <3>1 DEF IsLast
    <3>3. fs[k].parent # 0 => fs[k].parent \in 1..m
      BY <3>1 DEF Rooted
    <3>4. fs[k].parent # 0 => more[fs[k].parent] = last[fs[k].parent]
      BY <3>1, <3>3
    <3> HIDE DEF more
    <3> QED
      BY <3>2, <3>4 DEF NextLast
  <2>3. more = [k \in 1..(m + 1) |-> more[k]]
    OBVIOUS
  <2> HIDE DEF more
  <2>4. IsLast(fs, f, more, m + 1)
    BY <2>2, <2>3 DEF IsLast
  <2> QED
    BY <1>0, <1>2, <2>4
<1> HIDE DEF S
<1>3. \A m \in 0..Len(fs) : m \in S
  BY <1>0, <1>1, <1>2, InductionUpTo
<1>4. n \in S
  BY <1>3
<1> QED
  BY <1>4 DEF S

\* and only one, however far it goes.
LEMMA LastsAgree ==
  ASSUME NEW fs, Rooted(fs), NEW gs, Rooted(gs), Len(fs) <= Len(gs),
         \A k \in 1..Len(fs) : fs[k].named = gs[k].named /\ fs[k].parent = gs[k].parent,
         NEW f, NEW n \in 0..Len(fs), NEW m \in 0..Len(gs), NEW last, NEW other,
         IsLast(fs, f, last, n), IsLast(gs, f, other, m),
         NEW k \in 1..n, k <= m
  PROVE  last[k] = other[k]
<1> DEFINE T == {i \in 1..n : i <= m /\ last[i] # other[i]}
<1>0. Len(fs) \in Nat /\ Len(gs) \in Nat /\ n \in Nat /\ m \in Nat
  BY DEF Rooted
<1> SUFFICES ASSUME T # {} PROVE FALSE
  OBVIOUS
<1>1. PICK i \in T : \A j \in T : i <= j
  <2>1. T \in SUBSET Nat
    BY <1>0
  <2> HIDE DEF T
  <2> QED
    BY <2>1, LeastElement
<1>2. i \in 1..Len(fs) /\ i \in 1..n /\ i \in 1..m /\ i \in Nat
  BY <1>0, <1>1
<1>3. last[i] = NextLast(fs, f, last, i) /\ other[i] = NextLast(gs, f, other, i)
  BY <1>2 DEF IsLast
<1>4. fs[i].parent # 0 => fs[i].parent \in 1..(i - 1)
  BY <1>2 DEF Rooted
<1>5. fs[i].parent # 0 => fs[i].parent \notin T
  BY <1>1, <1>2, <1>4
<1>6. fs[i].parent # 0 => last[fs[i].parent] = other[fs[i].parent]
  BY <1>0, <1>2, <1>4, <1>5
<1>7. fs[i].named = gs[i].named /\ fs[i].parent = gs[i].parent
  BY <1>2
<1>8. last[i] = other[i]
  BY <1>3, <1>6, <1>7 DEF NextLast
<1> QED
  BY <1>1, <1>8

\* What was named last, from the object before.
LEMMA ChainStep ==
  ASSUME NEW fs, Rooted(fs), NEW f, NEW n \in 1..Len(fs)
  PROVE  /\ f \in DOMAIN fs[n].named => Chain(fs, n, f) = fs[n].named[f]
         /\ f \notin DOMAIN fs[n].named /\ fs[n].parent = 0 => Chain(fs, n, f) = "undefined"
         /\ f \notin DOMAIN fs[n].named /\ fs[n].parent # 0 =>
              Chain(fs, n, f) = Chain(fs, fs[n].parent, f)
<1>0. Len(fs) \in Nat /\ n \in Nat /\ n \in 1..n /\ n \in 0..Len(fs)
  BY DEF Rooted
<1>1. PICK last : last = CHOOSE l : IsLast(fs, f, l, n)
  OBVIOUS
<1>2. IsLast(fs, f, last, n)
  BY <1>0, <1>1, LastExists
<1>3. Chain(fs, n, f) = last[n]
  BY <1>1, ChainChosen
<1>4. last[n] = NextLast(fs, f, last, n)
  BY <1>0, <1>2 DEF IsLast
<1>5. ASSUME fs[n].parent # 0 PROVE last[fs[n].parent] = Chain(fs, fs[n].parent, f)
  <2>1. PICK m : m = fs[n].parent
    OBVIOUS
  <2>2. m \in 1..n /\ m \in 0..Len(fs) /\ m \in Nat /\ m \in 1..m
    BY <1>0, <1>5, <2>1 DEF Rooted
  <2>3. PICK other : other = CHOOSE l : IsLast(fs, f, l, m)
    OBVIOUS
  <2>4. IsLast(fs, f, other, m)
    BY <2>2, <2>3, LastExists
  <2>5. Chain(fs, m, f) = other[m]
    BY <2>3, ChainChosen
  <2>6. m <= m /\ Len(fs) <= Len(fs)
    BY <1>0, <2>2
  <2>7. last[m] = other[m]
    BY <1>0, <1>2, <2>2, <2>4, <2>6, LastsAgree
  <2> QED
    BY <2>1, <2>5, <2>7
<1> QED
  BY <1>3, <1>4, <1>5 DEF NextLast

\* Objects made later change nothing of it.
LEMMA ChainStays ==
  ASSUME NEW fs, Rooted(fs), NEW gs, Rooted(gs), Len(fs) <= Len(gs),
         \A k \in 1..Len(fs) : fs[k].named = gs[k].named /\ fs[k].parent = gs[k].parent,
         NEW f, NEW n \in 1..Len(fs)
  PROVE  Chain(gs, n, f) = Chain(fs, n, f)
<1>0. /\ Len(fs) \in Nat /\ Len(gs) \in Nat /\ n \in Nat /\ n \in 1..n /\ n <= n
      /\ n \in 0..Len(fs) /\ n \in 0..Len(gs)
  BY DEF Rooted
<1>1. PICK last : last = CHOOSE l : IsLast(fs, f, l, n)
  OBVIOUS
<1>2. PICK other : other = CHOOSE l : IsLast(gs, f, l, n)
  OBVIOUS
<1>3. IsLast(fs, f, last, n) /\ IsLast(gs, f, other, n)
  BY <1>0, <1>1, <1>2, LastExists
<1>4. last[n] = other[n]
  BY <1>0, <1>3, LastsAgree
<1> QED
  BY <1>1, <1>2, <1>4, ChainChosen

-----------------------------------------------------------------------------
(* Objects and their promises. *)

ObjectOf(Data) ==
  [contract : Data, fragment : Data, options : Data, populated : Nat, named : Data, parent : Nat]

\* What nothing changes of an object.
Same(fn, old) ==
  /\ fn.contract = old.contract /\ fn.fragment = old.fragment /\ fn.options = old.options
  /\ fn.named = old.named /\ fn.parent = old.parent

LEMMA FunctionFields ==
  ASSUME NEW c, NEW g, NEW o, NEW n, NEW p \in Nat
  PROVE  LET fn == Function(c, g, o, n, p)
         IN  /\ fn.contract = c /\ fn.fragment = g /\ fn.options = o
             /\ fn.named = n /\ fn.parent = p /\ fn.populated = 0
             /\ fn \in ObjectOf({c, g, o, n})
BY DEF Function, ObjectOf

\* A new object, and the one it is made from.
IsFresh(fn) ==
  \/ fn \in Objects(program)
  \/ \E i \in 1..Len(functions), override \in program.overrides :
       fn = Function(functions[i].contract, functions[i].fragment,
                     Refined(functions[i], override), override, i)
  \/ \E i \in 1..Len(functions) : \E c :
       fn = Function(c, functions[i].fragment, functions[i].options, <<>>, i)

FunctionsTyped == Len(functions) \in Nat /\ \E Data : functions \in Seq(ObjectOf(Data))

LEMMA FreshIsObject ==
  ASSUME NEW fn, IsFresh(fn)
  PROVE  fn.populated = 0 /\ \E Data : fn \in ObjectOf(Data)
<1>1. CASE fn \in Objects(program)
  <2>1. PICK c \in program.contracts, g \in program.fragments, given \in program.options :
          fn = Function(c, g, Over(given, NoOptions), given, 0)
    BY <1>1 DEF Objects
  <2>2. fn.populated = 0 /\ fn \in ObjectOf({c, g, Over(given, NoOptions), given})
    BY <2>1, FunctionFields
  <2> QED
    BY <2>2
<1>2. CASE \E i \in 1..Len(functions), override \in program.overrides :
             fn = Function(functions[i].contract, functions[i].fragment,
                           Refined(functions[i], override), override, i)
  <2>1. PICK i \in 1..Len(functions), override \in program.overrides :
          fn = Function(functions[i].contract, functions[i].fragment,
                        Refined(functions[i], override), override, i)
    BY <1>2
  <2> DEFINE Data == {functions[i].contract, functions[i].fragment,
                      Refined(functions[i], override), override}
  <2>2. i \in Nat
    OBVIOUS
  <2>3. fn.populated = 0 /\ fn \in ObjectOf(Data)
    BY <2>1, <2>2, FunctionFields
  <2> QED
    BY <2>3
<1>3. CASE \E i \in 1..Len(functions) : \E c :
             fn = Function(c, functions[i].fragment, functions[i].options, <<>>, i)
  <2>0. PICK i \in 1..Len(functions) : \E c :
          fn = Function(c, functions[i].fragment, functions[i].options, <<>>, i)
    BY <1>3
  <2>1. PICK c : fn = Function(c, functions[i].fragment, functions[i].options, <<>>, i)
    BY <2>0
  <2> DEFINE Data == {c, functions[i].fragment, functions[i].options, <<>>}
  <2>2. i \in Nat
    OBVIOUS
  <2>3. fn.populated = 0 /\ fn \in ObjectOf(Data)
    BY <2>1, <2>2, FunctionFields
  <2> QED
    BY <2>3
<1> QED
  BY <1>1, <1>2, <1>3 DEF IsFresh

\* What a step does to the objects: it adds one, or sets the promise of one, or nothing.
Adds(fn) == functions' = Append(functions, fn) /\ IsFresh(fn) /\ UNCHANGED promises

LEMMA FunctionsChange ==
  ASSUME [Next]_vars
  PROVE  /\ program' = program
         /\ functions' = functions \/ (\E fn : Adds(fn)) \/ (\E i : Sets(i))
<1>1. CASE Create
  <2>1. PICK fn \in Objects(program) : functions' = Append(functions, fn)
    BY <1>1 DEF Create
  <2> QED
    BY <1>1, <2>1 DEF Create, Adds, IsFresh
<1>2. CASE Refine
  <2>1. PICK i \in 1..Len(functions), override \in program.overrides :
          functions' = Append(functions,
            Function(functions[i].contract, functions[i].fragment,
                     Refined(functions[i], override), override, i))
    BY <1>2 DEF Refine
  <2>2. PICK fn : fn = Function(functions[i].contract, functions[i].fragment,
                                Refined(functions[i], override), override, i)
    OBVIOUS
  <2>3. IsFresh(fn)
    BY <2>2 DEF IsFresh
  <2>4. Adds(fn)
    BY <1>2, <2>1, <2>2, <2>3 DEF Refine, Adds
  <2> QED
    BY <1>2, <2>4 DEF Refine
<1>3. CASE Attach
  <2>1. PICK i \in 1..Len(functions), c \in program.contracts :
          functions' = Append(functions,
            Function(c, functions[i].fragment, functions[i].options, <<>>, i))
    BY <1>3 DEF Attach
  <2>2. PICK fn : fn = Function(c, functions[i].fragment, functions[i].options, <<>>, i)
    OBVIOUS
  <2>3. IsFresh(fn)
    BY <2>2 DEF IsFresh
  <2>4. Adds(fn)
    BY <1>3, <2>1, <2>2, <2>3 DEF Attach, Adds
  <2> QED
    BY <1>3, <2>4 DEF Attach
<1>4. CASE Start
  <2>1. PICK i \in 1..Len(functions) : \E op : UNCHANGED functions \/ Populate(i, op = "refresh")
    BY <1>4 DEF Start
  <2>2. UNCHANGED functions \/ Sets(i)
    BY <2>1 DEF Populate, Sets
  <2> QED
    BY <1>4, <2>2 DEF Start
<1>5. CASE SignerAnswers \/ Mine \/ SignerFails \/ UNCHANGED vars
  BY <1>5 DEF SignerAnswers, Mine, SignerFails, vars
<1>6. ASSUME NEW t \in 1..Len(tasks), Goes(t) \/ ConnectionFails(t)
      PROVE  UNCHANGED <<program, functions>>
  BY <1>6 DEF Goes, Continue, ProviderAnswers, NodeAccepts, NodeRefuses, Receive, ConnectionFails
<1> QED
  BY <1>1, <1>2, <1>3, <1>4, <1>5, <1>6 DEF Next, UserStep, Step

\* So objects stay what they are, and at most one is new.
LEMMA FunctionsStay ==
  ASSUME FunctionsTyped, Len(promises) \in Nat, [Next]_vars
  PROVE  /\ FunctionsTyped' /\ program' = program
         /\ Len(functions) <= Len(functions')
         /\ \A i \in 1..Len(functions) : Same(functions'[i], functions[i])
         /\ \A i \in 1..Len(functions') :
              \/ i \in 1..Len(functions)
              \/ i = Len(functions) + 1 /\ IsFresh(functions'[i])
<1>0. program' = program
  BY FunctionsChange
<1>1. CASE functions' = functions
  BY <1>0, <1>1 DEF FunctionsTyped, Same
<1>2. ASSUME NEW fn, Adds(fn)
      PROVE  /\ FunctionsTyped'
             /\ Len(functions') = Len(functions) + 1
             /\ functions'[Len(functions) + 1] = fn /\ IsFresh(fn)
             /\ \A i \in 1..Len(functions) : functions'[i] = functions[i]
  <2>1. PICK Data : functions \in Seq(ObjectOf(Data))
    BY DEF FunctionsTyped
  <2>2. PICK Other : fn \in ObjectOf(Other)
    BY <1>2, FreshIsObject DEF Adds
  <2> DEFINE All == ObjectOf(Data \cup Other)
  <2>3. functions \in Seq(All) /\ fn \in All
    <3>1. ObjectOf(Data) \subseteq All /\ ObjectOf(Other) \subseteq All
      BY DEF ObjectOf
    <3> HIDE DEF All
    <3> QED
      BY <2>1, <2>2, <3>1
  <2>4. functions' = Append(functions, fn) /\ IsFresh(fn)
    BY <1>2 DEF Adds
  <2>5. (functions' \in Seq(All) => \E Some1 : functions' \in Seq(ObjectOf(Some1)))
    OBVIOUS
  <2> HIDE DEF All
  <2>6. /\ functions' \in Seq(All) /\ Len(functions') \in Nat
        /\ Len(functions') = Len(functions) + 1
        /\ functions'[Len(functions) + 1] = fn
        /\ \A i \in 1..Len(functions) : functions'[i] = functions[i]
    BY <2>3, <2>4
  <2> QED
    BY <2>4, <2>5, <2>6 DEF FunctionsTyped
<1>3. ASSUME NEW i, Sets(i)
      PROVE  /\ FunctionsTyped'
             /\ Len(functions') = Len(functions)
             /\ \A j \in 1..Len(functions) : Same(functions'[j], functions[j])
  <2>1. PICK Data : functions \in Seq(ObjectOf(Data))
    BY DEF FunctionsTyped
  <2>2. i \in 1..Len(functions) /\ functions[i] \in ObjectOf(Data)
    BY <1>3, <2>1 DEF Sets
  <2> DEFINE fn == [functions[i] EXCEPT !.populated = Len(promises) + 1]
  <2>3. fn \in ObjectOf(Data) /\ Same(fn, functions[i])
    BY <2>2 DEF ObjectOf, Same
  <2>4. functions' = [functions EXCEPT ![i] = fn]
    BY <1>3 DEF Sets
  <2> HIDE DEF fn
  <2>5. /\ functions' \in Seq(ObjectOf(Data)) /\ Len(functions') = Len(functions)
        /\ functions'[i] = fn
        /\ \A j \in 1..Len(functions) : j # i => functions'[j] = functions[j]
    BY <2>1, <2>2, <2>3, <2>4
  <2> QED
    BY <2>3, <2>5 DEF FunctionsTyped, Same
<1> QED
  BY <1>0, <1>1, <1>2, <1>3, FunctionsChange DEF FunctionsTyped, Same

-----------------------------------------------------------------------------
(* Objects have the options that their chain of calls named last. *)

\* A null passes as undefined.
AsNamed(v, n) == v = n \/ (v = "undefined" /\ n = "null")

Built(fs, i) ==
  /\ \A f \in Fields : AsNamed(fs[i].options[f], Chain(fs, i, f))
  /\ Chain(fs, i, "from") # "0"

FunctionsBuilt ==
  /\ program \in Programs
  /\ FunctionsTyped
  /\ Rooted(functions)
  /\ \A i \in 1..Len(functions) : Built(functions, i)

LEMMA MadeFields ==
  ASSUME NEW c, NEW g, NEW o, NEW n, NEW p, NEW fn, fn = Function(c, g, o, n, p)
  PROVE  fn.options = o /\ fn.named = n /\ fn.parent = p
BY DEF Function

\* An object made from none has the options given, and else none.
LEMMA ObjectIsBuilt ==
  ASSUME program \in Programs, NEW fs, Rooted(fs), NEW i \in 1..Len(fs), fs[i] \in Objects(program)
  PROVE  Built(fs, i)
<1>1. PICK c \in program.contracts, g \in program.fragments, given \in program.options :
        fs[i] = Function(c, g, Over(given, NoOptions), given, 0)
  BY DEF Objects
<1>2. fs[i].options = Over(given, NoOptions) /\ fs[i].named = given /\ fs[i].parent = 0
  BY <1>1, MadeFields
<1>3. ASSUME NEW f \in Fields PROVE fs[i].options[f] = Chain(fs, i, f)
  <2>1. f \in DOMAIN given => Chain(fs, i, f) = given[f]
    BY <1>2, ChainStep
  <2>2. f \notin DOMAIN given => Chain(fs, i, f) = "undefined"
    BY <1>2, ChainStep
  <2>3. fs[i].options[f] = IF f \in DOMAIN given THEN given[f] ELSE "undefined"
    BY <1>2 DEF Over, NoOptions
  <2> QED
    BY <2>1, <2>2, <2>3
<1>4. Chain(fs, i, "from") # "0"
  <2>1. "from" \in DOMAIN given => given["from"] # "0"
    BY ProgramsAssumption
  <2>2. "from" \in DOMAIN given => Chain(fs, i, "from") = given["from"]
    BY <1>2, ChainStep
  <2>3. "from" \notin DOMAIN given => Chain(fs, i, "from") = "undefined"
    BY <1>2, ChainStep
  <2> QED
    BY <2>1, <2>2, <2>3
<1> QED
  BY <1>3, <1>4 DEF Built, AsNamed

\* An object made from another has what the call names, and else what the other has.
LEMMA FreshIsBuilt ==
  ASSUME FunctionsBuilt, NEW fs, Rooted(fs), Len(functions) <= Len(fs),
         \A i \in 1..Len(functions) : Same(fs[i], functions[i]),
         NEW n \in 1..Len(fs), IsFresh(fs[n])
  PROVE  Built(fs, n)
<1>1. CASE fs[n] \in Objects(program)
  BY <1>1, ObjectIsBuilt DEF FunctionsBuilt
<1>2. ASSUME NEW i \in 1..Len(functions) PROVE Built(fs, i)
  <2>1. Rooted(functions)
    BY DEF FunctionsBuilt
  <2>2. \A k \in 1..Len(functions) :
          functions[k].named = fs[k].named /\ functions[k].parent = fs[k].parent
    BY DEF Same
  <2>3. \A f : Chain(fs, i, f) = Chain(functions, i, f)
    BY <2>1, <2>2, ChainStays
  <2>4. fs[i].options = functions[i].options
    BY DEF Same
  <2> QED
    BY <2>3, <2>4 DEF FunctionsBuilt, Built
<1>3. ASSUME NEW i \in 1..Len(functions), NEW override \in program.overrides,
             fs[n] = Function(functions[i].contract, functions[i].fragment,
                              Refined(functions[i], override), override, i)
      PROVE  Built(fs, n)
  <2>1. i \in Nat /\ i # 0
    OBVIOUS
  <2>2. fs[n].options = Refined(functions[i], override) /\ fs[n].named = override
          /\ fs[n].parent = i
    BY <1>3, <2>1, MadeFields
  <2>3. ASSUME NEW f PROVE
          /\ f \in DOMAIN override => Chain(fs, n, f) = override[f]
          /\ f \notin DOMAIN override => Chain(fs, n, f) = Chain(fs, i, f)
    BY <2>1, <2>2, ChainStep
  <2>4. Built(fs, i) /\ fs[i].options = functions[i].options
    BY <1>2 DEF Same
  <2>5. ASSUME NEW f \in Fields PROVE AsNamed(fs[n].options[f], Chain(fs, n, f))
    <3>1. fs[n].options[f] = Property(IF f \in DOMAIN override THEN override[f]
                                      ELSE functions[i].options[f])
      BY <2>2 DEF Refined, Over
    <3>2. AsNamed(functions[i].options[f], Chain(fs, i, f))
      BY <2>4 DEF Built
    <3> QED
      BY <2>3, <3>1, <3>2 DEF Property, AsNamed
  <2>6. "from" \in DOMAIN override => override["from"] # "0"
    BY ProgramsAssumption DEF FunctionsBuilt
  <2>7. Chain(fs, n, "from") # "0"
    BY <2>3, <2>4, <2>6 DEF Built
  <2> QED
    BY <2>5, <2>7 DEF Built
<1>4. ASSUME NEW i \in 1..Len(functions), NEW c,
             fs[n] = Function(c, functions[i].fragment, functions[i].options, <<>>, i)
      PROVE  Built(fs, n)
  <2>1. i \in Nat /\ i # 0
    OBVIOUS
  <2>2. fs[n].options = functions[i].options /\ fs[n].named = <<>> /\ fs[n].parent = i
    BY <1>4, <2>1, MadeFields
  <2>3. ASSUME NEW f PROVE f \notin DOMAIN fs[n].named
    BY <2>2
  <2>4. \A f : Chain(fs, n, f) = Chain(fs, i, f)
    BY <2>1, <2>2, <2>3, ChainStep
  <2>5. Built(fs, i) /\ fs[i].options = functions[i].options
    BY <1>2 DEF Same
  <2> QED
    BY <2>2, <2>4, <2>5 DEF Built
<1> QED
  BY <1>1, <1>3, <1>4 DEF IsFresh

\* It is made from one that was there.
LEMMA FreshIsRooted ==
  ASSUME Len(functions) \in Nat, NEW fn, IsFresh(fn)
  PROVE  fn.parent \in 0..Len(functions)
<1>1. CASE fn \in Objects(program)
  <2>1. PICK c, g, given : fn = Function(c, g, Over(given, NoOptions), given, 0)
    BY <1>1 DEF Objects
  <2>2. fn.parent = 0
    BY <2>1, MadeFields
  <2> QED
    BY <2>2
<1>2. ASSUME NEW i \in 1..Len(functions), NEW c, NEW g, NEW o, NEW n,
             fn = Function(c, g, o, n, i)
      PROVE  fn.parent \in 0..Len(functions)
  <2>1. i \in Nat
    OBVIOUS
  <2>2. fn.parent = i
    BY <1>2, <2>1, MadeFields
  <2> QED
    BY <2>2
<1> QED
  BY <1>1, <1>2 DEF IsFresh

LEMMA FunctionsBuiltInit == Init => FunctionsBuilt
<1> SUFFICES ASSUME Init PROVE FunctionsBuilt
  OBVIOUS
<1>1. program \in Programs /\ functions = program.made
  BY DEF Init
<1>2. functions \in Seq(Objects(program))
  BY <1>1, ProgramsAssumption
<1>3. Len(functions) \in Nat /\ \A i \in 1..Len(functions) : functions[i] \in Objects(program)
  BY <1>2
<1>4. Rooted(functions)
  <2>1. ASSUME NEW i \in 1..Len(functions) PROVE functions[i].parent = 0
    <3>1. PICK c, g, given : functions[i] = Function(c, g, Over(given, NoOptions), given, 0)
      BY <1>3 DEF Objects
    <3> QED
      BY <3>1, MadeFields
  <2> QED
    BY <1>3, <2>1 DEF Rooted
<1>5. \A i \in 1..Len(functions) : Built(functions, i)
  BY <1>1, <1>3, <1>4, ObjectIsBuilt
<1>6. FunctionsTyped
  <2> DEFINE Data == program.contracts \cup program.fragments \cup program.options
                       \cup {Over(given, NoOptions) : given \in program.options}
  <2>1. Objects(program) \subseteq ObjectOf(Data)
    <3>1. ASSUME NEW c \in program.contracts, NEW g \in program.fragments,
                 NEW given \in program.options
          PROVE  Function(c, g, Over(given, NoOptions), given, 0) \in ObjectOf(Data)
      BY DEF Function, ObjectOf
    <3> QED
      BY <3>1 DEF Objects
  <2> HIDE DEF Data
  <2>2. functions \in Seq(ObjectOf(Data))
    BY <1>2, <2>1
  <2> QED
    BY <1>3, <2>2 DEF FunctionsTyped
<1> QED
  BY <1>1, <1>4, <1>5, <1>6 DEF FunctionsBuilt

LEMMA FunctionsBuiltStep ==
  ASSUME FunctionsBuilt, Len(promises) \in Nat, [Next]_vars
  PROVE  FunctionsBuilt'
<1>0. FunctionsTyped /\ Rooted(functions)
  BY DEF FunctionsBuilt
<1>1. /\ FunctionsTyped' /\ program' = program
      /\ Len(functions) <= Len(functions')
      /\ \A i \in 1..Len(functions) : Same(functions'[i], functions[i])
      /\ \A i \in 1..Len(functions') :
           \/ i \in 1..Len(functions)
           \/ i = Len(functions) + 1 /\ IsFresh(functions'[i])
  BY <1>0, FunctionsStay
<1>2. PICK fs : fs = functions'
  OBVIOUS
<1>3. Len(functions) \in Nat /\ Len(fs) \in Nat
  BY <1>1, <1>2, <1>0 DEF FunctionsTyped
<1>4. Rooted(fs)
  <2>1. ASSUME NEW i \in 1..Len(fs) PROVE fs[i].parent \in 0..(i - 1)
    <3>1. CASE i \in 1..Len(functions)
      BY <1>0, <1>1, <1>2, <3>1 DEF Rooted, Same
    <3>2. CASE i \notin 1..Len(functions)
      <4>1. i = Len(functions) + 1 /\ IsFresh(fs[i])
        BY <1>1, <1>2, <3>2
      <4>2. fs[i].parent \in 0..Len(functions)
        BY <1>3, <4>1, FreshIsRooted
      <4> QED
        BY <1>3, <4>1, <4>2
    <3> QED
      BY <3>1, <3>2
  <2> QED
    BY <1>3, <2>1 DEF Rooted
<1>5. ASSUME NEW i \in 1..Len(fs) PROVE Built(fs, i)
  <2>1. CASE i \in 1..Len(functions)
    <3>1. \A k \in 1..Len(functions) :
            functions[k].named = fs[k].named /\ functions[k].parent = fs[k].parent
      BY <1>1, <1>2 DEF Same
    <3>2. Len(functions) <= Len(fs)
      BY <1>1, <1>2
    <3>3. \A f : Chain(fs, i, f) = Chain(functions, i, f)
      BY <1>0, <1>4, <2>1, <3>1, <3>2, ChainStays
    <3>4. fs[i].options = functions[i].options
      BY <1>1, <1>2, <2>1 DEF Same
    <3> QED
      BY <2>1, <3>3, <3>4 DEF FunctionsBuilt, Built
  <2>2. CASE i \notin 1..Len(functions)
    <3>1. IsFresh(fs[i]) /\ Len(functions) <= Len(fs)
            /\ \A k \in 1..Len(functions) : Same(fs[k], functions[k])
      BY <1>1, <1>2, <2>2
    <3> QED
      BY <1>4, <3>1, FreshIsBuilt
  <2> QED
    BY <2>1, <2>2
<1>6. program' \in Programs
  BY <1>1 DEF FunctionsBuilt
<1> QED
  BY <1>1, <1>2, <1>4, <1>5, <1>6 DEF FunctionsBuilt

-----------------------------------------------------------------------------
(* What a step does to the tasks. *)

\* What nothing changes of a task.
Kept(task, old) ==
  task.op = old.op /\ task.fn = old.fn /\ task.promise = old.promise /\ task.before = old.before

\* What the node answers to the query of task t.
AnswerTo(t) == IF Fragment(t).asks = "" THEN "none" ELSE Answer(rules, Fragment(t).asks)

\* It starts one, or one that is not settled goes on; a call that is done has its answer.
Begins(task) ==
  /\ tasks' = Append(tasks, task)
  /\ task.fn \in 1..Len(functions) /\ task.before = SettledTasks
  /\ task.state \in {"failed", "populating"}
  /\ TakesPromise(task.fn, task.promise)
GoesOn(t) ==
  /\ t \in 1..Len(tasks) /\ ~Settled(t)
  /\ Len(tasks') = Len(tasks)
  /\ \A u \in 1..Len(tasks) : u # t => tasks'[u] = tasks[u]
  /\ Kept(tasks'[t], tasks[t])
  /\ tasks[t].op = "call" /\ tasks'[t].state = "done" => tasks'[t].answer = AnswerTo(t)

LEMMA ToKeeps ==
  ASSUME Typed, NEW t \in 1..Len(tasks), NEW state, To(t, state)
  PROVE  /\ Len(tasks') = Len(tasks)
         /\ \A u \in 1..Len(tasks) : u # t => tasks'[u] = tasks[u]
         /\ Kept(tasks'[t], tasks[t]) /\ tasks'[t].state = state
<1>1. PICK Data : tasks \in Seq(TaskOf(Data))
  BY DEF Typed
<1>2. tasks[t] \in TaskOf(Data)
  BY <1>1
<1> DEFINE turned == [tasks[t] EXCEPT !.state = state]
<1>3. Kept(turned, tasks[t]) /\ turned.state = state
  BY <1>2 DEF TaskOf, Kept
<1>4. tasks' = [tasks EXCEPT ![t] = turned]
  BY DEF To
<1> HIDE DEF turned
<1>5. Len(tasks') = Len(tasks) /\ tasks'[t] = turned
        /\ \A u \in 1..Len(tasks) : u # t => tasks'[u] = tasks[u]
  BY <1>1, <1>4
<1> QED
  BY <1>3, <1>5

LEMMA AnswerKeeps ==
  ASSUME Typed, NEW t \in 1..Len(tasks), NEW answer, AnswersWith(t, answer)
  PROVE  /\ Len(tasks') = Len(tasks)
         /\ \A u \in 1..Len(tasks) : u # t => tasks'[u] = tasks[u]
         /\ Kept(tasks'[t], tasks[t]) /\ tasks'[t].state = "done" /\ tasks'[t].answer = answer
<1>1. PICK Data : tasks \in Seq(TaskOf(Data))
  BY DEF Typed
<1>2. tasks[t] \in TaskOf(Data)
  BY <1>1
<1> DEFINE turned == [[tasks[t] EXCEPT !.state = "done"] EXCEPT !.answer = answer]
<1>3. Kept(turned, tasks[t]) /\ turned.state = "done" /\ turned.answer = answer
  BY <1>2 DEF TaskOf, Kept
<1>4. tasks' = [tasks EXCEPT ![t] = turned]
  BY <1>1 DEF AnswersWith
<1> HIDE DEF turned
<1>5. Len(tasks') = Len(tasks) /\ tasks'[t] = turned
        /\ \A u \in 1..Len(tasks) : u # t => tasks'[u] = tasks[u]
  BY <1>1, <1>4
<1> QED
  BY <1>3, <1>5

LEMMA TasksChange ==
  ASSUME Receipts, [Next]_vars
  PROVE  tasks' = tasks \/ (\E task : Begins(task)) \/ (\E t : GoesOn(t))
<1> USE DEF Receipts
<1>1. CASE Create \/ Refine \/ Attach \/ SignerAnswers \/ SignerFails \/ Mine \/ UNCHANGED vars
  BY <1>1 DEF Create, Refine, Attach, SignerAnswers, SignerFails, Mine, vars
<1>2. CASE Start
  <2>1. PICK i \in 1..Len(functions), op \in Ops, state \in {"failed", "populating"} : \E promise :
          tasks' = Append(tasks, TaskFor(op, i, promise, state)) /\ TakesPromise(i, promise)
    BY <1>2, StartBegins
  <2>2. PICK promise :
          tasks' = Append(tasks, TaskFor(op, i, promise, state)) /\ TakesPromise(i, promise)
    BY <2>1
  <2>3. PICK task : task = TaskFor(op, i, promise, state)
    OBVIOUS
  <2>4. /\ task.fn = i /\ task.promise = promise
        /\ task.before = SettledTasks /\ task.state = state
    BY <2>3 DEF TaskFor
  <2>5. Begins(task)
    BY <2>2, <2>3, <2>4 DEF Begins
  <2> QED
    BY <2>5
<1>3. ASSUME NEW t \in 1..Len(tasks), NEW state, To(t, state), ~Settled(t),
             tasks[t].op = "call" => state # "done"
      PROVE  GoesOn(t)
  BY <1>3, ToKeeps DEF GoesOn
<1>4. ASSUME NEW t \in 1..Len(tasks), Continue(t) PROVE GoesOn(t)
  <2>1. tasks[t].state = "populating"
    BY <1>4 DEF Continue, PromiseIs
  <2>2. PICK state : To(t, state) /\ (tasks[t].op = "call" => state # "done")
    BY <1>4 DEF Continue
  <2> QED
    BY <1>3, <2>1, <2>2 DEF Settled
<1>5. ASSUME NEW t \in 1..Len(tasks), ProviderAnswers(t) PROVE GoesOn(t)
  <2>1. tasks[t].state = "asking"
    BY <1>5 DEF ProviderAnswers
  <2>2. PICK answer : AnswersWith(t, answer) /\ (tasks[t].op = "call" => answer = AnswerTo(t))
    BY <1>5 DEF ProviderAnswers, AnswersWith, AnswerTo
  <2> QED
    BY <2>1, <2>2, AnswerKeeps DEF GoesOn, Settled
<1>6. ASSUME NEW t \in 1..Len(tasks), NodeAccepts(t) PROVE GoesOn(t)
  <2>1. tasks[t].state = "sending" /\ Sends(tasks[t].op)
    BY <1>6 DEF NodeAccepts, Outcome
  <2>2. PICK state : To(t, state)
    BY <1>6 DEF NodeAccepts
  <2> QED
    BY <1>3, <2>1, <2>2 DEF Settled, Sends
<1>7. ASSUME NEW t \in 1..Len(tasks), NodeRefuses(t) \/ ConnectionFails(t) PROVE GoesOn(t)
  BY <1>3, <1>7 DEF NodeRefuses, ConnectionFails, Settled
<1>8. ASSUME NEW t \in 1..Len(tasks), Receive(t) PROVE GoesOn(t)
  <2>1. PICK k \in 1..Len(mined) :
          mined[k].task = t /\ To(t, IF mined[k].ok THEN "done" ELSE "failed")
    BY <1>8 DEF Receive
  <2>2. Sends(tasks[t].op)
    BY <2>1 DEF Ledger, Accepted
  <2>3. tasks[t].state = "waiting"
    BY <1>8 DEF Receive
  <2> QED
    BY <1>3, <2>1, <2>2, <2>3 DEF Settled, Sends
<1> QED
  BY <1>1, <1>2, <1>4, <1>5, <1>6, <1>7, <1>8 DEF Next, UserStep, Step, Goes

-----------------------------------------------------------------------------
(* Promises of populated transactions. *)

PromiseFor(Data) == [fn : Data, state : Data, tx : Data]
PromisesTyped == Len(promises) \in Nat /\ \E Data : promises \in Seq(PromiseFor(Data))

\* A promise is kept with the transaction of the object that made it.
Promised(p) ==
  /\ promises[p].fn \in 1..Len(functions)
  /\ promises[p].state = "resolved" => promises[p].tx = Populated(functions[promises[p].fn])
IsPromiseOf(p, i) == p \in 1..Len(promises) /\ promises[p].fn = i

PromisesOwn ==
  /\ PromisesTyped
  /\ \A p \in 1..Len(promises) : Promised(p)
  /\ \A i \in 1..Len(functions) :
       functions[i].populated # 0 => IsPromiseOf(functions[i].populated, i)
  /\ \A t \in 1..Len(tasks) :
       /\ tasks[t].fn \in 1..Len(functions)
       /\ tasks[t].promise # 0 => IsPromiseOf(tasks[t].promise, tasks[t].fn)

\* The signer's answer, or its failure.
Fulfils(p) ==
  /\ p \in 1..Len(promises) /\ functions' = functions
  /\ \/ promises' = [promises EXCEPT ![p].state = "rejected"]
     \/ promises' = [promises EXCEPT ![p].state = "resolved",
                                     ![p].tx = Populated(functions[promises[p].fn])]

LEMMA PromisesChange ==
  ASSUME [Next]_vars
  PROVE  promises' = promises \/ (\E i : Sets(i)) \/ (\E p : Fulfils(p))
<1>1. CASE Start
  <2>1. PICK i : \E promise : TakesPromise(i, promise)
    BY <1>1, StartBegins
  <2> QED
    BY <2>1 DEF TakesPromise
<1>2. CASE SignerAnswers
  BY <1>2 DEF SignerAnswers, Fulfils
<1>3. CASE SignerFails
  BY <1>3 DEF SignerFails, Fulfils
<1>4. CASE Create \/ Refine \/ Attach \/ Mine \/ UNCHANGED vars
  BY <1>4 DEF Create, Refine, Attach, Mine, vars
<1>5. ASSUME NEW t \in 1..Len(tasks), Goes(t) \/ ConnectionFails(t) PROVE promises' = promises
  BY <1>5 DEF Goes, Continue, ProviderAnswers, NodeAccepts, NodeRefuses, Receive, ConnectionFails
<1> QED
  BY <1>1, <1>2, <1>3, <1>4, <1>5 DEF Next, UserStep, Step

\* So promises stay those of their objects, and at most one is new.
LEMMA PromisesStay ==
  ASSUME PromisesTyped, [Next]_vars
  PROVE  /\ PromisesTyped'
         /\ Len(promises) <= Len(promises')
         /\ \A p \in 1..Len(promises) :
              /\ promises'[p].fn = promises[p].fn
              /\ \/ promises'[p] = promises[p]
                 \/ promises'[p].state = "rejected"
                 \/ promises'[p].tx = Populated(functions[promises[p].fn])
         /\ \A p \in 1..Len(promises') :
              \/ p \in 1..Len(promises)
              \/ p = Len(promises) + 1 /\ \E i : Sets(i)
         /\ \A i : Sets(i) =>
              /\ Len(promises) + 1 \in 1..Len(promises')
              /\ promises'[Len(promises) + 1] = Executed(i)
<1>0. PICK Data : promises \in Seq(PromiseFor(Data))
  BY DEF PromisesTyped
<1>1. ASSUME NEW i, Sets(i)
      PROVE  /\ PromisesTyped'
             /\ Len(promises') = Len(promises) + 1
             /\ promises'[Len(promises) + 1] = Executed(i)
             /\ \A p \in 1..Len(promises) : promises'[p] = promises[p]
  <2>1. promises' = Append(promises, Executed(i))
    BY <1>1 DEF Sets
  <2> DEFINE More == Data \cup {Executed(i).fn, Executed(i).state, Executed(i).tx}
             All == PromiseFor(More)
  <2>2. Executed(i) \in All
    BY DEF Executed, PromiseFor
  <2>3. promises \in Seq(All)
    <3>1. PromiseFor(Data) \subseteq All
      BY DEF PromiseFor
    <3> HIDE DEF All
    <3> QED
      BY <1>0, <3>1
  <2>4. promises' \in Seq(All) => \E Other : promises' \in Seq(PromiseFor(Other))
    OBVIOUS
  <2> HIDE DEF All
  <2>5. /\ promises' \in Seq(All) /\ Len(promises') = Len(promises) + 1
        /\ Len(promises') \in Nat
        /\ promises'[Len(promises) + 1] = Executed(i)
        /\ \A p \in 1..Len(promises) : promises'[p] = promises[p]
    BY <2>1, <2>2, <2>3
  <2> QED
    BY <2>4, <2>5 DEF PromisesTyped
<1>2. ASSUME NEW p \in 1..Len(promises), NEW promise, NEW More,
             promise \in PromiseFor(Data \cup More), promises' = [promises EXCEPT ![p] = promise]
      PROVE  /\ PromisesTyped'
             /\ Len(promises') = Len(promises) /\ promises'[p] = promise
             /\ \A q \in 1..Len(promises) : q # p => promises'[q] = promises[q]
  <2> DEFINE All == PromiseFor(Data \cup More)
  <2>1. promise \in All
    BY <1>2
  <2>2. promises \in Seq(All)
    <3>1. PromiseFor(Data) \subseteq All
      BY DEF PromiseFor
    <3> HIDE DEF All
    <3> QED
      BY <1>0, <3>1
  <2>3. promises' \in Seq(All) => \E Other : promises' \in Seq(PromiseFor(Other))
    OBVIOUS
  <2> HIDE DEF All
  <2>4. /\ promises' \in Seq(All) /\ Len(promises') = Len(promises) /\ promises'[p] = promise
        /\ Len(promises') \in Nat
        /\ \A q \in 1..Len(promises) : q # p => promises'[q] = promises[q]
    BY <1>2, <2>1, <2>2
  <2> QED
    BY <2>3, <2>4 DEF PromisesTyped
<1>3. ASSUME NEW p, Fulfils(p)
      PROVE  /\ PromisesTyped'
             /\ Len(promises') = Len(promises)
             /\ \A q \in 1..Len(promises) : q # p => promises'[q] = promises[q]
             /\ promises'[p].fn = promises[p].fn
             /\ \/ promises'[p].state = "rejected"
                \/ promises'[p].tx = Populated(functions[promises[p].fn])
  <2>0. p \in 1..Len(promises) /\ promises[p] \in PromiseFor(Data)
    BY <1>0, <1>3 DEF Fulfils
  <2>1. CASE promises' = [promises EXCEPT ![p].state = "rejected"]
    <3> DEFINE promise == [promises[p] EXCEPT !.state = "rejected"]
    <3>1. promise \in PromiseFor(Data \cup {"rejected"}) /\ promise.fn = promises[p].fn
            /\ promise.state = "rejected"
      BY <2>0 DEF PromiseFor
    <3>2. promises' = [promises EXCEPT ![p] = promise]
      BY <2>1
    <3> HIDE DEF promise
    <3> QED
      BY <1>2, <2>0, <3>1, <3>2
  <2>2. ASSUME NEW tx, tx = Populated(functions[promises[p].fn]),
               promises' = [promises EXCEPT ![p].state = "resolved", ![p].tx = tx]
        PROVE  /\ PromisesTyped'
               /\ Len(promises') = Len(promises)
               /\ \A q \in 1..Len(promises) : q # p => promises'[q] = promises[q]
               /\ promises'[p].fn = promises[p].fn
               /\ promises'[p].tx = tx
    <3> DEFINE promise == [[promises[p] EXCEPT !.state = "resolved"] EXCEPT !.tx = tx]
    <3>1. promise \in PromiseFor(Data \cup {"resolved", tx}) /\ promise.fn = promises[p].fn
            /\ promise.tx = tx
      BY <2>0 DEF PromiseFor
    <3>2. promises' = [promises EXCEPT ![p] = promise]
      BY <1>0, <2>0, <2>2
    <3> HIDE DEF promise
    <3> QED
      BY <1>2, <2>0, <3>1, <3>2
  <2> QED
    BY <1>3, <2>1, <2>2 DEF Fulfils
<1>4. Len(promises) \in Nat
  BY DEF PromisesTyped
<1>5. CASE promises' = promises
  <2>1. ASSUME NEW i, Sets(i) PROVE FALSE
    BY <1>1, <1>4, <1>5, <2>1
  <2> QED
    BY <1>4, <1>5, <2>1 DEF PromisesTyped
<1>6. CASE \E i : Sets(i)
  BY <1>1, <1>4, <1>6
<1>7. ASSUME NEW p, Fulfils(p), NEW i, Sets(i) PROVE FALSE
  BY <1>1, <1>3, <1>4, <1>7
<1> QED
  BY <1>3, <1>4, <1>5, <1>6, <1>7, PromisesChange

LEMMA PopulatedStays ==
  ASSUME FunctionsTyped, Len(promises) \in Nat, [Next]_vars, NEW i \in 1..Len(functions)
  PROVE  \/ functions'[i].populated = functions[i].populated
         \/ functions'[i].populated = Len(promises) + 1 /\ Sets(i)
<1>0. PICK Data : functions \in Seq(ObjectOf(Data))
  BY DEF FunctionsTyped
<1>1. ASSUME NEW fn, Adds(fn) PROVE functions'[i] = functions[i]
  BY <1>0, <1>1 DEF Adds
<1>2. ASSUME NEW j, Sets(j), j # i PROVE functions'[i] = functions[i]
  BY <1>0, <1>2 DEF Sets
<1>3. ASSUME Sets(i) PROVE functions'[i].populated = Len(promises) + 1
  <2> DEFINE fn == [functions[i] EXCEPT !.populated = Len(promises) + 1]
  <2>1. functions[i] \in ObjectOf(Data)
    BY <1>0
  <2>2. fn.populated = Len(promises) + 1
    BY <2>1 DEF ObjectOf
  <2>3. functions' = [functions EXCEPT ![i] = fn]
    BY <1>3 DEF Sets
  <2> HIDE DEF fn
  <2>4. functions'[i] = fn
    BY <1>0, <2>3
  <2> QED
    BY <2>2, <2>4
<1> QED
  BY <1>1, <1>2, <1>3, FunctionsChange

\* The transaction is made from what never changes of an object.
LEMMA PopulatedSame ==
  ASSUME NEW fn, NEW old, Same(fn, old)
  PROVE  Populated(fn) = Populated(old)
BY DEF Same, Populated, IsConstructor, AsksSigner

LEMMA PromisesOwnInit == Init => PromisesOwn
<1> SUFFICES ASSUME Init PROVE PromisesOwn
  OBVIOUS
<1>1. promises = <<>> /\ tasks = <<>> /\ FunctionsBuilt /\ functions = program.made
        /\ program \in Programs
  BY FunctionsBuiltInit DEF Init
<1>2. PromisesTyped
  <2>1. <<>> \in Seq(PromiseFor({}))
    OBVIOUS
  <2> QED
    BY <1>1, <2>1 DEF PromisesTyped
<1>3. ASSUME NEW i \in 1..Len(functions) PROVE functions[i].populated = 0
  <2>1. functions[i] \in Objects(program)
    <3>1. functions \in Seq(Objects(program))
      BY <1>1, ProgramsAssumption
    <3> QED
      BY <3>1
  <2> QED
    BY <2>1, FreshIsObject DEF IsFresh
<1> QED
  BY <1>1, <1>2, <1>3 DEF PromisesOwn

LEMMA PromisesOwnStep ==
  ASSUME Receipts, FunctionsTyped, PromisesOwn, [Next]_vars
  PROVE  PromisesOwn'
<1>0. /\ PromisesTyped /\ Len(promises) \in Nat /\ Len(functions) \in Nat
      /\ PromisesTyped'
  BY PromisesStay DEF PromisesOwn, PromisesTyped, FunctionsTyped
<1>1. PICK fs, ps, ts : fs = functions' /\ ps = promises' /\ ts = tasks'
  OBVIOUS
<1>2. /\ Len(functions) <= Len(fs) /\ Len(fs) \in Nat
      /\ \A i \in 1..Len(functions) : Same(fs[i], functions[i])
      /\ \A i \in 1..Len(fs) :
           i \in 1..Len(functions) \/ (i = Len(functions) + 1 /\ IsFresh(fs[i]))
  BY <1>0, <1>1, FunctionsStay DEF FunctionsTyped
<1>3. /\ Len(promises) <= Len(ps) /\ Len(ps) \in Nat
      /\ \A p \in 1..Len(promises) :
           /\ ps[p].fn = promises[p].fn
           /\ \/ ps[p] = promises[p]
              \/ ps[p].state = "rejected"
              \/ ps[p].tx = Populated(functions[promises[p].fn])
      /\ \A p \in 1..Len(ps) :
           p \in 1..Len(promises) \/ (p = Len(promises) + 1 /\ \E i : Sets(i))
      /\ \A i : Sets(i) => /\ Len(promises) + 1 \in 1..Len(ps)
                           /\ ps[Len(promises) + 1] = Executed(i)
  BY <1>0, <1>1, PromisesStay DEF PromisesTyped
<1>4. ASSUME NEW i, NEW promise, promise = Executed(i)
      PROVE  promise.fn = i /\ (promise.state = "resolved" => promise.tx = Populated(functions[i]))
  BY <1>4 DEF Executed
<1>5. ASSUME NEW i \in 1..Len(functions)
      PROVE  i \in 1..Len(fs) /\ Populated(fs[i]) = Populated(functions[i])
  <2>1. i \in 1..Len(fs)
    BY <1>0, <1>2
  <2>2. Same(fs[i], functions[i])
    BY <1>2
  <2> QED
    BY <2>1, <2>2, PopulatedSame
<1>6. ASSUME NEW p \in 1..Len(ps)
      PROVE  /\ ps[p].fn \in 1..Len(fs)
             /\ ps[p].state = "resolved" => ps[p].tx = Populated(fs[ps[p].fn])
  <2>1. CASE p \in 1..Len(promises)
    <3>1. promises[p].fn \in 1..Len(functions)
            /\ (promises[p].state = "resolved" =>
                  promises[p].tx = Populated(functions[promises[p].fn]))
      BY <2>1 DEF PromisesOwn, Promised
    <3> QED
      BY <1>3, <1>5, <2>1, <3>1
  <2>2. CASE p \notin 1..Len(promises)
    <3>1. PICK i : Sets(i) /\ ps[p] = Executed(i)
      BY <1>3, <2>2
    <3>2. i \in 1..Len(functions)
      BY <3>1 DEF Sets
    <3>3. ps[p].fn = i /\ (ps[p].state = "resolved" => ps[p].tx = Populated(functions[i]))
      BY <1>4, <3>1
    <3> QED
      BY <1>5, <3>2, <3>3
  <2> QED
    BY <2>1, <2>2
<1>7. ASSUME NEW p, NEW i, IsPromiseOf(p, i) PROVE p \in 1..Len(ps) /\ ps[p].fn = i
  BY <1>0, <1>3, <1>7 DEF IsPromiseOf
<1>8. ASSUME NEW i, Sets(i)
      PROVE  Len(promises) + 1 \in 1..Len(ps) /\ ps[Len(promises) + 1].fn = i
  BY <1>3, <1>4, <1>8
<1>9. ASSUME NEW i \in 1..Len(fs), fs[i].populated # 0
      PROVE  fs[i].populated \in 1..Len(ps) /\ ps[fs[i].populated].fn = i
  <2>1. CASE i \in 1..Len(functions)
    <3>1. CASE fs[i].populated = functions[i].populated
      <4>1. IsPromiseOf(functions[i].populated, i)
        BY <1>9, <2>1, <3>1 DEF PromisesOwn
      <4> QED
        BY <1>7, <3>1, <4>1
    <3>2. CASE fs[i].populated = Len(promises) + 1 /\ Sets(i)
      BY <1>8, <3>2
    <3> QED
      BY <1>0, <1>1, <2>1, <3>1, <3>2, PopulatedStays
  <2>2. CASE i \notin 1..Len(functions)
    BY <1>2, <1>9, <2>2, FreshIsObject
  <2> QED
    BY <2>1, <2>2
<1>10. ASSUME NEW t \in 1..Len(tasks), NEW task, task.fn = tasks[t].fn,
              task.promise = tasks[t].promise
       PROVE  /\ task.fn \in 1..Len(fs)
              /\ task.promise # 0 => task.promise \in 1..Len(ps) /\ ps[task.promise].fn = task.fn
  <2>1. tasks[t].fn \in 1..Len(functions)
          /\ (tasks[t].promise # 0 => IsPromiseOf(tasks[t].promise, tasks[t].fn))
    BY DEF PromisesOwn
  <2> QED
    BY <1>5, <1>7, <1>10, <2>1
<1>11. ASSUME NEW t \in 1..Len(ts)
       PROVE  /\ ts[t].fn \in 1..Len(fs)
              /\ ts[t].promise # 0 =>
                   ts[t].promise \in 1..Len(ps) /\ ps[ts[t].promise].fn = ts[t].fn
  <2>1. CASE tasks' = tasks
    BY <1>1, <1>10, <2>1
  <2>2. ASSUME NEW u, GoesOn(u)
        PROVE  t \in 1..Len(tasks) /\ ts[t].fn = tasks[t].fn /\ ts[t].promise = tasks[t].promise
    <3>1. t \in 1..Len(tasks)
      BY <1>1, <2>2 DEF GoesOn
    <3> QED
      BY <1>1, <2>2, <3>1 DEF GoesOn, Kept
  <2>3. ASSUME NEW task, Begins(task) PROVE \/ t \in 1..Len(tasks) /\ ts[t] = tasks[t]
                                            \/ ts[t] = task
    <3>1. PICK Data : tasks \in Seq(TaskOf(Data))
      BY DEF Receipts, Typed
    <3>2. tasks' = Append(tasks, task)
      BY <2>3 DEF Begins
    <3> QED
      BY <1>1, <3>1, <3>2
  <2>4. ASSUME NEW task, Begins(task)
        PROVE  /\ task.fn \in 1..Len(fs)
               /\ task.promise # 0 =>
                    task.promise \in 1..Len(ps) /\ ps[task.promise].fn = task.fn
    <3>1. task.fn \in 1..Len(functions) /\ TakesPromise(task.fn, task.promise)
      BY <2>4 DEF Begins
    <3>2. CASE task.promise # 0 /\ task.promise = functions[task.fn].populated
      <4>1. IsPromiseOf(task.promise, task.fn)
        BY <3>1, <3>2 DEF PromisesOwn
      <4> QED
        BY <1>5, <1>7, <3>1, <4>1
    <3> QED
      BY <1>5, <1>8, <3>1, <3>2 DEF TakesPromise
  <2> QED
    BY <1>10, <2>1, <2>2, <2>3, <2>4, TasksChange
<1> QED
  BY <1>0, <1>1, <1>6, <1>9, <1>11 DEF PromisesOwn, Promised, IsPromiseOf

LEMMA NamedIsChain ==
  ASSUME NEW i, NEW f
  PROVE  NamedLast(i, f) = Chain(functions, i, f)
BY DEF NamedLast, Chain

SentInv == Receipts /\ FunctionsBuilt /\ PromisesOwn

\* What the property says of a transaction of object i.
SentBy(i, tx) ==
  LET Named(f) == NamedLast(i, f)
  IN  /\ \A f \in {"nonce", "gas", "price"} :
           tx[f] = IF Named(f) \in {"undefined", "null", "0"} THEN "none" ELSE Named(f)
      /\ tx.value = IF IsConstructor(functions[i])
                       \/ Named("value") \in {"undefined", "null", "0"}
                    THEN "none" ELSE Named("value")
      /\ tx.type = IF Named("type") \in {"undefined", "null"} THEN "none" ELSE Named("type")
      /\ Named("from") \notin {"undefined", "null"} => tx.from = Named("from")
      /\ (Named("from") = "undefined" /\ functions[i].contract.signer) => tx.from = "signer"

\* What an object with the options named last sends.
LEMMA BuiltIsSent ==
  ASSUME FunctionsBuilt, NEW i \in 1..Len(functions), NEW tx, tx = Populated(functions[i])
  PROVE  SentBy(i, tx)
<1> DEFINE options == functions[i].options
           Named(f) == NamedLast(i, f)
<1>1. ASSUME NEW f \in Fields PROVE AsNamed(options[f], Named(f))
  BY NamedIsChain DEF FunctionsBuilt, Built
<1>2. Named("from") # "0"
  BY NamedIsChain DEF FunctionsBuilt, Built
<1>3. ASSUME NEW f \in {"nonce", "gas", "price"}
      PROVE  tx[f] = IF Named(f) \in {"undefined", "null", "0"} THEN "none" ELSE Named(f)
  <2>1. tx[f] = Carried(options[f])
    BY <1>3 DEF Populated
  <2>2. AsNamed(options[f], Named(f))
    BY <1>1, <1>3 DEF Fields
  <2> HIDE DEF options, Named
  <2> QED
    BY <2>1, <2>2 DEF AsNamed, Carried, Truthy
<1>4. tx.value = IF IsConstructor(functions[i]) \/ Named("value") \in {"undefined", "null", "0"}
                 THEN "none" ELSE Named("value")
  <2>1. tx.value = IF IsConstructor(functions[i]) THEN "none" ELSE Carried(options["value"])
    BY DEF Populated
  <2>2. AsNamed(options["value"], Named("value"))
    BY <1>1 DEF Fields
  <2> HIDE DEF options, Named
  <2> QED
    BY <2>1, <2>2 DEF AsNamed, Carried, Truthy
<1>5. tx.type = IF Named("type") \in {"undefined", "null"} THEN "none" ELSE Named("type")
  <2>1. tx.type = IF options["type"] \in {"undefined", "null"} THEN "none" ELSE options["type"]
    BY DEF Populated
  <2>2. AsNamed(options["type"], Named("type"))
    BY <1>1 DEF Fields
  <2> HIDE DEF options, Named
  <2> QED
    BY <2>1, <2>2 DEF AsNamed
<1>6. tx.from = IF Truthy(options["from"]) THEN options["from"]
                ELSE IF AsksSigner(functions[i]) THEN "signer" ELSE "none"
  BY DEF Populated
<1>7. AsNamed(options["from"], Named("from"))
  BY <1>1 DEF Fields
<1>8. AsksSigner(functions[i]) <=> (options["from"] = "undefined" /\ functions[i].contract.signer)
  BY DEF AsksSigner
<1>9. /\ Named("from") \notin {"undefined", "null"} => tx.from = Named("from")
      /\ (Named("from") = "undefined" /\ functions[i].contract.signer) => tx.from = "signer"
  <2> HIDE DEF options, Named
  <2> QED
    BY <1>2, <1>6, <1>7, <1>8 DEF AsNamed, Truthy
<1> QED
  BY <1>3, <1>4, <1>5, <1>9 DEF SentBy

LEMMA SentInvInit == Init => SentInv
  BY ReceiptsInit, FunctionsBuiltInit, PromisesOwnInit DEF SentInv

LEMMA SentInvStep == SentInv /\ [Next]_vars => SentInv'
<1> SUFFICES ASSUME SentInv, [Next]_vars PROVE SentInv'
  OBVIOUS
<1>1. Receipts /\ FunctionsBuilt /\ PromisesOwn /\ FunctionsTyped /\ Len(promises) \in Nat
  BY DEF SentInv, FunctionsBuilt, PromisesOwn, PromisesTyped
<1>2. Receipts'
  BY <1>1, ReceiptsStep
<1>3. FunctionsBuilt'
  BY <1>1, FunctionsBuiltStep
<1>4. PromisesOwn'
  BY <1>1, PromisesOwnStep
<1> QED
  BY <1>2, <1>3, <1>4 DEF SentInv

LEMMA SentInvImplies == SentInv => SentAsBuilt
<1> SUFFICES ASSUME SentInv, NEW t \in 1..Len(tasks),
                    tasks[t].promise # 0, promises[tasks[t].promise].state = "resolved"
             PROVE  SentBy(tasks[t].fn, Transaction(t))
  BY DEF SentAsBuilt, SentBy
<1>1. PICK i, p, tx : i = tasks[t].fn /\ p = tasks[t].promise /\ tx = promises[p].tx
  OBVIOUS
<1>2. i \in 1..Len(functions) /\ p \in 1..Len(promises) /\ promises[p].fn = i
  BY <1>1 DEF SentInv, PromisesOwn, IsPromiseOf
<1>3. tx = Populated(functions[i]) /\ tx = Transaction(t)
  BY <1>1, <1>2 DEF SentInv, PromisesOwn, Promised, Transaction
<1>4. FunctionsBuilt
  BY DEF SentInv
<1> QED
  BY <1>1, <1>2, <1>3, <1>4, BuiltIsSent

\* However many objects are made of an object, and however their calls run together:
\* a transaction carries what its own chain of builder calls named last.
THEOREM AlwaysSentAsBuilt == Spec => []SentAsBuilt
<1> QED
  BY SentInvInit, SentInvStep, SentInvImplies, PTL DEF Spec

-----------------------------------------------------------------------------
(* What a Doppelganger has been told. *)

\* The last of a set of numbers up to a bound.
Last(T) == CHOOSE k \in T : \A l \in T : l <= k
LEMMA LastIs ==
  ASSUME NEW n \in Nat, NEW T \in SUBSET (1..n), T # {}
  PROVE  Last(T) \in T /\ \A l \in T : l <= Last(T)
<1> DEFINE Bounds == {m \in Nat : \A k \in T : k <= m}
<1>1. PICK m \in Bounds : \A y \in Bounds : m <= y
  <2>1. Bounds \in SUBSET Nat /\ n \in Bounds
    OBVIOUS
  <2> HIDE DEF Bounds
  <2> QED
    BY <2>1, LeastElement
<1>2. m \in Nat /\ \A k \in T : k <= m /\ k \in Nat /\ k > 0
  BY <1>1
<1>3. m \in T
  <2> SUFFICES ASSUME m \notin T PROVE FALSE
    OBVIOUS
  <2>1. m - 1 \in Nat /\ \A k \in T : k <= m - 1
    <3>1. PICK k \in T : TRUE
      OBVIOUS
    <3>2. ASSUME NEW l \in T PROVE l <= m - 1
      <4>1. l # m /\ l <= m /\ l \in Nat
        BY <1>2
      <4> QED
        BY <1>2, <4>1
    <3>3. k > 0 /\ k <= m /\ k \in Nat
      BY <1>2
    <3>4. m - 1 \in Nat
      BY <1>2, <3>3
    <3> QED
      BY <3>2, <3>4
  <2>2. m - 1 \in Bounds
    BY <2>1
  <2> QED
    BY <1>1, <1>2, <2>2
<1>4. \E k \in T : \A l \in T : l <= k
  BY <1>2, <1>3
<1> QED
  BY <1>4 DEF Last

LEMMA LastOf ==
  ASSUME NEW T \in SUBSET Nat, NEW k \in T, \A l \in T : l <= k
  PROVE  Last(T) = k
<1>1. Last(T) \in T /\ \A l \in T : l <= Last(T)
  BY DEF Last
<1>2. Last(T) <= k /\ k <= Last(T)
  BY <1>1
<1>3. k \in Nat /\ Last(T) \in Nat
  BY <1>1
<1> QED
  BY <1>2, <1>3

\* Told, of any objects, tasks and blocks.
FragmentBy(fs, ts, t) == fs[ts[t].fn].fragment
SaidBy(fs, ts, ms, n, key) ==
  {k \in 1..n : ms[k].ok /\ FragmentBy(fs, ts, ms[k].task).stubs = key}
ToldBy(fs, ts, ms, n, key) ==
  IF SaidBy(fs, ts, ms, n, key) = {} THEN "none"
  ELSE FragmentBy(fs, ts, ms[Last(SaidBy(fs, ts, ms, n, key))].task).rule

LEMMA ToldIs ==
  ASSUME NEW n, NEW key
  PROVE  /\ Told(n, key) = ToldBy(functions, tasks, mined, n, key)
         /\ Told(n, key)' = ToldBy(functions', tasks', mined', n, key)
BY DEF Told, ToldBy, SaidBy, Last, FragmentBy, Fragment

\* Blocks stay, and so do the functions of their transactions.
BlocksStay ==
  /\ Len(mined) \in Nat /\ Len(mined') \in Nat /\ Len(mined) <= Len(mined')
  /\ \A k \in 1..Len(mined) : mined'[k] = mined[k] /\ mined[k].task \in 1..Len(tasks)
  /\ Len(tasks) <= Len(tasks')
  /\ \A t \in 1..Len(tasks) : Kept(tasks'[t], tasks[t]) /\ (Settled(t) => tasks'[t] = tasks[t])
  /\ \A t \in 1..Len(tasks') : t \in 1..Len(tasks) \/ tasks'[t].before = SettledTasks
  /\ \A t \in 1..Len(tasks) : functions'[tasks'[t].fn].fragment = functions[tasks[t].fn].fragment

LEMMA BlocksAlwaysStay ==
  ASSUME SentInv, [Next]_vars
  PROVE  BlocksStay
<1>1. /\ Receipts /\ FunctionsTyped /\ Len(promises) \in Nat
      /\ Len(mined) \in Nat /\ \A k \in 1..Len(mined) : mined[k].task \in 1..Len(tasks)
  BY DEF SentInv, FunctionsBuilt, PromisesOwn, PromisesTyped, Receipts, Typed, Ledger, Accepted
<1>2. PICK Data : tasks \in Seq(TaskOf(Data))
  BY <1>1 DEF Receipts, Typed
<1>3. /\ Len(mined') \in Nat /\ Len(mined) <= Len(mined')
      /\ \A k \in 1..Len(mined) : mined'[k] = mined[k]
  <2>1. mined' = mined \/ \E block : mined' = Append(mined, block)
    <3>1. CASE Mine
      BY <3>1 DEF Mine
    <3>2. CASE UserStep \/ SignerAnswers \/ SignerFails \/ UNCHANGED vars
      BY <3>2 DEF UserStep, Create, Refine, Attach, Start, SignerAnswers, SignerFails, vars
    <3>3. ASSUME NEW t \in 1..Len(tasks), Goes(t) \/ ConnectionFails(t) PROVE mined' = mined
      BY <3>3 DEF Goes, Continue, ProviderAnswers, NodeAccepts, NodeRefuses, Receive,
                  ConnectionFails
    <3> QED
      BY <3>1, <3>2, <3>3 DEF Next, Step
  <2>2. mined \in Seq([task : Nat, ok : BOOLEAN])
    BY <1>1 DEF Receipts, Typed
  <2> DEFINE Blocks == [task : Nat, ok : BOOLEAN]
  <2>3. mined \in Seq(Blocks)
    BY <2>2
  <2> HIDE DEF Blocks
  <2> QED
    BY <1>1, <2>1, <2>3
<1>4. /\ Len(tasks) <= Len(tasks')
      /\ \A t \in 1..Len(tasks) : Kept(tasks'[t], tasks[t]) /\ (Settled(t) => tasks'[t] = tasks[t])
      /\ \A t \in 1..Len(tasks') : t \in 1..Len(tasks) \/ tasks'[t].before = SettledTasks
  <2>1. CASE tasks' = tasks
    BY <1>2, <2>1 DEF Kept
  <2>2. ASSUME NEW task, Begins(task)
        PROVE  /\ Len(tasks) <= Len(tasks')
               /\ \A t \in 1..Len(tasks) : tasks'[t] = tasks[t]
               /\ \A t \in 1..Len(tasks') :
                    t \in 1..Len(tasks) \/ tasks'[t].before = SettledTasks
    <3>1. tasks' = Append(tasks, task) /\ task.before = SettledTasks
      BY <2>2 DEF Begins
    <3> QED
      BY <1>2, <3>1
  <2>3. ASSUME NEW u, GoesOn(u)
        PROVE  /\ Len(tasks) <= Len(tasks')
               /\ \A t \in 1..Len(tasks) :
                    Kept(tasks'[t], tasks[t]) /\ (Settled(t) => tasks'[t] = tasks[t])
               /\ \A t \in 1..Len(tasks') : t \in 1..Len(tasks)
    BY <1>2, <2>3 DEF GoesOn, Kept
  <2> QED
    BY <1>1, <2>1, <2>2, <2>3, TasksChange DEF Kept
<1>5. ASSUME NEW t \in 1..Len(tasks)
      PROVE  functions'[tasks'[t].fn].fragment = functions[tasks[t].fn].fragment
  <2>1. tasks[t].fn \in 1..Len(functions) /\ tasks'[t].fn = tasks[t].fn
    BY <1>4 DEF Kept, SentInv, PromisesOwn
  <2>2. \A i \in 1..Len(functions) : Same(functions'[i], functions[i])
    BY <1>1, FunctionsStay
  <2> QED
    BY <2>1, <2>2 DEF Same
<1> QED
  BY <1>1, <1>3, <1>4, <1>5 DEF BlocksStay

\* So what was told stays told.
LEMMA ToldStays ==
  ASSUME BlocksStay, NEW n \in 0..Len(mined), NEW key
  PROVE  ToldBy(functions', tasks', mined', n, key) = ToldBy(functions, tasks, mined, n, key)
<1>1. PICK said, since : /\ said = SaidBy(functions, tasks, mined, n, key)
                         /\ since = SaidBy(functions', tasks', mined', n, key)
  OBVIOUS
<1>2. ASSUME NEW k \in 1..n
      PROVE  /\ mined'[k] = mined[k]
             /\ FragmentBy(functions', tasks', mined'[k].task)
                  = FragmentBy(functions, tasks, mined[k].task)
  <2>1. k \in 1..Len(mined)
    BY DEF BlocksStay
  <2> QED
    BY <2>1 DEF BlocksStay, FragmentBy
<1>3. said = since
  BY <1>1, <1>2 DEF SaidBy
<1>4. said # {} => Last(said) \in 1..n
  <2>1. n \in Nat /\ said \in SUBSET (1..n)
    BY <1>1 DEF BlocksStay, SaidBy
  <2> QED
    BY <2>1, LastIs
<1> QED
  BY <1>1, <1>2, <1>3, <1>4 DEF ToldBy

\* The rules of a Doppelganger are what it was told, and a call that is done has the
\* answer of some moment after the stubs that were awaited before it.
RulesTold ==
  rules = [key \in Keys |-> rules[key]] /\ \A key \in Keys : rules[key] = Told(Len(mined), key)
AnswerBy(fs, ts, ms, n, asks) ==
  IF ToldBy(fs, ts, ms, n, asks) = "none" THEN ToldBy(fs, ts, ms, n, "any")
  ELSE ToldBy(fs, ts, ms, n, asks)
\* The sends among some tasks that are done are among the first n transactions.
InBlocks(before, ts, ms, n) ==
  \A s \in before :
    (ts[s].op = "send" /\ ts[s].state = "done") => \E k \in 1..n : ms[k].task = s
AnsweredBy(fs, ts, ms, t) ==
  LET asks == FragmentBy(fs, ts, t).asks
  IN  (ts[t].op = "call" /\ ts[t].state = "done" /\ asks # "") =>
        \E n \in 0..Len(ms) :
          InBlocks(ts[t].before, ts, ms, n) /\ ts[t].answer = AnswerBy(fs, ts, ms, n, asks)

AnswersInv ==
  /\ SentInv
  /\ \A i \in 1..Len(functions) : functions[i].fragment \in program.fragments
  /\ RulesTold
  /\ \A t \in 1..Len(tasks) :
       tasks[t].before \subseteq SettledTasks /\ AnsweredBy(functions, tasks, mined, t)

LEMMA FreshFragment ==
  ASSUME \A i \in 1..Len(functions) : functions[i].fragment \in program.fragments,
         NEW fn, IsFresh(fn)
  PROVE  fn.fragment \in program.fragments
<1>1. ASSUME NEW c, NEW g \in program.fragments, NEW o, NEW n, NEW p,
             fn = Function(c, g, o, n, p)
      PROVE  fn.fragment \in program.fragments
  BY <1>1 DEF Function
<1> QED
  BY <1>1 DEF IsFresh, Objects

LEMMA AnswersInit == Init => AnswersInv
<1> SUFFICES ASSUME Init PROVE AnswersInv
  OBVIOUS
<1>1. /\ SentInv /\ program \in Programs /\ functions = program.made
      /\ tasks = <<>> /\ mined = <<>> /\ rules = NoRules
  BY SentInvInit DEF Init
<1>2. ASSUME NEW i \in 1..Len(functions) PROVE functions[i].fragment \in program.fragments
  <2>1. functions \in Seq(Objects(program))
    BY <1>1, ProgramsAssumption
  <2>2. functions[i] \in Objects(program)
    BY <2>1
  <2>3. PICK c \in program.contracts, g \in program.fragments, given \in program.options :
          functions[i] = Function(c, g, Over(given, NoOptions), given, 0)
    BY <2>2 DEF Objects
  <2> QED
    BY <2>3 DEF Function
<1>3. RulesTold
  <2>1. ASSUME NEW key \in Keys PROVE Told(0, key) = "none"
    <3>1. SaidBy(functions, tasks, mined, 0, key) = {}
      BY DEF SaidBy
    <3> QED
      BY <3>1, ToldIs DEF ToldBy
  <2> QED
    BY <1>1, <2>1 DEF RulesTold, NoRules
<1> QED
  BY <1>1, <1>2, <1>3 DEF AnswersInv

\* A block adds to what was told what its transaction says, if it succeeds.
LEMMA MineTells ==
  ASSUME SentInv, RulesTold, Mine
  PROVE  RulesTold'
<1>1. PICK ok \in BOOLEAN :
        /\ mined' = Append(mined, [task |-> Head(pool), ok |-> ok])
        /\ rules' = IF ok /\ Fragment(Head(pool)).stubs # ""
                    THEN [rules EXCEPT ![Fragment(Head(pool)).stubs] = Fragment(Head(pool)).rule]
                    ELSE rules
  BY DEF Mine
<1>2. PICK g, block, n : /\ g = Fragment(Head(pool)) /\ n = Len(mined)
                         /\ block = [task |-> Head(pool), ok |-> ok]
  OBVIOUS
<1>3. block.ok = ok /\ block.task = Head(pool)
  BY <1>2
<1>4. /\ n \in Nat /\ Len(mined') = n + 1 /\ mined'[n + 1] = block
      /\ \A k \in 1..n : mined'[k] = mined[k]
  <2> DEFINE Blocks == [task : Nat, ok : BOOLEAN]
  <2>1. mined \in Seq(Blocks)
    BY DEF SentInv, Receipts, Typed
  <2>2. mined' = Append(mined, block)
    BY <1>1, <1>2
  <2> HIDE DEF Blocks
  <2> QED
    BY <1>2, <2>1, <2>2
<1>5. functions' = functions /\ tasks' = tasks
  BY DEF Mine
<1>6. PICK ms : ms = mined'
  OBVIOUS
<1>7. ASSUME NEW key \in Keys
      PROVE  Told(n + 1, key)' = IF ok /\ g.stubs = key THEN g.rule ELSE Told(n, key)
  <2>0. PICK m : m = n + 1
    OBVIOUS
  <2>1. PICK said, since : /\ said = SaidBy(functions, tasks, mined, n, key)
                           /\ since = SaidBy(functions, tasks, ms, m, key)
    OBVIOUS
  <2>2. Told(m, key)' = IF since = {} THEN "none"
                        ELSE FragmentBy(functions, tasks, ms[Last(since)].task).rule
    BY <1>5, <1>6, <2>1, ToldIs DEF ToldBy
  <2>3. Told(n, key) = IF said = {} THEN "none"
                       ELSE FragmentBy(functions, tasks, mined[Last(said)].task).rule
    BY <2>1, ToldIs DEF ToldBy
  <2>4. FragmentBy(functions, tasks, ms[m].task) = g /\ ms[m].ok = ok
    BY <1>2, <1>3, <1>4, <1>6, <2>0 DEF FragmentBy, Fragment
  <2>5. CASE ok /\ g.stubs = key
    <3>1. m \in 1..m /\ m \in Nat
      BY <1>4, <2>0
    <3>2. m \in since
      BY <2>1, <2>4, <2>5, <3>1 DEF SaidBy
    <3>3. \A l \in since : l \in Nat /\ l <= m
      BY <2>1, <3>1 DEF SaidBy
    <3>4. Last(since) = m
      BY <3>2, <3>3, LastOf
    <3> QED
      BY <2>0, <2>2, <2>4, <2>5, <3>2, <3>4
  <2>6. CASE ~(ok /\ g.stubs = key)
    <3>1. since = said
      <4>1. m \notin since
        BY <2>1, <2>4, <2>6 DEF SaidBy
      <4>2. \A k \in 1..m : k \in 1..n \/ k = m
        BY <1>4, <2>0
      <4>3. \A k \in 1..n : k \in 1..m
        BY <1>4, <2>0
      <4> QED
        BY <1>4, <1>6, <2>1, <4>1, <4>2, <4>3 DEF SaidBy
    <3>2. said # {} => Last(said) \in 1..n
      <4>1. said \in SUBSET (1..n)
        BY <2>1 DEF SaidBy
      <4> QED
        BY <1>4, <4>1, LastIs
    <3>3. said # {} => ms[Last(said)] = mined[Last(said)]
      BY <1>4, <1>6, <3>2
    <3> QED
      BY <2>0, <2>2, <2>3, <2>6, <3>1, <3>3
  <2> QED
    BY <2>5, <2>6
<1>8. ASSUME NEW key \in Keys
      PROVE  rules'[key] = IF ok /\ g.stubs = key THEN g.rule ELSE rules[key]
  <2>1. key # "" /\ rules = [k \in Keys |-> rules[k]]
    BY DEF Keys, RulesTold
  <2> QED
    BY <1>1, <1>2, <2>1
<1>9. rules' = [key \in Keys |-> rules'[key]]
  <2>1. rules = [k \in Keys |-> rules[k]]
    BY DEF RulesTold
  <2> QED
    BY <1>1, <2>1
<1> QED
  BY <1>2, <1>4, <1>7, <1>8, <1>9 DEF RulesTold

LEMMA AnswersStep == AnswersInv /\ [Next]_vars => AnswersInv'
<1> SUFFICES ASSUME AnswersInv, [Next]_vars PROVE AnswersInv'
  OBVIOUS
<1>0. SentInv /\ Receipts /\ RulesTold /\ BlocksStay
  BY BlocksAlwaysStay DEF AnswersInv, SentInv
<1>1. SentInv'
  BY <1>0, SentInvStep
<1>2. ASSUME NEW i \in 1..Len(functions') PROVE functions'[i].fragment \in program'.fragments
  <2>1. /\ program' = program
        /\ \A j \in 1..Len(functions) : Same(functions'[j], functions[j])
        /\ i \in 1..Len(functions) \/ (i = Len(functions) + 1 /\ IsFresh(functions'[i]))
    BY <1>0, FunctionsStay DEF SentInv, FunctionsBuilt, PromisesOwn, PromisesTyped
  <2>2. \A j \in 1..Len(functions) : functions[j].fragment \in program.fragments
    BY DEF AnswersInv
  <2>3. CASE i \in 1..Len(functions)
    BY <2>1, <2>2, <2>3 DEF Same
  <2>4. CASE IsFresh(functions'[i])
    BY <2>1, <2>2, <2>4, FreshFragment
  <2> QED
    BY <2>1, <2>3, <2>4
<1>3. RulesTold'
  <2>1. CASE Mine
    BY <1>0, <2>1, MineTells
  <2>2. CASE UNCHANGED <<rules, mined>>
    <3>1. PICK n : n = Len(mined)
      OBVIOUS
    <3>2. n \in 0..Len(mined)
      BY <1>0, <3>1 DEF BlocksStay
    <3>3. \A key : Told(n, key)' = Told(n, key)
      BY <1>0, <3>2, ToldStays, ToldIs
    <3> QED
      BY <1>0, <2>2, <3>1, <3>3 DEF RulesTold
  <2>3. CASE UserStep \/ SignerAnswers \/ SignerFails \/ UNCHANGED vars
    BY <2>2, <2>3
    DEF UserStep, Create, Refine, Attach, Start, SignerAnswers, SignerFails, vars
  <2>4. ASSUME NEW t \in 1..Len(tasks), Goes(t) \/ ConnectionFails(t)
        PROVE  UNCHANGED <<rules, mined>>
    BY <2>4 DEF Goes, Continue, ProviderAnswers, NodeAccepts, NodeRefuses, Receive,
                ConnectionFails
  <2> QED
    BY <2>1, <2>2, <2>3, <2>4 DEF Next, Step
<1>4. PICK fs, ts, ms : fs = functions' /\ ts = tasks' /\ ms = mined'
  OBVIOUS
<1>5. \A s \in SettledTasks : s \in 1..Len(tasks) /\ ts[s] = tasks[s] /\ s \in 1..Len(ts)
  BY <1>0, <1>4 DEF SettledTasks, BlocksStay
<1>6. SettledTasks \subseteq SettledTasks'
  BY <1>4, <1>5 DEF SettledTasks, Settled
<1>7. ASSUME NEW t \in 1..Len(ts) PROVE ts[t].before \subseteq SettledTasks
  BY <1>0, <1>4 DEF AnswersInv, BlocksStay, Kept
<1>8. ASSUME NEW n \in 0..Len(mined), NEW key
      PROVE  ToldBy(fs, ts, ms, n, key) = ToldBy(functions, tasks, mined, n, key)
  BY <1>0, <1>4, ToldStays
<1>9. ASSUME NEW t \in 1..Len(tasks)
      PROVE  FragmentBy(fs, ts, t) = FragmentBy(functions, tasks, t)
  BY <1>0, <1>4 DEF BlocksStay, FragmentBy
<1>10. \A n \in 0..Len(mined) : n \in 0..Len(ms) /\ \A k \in 1..n : ms[k] = mined[k]
  BY <1>0, <1>4 DEF BlocksStay
<1>11. ASSUME NEW t \in 1..Len(ts), NEW asks, asks = FragmentBy(fs, ts, t).asks,
              ts[t].op = "call", ts[t].state = "done", asks # ""
       PROVE  \E n \in 0..Len(mined) :
                /\ InBlocks(ts[t].before, tasks, mined, n)
                /\ ts[t].answer = AnswerBy(functions, tasks, mined, n, asks)
  <2>1. CASE t \in 1..Len(tasks) /\ Settled(t)
    <3>1. ts[t] = tasks[t] /\ asks = FragmentBy(functions, tasks, t).asks
      BY <1>0, <1>4, <1>9, <1>11, <2>1 DEF BlocksStay
    <3>2. AnsweredBy(functions, tasks, mined, t)
      BY <2>1 DEF AnswersInv
    <3> QED
      BY <1>11, <3>1, <3>2 DEF AnsweredBy, Done
  <2>2. CASE GoesOn(t)
    <3>1. tasks[t].op = "call" /\ ts[t].answer = AnswerTo(t) /\ t \in 1..Len(tasks)
      BY <1>4, <1>11, <2>2 DEF GoesOn, Kept
    <3>2. asks = FragmentBy(functions, tasks, t).asks /\ asks = Fragment(t).asks
      BY <1>9, <1>11, <3>1 DEF Fragment, FragmentBy
    <3>3. PICK n : n = Len(mined)
      OBVIOUS
    <3>4. n \in 0..Len(mined)
      BY <1>0, <3>3 DEF BlocksStay
    <3>5. InBlocks(ts[t].before, tasks, mined, n)
      <4> SUFFICES ASSUME NEW s \in ts[t].before, tasks[s].op = "send", tasks[s].state = "done"
                   PROVE  \E k \in 1..n : mined[k].task = s
        BY DEF InBlocks
      <4>1. s \in 1..Len(tasks)
        BY <1>7 DEF SettledTasks
      <4>2. Outcome(s)
        BY <1>0, <4>1 DEF Receipts
      <4> QED
        BY <3>3, <4>2 DEF Outcome
    <3>6. asks \in Keys /\ "any" \in Keys
      <4>1. Fragment(t) \in program.fragments /\ program \in Programs
        BY <3>1 DEF AnswersInv, SentInv, PromisesOwn, FunctionsBuilt, Fragment
      <4> QED
        BY <1>11, <3>2, <4>1, ProgramsAssumption DEF Keys
    <3>7. \A key \in Keys : rules[key] = ToldBy(functions, tasks, mined, n, key)
      BY <1>0, <3>3, ToldIs DEF RulesTold
    <3>8. AnswerTo(t) = IF rules[asks] # "none" THEN rules[asks] ELSE rules["any"]
      BY <1>11, <3>2 DEF AnswerTo, Answer
    <3>9. ts[t].answer = AnswerBy(functions, tasks, mined, n, asks)
      BY <3>1, <3>6, <3>7, <3>8 DEF AnswerBy
    <3> QED
      BY <3>4, <3>5, <3>9
  <2>3. CASE ~GoesOn(t) /\ ~(t \in 1..Len(tasks) /\ Settled(t))
    <3>1. t \in 1..Len(tasks) => ts[t] # tasks[t]
      BY <1>11, <2>3 DEF Settled
    <3>2. ASSUME tasks' = tasks PROVE FALSE
      BY <1>4, <3>1, <3>2
    <3>3. ASSUME NEW u, GoesOn(u) PROVE FALSE
      BY <1>4, <2>3, <3>1, <3>3 DEF GoesOn
    <3>4. ASSUME NEW task, Begins(task) PROVE FALSE
      <4>1. PICK Data : tasks \in Seq(TaskOf(Data))
        BY <1>0 DEF Receipts, Typed
      <4>2. tasks' = Append(tasks, task) /\ task.state # "done"
        BY <3>4 DEF Begins
      <4>3. ts[t] = task
        BY <1>4, <3>1, <4>1, <4>2
      <4> QED
        BY <1>11, <4>2, <4>3
    <3> QED
      BY <1>0, <3>2, <3>3, <3>4, TasksChange
  <2> QED
    BY <2>1, <2>2, <2>3
<1>12. ASSUME NEW t \in 1..Len(ts) PROVE AnsweredBy(fs, ts, ms, t)
  <2> SUFFICES ASSUME NEW asks, asks = FragmentBy(fs, ts, t).asks,
                      ts[t].op = "call", ts[t].state = "done", asks # ""
               PROVE  \E n \in 0..Len(ms) : /\ InBlocks(ts[t].before, ts, ms, n)
                                            /\ ts[t].answer = AnswerBy(fs, ts, ms, n, asks)
    BY DEF AnsweredBy
  <2>1. PICK n \in 0..Len(mined) : /\ InBlocks(ts[t].before, tasks, mined, n)
                                   /\ ts[t].answer = AnswerBy(functions, tasks, mined, n, asks)
    BY <1>11
  <2>2. n \in 0..Len(ms) /\ \A k \in 1..n : ms[k] = mined[k]
    BY <1>10
  <2>3. ASSUME NEW s \in ts[t].before, ts[s].op = "send", ts[s].state = "done"
        PROVE  \E k \in 1..n : ms[k].task = s
    <3>1. s \in SettledTasks
      BY <1>7
    <3>2. ts[s] = tasks[s]
      BY <1>5, <3>1
    <3> QED
      BY <2>1, <2>2, <2>3, <3>2 DEF InBlocks
  <2>4. AnswerBy(fs, ts, ms, n, asks) = AnswerBy(functions, tasks, mined, n, asks)
    BY <1>8 DEF AnswerBy
  <2>5. InBlocks(ts[t].before, ts, ms, n)
    BY <2>3 DEF InBlocks
  <2> QED
    BY <2>1, <2>2, <2>4, <2>5
<1>13. \A t \in 1..Len(tasks') : AnsweredBy(functions', tasks', mined', t)
  BY <1>4, <1>12
<1> QED
  BY <1>1, <1>2, <1>3, <1>4, <1>6, <1>7, <1>13 DEF AnswersInv

LEMMA AnswersImply == AnswersInv => AwaitedStubsAnswer
<1> SUFFICES ASSUME AnswersInv, NEW t \in 1..Len(tasks),
                    tasks[t].op = "call", Done(t), Fragment(t).asks # ""
             PROVE  \E n \in 0..Len(mined) :
                      /\ \A s \in tasks[t].before :
                           (tasks[s].op = "send" /\ Done(s)) => \E k \in 1..n : mined[k].task = s
                      /\ tasks[t].answer = Expected(n, Fragment(t).asks)
  BY DEF AwaitedStubsAnswer
<1>1. AnsweredBy(functions, tasks, mined, t)
  BY DEF AnswersInv
<1>2. FragmentBy(functions, tasks, t).asks = Fragment(t).asks
  BY DEF FragmentBy, Fragment
<1>3. PICK n \in 0..Len(mined) :
        /\ InBlocks(tasks[t].before, tasks, mined, n)
        /\ tasks[t].answer = AnswerBy(functions, tasks, mined, n, Fragment(t).asks)
  BY <1>1, <1>2 DEF AnsweredBy, Done
<1>4. \A key : Told(n, key) = ToldBy(functions, tasks, mined, n, key)
  BY ToldIs
<1>5. tasks[t].answer = Expected(n, Fragment(t).asks)
  BY <1>3, <1>4 DEF Expected, AnswerBy
<1>6. \A s \in tasks[t].before :
        (tasks[s].op = "send" /\ Done(s)) => \E k \in 1..n : mined[k].task = s
  BY <1>3 DEF InBlocks, Done
<1> QED
  BY <1>5, <1>6

\* However stubs, resets and queries of a mock run together: a call has the answer of
\* some moment after the stubs that were awaited before it was made.
THEOREM AwaitedStubsAlwaysAnswer == Spec => []AwaitedStubsAnswer
<1> QED
  BY AnswersInit, AnswersStep, AnswersImply, PTL DEF Spec
=============================================================================
