--------------------------- MODULE ContractFunctions ---------------------------
(***************************************************************************)
(* packages/ethers: contract functions as objects with options.  A builder   *)
(* method makes a new object; call(), estimate() and send() run concurrently  *)
(* and wait for the object's one promise of a populated transaction, for the  *)
(* provider, for the node, for the receipt.  Some functions are those of the  *)
(* Doppelganger behind mock(): transactions that tell it what to answer.      *)
(***************************************************************************)
EXTENDS Naturals, Sequences

CONSTANTS
  Programs,     \* what user code may do: sets of contracts, fragments, options, overrides
                \* and ops; objects it has made at first;
                \* bounds: how many function objects and calls it makes
  MaxFailures   \* bound: requests that fail for reasons of the network

VARIABLES
  program,   \* one of Programs
  functions, \* function objects, in the order they were made
  promises,  \* promises of populated transactions
  tasks,     \* calls of the asynchronous methods, in the order they were made
  pool,      \* tasks whose transactions the node has accepted
  mined,     \* transactions in blocks, as [task, ok]
  rules,     \* Doppelganger: what to answer, by calldata
  failures

vars == <<program, functions, promises, tasks, pool, mined, rules, failures>>

Fields == {"args", "value", "bytecode", "type", "nonce", "gas", "price", "from"}
NoOptions == [f \in Fields |-> "undefined"]

\* A getter of one property that null cannot pass: propertyOf with ?? undefined.
Property(v) == IF v = "null" THEN "undefined" ELSE v
\* What JavaScript takes for true.
Truthy(v) == v \notin {"undefined", "null", "0"}

\* parent and named are history: the object it was made from, the options its maker named.
Function(contract, fragment, options, named, parent) ==
  [contract |-> contract, fragment |-> fragment, options |-> options, populated |-> 0,
   named |-> named, parent |-> parent]

\* Options: each from the first object that has it.
Over(given, rest) == [f \in Fields |-> IF f \in DOMAIN given THEN given[f] ELSE rest[f]]

\* <contract>.<function>, or ContractFunction.create with an object of options.
Objects(p) ==
  {Function(c, g, Over(given, NoOptions), given, 0) :
     c \in p.contracts, g \in p.fragments, given \in p.options}

\* What a Doppelganger can be told: the answer for any calldata, or for one.
Keys == {"any", "x", "y"}

\* User code has made its first objects like all others; a stub and a query name calldata,
\* a sender is an address or nothing.
ASSUME ProgramsAssumption ==
  \A p \in Programs :
    /\ p.made \in Seq(Objects(p))
    /\ \A g \in p.fragments : {g.asks, g.stubs} \subseteq Keys \union {""}
    /\ \A given \in p.options \union p.overrides :
         "from" \in DOMAIN given => given["from"] # "0"

-----------------------------------------------------------------------------
(* User code: contracts and function objects. *)

\* Every access makes an object.
Create ==
  /\ Len(functions) < program.maxFunctions
  /\ \E fn \in Objects(program) : functions' = Append(functions, fn)
  /\ UNCHANGED <<program, promises, tasks, pool, mined, rules, failures>>

\* A builder method: override is the options it names, set or not.
Refined(fn, override) ==
  [f \in Fields |-> Property(Over(override, fn.options)[f])]

\* Mutant: the new object keeps the promise of the old one's transaction.
RefineKeepsPromise ==
  /\ Len(functions) < program.maxFunctions
  /\ \E i \in 1..Len(functions), override \in program.overrides :
       LET fn == functions[i]
       IN  functions' = Append(functions,
             [Function(fn.contract, fn.fragment, Refined(fn, override), override, i)
              EXCEPT !.populated = fn.populated])
  /\ UNCHANGED <<program, promises, tasks, pool, mined, rules, failures>>

Refine ==
  /\ Len(functions) < program.maxFunctions
  /\ \E i \in 1..Len(functions), override \in program.overrides :
       LET fn == functions[i]
       IN  functions' = Append(functions,
             Function(fn.contract, fn.fragment, Refined(fn, override), override, i))
  /\ UNCHANGED <<program, promises, tasks, pool, mined, rules, failures>>

\* CallFunction.attach: the same options on another contract of the same interface.
Attach ==
  /\ Len(functions) < program.maxFunctions
  /\ \E i \in 1..Len(functions), c \in program.contracts :
       LET fn == functions[i]
       IN  /\ fn.fragment.kind # "constructor" /\ c # fn.contract
           /\ functions' = Append(functions, Function(c, fn.fragment, fn.options, <<>>, i))
  /\ UNCHANGED <<program, promises, tasks, pool, mined, rules, failures>>

-----------------------------------------------------------------------------
(* Populating a transaction. *)

IsConstructor(fn) == fn.fragment.kind = "constructor"
Encodes(fn) ==
  /\ fn.options["args"] # "wrong"
  /\ IsConstructor(fn) => Truthy(fn.options["bytecode"])
AsksSigner(fn) == fn.options["from"] = "undefined" /\ fn.contract.signer

Carried(v) == IF Truthy(v) THEN v ELSE "none"
Populated(fn) ==
  [from |-> IF Truthy(fn.options["from"]) THEN fn.options["from"]
            ELSE IF AsksSigner(fn) THEN "signer" ELSE "none",
   value |-> IF IsConstructor(fn) THEN "none" ELSE Carried(fn.options["value"]),
   type |-> IF fn.options["type"] \in {"undefined", "null"} THEN "none" ELSE fn.options["type"],
   nonce |-> Carried(fn.options["nonce"]),
   gas |-> Carried(fn.options["gas"]),
   price |-> Carried(fn.options["price"])]
NoTransaction == [from |-> "none"]

\* Mutant: an encoding error inside the asynchronous executor is not caught.
ExecutedUncaught(i) ==
  LET fn == functions[i]
  IN  [fn |-> i,
       state |-> IF ~Encodes(fn) THEN "never settled"
                 ELSE IF AsksSigner(fn) THEN "pending" ELSE "resolved",
       tx |-> IF Encodes(fn) /\ ~AsksSigner(fn) THEN Populated(fn) ELSE NoTransaction]

\* The promise's executor, up to its first await.
Executed(i) ==
  LET fn == functions[i]
  IN  [fn |-> i,
       state |-> IF ~Encodes(fn) THEN "rejected"
                 ELSE IF AsksSigner(fn) THEN "pending" ELSE "resolved",
       tx |-> IF Encodes(fn) /\ ~AsksSigner(fn) THEN Populated(fn) ELSE NoTransaction]

\* populate(refresh): one promise for an object, unless it is asked to refresh.
Populate(i, refresh) ==
  IF functions[i].populated # 0 /\ ~refresh THEN UNCHANGED <<functions, promises>>
  ELSE /\ promises' = Append(promises, Executed(i))
       /\ functions' = [functions EXCEPT ![i].populated = Len(promises) + 1]
PromiseOf(i, refresh) ==
  IF functions[i].populated # 0 /\ ~refresh THEN functions[i].populated ELSE Len(promises) + 1

SignerAnswers ==
  \E p \in 1..Len(promises) :
    /\ promises[p].state = "pending"
    /\ promises' = [promises EXCEPT ![p].state = "resolved",
                                    ![p].tx = Populated(functions[promises[p].fn])]
    /\ UNCHANGED <<program, functions, tasks, pool, mined, rules, failures>>

SignerFails ==
  \E p \in 1..Len(promises) :
    /\ promises[p].state = "pending" /\ failures < MaxFailures
    /\ failures' = failures + 1
    /\ promises' = [promises EXCEPT ![p].state = "rejected"]
    /\ UNCHANGED <<program, functions, tasks, pool, mined, rules>>

-----------------------------------------------------------------------------
(* The asynchronous methods. *)

Sends(op) == op \in {"send", "submit"}   \* send(), send(false)
Methods(fn) ==
  {"populate", "refresh", "call"} \union
    (IF fn.fragment.kind = "call" THEN {} ELSE {"estimate", "send", "submit"})

Settled(t) == tasks[t].state \in {"done", "failed"}
SettledTasks == {t \in 1..Len(tasks) : Settled(t)}
Done(t) == tasks[t].state = "done"

Start ==
  /\ Len(tasks) < program.maxTasks
  /\ \E i \in 1..Len(functions) : \E op \in Methods(functions[i]) \intersect program.ops :
       LET refused == Sends(op) /\ ~functions[i].contract.signer   \* "Missing signer"
           Task == [op |-> op, fn |-> i, promise |-> 0, state |-> "failed", answer |-> "none",
                    before |-> SettledTasks]
       IN  IF refused
           THEN tasks' = Append(tasks, Task) /\ UNCHANGED <<functions, promises>>
           ELSE /\ tasks' = Append(tasks, [Task EXCEPT !.state = "populating",
                                             !.promise = PromiseOf(i, op = "refresh")])
                /\ Populate(i, op = "refresh")
  /\ UNCHANGED <<program, pool, mined, rules, failures>>

To(t, state) == tasks' = [tasks EXCEPT ![t].state = state]
PromiseIs(t, state) == tasks[t].state = "populating" /\ promises[tasks[t].promise].state = state
ContractOf(t) == functions[tasks[t].fn].contract
Fragment(t) == functions[tasks[t].fn].fragment

\* After "await this.populate()".
Continue(t) ==
  /\ \/ PromiseIs(t, "rejected") /\ To(t, "failed")
     \/ PromiseIs(t, "resolved") /\ tasks[t].op \in {"populate", "refresh"} /\ To(t, "done")
     \/ /\ PromiseIs(t, "resolved") /\ tasks[t].op \in {"call", "estimate"}
        /\ To(t, IF ContractOf(t).provider THEN "asking" ELSE "failed")  \* "Missing provider"
     \/ PromiseIs(t, "resolved") /\ Sends(tasks[t].op) /\ To(t, "sending")
  /\ UNCHANGED <<program, functions, promises, pool, mined, rules, failures>>

-----------------------------------------------------------------------------
(* The provider, the node and the Doppelganger. *)

Transaction(t) == promises[tasks[t].promise].tx

\* The rule for the whole calldata, else the one for the function.
Answer(r, args) == IF r[args] # "none" THEN r[args] ELSE r["any"]

ProviderAnswers(t) ==
  /\ tasks[t].state = "asking"
  /\ tasks' = [tasks EXCEPT ![t].state = "done",
                 ![t].answer = IF Fragment(t).asks = "" \/ tasks[t].op = "estimate" THEN "none"
                               ELSE Answer(rules, Fragment(t).asks)]
  /\ UNCHANGED <<program, functions, promises, pool, mined, rules, failures>>

\* The account has sent one transaction before.
NextNonce == Len(pool) + Len(mined) + 1
Acceptable(tx) ==
  /\ tx.from \in {"none", "signer"}
  /\ tx.nonce # "none" => NextNonce = 1   \* the only nonce user code sets, "1"

\* Mutant: send() returns without the receipt.
NodeAcceptsUnawaited(t) ==
  /\ tasks[t].state = "sending" /\ Acceptable(Transaction(t))
  /\ pool' = Append(pool, t) /\ To(t, "done")
  /\ UNCHANGED <<program, functions, promises, mined, rules, failures>>

NodeAccepts(t) ==
  /\ tasks[t].state = "sending" /\ Acceptable(Transaction(t))
  /\ pool' = Append(pool, t)
  /\ To(t, IF tasks[t].op = "send" THEN "waiting" ELSE "done")
  /\ UNCHANGED <<program, functions, promises, mined, rules, failures>>

NodeRefuses(t) ==
  /\ tasks[t].state = "sending" /\ ~Acceptable(Transaction(t)) /\ To(t, "failed")
  /\ UNCHANGED <<program, functions, promises, pool, mined, rules, failures>>

\* The connection fails before the request arrives, or while its outcome is awaited.
ConnectionFails(t) ==
  /\ tasks[t].state \in {"asking", "sending", "waiting"} /\ failures < MaxFailures
  /\ failures' = failures + 1
  /\ To(t, "failed")
  /\ UNCHANGED <<program, functions, promises, pool, mined, rules>>

\* A block takes the next transaction, which may revert.
Mine ==
  /\ pool # <<>>
  /\ LET g == Fragment(Head(pool))
     IN  \E ok \in (IF g.mayRevert THEN BOOLEAN ELSE {TRUE}) :
           /\ mined' = Append(mined, [task |-> Head(pool), ok |-> ok])
           /\ rules' = IF ok /\ g.stubs # "" THEN [rules EXCEPT ![g.stubs] = g.rule] ELSE rules
  /\ pool' = Tail(pool)
  /\ UNCHANGED <<program, functions, promises, tasks, failures>>

\* Mutant: a reverted transaction's receipt counts as success.
ReceiveAny(t) ==
  /\ tasks[t].state = "waiting"
  /\ \E k \in 1..Len(mined) : mined[k].task = t /\ To(t, "done")
  /\ UNCHANGED <<program, functions, promises, pool, mined, rules, failures>>

\* wait() resolves with the receipt, or rejects when the transaction was reverted.
Receive(t) ==
  /\ tasks[t].state = "waiting"
  /\ \E k \in 1..Len(mined) :
       mined[k].task = t /\ To(t, IF mined[k].ok THEN "done" ELSE "failed")
  /\ UNCHANGED <<program, functions, promises, pool, mined, rules, failures>>

-----------------------------------------------------------------------------
NoRules == [k \in Keys |-> "none"]

Init ==
  /\ program \in Programs
  /\ functions = program.made /\ promises = <<>> /\ tasks = <<>>
  /\ pool = <<>> /\ mined = <<>> /\ rules = NoRules /\ failures = 0

UserStep == Create \/ Refine \/ Attach \/ Start
Goes(t) ==
  Continue(t) \/ ProviderAnswers(t) \/ NodeAccepts(t) \/ NodeRefuses(t) \/ Receive(t)
Step == SignerAnswers \/ Mine \/ \E t \in 1..Len(tasks) : Goes(t)

Next == UserStep \/ Step \/ SignerFails \/ \E t \in 1..Len(tasks) : ConnectionFails(t)

\* The event loop runs what can run; signer, provider and node answer in the end,
\* and accepted transactions are mined.
Spec == Init /\ [][Next]_vars /\ WF_vars(Step)

-----------------------------------------------------------------------------
(* Properties. *)

\* What the chain of calls that built function i named last for option f.
NamedLast(i, f) ==
  LET Last[k \in 1..i] ==
        IF f \in DOMAIN functions[k].named THEN functions[k].named[f]
        ELSE IF functions[k].parent = 0 THEN "undefined" ELSE Last[functions[k].parent]
  IN  Last[i]

\* A transaction carries what the builder calls named last, and nothing another
\* object was given: value (but to a constructor), nonce, gas and price unless they
\* are zero, the type even if it is zero, and the sender when one is named.
SentAsBuilt ==
  \A t \in 1..Len(tasks) :
    (tasks[t].promise # 0 /\ promises[tasks[t].promise].state = "resolved") =>
      LET i == tasks[t].fn
          tx == Transaction(t)
          Named(f) == NamedLast(i, f)
      IN  /\ \A f \in {"nonce", "gas", "price"} :
               tx[f] = IF Named(f) \in {"undefined", "null", "0"} THEN "none" ELSE Named(f)
          /\ tx.value = IF IsConstructor(functions[i])
                           \/ Named("value") \in {"undefined", "null", "0"}
                        THEN "none" ELSE Named("value")
          /\ tx.type = IF Named("type") \in {"undefined", "null"} THEN "none" ELSE Named("type")
          /\ Named("from") \notin {"undefined", "null"} => tx.from = Named("from")
          /\ (Named("from") = "undefined" /\ functions[i].contract.signer) => tx.from = "signer"

\* send() reports what became of its own transaction: the node takes one for each
\* task, a send that is done is in a block and did not revert, and none that failed
\* has a transaction waiting or successful as long as no connection was ever lost.
ReceiptsAreOwn ==
  \A t \in 1..Len(tasks) :
    LET blocks == {k \in 1..Len(mined) : mined[k].task = t}
        queued == {k \in 1..Len(pool) : pool[k] = t}
    IN  /\ blocks = {} \/ queued = {}
        /\ \A k, l \in blocks : k = l
        /\ \A k, l \in queued : k = l
        /\ (tasks[t].op = "send" /\ Done(t)) => \E k \in blocks : mined[k].ok
        /\ (tasks[t].op = "submit" /\ Done(t)) => blocks \union queued # {}
        /\ tasks[t].state = "failed" =>
             failures > 0 \/ (queued = {} /\ \A k \in blocks : ~mined[k].ok)

\* What a Doppelganger tells after the first n transactions: the last thing said of
\* the whole calldata counts, unless that was a reset, and else of the function.
Told(n, key) ==
  LET said == {k \in 1..n : mined[k].ok /\ Fragment(mined[k].task).stubs = key}
      last == CHOOSE k \in said : \A l \in said : l <= k
  IN  IF said = {} THEN "none" ELSE Fragment(mined[last].task).rule
Expected(n, args) == IF Told(n, args) = "none" THEN Told(n, "any") ELSE Told(n, args)

\* A stub that was awaited before a call is made counts for the call: the answer is
\* that of some moment after the stub's transaction, whatever runs meanwhile.
AwaitedStubsAnswer ==
  \A t \in 1..Len(tasks) :
    (tasks[t].op = "call" /\ Done(t) /\ Fragment(t).asks # "") =>
      \E n \in 0..Len(mined) :
        /\ \A s \in tasks[t].before :
             (tasks[s].op = "send" /\ Done(s)) => \E k \in 1..n : mined[k].task = s
        /\ tasks[t].answer = Expected(n, Fragment(t).asks)

\* Every call of a method settles its promise, whatever fails: nothing waits for ever.
MaxTasks == CHOOSE n \in {p.maxTasks : p \in Programs} : \A p \in Programs : p.maxTasks <= n
EveryCallSettles ==
  \A t \in 1..MaxTasks : (t \in DOMAIN tasks) ~> (t \in DOMAIN tasks /\ Settled(t))
=============================================================================
