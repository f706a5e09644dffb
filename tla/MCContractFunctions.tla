-------------------------- MODULE MCContractFunctions --------------------------
(* Instances of ContractFunctions for TLC: three programs of user code. *)
EXTENDS ContractFunctions

Connected == [signer |-> TRUE, provider |-> TRUE]
Offline   == [signer |-> TRUE, provider |-> FALSE]   \* a signer without a provider
ReadOnly  == [signer |-> FALSE, provider |-> TRUE]

Plain(kind, mayRevert) ==
  [kind |-> kind, asks |-> "", stubs |-> "", rule |-> "none", mayRevert |-> mayRevert]
Stub(key, rule) ==
  [kind |-> "send", asks |-> "", stubs |-> key, rule |-> rule, mayRevert |-> FALSE]
Query(key) ==
  [kind |-> "call", asks |-> key, stubs |-> "", rule |-> "none", mayRevert |-> FALSE]

\* Options named, overridden, populated in any order.
Building ==
  [contracts |-> {Connected}, fragments |-> {Plain("send", FALSE), Plain("constructor", FALSE)},
   options |-> {[from |-> "null", value |-> "1"]},
   overrides |-> {[bytecode |-> "code"], [gas |-> "0", price |-> "2", nonce |-> "1"],
                  [value |-> "2", type |-> "0"]},
   ops |-> {"refresh", "send"}, made |-> <<>>, maxFunctions |-> 3, maxTasks |-> 2]

\* Contracts with and without signer and provider, and arguments that do not encode.
Connecting ==
  [contracts |-> {Connected, Offline, ReadOnly}, fragments |-> {Plain("send", TRUE)},
   options |-> {<<>>}, overrides |-> {[args |-> "wrong"], [from |-> "other"]},
   ops |-> {"populate", "call", "estimate", "send", "submit"},
   made |-> <<>>, maxFunctions |-> 2, maxTasks |-> 2]

\* Two stubs of a mock, awaited or not, and a query they race with.
Mocking(stub, other) ==
  LET fragments == {stub, other, Query("x")}
  IN  [contracts |-> {Connected}, fragments |-> fragments, options |-> {<<>>}, overrides |-> {},
       ops |-> {"call", "send"}, maxFunctions |-> 3, maxTasks |-> 3,
       made |-> <<Function(Connected, stub, NoOptions, <<>>, 0),
                  Function(Connected, other, NoOptions, <<>>, 0),
                  Function(Connected, Query("x"), NoOptions, <<>>, 0)>>]

AllPrograms ==
  {Building, Connecting, Mocking(Stub("any", "a"), Stub("x", "b")),
   Mocking(Stub("x", "b"), Stub("x", "none"))}
================================================================================
