------------------------------ MODULE MCB20Calls ------------------------------
(***************************************************************************)
(* Two senders, one of whom deploys a token, and calls chosen so that each *)
(* guard fails at each depth: in a batch, in an announcement, in a batch   *)
(* in an announcement, in the init calls, in an announcement among them.   *)
(***************************************************************************)
EXTENDS B20Calls

CONSTANTS ann, bob

MCDeployer == [t \in Tokens |-> IF t = "t1" THEN ann ELSE bob]
Message(name, value, nonce) ==
  [token |-> "t1", name |-> name, owner |-> bob, value |-> value, nonce |-> nonce, deadline |-> 1]

Batch(pairs)        == [op |-> "batchMint", pairs |-> pairs]
Grant(role, to)     == [op |-> "grantRole", role |-> role, to |-> to]
Rename(name)        == [op |-> "updateName", name |-> name]
Permitted(m)        == [op |-> "permit", message |-> m]
Announced(id, calls) == [op |-> "announce", id |-> id, calls |-> calls]

MCRequests ==
  {Batch(<< <<bob, 1>>, <<bob, 1>> >>),
   Batch(<< <<bob, 1>>, <<"t1", 1>> >>),
   Rename("new"), Rename("old"),
   [op |-> "pause"], [op |-> "updateSupplyCap", cap |-> 1], [op |-> "approve", value |-> 2],
   Permitted(Message("old", 1, 0)), Permitted(Message("new", 2, 0)), Permitted(Message("old", 2, 1)),
   Announced("i", <<Batch(<< <<bob, 1>> >>), Rename("new")>>),
   Announced("i", <<Permitted(Message("old", 1, 0)), Permitted(Message("old", 2, 1))>>),
   Announced("i", <<Grant("MINT", ann), Batch(<< <<bob, 1>> >>)>>),
   Announced("j", <<Rename("new"), Announced("k", <<>>)>>)}

MCCalls ==
  MCRequests \union
  {Announced("k", <<>>),
   Batch(<< <<bob, 1>> >>), Grant("MINT", ann), Grant("MINT", bob), Grant("PAUSE", bob), Grant("OPERATOR", ann),
   Grant("OPERATOR", bob), Grant("METADATA", ann), Grant("METADATA", bob),
   Announced("i", <<Batch(<< <<bob, 1>> >>)>>),
   Announced("i", <<Batch(<< <<bob, 1>>, <<bob, 1>> >>)>>)}

Params(kind, admin, calls) == [params |-> kind, name |-> "old", admin |-> admin, calls |-> calls]

MCCreations ==
  {Params("invalid", ann, <<>>),
   Params("valid", ann, <<Grant("PAUSE", bob), Grant("OPERATOR", bob), Grant("METADATA", bob)>>),
   Params("valid", bob, <<Announced("i", <<Batch(<< <<bob, 1>> >>)>>), Grant("MINT", bob)>>),
   Params("valid", Zero, <<Grant("OPERATOR", ann), [op |-> "updateSupplyCap", cap |-> 1],
                           Announced("i", <<Batch(<< <<bob, 1>>, <<bob, 1>> >>)>>)>>),
   Params("valid", Zero, <<Grant("OPERATOR", ann), Grant("MINT", ann), Grant("METADATA", ann)>>)}
=============================================================================
