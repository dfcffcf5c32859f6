------------------------------ MODULE MCJourneys ------------------------------
(***************************************************************************)
(* Every journey by itself, a pair, a wrong name and no name at all; and,  *)
(* for each bug below, the whole suite with -k on the newest fork.         *)
(***************************************************************************)
EXTENDS Journeys

Alone  == {<<ORDER[i]>> : i \in DOMAIN ORDER}
MCArgs == Alone \union {<<"stablecoin", "factory", "--keep-going">>, <<"tokens">>, <<"-k">>,
                        <<"all", "-k">>}
MCDisturbances(argv) == IF "all" \in ToSet(argv) THEN 0 ELSE 1

\* A guard that one function forgot.
ForgottenOf ==
  [createB20 |-> {"TokenAlreadyExists", "InvalidDecimals", "InvalidCurrency", "MissingRequiredField"},
   transfer |-> {"ContractPaused", "PolicyForbids", "InsufficientBalance"},
   transferWithMemo |-> {"PolicyForbids"},
   transferFrom |-> {"ContractPaused", "InsufficientAllowance", "InvalidReceiver"},
   mint |-> {"AccessControlUnauthorizedAccount", "InvalidReceiver", "PolicyForbids",
             "SupplyCapExceeded"},
   batchMint |-> {"InvalidReceiver"},
   burnBlocked |-> {"AccountNotBlocked"},
   seizeWithMemo |-> {"ContractPaused", "AccessControlUnauthorizedAccount", "InvalidReceiver",
                      "InvalidSender", "AccountNotSeizable", "PolicyForbids"},
   updatePolicy |-> {"PolicyNotFound"},
   announce |-> {"AnnouncementIdAlreadyUsed"},
   updateUIMultiplier |-> {"InvalidMultiplier", "EffectiveAtInPast", "EffectiveAtTooFar",
                           "UIMultiplierUpdateExists"},
   cancelUIMultiplierUpdate |-> {"UIMultiplierUpdateDoesNotExist"},
   createPolicy |-> {"ZeroAddress", "IncompatiblePolicyType"},
   createPolicyWithAccounts |-> {"IncompatiblePolicyType"},
   createCompositePolicy |-> {"ZeroAddress", "IncompatiblePolicyType", "ChildPoliciesOutsideOfRange",
                              "InvalidChildPolicy", "PolicyNotFound"},
   updateComposite |-> {"IncompatiblePolicyType", "Unauthorized", "ChildPoliciesOutsideOfRange",
                        "InvalidChildPolicy", "PolicyNotFound"},
   updateAllowlist |-> {"IncompatiblePolicyType", "Unauthorized"},
   updateBlocklist |-> {"IncompatiblePolicyType"},
   finalizeUpdateAdmin |-> {"NoPendingAdmin"}]

Forgotten ==
  UNION {{<<fn, error>> : error \in ForgottenOf[fn]} : fn \in DOMAIN ForgottenOf}
  \union {<<edge, Rejection[edge]>> : edge \in DOMAIN Rejection \ {"gas"}}

\* An effect that went wrong.
Botched ==
  {<<"children", "first only">>, <<"children", "one by one">>, <<"invertedPolicyId", "saturates">>,
   <<"finalizeUpdateAdmin", "keeps nominee">>, <<"updateComposite", "merges">>,
   <<"transferFrom", "keeps allowance">>, <<"transferWithMemo", "memo first">>,
   <<"seizeWithMemo", "burns">>, <<"seizeWithMemo", "asks receiver lane">>,
   <<"updateMultiplier", "wrong payload">>, <<"updateMultiplier", "keeps pending">>,
   <<"cancelUIMultiplierUpdate", "wrong payload">>, <<"cancelUIMultiplierUpdate", "keeps pending">>,
   <<"announce", "wraps panics">>, <<"callThenRevert", "commits">>, <<"returndata", "empty">>,
   <<"createB20", "discounts prefunded">>}

MCBugs == Forgotten \union Botched
=============================================================================
