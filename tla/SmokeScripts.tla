---------------------------- MODULE SmokeScripts ----------------------------
(***************************************************************************)
(* What the journeys of the smoke test do (src/script/smoke/journeys), one *)
(* sequence of steps per journey function, in the order of the source.  A  *)
(* step names the Chain method that performs it (module Journeys); calls   *)
(* and views are those of B20Chain.  Policy ids and times are named by the *)
(* Python variable that holds them, `when` by the flag an `if` asks.       *)
(***************************************************************************)
EXTENDS Sequences, Integers

Step(do, who, call, want) ==
  [do |-> do, who |-> who, call |-> call, want |-> want, when |-> "always", check |-> 0]

D == "deployer"
U == "user2"
R == "registry"

Send(who, call)             == Step("send", who, call, "none")
Create(name, call)          == Step("create", D, call, name)
Reverts(error, who, call)   == Step("expect_revert", who, call, error)
DecodeFails(call)           == Step("expect_abi_decode_failed", D, call, "decode")
RawReverts(error, call)     == Step("expect_raw_revert", D, call, error)
RawPanics(call)             == Step("expect_raw_panic", D, call, "Panic(0x11)")
SendReverts(call)           == Step("send_expecting_revert", D, call, "none")
NotLogged(event)            == Step("assert_no_log", D, event, "none")
Is(view, want)              == Step("assert_eq", D, view, want)
Affirms(view)               == Is(view, TRUE)
Refutes(view)               == Is(view, FALSE)
IsNamed(view, name)         == Step("assert_named", D, view, name)
AreNamed(view, names)       == Step("assert_all_named", D, view, names)
Same(view, other)           == Step("assert_same", D, view, other)
Read(name, view)            == Step("read", D, view, name)
Order(first, second)        == Step("assert_log_order", D, first, second)
Logged(event)               == Step("assert_log", D, event, "none")
Payload(event, want)        == Step("event_args", D, event, want)
Times(event, m, name)       == Step("event_times", D, event, <<m, name>>)
Children(names)             == Step("composite_children_from", D, "none", names)
Emitted(events)             == Step("assert_events_emitted", D, "none", events)
Now(name, later)            == Step("now", D, later, name)
Probe(flag, view)           == Step("supports_erc165", D, view, flag)
ProbeView(flag, view)       == Step("probe_view", D, view, flag)
ProbeCall(flag, call, error) == Step("probe_call", D, call, <<flag, error>>)
Fails(error, call)          == Step("probe_fails", D, call, error)
SkipUnless(flag)            == Step("skip", D, "none", flag)
Fund                        == Step("fund_user2", D, "none", "none")
Deploy(target)              == Step("deploy", D, target, "none")
Poll(name, m)               == Step("poll", D, name, m)

When(flag, steps)   == [i \in DOMAIN steps |-> [steps[i] EXCEPT !.when = flag]]
Checked(k, steps)   == [i \in DOMAIN steps |-> [steps[i] EXCEPT !.check = k]]

(* Members are added to a list, or dropped from it, one at a time. *)
Listing(fn, id, account)   == <<fn, R, id, TRUE, {account}>>
Delisting(fn, id, account) == <<fn, R, id, FALSE, {account}>>
Adds(id, account)   == Send(D, Listing("updateAllowlist", id, account))
Drops(id, account)  == Send(D, Delisting("updateAllowlist", id, account))
Blocks(id, account) == Send(D, Listing("updateBlocklist", id, account))

(* init_call: the bootstrap call is encoded as the call it will be. *)
Grants(tok, roles) == [i \in DOMAIN roles |-> <<"grantRole", tok, roles[i], D>>]
CreateAsset(tok, inits) ==
  <<Send(D, <<"createB20", tok, "ASSET", 18, "empty", inits>>)>>
NewAsset(tok, inits) == CreateAsset(tok, inits) \o <<Affirms(<<"isB20Initialized", tok>>)>>

-----------------------------------------------------------------------------
(* factory *)

FactoryJourney ==
  << Affirms(<<"isB20", "factory-asset">>), Refutes(<<"isB20Initialized", "factory-asset">>) >>
  \o NewAsset("factory-asset", <<>>) \o
  << Is(<<"getB20Address", "factory-asset">>, "factory-asset"),
     Send(D, <<"createB20", "factory-stablecoin", "STABLECOIN", 6, "USD", <<>> >>),
     Is(<<"getB20Address", "factory-stablecoin">>, "factory-stablecoin"),
     Affirms(<<"isB20", "factory-stablecoin">>), Refutes(<<"isB20", "dead">>) >>

FactoryEdges ==
  << Reverts("TokenAlreadyExists", D,
             <<"createB20", "factory-asset", "ASSET", 18, "empty", <<>> >>),
     Reverts("InvalidDecimals", D, <<"createB20", "factory-d5", "ASSET", 5, "empty", <<>> >>),
     Reverts("InvalidDecimals", D, <<"createB20", "factory-d19", "ASSET", 19, "empty", <<>> >>),
     Reverts("InvalidCurrency", D, <<"createB20", "factory-lc", "STABLECOIN", 6, "usd", <<>> >>),
     Reverts("MissingRequiredField", D,
             <<"createB20", "factory-ec", "STABLECOIN", 6, "empty", <<>> >>),
     DecodeFails(<<"createB20", "factory-bv", "other", 18, "empty", <<>> >>) >>

Factory == FactoryJourney \o FactoryEdges \o <<Emitted({"B20Created"})>>

-----------------------------------------------------------------------------
(* asset *)

AssetRoles == <<"MINT", "BURN", "BURN_BLOCKED", "PAUSE", "UNPAUSE", "METADATA", "OPERATOR">>

AssetSetup ==
  NewAsset("asset", Append(Grants("asset", AssetRoles), <<"updateSupplyCap", "asset", 1000000>>))
  \o <<Is(<<"decimals", "asset">>, 18)>>

AssetJourney ==
  << Send(D, <<"mint", "asset", "alice", 1000>>),
     Is(<<"balanceOf", "asset", "alice">>, 1000), Is(<<"totalSupply", "asset">>, 1000),
     Send(D, <<"mint", "asset", D, 500>>),
     Send(D, <<"transfer", "asset", "bob", 200>>),
     Is(<<"balanceOf", "asset", "bob">>, 200), Is(<<"balanceOf", "asset", D>>, 300),
     Send(D, <<"transferWithMemo", "asset", "bob", 1>>), Order("Transfer", "Memo"),
     Send(D, <<"approve", "asset", U, 50>>), Fund,
     Send(U, <<"transferFrom", "asset", D, "bob", 50>>),
     Is(<<"allowance", "asset", D, U>>, 0), Is(<<"balanceOf", "asset", "bob">>, 251),
     Send(D, <<"announce", "asset", "batch-1",
               << <<"batchMint", "asset", << <<"alice", 10>>, <<"bob", 20>> >> >> >> >>),
     Affirms(<<"isAnnouncementIdUsed", "asset", "batch-1">>),
     Is(<<"balanceOf", "asset", "alice">>, 1010), Is(<<"balanceOf", "asset", "bob">>, 271),
     Send(D, <<"announce", "asset", "rebase-1", << <<"updateMultiplier", "asset", 2>> >> >>),
     Is(<<"multiplier", "asset">>, 2), Is(<<"scaledBalanceOf", "asset", "alice">>, 2020),
     Is(<<"toRawOfScaled", "asset", 12345>>, 12345),
     Send(D, <<"updateExtraMetadata", "asset", "category", "rwa">>),
     Is(<<"text", "asset", "category">>, "rwa"),
     Send(D, <<"updateExtraMetadata", "asset", "category", "empty">>),
     Is(<<"text", "asset", "category">>, "empty"),
     Send(D, <<"updateName", "asset", "AssetTwo">>), Is(<<"text", "asset", "name">>, "AssetTwo"),
     Send(D, <<"updateSymbol", "asset", "AST2">>), Is(<<"text", "asset", "symbol">>, "AST2"),
     Send(D, <<"burn", "asset", 100>>), Is(<<"totalSupply", "asset">>, 1430) >>

\* Mutant of ExecutorPolicy: the default policy is not restored.
ExecutorPolicy_notRestored ==
  << Create("executor_policy", <<"createPolicyWithAccounts", R, D, "ALLOWLIST", {D}>>),
     Send(D, <<"updatePolicy", "asset", "EXECUTOR", "executor_policy">>),
     Send(D, <<"transfer", "asset", "alice", 1>>),
     Reverts("PolicyForbids", U, <<"transfer", "asset", "alice", 1>>) >>

ExecutorPolicy ==
  << Create("executor_policy", <<"createPolicyWithAccounts", R, D, "ALLOWLIST", {D}>>),
     Send(D, <<"updatePolicy", "asset", "EXECUTOR", "executor_policy">>),
     Is(<<"TRANSFER_EXECUTOR_POLICY", "asset">>, "TRANSFER_EXECUTOR_POLICY"),
     IsNamed(<<"policyId", "asset", "EXECUTOR">>, "executor_policy"),
     Send(D, <<"transfer", "asset", "alice", 1>>),
     Send(D, <<"transferWithMemo", "asset", "alice", 1>>), Order("Transfer", "Memo"),
     Reverts("PolicyForbids", U, <<"transfer", "asset", "alice", 1>>),
     Reverts("PolicyForbids", U, <<"transferWithMemo", "asset", "alice", 1>>),
     Send(D, <<"updatePolicy", "asset", "EXECUTOR", "ALWAYS_ALLOW">>) >>

TokenRecipient ==
  <<ProbeCall("denim", <<"transfer", "asset", "asset", 0>>, "InvalidReceiver")>> \o When("denim",
  << Reverts("InvalidReceiver", D, <<"transfer", "asset", "asset", 1>>),
     Reverts("InvalidReceiver", U, <<"transferFrom", "asset", D, "asset", 1>>),
     Reverts("InvalidReceiver", D, <<"mint", "asset", "asset", 1>>),
     Reverts("InvalidReceiver", D,
             <<"batchMint", "asset", << <<"alice", 1>>, <<"asset", 1>> >> >>) >>)

AssetEdges ==
  << Send(D, <<"updateSupplyCap", "asset", 1430>>),
     Reverts("SupplyCapExceeded", D, <<"mint", "asset", "alice", 1>>),
     Reverts("InsufficientBalance", U, <<"transfer", "asset", "bob", 1>>),
     Reverts("InsufficientAllowance", U, <<"transferFrom", "asset", D, "bob", 1>>) >>
  \o TokenRecipient \o
  << Send(D, <<"approve", "asset", U, 5>>), Send(D, <<"pause", "asset", "TRANSFER">>),
     Affirms(<<"isPaused", "asset", "TRANSFER">>),
     Reverts("ContractPaused", D, <<"transfer", "asset", "bob", 1>>),
     Reverts("ContractPaused", U, <<"transferFrom", "asset", D, "bob", 1>>),
     Send(D, <<"unpause", "asset", "TRANSFER">>), Refutes(<<"isPaused", "asset", "TRANSFER">>),
     Send(D, <<"transfer", "asset", "bob", 1>>), Is(<<"balanceOf", "asset", "bob">>, 272),
     Reverts("AccessControlUnauthorizedAccount", U, <<"mint", "asset", "alice", 1>>),
     Reverts("AnnouncementIdAlreadyUsed", D, <<"announce", "asset", "batch-1", <<>> >>),
     RawPanics(<<"announce", "asset", "panic-1", << <<"toScaledBalance", "asset", "max">> >> >>),
     Refutes(<<"isAnnouncementIdUsed", "asset", "panic-1">>) >>

AssetEvents ==
  <<Emitted({"B20Created", "RoleGranted", "SupplyCapUpdated", "PolicyCreated", "AllowlistUpdated",
     "PolicyUpdated", "Transfer", "Memo", "Approval", "Announcement", "EndAnnouncement",
     "MultiplierUpdated", "ExtraMetadataUpdated", "NameUpdated", "SymbolUpdated", "Paused",
     "Unpaused"})>> \o When("v2", <<Emitted({"UIMultiplierUpdated"})>>)

Asset ==
  AssetSetup \o <<Probe("v2", <<"supportsInterface", "asset", "SCALED_UI_AMOUNT">>)>>
  \o AssetJourney \o ExecutorPolicy \o AssetEdges \o AssetEvents

-----------------------------------------------------------------------------
(* multiplier *)

MultiplierSetup == NewAsset("multiplier", Grants("multiplier", <<"OPERATOR", "MINT">>))

MultiplierIds ==
  [i \in 1..4 |-> Affirms(<<"supportsInterface", "multiplier",
                       <<"ERC165", "SCALED_UI_AMOUNT", "NEW_UI_MULTIPLIER", "BALANCES">>[i]>>)]
  \o <<Refutes(<<"supportsInterface", "multiplier", "ffffffff">>)>>

MultiplierAliases ==
  << Send(D, <<"mint", "multiplier", "alice", 1000>>),
     Send(D, <<"updateMultiplier", "multiplier", 2>>),
     Logged("UIMultiplierUpdated"), Logged("MultiplierUpdated"),
     Is(<<"multiplier", "multiplier">>, 2),
     Same(<<"uiMultiplier", "multiplier">>, <<"multiplier", "multiplier">>),
     Same(<<"balanceOfUI", "multiplier", "alice">>, <<"scaledBalanceOf", "multiplier", "alice">>),
     Is(<<"balanceOfUI", "multiplier", "alice">>, 2000),
     Same(<<"totalSupplyUI", "multiplier">>, <<"toUIAmountOfSupply", "multiplier">>) >>

ScheduleReverts ==
  << Now("future", "hour"),
     Reverts("InvalidMultiplier", D, <<"updateUIMultiplier", "multiplier", 0, "future">>),
     Reverts("InvalidMultiplier", D, <<"updateUIMultiplier", "multiplier", 1001, "future">>),
     Now("now", "none"),
     Reverts("EffectiveAtInPast", D, <<"updateUIMultiplier", "multiplier", 3, "now">>),
     Reverts("EffectiveAtTooFar", D, <<"updateUIMultiplier", "multiplier", 3, "2^64">>) >>

ScheduleAndCancel ==
  << Now("sched", "hour"),
     Send(D, <<"updateUIMultiplier", "multiplier", 3, "sched">>),
     Times("UIMultiplierUpdated", <<2, 3>>, "sched"),
     Is(<<"newUIMultiplier", "multiplier">>, 3), IsNamed(<<"effectiveAt", "multiplier">>, "sched"),
     Is(<<"uiMultiplier", "multiplier">>, 2),
     Now("later", "hour"),
     Reverts("UIMultiplierUpdateExists", D, <<"updateUIMultiplier", "multiplier", 4, "later">>),
     Send(D, <<"cancelUIMultiplierUpdate", "multiplier">>),
     Times("UIMultiplierUpdateCancelled", <<3>>, "sched"),
     Is(<<"effectiveAt", "multiplier">>, 0),
     Same(<<"newUIMultiplier", "multiplier">>, <<"uiMultiplier", "multiplier">>),
     Is(<<"uiMultiplier", "multiplier">>, 2),
     Reverts("UIMultiplierUpdateDoesNotExist", D, <<"cancelUIMultiplierUpdate", "multiplier">>) >>

FailsafeClears ==
  << Now("cleared_sched", "hour"),
     Send(D, <<"updateUIMultiplier", "multiplier", 5, "cleared_sched">>),
     Send(D, <<"updateMultiplier", "multiplier", 6>>), Logged("UIMultiplierUpdated"),
     Times("UIMultiplierUpdateCancelled", <<5>>, "cleared_sched"), Logged("MultiplierUpdated"),
     Is(<<"multiplier", "multiplier">>, 6), Is(<<"effectiveAt", "multiplier">>, 0) >>

ObserveFlip == When("observe_flip",
  << Now("flip", "window"),
     Send(D, <<"updateUIMultiplier", "multiplier", 7, "flip">>),
     Is(<<"uiMultiplier", "multiplier">>, 6), Poll("flip", 7) >>)
  \o When("flipped", << Is(<<"uiMultiplier", "multiplier">>, 7),
                        Is(<<"newUIMultiplier", "multiplier">>, 7) >>)

MultiplierScript ==
  MultiplierSetup \o
  << Probe("cobalt", <<"supportsInterface", "multiplier", "SCALED_UI_AMOUNT">>),
     SkipUnless("cobalt") >>
  \o MultiplierIds \o MultiplierAliases \o ScheduleReverts \o ScheduleAndCancel
  \o FailsafeClears \o ObserveFlip
  \o <<Emitted({"UIMultiplierUpdated", "UIMultiplierUpdateCancelled"})>>

-----------------------------------------------------------------------------
(* stablecoin *)

StablecoinSetup ==
  << Send(D, <<"createB20", "stablecoin", "STABLECOIN", 6, "USD",
       Grants("stablecoin", <<"MINT", "BURN", "BURN_BLOCKED", "PAUSE", "UNPAUSE", "METADATA">>)>>),
     Affirms(<<"isB20Initialized", "stablecoin">>) >>

StablecoinJourney ==
  << Is(<<"currency", "stablecoin">>, "USD"), Is(<<"decimals", "stablecoin">>, 6),
     Send(D, <<"mint", "stablecoin", "alice", 1000>>),
     Is(<<"balanceOf", "stablecoin", "alice">>, 1000),
     Send(D, <<"mint", "stablecoin", D, 500>>), Send(D, <<"transfer", "stablecoin", "bob", 200>>),
     Is(<<"balanceOf", "stablecoin", "bob">>, 200), Is(<<"balanceOf", "stablecoin", D>>, 300),
     Create("pid", <<"createPolicy", R, D, "BLOCKLIST">>),
     Send(D, <<"updatePolicy", "stablecoin", "SENDER", "pid">>),
     Blocks("pid", "alice"),
     Refutes(<<"isAuthorized", R, "pid", "alice">>),
     Send(D, <<"burnBlocked", "stablecoin", "alice", 400>>),
     Is(<<"balanceOf", "stablecoin", "alice">>, 600), Is(<<"totalSupply", "stablecoin">>, 1100),
     Order("Transfer", "BurnedBlocked") >>

StablecoinEdges ==
  << Reverts("AccountNotBlocked", D, <<"burnBlocked", "stablecoin", "bob", 1>>),
     Reverts("AccessControlUnauthorizedAccount", U, <<"mint", "stablecoin", "alice", 1>>) >>

Stablecoin ==
  StablecoinSetup \o StablecoinJourney \o StablecoinEdges \o
  <<Emitted({"B20Created", "RoleGranted", "Transfer", "BurnedBlocked", "PolicyCreated",
             "BlocklistUpdated", "PolicyUpdated"})>>

-----------------------------------------------------------------------------
(* seize *)

Seizes(from, to, n) == <<"seizeWithMemo", "seize", from, to, n>>
Holds(tok, account, n) == Is(<<"balanceOf", tok, account>>, n)

SeizeJourney ==
  << Is(<<"SEIZE_EXEMPT_POLICY", "seize">>, "SEIZE_EXEMPT_POLICY"),
     Is(<<"SEIZE_RECEIVER_POLICY", "seize">>, "SEIZE_RECEIVER_POLICY"),
     Is(<<"SEIZE_ROLE", "seize">>, "SEIZE_ROLE"),
     Send(D, <<"mint", "seize", "alice", 1000>>), Send(D, <<"mint", "seize", D, 10>>),
     Holds("seize", "alice", 1000), Is(<<"totalSupply", "seize">>, 1010),
     Create("pid", <<"createPolicy", R, D, "BLOCKLIST">>),
     Send(D, <<"updatePolicy", "seize", "SEIZE_EXEMPT", "pid">>),
     Blocks("pid", "alice"),
     Refutes(<<"isAuthorized", R, "pid", "alice">>),
     Affirms(<<"isAuthorized", R, "pid", "bob">>),
     Send(D, Seizes("alice", "bob", 400)), Holds("seize", "alice", 600),
     Holds("seize", "bob", 400), Is(<<"totalSupply", "seize">>, 1010),
     Order("Transfer", "Memo"), Order("Memo", "Seized"),
     Payload("Seized", <<D, "alice", "bob", 400>>) >>

SeizeEdges ==
  << Reverts("AccountNotSeizable", D, Seizes("bob", D, 1)),
     Reverts("AccessControlUnauthorizedAccount", U, Seizes("alice", "bob", 1)),
     Reverts("InvalidReceiver", D, Seizes("alice", "zero", 1)),
     ProbeCall("denim", Seizes("alice", "seize", 1), "any") >>
  \o When("denim", <<Reverts("InvalidReceiver", D, Seizes("alice", "seize", 1))>>) \o
  << Reverts("InvalidSender", D, Seizes("zero", "bob", 1)),
     Reverts("InvalidReceiver", D, Seizes("alice", "alice", 1)), Holds("seize", "alice", 600) >>

Decoupling ==
  << Create("recv_pid", <<"createPolicy", R, D, "BLOCKLIST">>),
     Send(D, <<"updatePolicy", "seize", "RECEIVER", "recv_pid">>),
     Blocks("recv_pid", "bob"),
     Refutes(<<"isAuthorized", R, "recv_pid", "bob">>),
     Send(D, <<"updatePolicy", "seize", "EXECUTOR", "ALWAYS_BLOCK">>),
     IsNamed(<<"policyId", "seize", "EXECUTOR">>, "ALWAYS_BLOCK"),
     Reverts("PolicyForbids", D, <<"transfer", "seize", "bob", 1>>),
     Send(D, Seizes("alice", "bob", 100)), Holds("seize", "bob", 500), Holds("seize", "alice", 500),
     Send(D, <<"updatePolicy", "seize", "EXECUTOR", "ALWAYS_ALLOW">>) >>

SeizePause ==
  << Send(D, <<"pause", "seize", "SEIZE">>), Affirms(<<"isPaused", "seize", "SEIZE">>),
     Refutes(<<"isPaused", "seize", "TRANSFER">>),
     Reverts("ContractPaused", D, Seizes("alice", "bob", 1)),
     Send(D, <<"transfer", "seize", "alice", 10>>), Holds("seize", "alice", 510),
     Send(D, <<"unpause", "seize", "SEIZE">>), Refutes(<<"isPaused", "seize", "SEIZE">>),
     Send(D, Seizes("alice", "bob", 100)), Holds("seize", "bob", 600),
     Is(<<"totalSupply", "seize">>, 1010) >>

ReceiverPolicy ==
  << Is(<<"SEIZE_RECEIVER_POLICY", "seize">>, "SEIZE_RECEIVER_POLICY"),
     Send(D, Seizes("alice", D, 10)), Holds("seize", D, 10),
     Create("recv_pid", <<"createPolicy", R, D, "ALLOWLIST">>),
     Send(D, <<"updatePolicy", "seize", "SEIZE_RECEIVER", "recv_pid">>),
     Adds("recv_pid", "bob"),
     Affirms(<<"isAuthorized", R, "recv_pid", "bob">>),
     Refutes(<<"isAuthorized", R, "recv_pid", D>>),
     Send(D, Seizes("alice", "bob", 100)), Holds("seize", "bob", 700),
     Reverts("PolicyForbids", D, Seizes("alice", D, 1)) >>

SeizeSetup == NewAsset("seize", Grants("seize", <<"MINT", "SEIZE", "PAUSE", "UNPAUSE">>))
IsCobalt   == ProbeView("cobalt", <<"SEIZE_EXEMPT_POLICY", "seize">>)

Seize ==
  SeizeSetup \o <<IsCobalt, SkipUnless("cobalt")>>
  \o SeizeJourney \o SeizeEdges \o Decoupling \o SeizePause \o ReceiverPolicy
  \o <<Emitted({"B20Created", "RoleGranted", "Transfer", "Memo", "Seized", "PolicyCreated",
                "BlocklistUpdated", "AllowlistUpdated", "PolicyUpdated", "Paused", "Unpaused"})>>

-----------------------------------------------------------------------------
(* policy *)

Exists(id)              == Affirms(<<"policyExists", R, id>>)
Absent(id)              == Refutes(<<"policyExists", R, id>>)
Admin(id, is)           == Is(<<"policyAdmin", R, id>>, is)
Pending(id, is)         == Is(<<"pendingPolicyAdmin", R, id>>, is)
Allows(id, account)     == Affirms(<<"isAuthorized", R, id, account>>)
Denies(id, account)     == Refutes(<<"isAuthorized", R, id, account>>)
AllowlistOf(name, accounts) ==
  Create(name, <<"createPolicyWithAccounts", R, D, "ALLOWLIST", accounts>>)
CompositeOf(name, type, children) ==
  Create(name, <<"createCompositePolicy", R, D, type, children>>)

\* A token whose two receiver lanes are wired to the policy while it is created.
Gated(tok, id) ==
  CreateAsset(tok, << <<"updatePolicy", tok, "RECEIVER", id>>,
                      <<"updatePolicy", tok, "MINT_RECEIVER", id>>,
                      <<"grantRole", tok, "MINT", D>> >>)
  \o <<IsNamed(<<"policyId", tok, "MINT_RECEIVER">>, id)>>

PolicyJourney ==
  << Create("pid_a", <<"createPolicy", R, D, "ALLOWLIST">>), Exists("pid_a"),
     Admin("pid_a", D),
     Create("pid_b", <<"createPolicyWithAccounts", R, D, "BLOCKLIST", {"bob"}>>),
     Denies("pid_b", "bob"), Allows("pid_b", "alice"),
     Adds("pid_a", "alice"), Allows("pid_a", "alice"), Denies("pid_a", "bob"),
     Allows("ALWAYS_ALLOW", "bob"), Denies("ALWAYS_BLOCK", "bob"),
     Send(D, <<"stageUpdateAdmin", R, "pid_a", U>>), Pending("pid_a", U), Fund,
     Send(U, <<"finalizeUpdateAdmin", R, "pid_a">>), Admin("pid_a", U), Pending("pid_a", "zero"),
     Send(U, <<"renounceAdmin", R, "pid_a">>), Admin("pid_a", "zero"), Exists("pid_a") >>

Enforcement ==
  <<AllowlistOf("pid_r", {"alice"})>> \o Gated("policy-enforce", "pid_r") \o
  << Send(D, <<"mint", "policy-enforce", "alice", 100>>), Holds("policy-enforce", "alice", 100),
     Adds("pid_r", D), Send(D, <<"mint", "policy-enforce", D, 100>>),
     Send(D, <<"transfer", "policy-enforce", "alice", 1>>), Holds("policy-enforce", "alice", 101),
     Reverts("PolicyForbids", D, <<"transfer", "policy-enforce", "bob", 1>>),
     Reverts("PolicyForbids", D, <<"mint", "policy-enforce", "bob", 1>>) >>

PolicyEdges ==
  << Reverts("IncompatiblePolicyType", D, Listing("updateBlocklist", "pid_r", "bob")),
     Reverts("Unauthorized", U, Listing("updateAllowlist", "pid_r", "bob")),
     Reverts("ZeroAddress", D, <<"createPolicy", R, "zero", "ALLOWLIST">>),
     Reverts("NoPendingAdmin", D, <<"finalizeUpdateAdmin", R, "pid_b">>),
     Reverts("PolicyNotFound", D, <<"updatePolicy", "policy-enforce", "SENDER", "ghost">>) >>

CompositeGates ==
  << AllowlistOf("pid_x", {"alice", "dave"}), AllowlistOf("pid_y", {"bob", "dave"}),
     CompositeOf("pid_union", "UNION", <<"pid_x", "pid_y">>),
     CompositeOf("pid_inter", "INTERSECT", <<"pid_x", "pid_y">>),
     Exists("pid_union"), Admin("pid_union", D), Exists("pid_inter"),
     Admin("pid_inter", D),
     Allows("pid_union", "alice"), Allows("pid_union", "bob"), Allows("pid_union", "dave"),
     Denies("pid_union", "carol"),
     Allows("pid_inter", "dave"), Denies("pid_inter", "alice"), Denies("pid_inter", "bob"),
     Denies("pid_inter", "carol"),
     Adds("pid_x", "carol"), Allows("pid_union", "carol"), Denies("pid_inter", "carol"),
     Adds("pid_y", "carol"), Allows("pid_inter", "carol"),
     Drops("pid_x", "carol"), Denies("pid_inter", "carol"),
     AllowlistOf("pid_c1", {"erin"}), AllowlistOf("pid_c2", {"erin"}), Allows("pid_union", "alice"),
     Send(D, <<"updateComposite", R, "pid_union", <<"pid_c1", "pid_c2">> >>),
     Denies("pid_union", "alice"), Denies("pid_union", "bob"), Allows("pid_union", "erin"),
     Children(<<"pid_c1", "pid_c2">>) >>

CompositeEdges ==
  LET New(error, admin, type, children) ==
        Reverts(error, D, <<"createCompositePolicy", R, admin, type, children>>)
      Update(error, children) == Reverts(error, D, <<"updateComposite", R, "pid_union", children>>)
      few == <<"pid_x">>
      many == <<"pid_x", "pid_y", "pid_c1", "pid_c2", "pid_b">>
      pair == <<"pid_x", "pid_y">>
  IN  << New("ChildPoliciesOutsideOfRange", D, "UNION", few),
         New("ChildPoliciesOutsideOfRange", D, "UNION", many),
         Update("ChildPoliciesOutsideOfRange", few), Update("ChildPoliciesOutsideOfRange", many),
         New("InvalidChildPolicy", D, "UNION", <<"ALWAYS_ALLOW", "pid_x">>),
         New("InvalidChildPolicy", D, "UNION", <<"ALWAYS_BLOCK", "pid_x">>),
         Update("InvalidChildPolicy", <<"ALWAYS_ALLOW", "pid_x">>),
         New("InvalidChildPolicy", D, "INTERSECT", <<"pid_inter", "pid_x">>),
         Update("InvalidChildPolicy", <<"pid_inter", "pid_x">>),
         Reverts("Unauthorized", U, <<"updateComposite", R, "pid_union", pair>>),
         New("ZeroAddress", "zero", "UNION", pair),
         New("IncompatiblePolicyType", D, "ALLOWLIST", pair),
         New("IncompatiblePolicyType", D, "BLOCKLIST", pair),
         Reverts("IncompatiblePolicyType", D, <<"updateComposite", R, "pid_x", pair>>),
         Reverts("IncompatiblePolicyType", D, Listing("updateAllowlist", "pid_union", "bob")),
         Reverts("IncompatiblePolicyType", D, Listing("updateBlocklist", "pid_inter", "bob")),
         Absent("ghost"),
         New("PolicyNotFound", D, "UNION", <<"pid_x", "ghost">>),
         New("PolicyNotFound", D, "UNION", <<"ghost", "pid_x">>),
         Update("PolicyNotFound", <<"pid_x", "ghost">>),
         New("PolicyNotFound", D, "UNION", <<"pid_inter", "ghost">>) >>

CompositeToken ==
  << AllowlistOf("pid_t1", {"alice"}), AllowlistOf("pid_t2", {D}),
     CompositeOf("pid_tok", "UNION", <<"pid_t1", "pid_t2">>),
     Allows("pid_tok", "alice"), Allows("pid_tok", D), Denies("pid_tok", "bob") >>
  \o Gated("composite-enforce", "pid_tok") \o
  << IsNamed(<<"policyId", "composite-enforce", "RECEIVER">>, "pid_tok"),
     Send(D, <<"mint", "composite-enforce", "alice", 100>>),
     Holds("composite-enforce", "alice", 100), Send(D, <<"mint", "composite-enforce", D, 100>>),
     Send(D, <<"transfer", "composite-enforce", "alice", 1>>),
     Holds("composite-enforce", "alice", 101),
     Reverts("PolicyForbids", D, <<"transfer", "composite-enforce", "bob", 1>>),
     Reverts("PolicyForbids", D, <<"mint", "composite-enforce", "bob", 1>>) >>

Policy ==
  PolicyJourney \o Enforcement \o PolicyEdges \o CompositeGates \o CompositeEdges
  \o CompositeToken
  \o <<Emitted({"PolicyCreated", "AllowlistUpdated", "PolicyAdminStaged", "PolicyAdminUpdated",
                "CompositePolicyUpdated", "B20Created", "PolicyUpdated", "Transfer",
                "RoleGranted"})>>

-----------------------------------------------------------------------------
(* policy-invert *)

InvertedViews ==
  << AllowlistOf("simple", {"alice"}), Read("inverted_simple", <<"invertedPolicyId", R, "simple">>),
     IsNamed(<<"invertedPolicyId", R, "simple">>, "simple^bit63"),
     IsNamed(<<"invertedPolicyId", R, "inverted_simple">>, "simple"),
     Is(<<"MIN_COMPOSITE_CHILD_POLICIES", R, "simple">>, 2),
     Is(<<"MAX_COMPOSITE_CHILD_POLICIES", R, "simple">>, 4),
     Exists("simple"), Exists("inverted_simple"),
     Admin("simple", D), Admin("inverted_simple", D),
     Pending("simple", "zero"), Pending("inverted_simple", "zero"),
     Is(<<"compositePolicyChildIds", R, "simple">>, <<>>),
     Is(<<"compositePolicyChildIds", R, "inverted_simple">>, <<>>),
     Allows("simple", "alice"), Denies("inverted_simple", "alice"),
     Denies("simple", "bob"), Allows("inverted_simple", "bob"),
     Send(D, <<"stageUpdateAdmin", R, "simple", U>>),
     Pending("simple", U), Pending("inverted_simple", U),
     Send(D, <<"stageUpdateAdmin", R, "simple", "zero">>), Pending("inverted_simple", "zero"),
     Read("inverted_unknown", <<"invertedPolicyId", R, "ghost">>),
     Absent("ghost"), Absent("inverted_unknown"),
     Admin("inverted_unknown", "zero"), Pending("inverted_unknown", "zero"),
     Is(<<"compositePolicyChildIds", R, "inverted_unknown">>, <<>>),
     Denies("inverted_unknown", "bob") >>

InvertedSimpleToken ==
  LET tok == "policy-invert-simple"
  IN  Gated(tok, "inverted_simple") \o
      << IsNamed(<<"policyId", tok, "RECEIVER">>, "inverted_simple"),
         Send(D, <<"mint", tok, D, 10>>),
         Reverts("PolicyForbids", D, <<"mint", tok, "alice", 1>>),
         Reverts("PolicyForbids", D, <<"transfer", tok, "alice", 1>>),
         Drops("simple", "alice"), Allows("inverted_simple", "alice"),
         Send(D, <<"mint", tok, "alice", 100>>), Send(D, <<"transfer", tok, "alice", 1>>),
         Holds(tok, "alice", 101),
         Adds("simple", "alice"), Denies("inverted_simple", "alice"),
         Reverts("PolicyForbids", D, <<"mint", tok, "alice", 1>>) >>

InvertedCompositeToken ==
  LET tok == "policy-invert-composite"
      id == "inverted_composite"
  IN  << AllowlistOf("kyc", {"alice", D}), AllowlistOf("sanctions", {"alice"}),
         Read("not_sanctions", <<"invertedPolicyId", R, "sanctions">>),
         CompositeOf("composite", "INTERSECT", <<"kyc", "not_sanctions">>),
         Read(id, <<"invertedPolicyId", R, "composite">>),
         Exists("composite"), Exists(id), Admin(id, D), Pending(id, "zero"),
         AreNamed(<<"compositePolicyChildIds", R, "composite">>, <<"kyc", "not_sanctions">>),
         AreNamed(<<"compositePolicyChildIds", R, id>>, <<"kyc", "not_sanctions">>),
         Denies("composite", "alice"), Allows(id, "alice"), Allows("composite", D), Denies(id, D) >>
      \o Gated(tok, id) \o
      << IsNamed(<<"policyId", tok, "RECEIVER">>, id),
         Send(D, <<"mint", tok, "alice", 100>>), Send(D, <<"mint", tok, "bob", 10>>),
         Reverts("PolicyForbids", D, <<"mint", tok, D, 1>>),
         Drops("sanctions", "alice"), Allows("composite", "alice"), Denies(id, "alice"),
         Reverts("PolicyForbids", D, <<"mint", tok, "alice", 1>>),
         Reverts("PolicyForbids", "bob", <<"transfer", tok, "alice", 1>>) >>

IsDenim ==
  << ProbeView("denim", <<"invertedPolicyId", R, "ALWAYS_ALLOW">>) >>
  \o When("denim", <<IsNamed(<<"invertedPolicyId", R, "ALWAYS_ALLOW">>, "0^bit63")>>)

PolicyInvert ==
  IsDenim \o <<SkipUnless("denim")>>
  \o InvertedViews \o InvertedSimpleToken \o InvertedCompositeToken
  \o <<Emitted({"PolicyCreated", "PolicyAdminStaged", "AllowlistUpdated", "CompositePolicyUpdated",
                "B20Created", "PolicyUpdated", "RoleGranted", "Transfer"})>>

-----------------------------------------------------------------------------
(* invariants: every check runs, whatever became of the ones before it *)

Plain == <<"createPolicy", R, D, "ALLOWLIST">>
ZeroCreate == <<"createPolicy", R, "zero", "ALLOWLIST">>
\* The ids are immaterial: the value is looked at first.
CompositeWrites ==
  << <<"createCompositePolicy", R, D, "UNION", <<"ghost", "ghost">> >>,
     <<"updateComposite", R, "ghost", <<"ghost", "ghost">> >> >>

PayableRejected ==
  <<RawReverts("any", <<"value", R, Plain>>)>>
  \o [i \in 1..2 |-> RawReverts("NonPayable", <<"value", R, CompositeWrites[i]>>)]

CompositeTypeReverts ==
  << RawReverts("IncompatiblePolicyType", <<"createPolicy", R, D, "UNION">>),
     RawReverts("IncompatiblePolicyType", <<"createPolicyWithAccounts", R, D, "UNION", {}>>),
     RawReverts("IncompatiblePolicyType", <<"createPolicy", R, D, "INTERSECT">>),
     RawReverts("IncompatiblePolicyType", <<"createPolicyWithAccounts", R, D, "INTERSECT", {}>>) >>

DirtyHighBits ==
  << Read("clean", <<"isAuthorized", R, "ALWAYS_BLOCK", "bob">>),
     DecodeFails(<<"dirty", R, <<>> >>) >>

ValueForwarding ==
  <<Fails("any", <<"value", R, Plain>>)>>
  \o [i \in 1..2 |-> Fails("any", <<"value", R, CompositeWrites[i]>>)]

Atomicity ==
  LET tok == "invariants-atomicity"
  IN  CreateAsset(tok, << <<"grantRole", tok, "MINT", "probe">> >>) \o
      << Read("supply_before", <<"totalSupply", tok>>),
         Read("alice_before", <<"balanceOf", tok, "alice">>),
         SendReverts(<<"callThenRevert", tok, <<"mint", tok, "alice", 1000>> >>),
         NotLogged("Transfer"), IsNamed(<<"totalSupply", tok>>, "supply_before"),
         IsNamed(<<"balanceOf", tok, "alice">>, "alice_before") >>

CreationGas ==
  LET control == "invariants-gas-control" fed == "invariants-gas-prefunded"
  IN  CreateAsset(control, <<>>)
      \o <<Deploy(fed), Affirms(<<"getBalance", fed>>)>> \o CreateAsset(fed, <<>>)
      \o <<Refutes(<<"cheaper", fed, control>>)>>

UnknownSelector    == <<RawReverts("any", <<"selector", "factory", <<>> >>)>>
EmptyCalldata      == <<RawReverts("any", <<"empty", "factory", <<>> >>)>>
TruncatedArgs      == <<RawReverts("any", <<"truncated", R, <<>> >>)>>
EnumOutOfRange     == <<RawReverts("any", <<"enum", R, <<>> >>)>>
StaticcallReadOnly == <<Fails("any", <<"staticcall", R, Plain>>)>>
ReturndataFidelity == <<Fails("ZeroAddress", <<"returndata", R, ZeroCreate>>)>>
OOGContained       == <<Fails("any", <<"gas", R, ZeroCreate>>)>>

InvariantsSetup == <<Deploy("probe")>>

Invariants ==
  InvariantsSetup
  \o Checked(1, PayableRejected)      \o Checked(2, UnknownSelector)
  \o Checked(3, EmptyCalldata)        \o Checked(4, TruncatedArgs)
  \o Checked(5, EnumOutOfRange)       \o Checked(6, CompositeTypeReverts)
  \o Checked(7, DirtyHighBits)        \o Checked(8, StaticcallReadOnly)
  \o Checked(9, ValueForwarding)      \o Checked(10, ReturndataFidelity)
  \o Checked(11, OOGContained)        \o Checked(12, Atomicity)
  \o Checked(13, CreationGas)

Scripts ==
  [factory |-> Factory, asset |-> Asset, multiplier |-> MultiplierScript,
   stablecoin |-> Stablecoin, seize |-> Seize, policy |-> Policy,
   policyinvert |-> PolicyInvert, invariants |-> Invariants]

ORDER == <<"factory", "asset", "multiplier", "stablecoin", "seize", "policy", "policyinvert",
           "invariants">>
=============================================================================
