------------------------------ MODULE B20Chain ------------------------------
(***************************************************************************)
(* The chain as the smoke test meets it: registry, factory and tokens as   *)
(* one value, and every call the journeys make as a function of it that    *)
(* answers with an error name or with a new chain and its logs.            *)
(*                                                                         *)
(* The order of the reverts is that of the mocks (src/test/lib/mocks), for *)
(* a journey asserts the first one.  What a fork lacks is taken from what  *)
(* src/script/smoke says of it.  A chain may carry one bug: a guard its    *)
(* implementation forgot, or one of the effects below done wrongly.        *)
(*                                                                         *)
(* A call is <<function, target, arguments...>>; the target is the label   *)
(* of a token's salt (its address), or the registry.  Amounts are whole    *)
(* tokens; a journey's single base unit is 1 too.                          *)
(***************************************************************************)
EXTENDS Integers, Sequences, FiniteSets, TLC, SequencesExt

Beryl == 1
Cobalt == 2
Denim == 3

NoBug == <<"none", "none">>

(* Selectors a fork added: an older chain does not know them. *)
SinceCobalt == {"createCompositePolicy", "updateComposite", "seizeWithMemo",
                "SEIZE_EXEMPT_POLICY", "SEIZE_RECEIVER_POLICY", "SEIZE_ROLE",
                "supportsInterface", "uiMultiplier", "newUIMultiplier", "effectiveAt",
                "balanceOfUI", "totalSupplyUI", "updateUIMultiplier",
                "cancelUIMultiplierUpdate", "compositePolicyChildIds",
                "MIN_COMPOSITE_CHILD_POLICIES", "MAX_COMPOSITE_CHILD_POLICIES"}
SinceDenim == {"invertedPolicyId"}

Shipped(s, fn) ==
  /\ fn \in SinceCobalt => s.fork >= Cobalt
  /\ fn \in SinceDenim => s.fork >= Denim

(* Storage reads 0 where nothing was written. *)
At(f, x) == IF x \in DOMAIN f THEN f[x] ELSE 0
Put(f, x, v) == (x :> v) @@ f

(* A call reverts with the first guard that is violated, but for the one   *)
(* the implementation may have forgotten; then nothing has happened.       *)
Reject(s, error) == [error |-> error, chain |-> s, logs |-> <<>>]
Accept(s, logs)  == [error |-> "none", chain |-> s, logs |-> logs]

Guarded(s, fn, guards, result) ==
  LET violated == SelectSeq(guards, LAMBDA g : g[2] /\ s.bug # <<fn, g[1]>>)
  IN  IF violated = <<>> THEN result ELSE Reject(s, violated[1][1])

\* One effect of the function is wrong.
Botches(s, fn, how) == s.bug = <<fn, how>>

-----------------------------------------------------------------------------
(* The policy registry.                                                    *)

MakeId(type, n) == [type |-> type, n |-> n, not |-> FALSE]
ALWAYS_ALLOW == MakeId("BLOCKLIST", 0)
ALWAYS_BLOCK == MakeId("ALLOWLIST", 1)
Ghost        == MakeId("BLOCKLIST", 999999)

Composite    == {"UNION", "INTERSECT"}
Base(id)     == [id EXCEPT !.not = FALSE]
Inverted(id) == [id EXCEPT !.not = ~@]
IsBuiltin(id) == id \in {ALWAYS_ALLOW, ALWAYS_BLOCK}

Created(s, id) == id \in DOMAIN s.policies
PolicyExists(s, id) == IsBuiltin(Base(id)) \/ Created(s, Base(id))
PolicyOf(s, id) ==
  IF Created(s, id) THEN s.policies[id]
  ELSE [admin |-> "zero", pending |-> "zero", members |-> {}, children |-> <<>>]

SimpleAuthorized(s, id, account) ==
  IF IsBuiltin(id) THEN id = ALWAYS_ALLOW
  ELSE (id.type = "ALLOWLIST") = (account \in PolicyOf(s, id).members)

ChildAuthorized(s, id, account) ==
  IF id.not THEN PolicyExists(s, id) /\ ~SimpleAuthorized(s, Base(id), account)
  ELSE SimpleAuthorized(s, id, account)

BaseAuthorized(s, id, account) ==
  LET children == ToSet(PolicyOf(s, id).children)
  IN  CASE id.type = "UNION"     -> \E c \in children : ChildAuthorized(s, c, account)
        [] id.type = "INTERSECT" -> \A c \in children : ChildAuthorized(s, c, account)
        [] OTHER                 -> SimpleAuthorized(s, id, account)

IsAuthorized(s, id, account) ==
  IF id.not
  THEN /\ PolicyExists(s, id) \/ Botches(s, "isAuthorized", "opens unknown")
       /\ ~BaseAuthorized(s, Base(id), account)
  ELSE BaseAuthorized(s, id, account)

(* The answer carries the new id, which PolicyCreated announces. *)
CreatePolicy(s, fn, admin, type, accounts, children) ==
  LET id == MakeId(type, s.counter)
      listed == IF type = "ALLOWLIST" THEN "AllowlistUpdated" ELSE "BlocklistUpdated"
      more == CASE fn = "createPolicyWithAccounts" -> << <<listed, accounts>> >>
                [] fn = "createCompositePolicy" -> << <<"CompositePolicyUpdated", children>> >>
                [] OTHER -> <<>>
  IN  Accept([s EXCEPT !.counter = @ + 1,
                       !.policies = Put(@, id, [admin |-> admin, pending |-> "zero",
                                                members |-> accounts, children |-> children])],
             << <<"PolicyCreated", id>>, <<"PolicyAdminUpdated", admin>> >> \o more)

(* Existence is asked of the whole list before any child is judged. *)
ChildGuards(s, children) ==
  LET missing(id) == ~Created(s, Base(id)) /\ ~IsBuiltin(Base(id))
      unfit(id)   == IsBuiltin(Base(id)) \/ id.type \in Composite
      asked == IF Botches(s, "children", "first only")
               THEN SubSeq(children, 1, 1) ELSE children
      first == SelectInSeq(children, LAMBDA id : missing(id) \/ unfit(id))
      elementwise == Botches(s, "children", "one by one") /\ first # 0 /\ ~missing(children[first])
  IN  << <<"InvalidChildPolicy", elementwise>>,
         <<"PolicyNotFound", \E i \in DOMAIN asked : missing(asked[i])>>,
         <<"InvalidChildPolicy", \E i \in DOMAIN children : unfit(children[i])>> >>

OutsideOfRange(children) == Len(children) \notin 2..4

RegistryCreate(s, who, c) ==
  LET fn == c[1] admin == c[3] type == c[4] composite == type \in Composite
      zero == <<"ZeroAddress", admin = "zero">>
  IN  CASE fn = "createPolicy" ->
             Guarded(s, fn, <<zero, <<"IncompatiblePolicyType", composite>> >>,
                     CreatePolicy(s, fn, admin, type, {}, <<>>))
        [] fn = "createPolicyWithAccounts" ->
             Guarded(s, fn, <<zero, <<"IncompatiblePolicyType", composite>> >>,
                     CreatePolicy(s, fn, admin, type, c[5], <<>>))
        [] OTHER ->
             Guarded(s, fn,
                     <<zero, <<"IncompatiblePolicyType", ~composite>>,
                       <<"ChildPoliciesOutsideOfRange", OutsideOfRange(c[5])>> >>
                       \o ChildGuards(s, c[5]),
                     CreatePolicy(s, fn, admin, type, {}, c[5]))

Filed(s, id, P) == [s EXCEPT !.policies[id] = P]

(* The mutators of an existing policy: c = <<function, "registry", id, ...>>. *)
RegistryUpdate(s, who, c) ==
  LET fn == c[1] id == c[3] P == PolicyOf(s, id)
      found == <<"PolicyNotFound", ~Created(s, id)>>
      owned == <<"Unauthorized", P.admin # who>>
      Now(Q) == Filed(s, id, Q)
      Listed(type, event) ==
        Guarded(s, fn, <<found, <<"IncompatiblePolicyType", id.type # type>>, owned>>,
                Accept(Now([P EXCEPT !.members = IF c[4] THEN @ \union c[5] ELSE @ \ c[5]]),
                       << <<event, c[5]>> >>))
  IN  CASE fn = "stageUpdateAdmin" ->
             Guarded(s, fn, <<found, owned>>,
                     Accept(Now([P EXCEPT !.pending = c[4]]), << <<"PolicyAdminStaged", c[4]>> >>))
        [] fn = "finalizeUpdateAdmin" ->
             Guarded(s, fn, <<found, <<"NoPendingAdmin", P.pending = "zero">>,
                              <<"Unauthorized", P.pending # who>> >>,
                     Accept(Now([P EXCEPT !.admin = who,
                                          !.pending = IF Botches(s, fn, "keeps nominee")
                                                      THEN @ ELSE "zero"]),
                            << <<"PolicyAdminUpdated", who>> >>))
        [] fn = "renounceAdmin" ->
             Guarded(s, fn, <<found, owned>>,
                     Accept(Now([P EXCEPT !.admin = "zero", !.pending = "zero"]),
                            << <<"PolicyAdminUpdated", "zero">> >>))
        [] fn = "updateAllowlist" -> Listed("ALLOWLIST", "AllowlistUpdated")
        [] fn = "updateBlocklist" -> Listed("BLOCKLIST", "BlocklistUpdated")
        [] fn = "updateComposite" ->
             Guarded(s, fn, <<found, <<"IncompatiblePolicyType", id.type \notin Composite>>, owned,
                              <<"ChildPoliciesOutsideOfRange", OutsideOfRange(c[4])>> >>
                              \o ChildGuards(s, c[4]),
                     Accept(Now([P EXCEPT !.children = IF Botches(s, fn, "merges")
                                                       THEN @ \o c[4] ELSE c[4]]),
                            << <<"CompositePolicyUpdated", c[4]>> >>))

Registry == {"createPolicy", "createPolicyWithAccounts", "createCompositePolicy"}
Updates  == {"stageUpdateAdmin", "finalizeUpdateAdmin", "renounceAdmin",
             "updateAllowlist", "updateBlocklist", "updateComposite"}

-----------------------------------------------------------------------------
(* Tokens.                                                                 *)

MaxSupplyCap == 1000000000   \* stands for 2^128 - 1

Planted(variant, decimals, currency) ==
  [variant |-> variant, decimals |-> decimals, currency |-> currency, initialized |-> FALSE,
   bal |-> <<>>, supply |-> 0, cap |-> MaxSupplyCap, allow |-> <<>>, roles |-> {},
   lanes |-> <<>>, paused |-> {}, used |-> {}, text |-> <<>>,
   mult |-> [now |-> 1, next |-> 0, at |-> 0]]

Lane(T, scope) == IF scope \in DOMAIN T.lanes THEN T.lanes[scope] ELSE ALWAYS_ALLOW
Forbids(s, T, scope, account) == ~IsAuthorized(s, Lane(T, scope), account)
Privileged(T, who) == ~T.initialized /\ who = "factory"
Bars(s, T, who, scope, account) == ~Privileged(T, who) /\ Forbids(s, T, scope, account)
Lacks(T, who, role) == <<role, who>> \notin T.roles /\ ~Privileged(T, who)
BadReceiver(s, t, to) == to = "zero" \/ (s.fork >= Denim /\ to = t)

Stored(s, t, T) == [s EXCEPT !.tokens[t] = T]
Moved(T, from, to, n) ==
  LET debited == Put(T.bal, from, At(T.bal, from) - n)
  IN  [T EXCEPT !.bal = Put(debited, to, At(debited, to) + n)]
Burnt(T, from, n) ==
  [T EXCEPT !.bal = Put(@, from, At(@, from) - n), !.supply = @ - n]

Allowing(T, owner, spender, n) == [T EXCEPT !.allow = Put(@, <<owner, spender>>, n)]

(* The multiplier in force: a scheduled one that has matured, or the stored. *)
Effective(s, T) == IF T.mult.at # 0 /\ s.now >= T.mult.at THEN T.mult.next ELSE T.mult.now
MaxMultiplier == 1000   \* stands for 2^128 - 1
MaxTime       == 1000   \* stands for 2^64 - 1
WorthNothing(m) == m = 0 \/ m > MaxMultiplier

(* What a spender has left, and what a transfer emits. *)
Spent(s, fn, T, from, who, n) ==
  IF fn # "transferFrom" \/ Botches(s, fn, "keeps allowance") THEN T
  ELSE Allowing(T, from, who, At(T.allow, <<from, who>>) - n)

TransferLogs(s, fn, who, moved) ==
  LET moves == << <<"Transfer", moved>> >> memo == << <<"Memo", who>> >>
  IN  CASE fn # "transferWithMemo"       -> moves
        [] Botches(s, fn, "memo first")  -> memo \o moves
        [] OTHER                         -> moves \o memo

TransferCall(s, who, c) ==
  LET fn == c[1] t == c[2] T == s.tokens[t]
      spends == fn = "transferFrom"
      from == IF spends THEN c[3] ELSE who
      to == IF spends THEN c[4] ELSE c[3]
      n == IF spends THEN c[5] ELSE c[4]
  IN  Guarded(s, fn,
        << <<"ContractPaused", "TRANSFER" \in T.paused>>,
           <<"InvalidReceiver", BadReceiver(s, t, to)>>,
           <<"InsufficientAllowance", spends /\ At(T.allow, <<from, who>>) < n>>,
           <<"PolicyForbids", Bars(s, T, who, "EXECUTOR", who)>>,
           <<"PolicyForbids", Bars(s, T, who, "SENDER", from)>>,
           <<"PolicyForbids", Bars(s, T, who, "RECEIVER", to)>>,
           <<"InsufficientBalance", At(T.bal, from) < n>> >>,
        Accept(Stored(s, t, Moved(Spent(s, fn, T, from, who, n), from, to, n)),
               TransferLogs(s, fn, who, <<from, to, n>>)))

(* Calls made one after another, up to the first that fails. *)
OneByOne(Make(_, _), s, calls) ==
  FoldLeft(LAMBDA acc, c : IF acc.error # "none" THEN acc
                           ELSE LET r == Make(acc.chain, c) IN [r EXCEPT !.logs = acc.logs \o @],
           Accept(s, <<>>), calls)

(* What the calls of a token have done: they write the storage of tokens. *)
Written(s, done) ==
  [error |-> done.error, chain |-> [s EXCEPT !.tokens = done.chain.tokens], logs |-> done.logs]

(* mint, and batchMint of several: each element is judged after the ones   *)
(* before it were minted, and all of it is undone if one fails.  So do the *)
(* mocks; s.receiversFirst is a chain that first looks at every receiver.  *)
MintInto(s, fn, t, pair) ==
  LET T == s.tokens[t]
  IN  Guarded(s, fn,
        << <<"InvalidReceiver", BadReceiver(s, t, pair[1])>>,
           <<"PolicyForbids", Forbids(s, T, "MINT_RECEIVER", pair[1])>>,
           <<"SupplyCapExceeded", T.supply + pair[2] > T.cap>> >>,
        Accept([s EXCEPT !.tokens[t].supply = @ + pair[2],
                         !.tokens[t].bal = Put(@, pair[1], At(@, pair[1]) + pair[2])],
               << <<"Transfer", pair>> >>))

Minted(s, fn, t, pairs) == OneByOne(LAMBDA now, pair : MintInto(now, fn, t, pair), s, pairs)

AnyBadReceiver(s, t, pairs) == \E i \in DOMAIN pairs : BadReceiver(s, t, pairs[i][1])

MintCall(s, who, c) ==
  LET fn == c[1] t == c[2] T == s.tokens[t]
      pairs == IF fn = "mint" THEN << <<c[3], c[4]>> >> ELSE c[3]
      minted == Written(s, Minted(s, fn, t, pairs))
  IN  Guarded(s, fn, << <<"ContractPaused", "MINT" \in T.paused>>,
                        <<"AccessControlUnauthorizedAccount", Lacks(T, who, "MINT")>>,
                        <<"InvalidReceiver", s.receiversFirst /\ AnyBadReceiver(s, t, pairs)>> >>,
              IF minted.error = "none" THEN minted ELSE Reject(s, minted.error))

BurnCall(s, who, c) ==
  LET fn == c[1] t == c[2] T == s.tokens[t]
      blocked == fn = "burnBlocked"
      from == IF blocked THEN c[3] ELSE who
      n == IF blocked THEN c[4] ELSE c[3]
  IN  Guarded(s, fn,
        << <<"ContractPaused", "BURN" \in T.paused>>,
           <<"AccessControlUnauthorizedAccount",
             Lacks(T, who, IF blocked THEN "BURN_BLOCKED" ELSE "BURN")>>,
           <<"AccountNotBlocked", blocked /\ ~Forbids(s, T, "SENDER", from)>>,
           <<"InsufficientBalance", At(T.bal, from) < n>> >>,
        Accept(Stored(s, t, Burnt(T, from, n)),
               << <<"Transfer", <<from, "zero", n>> >> >>
               \o IF blocked THEN << <<"BurnedBlocked", <<who, from, n>> >> >> ELSE <<>>))

(* A seizure has lanes of its own: what a transfer would ask is not asked. *)
AsksReceiverLane(s, T, to) ==
  Botches(s, "seizeWithMemo", "asks receiver lane") /\ Forbids(s, T, "RECEIVER", to)
Seized(s, T, from, to, n) ==
  IF Botches(s, "seizeWithMemo", "burns") THEN Burnt(T, from, n) ELSE Moved(T, from, to, n)

SeizeCall(s, who, c) ==
  LET fn == c[1] t == c[2] T == s.tokens[t] from == c[3] to == c[4] n == c[5]
  IN  Guarded(s, fn,
        << <<"ContractPaused", "SEIZE" \in T.paused>>,
           <<"AccessControlUnauthorizedAccount", Lacks(T, who, "SEIZE")>>,
           <<"InvalidReceiver", BadReceiver(s, t, to)>>,
           <<"InvalidSender", from = "zero">>,
           <<"InvalidReceiver", from = to>>,
           <<"PolicyForbids", AsksReceiverLane(s, T, to)>>,
           <<"AccountNotSeizable", ~Forbids(s, T, "SEIZE_EXEMPT", from)>>,
           <<"PolicyForbids", Forbids(s, T, "SEIZE_RECEIVER", to)>>,
           <<"InsufficientBalance", At(T.bal, from) < n>> >>,
        Accept(Stored(s, t, Seized(s, T, from, to, n)),
               << <<"Transfer", <<from, to, n>> >>, <<"Memo", who>>,
                  <<"Seized", <<who, from, to, n>> >> >>))

(* The administration of a token: one role each. *)
AdminCall(s, who, c) ==
  LET fn == c[1] t == c[2] T == s.tokens[t]
      By(role, more, change, logs) ==
        Guarded(s, fn, << <<"AccessControlUnauthorizedAccount", Lacks(T, who, role)>> >> \o more,
                Accept(Stored(s, t, change), logs))
      Text(key, event) ==
        By("METADATA", <<>>, [T EXCEPT !.text = Put(@, key, c[Len(c)])], << <<event, c[3]>> >>)
  IN  CASE fn = "grantRole" ->
             By("ADMIN", <<>>, [T EXCEPT !.roles = @ \union {<<c[3], c[4]>>}],
                IF <<c[3], c[4]>> \in T.roles THEN <<>>
                ELSE << <<"RoleGranted", <<c[3], c[4]>> >> >>)
        [] fn = "approve" ->
             Guarded(s, fn, << <<"InvalidSpender", c[3] = "zero">> >>,
                     Accept(Stored(s, t, Allowing(T, who, c[3], c[4])),
                            << <<"Approval", <<who, c[3], c[4]>> >> >>))
        [] fn = "updateSupplyCap" ->
             By("ADMIN", << <<"InvalidSupplyCap", c[3] < T.supply \/ c[3] > MaxSupplyCap>> >>,
                [T EXCEPT !.cap = c[3]], << <<"SupplyCapUpdated", c[3]>> >>)
        [] fn = "updatePolicy" ->
             By("ADMIN", << <<"PolicyNotFound", ~PolicyExists(s, c[4])>> >>,
                [T EXCEPT !.lanes = Put(@, c[3], c[4])], << <<"PolicyUpdated", <<c[3], c[4]>> >> >>)
        [] fn = "pause" ->
             By("PAUSE", <<>>, [T EXCEPT !.paused = @ \union {c[3]}], << <<"Paused", c[3]>> >>)
        [] fn = "unpause" ->
             By("UNPAUSE", <<>>, [T EXCEPT !.paused = @ \ {c[3]}], << <<"Unpaused", c[3]>> >>)
        [] fn = "updateName"          -> Text("name", "NameUpdated")
        [] fn = "updateSymbol"        -> Text("symbol", "SymbolUpdated")
        [] fn = "updateExtraMetadata" -> Text(c[3], "ExtraMetadataUpdated")
        [] OTHER                      -> Reject(s, "unknown selector")

(* The multiplier: immediate, scheduled, cancelled. *)
Cancelled(s, fn, M) == IF Botches(s, fn, "keeps pending") THEN M ELSE [M EXCEPT !.at = 0]
Cancels(s, fn, M) ==
  << <<"UIMultiplierUpdateCancelled",
       <<IF Botches(s, fn, "wrong payload") THEN M.now ELSE M.next, M.at>> >> >>

MultiplierCall(s, who, c) ==
  LET fn == c[1] t == c[2] T == s.tokens[t] M == T.mult
      live == M.at > s.now
      role == <<"AccessControlUnauthorizedAccount", Lacks(T, who, "OPERATOR")>>
      Set(m) == Stored(s, t, [T EXCEPT !.mult = m])
  IN  CASE fn = "updateMultiplier" ->
             Guarded(s, fn, <<role, <<"InvalidMultiplier", WorthNothing(c[3])>> >>,
               Accept(Set([Cancelled(s, fn, M) EXCEPT !.now = c[3]]),
                 (IF live THEN Cancels(s, fn, M) ELSE <<>>)
                 \o << <<"MultiplierUpdated", c[3]>> >>
                 \o IF s.fork >= Cobalt
                    THEN << <<"UIMultiplierUpdated", <<Effective(s, T), c[3], s.now>> >> >>
                    ELSE <<>>))
        [] fn = "updateUIMultiplier" ->
             Guarded(s, fn,
               <<role, <<"InvalidMultiplier", WorthNothing(c[3])>>,
                 <<"EffectiveAtInPast", c[4] <= s.now>>,
                 <<"EffectiveAtTooFar", c[4] > MaxTime>>,
                 <<"UIMultiplierUpdateExists", live>> >>,
               Accept(Set([now |-> Effective(s, T), next |-> c[3], at |-> c[4]]),
                      << <<"UIMultiplierUpdated", <<Effective(s, T), c[3], c[4]>> >> >>))
        [] fn = "cancelUIMultiplierUpdate" ->
             Guarded(s, fn, <<role, <<"UIMultiplierUpdateDoesNotExist", ~live>> >>,
               Accept(Set(Cancelled(s, fn, M)), Cancels(s, fn, M)))
        [] fn = "toScaledBalance" ->
             IF c[3] = "max" /\ Effective(s, T) > 1 THEN Reject(s, "Panic(0x11)")
             ELSE Accept(s, <<>>)

(* A call of a token, but for an announcement. *)
PlainCall(s, who, c) ==
  IF ~Shipped(s, c[1]) THEN Reject(s, "unknown selector") ELSE
  CASE c[1] \in {"transfer", "transferWithMemo", "transferFrom"} -> TransferCall(s, who, c)
    [] c[1] \in {"mint", "batchMint"}    -> MintCall(s, who, c)
    [] c[1] \in {"burn", "burnBlocked"}  -> BurnCall(s, who, c)
    [] c[1] = "seizeWithMemo"            -> SeizeCall(s, who, c)
    [] c[1] \in {"updateMultiplier", "updateUIMultiplier", "cancelUIMultiplierUpdate",
                 "toScaledBalance"}      -> MultiplierCall(s, who, c)
    [] OTHER                             -> AdminCall(s, who, c)

(* The calls of an announcement may be anything but an announcement. *)
InnerCall(s, who, c) ==
  IF c[1] = "announce" THEN Reject(s, "AnnouncementInProgress") ELSE PlainCall(s, who, c)
InnerCalls(s, who, calls) == OneByOne(LAMBDA now, c : InnerCall(now, who, c), s, calls)

(* c = <<"announce", token, id, inner calls>>, and what became of those.     *)
(* The failure of one is wrapped, but for a panic and the nesting; the id is *)
(* free again.                                                               *)
Announced(s, who, c, inner) ==
  LET T == s.tokens[c[2]] failed == inner.error # "none"
      wraps == \/ inner.error \notin {"Panic(0x11)", "AnnouncementInProgress"}
               \/ Botches(s, "announce", "wraps panics")
  IN  Guarded(s, "announce",
        << <<"AccessControlUnauthorizedAccount", Lacks(T, who, "OPERATOR")>>,
           <<"AnnouncementIdAlreadyUsed", c[3] \in T.used>>,
           <<"InternalCallFailed", failed /\ wraps>>,
           <<inner.error, failed>> >>,
        [inner EXCEPT !.logs = << <<"Announcement", c[3]>> >> \o @
                               \o << <<"EndAnnouncement", c[3]>> >>])

Announce(s, who, c) ==
  LET noted == [s EXCEPT !.tokens[c[2]].used = @ \union {c[3]}]
  IN  Announced(s, who, c, Written(s, InnerCalls(noted, who, c[4])))

TokenCall(s, who, c) ==
  IF c[1] = "announce" THEN Announce(s, who, c) ELSE PlainCall(s, who, c)

(* What a creation costs; it must not depend on ether already at the address. *)
Cost(s, t) == IF t \in s.fed /\ Botches(s, "createB20", "discounts prefunded") THEN 1 ELSE 2

(* c = <<"createB20", token, variant, decimals, currency, init calls>>.  The *)
(* factory runs the init calls in the privileged window and then closes it.  *)
(* Every journey names its sender the initial admin.                         *)
Booted(s, who, c, inits) ==
  LET t == c[2] stable == c[3] = "STABLECOIN"
  IN  Guarded(s, "createB20",
        << <<"FeatureNotActivated", c[3] \notin s.features>>,
           <<"InvalidDecimals", ~stable /\ c[4] \notin 6..18>>,
           <<"MissingRequiredField", stable /\ c[5] = "empty">>,
           <<"InvalidCurrency", stable /\ c[5] = "usd">>,
           <<"TokenAlreadyExists", t \in DOMAIN s.tokens>>,
           <<inits.error, inits.error # "none">> >>,
        Accept([inits.chain EXCEPT !.tokens[t].initialized = TRUE,
                                   !.gas = Put(@, t, Cost(s, t))],
               << <<"B20Created", t>>, <<"RoleGranted", <<"ADMIN", who>> >> >> \o inits.logs))

InitCalls(s, calls) == OneByOne(LAMBDA now, c : TokenCall(now, "factory", c), s, calls)

CreateB20(s, who, c) ==
  LET planted == [Planted(c[3], c[4], c[5]) EXCEPT !.roles = {<<"ADMIN", who>>}]
      born    == [s EXCEPT !.tokens = Put(@, c[2], planted)]
  IN  Booted(s, who, c, Written(s, InitCalls(born, c[6])))

(* Any well-formed call of a journey. *)
Call(s, who, c) ==
  IF ~Shipped(s, c[1]) THEN Reject(s, "unknown selector") ELSE
  CASE c[1] \in Registry   ->
         IF s.fork < Cobalt /\ c[4] \in Composite THEN Reject(s, "decode")
         ELSE RegistryCreate(s, who, c)
    [] c[1] \in Updates    -> RegistryUpdate(s, who, c)
    [] c[1] = "createB20"  -> IF c[3] = "other" THEN Reject(s, "decode") ELSE CreateB20(s, who, c)
    [] OTHER               -> TokenCall(s, who, c)

(* Calldata no compiler emits, and calls from a contract's frame:          *)
(* <<edge, target, the call meant>>.  Each edge has its own rejection.     *)
Rejection ==
  [value |-> "NonPayable", selector |-> "unknown selector", empty |-> "unknown selector",
   truncated |-> "decode", enum |-> "decode", dirty |-> "decode",
   staticcall |-> "static", gas |-> "out of gas"]

(* What the edge makes of the call meant; where the probe contract calls *)
(* and then reverts, nothing of the call may remain.                     *)
AtEdge(s, c, r) ==
  CASE c[1] = "callThenRevert" ->
         IF r.error = "none" /\ Botches(s, "callThenRevert", "commits")
         THEN [r EXCEPT !.error = "reverted"] ELSE Reject(s, "reverted")
    [] c[1] = "returndata" ->
         IF Botches(s, "returndata", "empty") THEN [r EXCEPT !.error = "no data"] ELSE r
    [] OTHER ->
         Guarded(s, c[1], << <<Rejection[c[1]], TRUE>> >>,
                 IF c[3] = <<>> THEN Accept(s, <<>>) ELSE r)

Perform(s, who, c) ==
  LET probed == c[1] \in {"callThenRevert", "returndata"}
      edged  == probed \/ c[1] \in DOMAIN Rejection
      Framed(r) == IF edged THEN AtEdge(s, c, r) ELSE r
  IN  Framed(Call(s, IF probed THEN "probe" ELSE who, IF edged THEN c[3] ELSE c))

-----------------------------------------------------------------------------
(* Views: q = <<function, target, arguments...>>.                          *)

RegistryView(s, q) ==
  LET fn == q[1] base == PolicyOf(s, Base(q[3]))
  IN  CASE fn = "policyExists"            -> PolicyExists(s, q[3])
        [] fn = "policyAdmin"             -> base.admin
        [] fn = "pendingPolicyAdmin"      -> base.pending
        [] fn = "compositePolicyChildIds" -> base.children
        [] fn = "isAuthorized"            -> IsAuthorized(s, q[3], q[4])
        [] fn = "invertedPolicyId"        ->
             IF Botches(s, fn, "saturates") THEN [q[3] EXCEPT !.not = TRUE] ELSE Inverted(q[3])
        [] fn = "MIN_COMPOSITE_CHILD_POLICIES" -> 2
        [] fn = "MAX_COMPOSITE_CHILD_POLICIES" -> 4

TokenView(s, q) ==
  LET fn == q[1] T == s.tokens[q[2]]
  IN  CASE fn = "balanceOf"             -> At(T.bal, q[3])
        [] fn = "totalSupply"           -> T.supply
        [] fn = "decimals"              -> T.decimals
        [] fn = "currency"              -> T.currency
        [] fn = "allowance"             -> At(T.allow, <<q[3], q[4]>>)
        [] fn = "isAnnouncementIdUsed"  -> q[3] \in T.used
        [] fn = "isPaused"              -> q[3] \in T.paused
        [] fn = "policyId"              -> Lane(T, q[3])
        [] fn = "text"                  -> T.text[q[3]]
        [] fn = "hasRole"               -> <<q[3], q[4]>> \in T.roles
        [] fn \in {"multiplier", "uiMultiplier"} -> Effective(s, T)
        [] fn \in {"scaledBalanceOf", "balanceOfUI"} -> At(T.bal, q[3]) * Effective(s, T)
        [] fn \in {"totalSupplyUI", "toUIAmountOfSupply"} -> T.supply * Effective(s, T)
        [] fn = "toRawOfScaled"         -> (q[3] * Effective(s, T)) \div Effective(s, T)
        [] fn = "newUIMultiplier"       ->
             IF T.mult.at > s.now THEN T.mult.next ELSE Effective(s, T)
        [] fn = "effectiveAt"           -> T.mult.at
        [] fn = "supportsInterface"     -> q[3] \in {"ERC165", "SCALED_UI_AMOUNT",
                                                     "NEW_UI_MULTIPLIER", "BALANCES"}
        [] OTHER                        -> fn    \* a constant names itself

FactoryView(s, q) ==
  CASE q[1] = "isB20"            -> q[2] # "dead"
    [] q[1] = "isB20Initialized" -> q[2] \in DOMAIN s.tokens /\ s.tokens[q[2]].initialized
    [] q[1] = "getB20Address"    -> q[2]
    [] q[1] = "getBalance"       -> q[2] \in s.fed
    [] q[1] = "cheaper"          -> s.gas[q[2]] < s.gas[q[3]]

View(s, q) ==
  CASE q[2] = "registry" -> RegistryView(s, q)
    [] q[1] \in {"isB20", "isB20Initialized", "getB20Address", "getBalance", "cheaper"} ->
         FactoryView(s, q)
    [] OTHER -> TokenView(s, q)
=============================================================================
