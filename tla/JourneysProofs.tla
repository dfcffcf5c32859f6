---------------------------- MODULE JourneysProofs ----------------------------
(***************************************************************************)
(* TLAPS proofs about Journeys: for any command lines, any bugs, any       *)
(* number of disturbances and any limits, a journey is skipped only where  *)
(* it may be.  Three parts: no call of anybody makes the chain older       *)
(* (PerformFrames); every skip of a script follows the question it answers *)
(* (SkipsAreGated); and every question behind the journey has its answer   *)
(* (JourneysInvariant).                                                    *)
(***************************************************************************)
EXTENDS Journeys, SequenceTheorems, WellFoundedInduction, TLAPS

-----------------------------------------------------------------------------
(* The chain: no call of anybody changes what kind of chain it is.  One    *)
(* lemma per part of B20Chain.                                             *)

ChainFields == {"fork", "bug", "now", "counter", "features", "receiversFirst",
                "policies", "tokens", "gas", "fed"}

\* What a call leaves alone.
SameNode(s, r) ==
  /\ DOMAIN r = ChainFields
  /\ r.fork = s.fork /\ r.features = s.features /\ r.bug = s.bug

Framed(s, r) == DOMAIN r = {"error", "chain", "logs"} /\ SameNode(s, r.chain)

LEMMA NodeItself ==
  ASSUME NEW s, DOMAIN s = ChainFields
  PROVE  SameNode(s, s)
  BY DEF SameNode

LEMMA RejectFrames ==
  ASSUME NEW s, DOMAIN s = ChainFields, NEW error
  PROVE  Framed(s, Reject(s, error))
  BY DEF Framed, SameNode, Reject

LEMMA AcceptFrames ==
  ASSUME NEW s, NEW r, SameNode(s, r), NEW logs
  PROVE  Framed(s, Accept(r, logs))
  BY DEF Framed, SameNode, Accept

LEMMA GuardedFrames ==
  ASSUME NEW s, DOMAIN s = ChainFields, NEW fn, NEW guards, NEW result, Framed(s, result)
  PROVE  Framed(s, Guarded(s, fn, guards, result))
  <1>1. \/ Guarded(s, fn, guards, result) = result
        \/ \E error : Guarded(s, fn, guards, result) = Reject(s, error)
    BY DEF Guarded
  <1> QED
    BY <1>1, RejectFrames

LEMMA WrittenFrames ==
  ASSUME NEW s, DOMAIN s = ChainFields, NEW done
  PROVE  Framed(s, Written(s, done))
  BY DEF Framed, SameNode, Written, ChainFields

LEMMA StoredNode ==
  ASSUME NEW s, DOMAIN s = ChainFields, NEW t, NEW token
  PROVE  SameNode(s, Stored(s, t, token))
  BY DEF Stored, SameNode, ChainFields

LEMMA FiledNode ==
  ASSUME NEW s, DOMAIN s = ChainFields, NEW id, NEW P
  PROVE  SameNode(s, Filed(s, id, P))
  BY DEF Filed, SameNode, ChainFields

LEMMA StoresFrame ==
  ASSUME NEW s, DOMAIN s = ChainFields, NEW fn, NEW guards, NEW t, NEW token, NEW logs
  PROVE  Framed(s, Guarded(s, fn, guards, Accept(Stored(s, t, token), logs)))
  BY GuardedFrames, AcceptFrames, StoredNode, Zenon

LEMMA FilesFrame ==
  ASSUME NEW s, DOMAIN s = ChainFields, NEW fn, NEW guards, NEW id, NEW P, NEW logs
  PROVE  Framed(s, Guarded(s, fn, guards, Accept(Filed(s, id, P), logs)))
  BY GuardedFrames, AcceptFrames, FiledNode, Zenon

LEMMA CreatePolicyFrames ==
  ASSUME NEW s, DOMAIN s = ChainFields,
         NEW fn, NEW admin, NEW type, NEW accounts, NEW children
  PROVE  Framed(s, CreatePolicy(s, fn, admin, type, accounts, children))
  <1>1. SameNode(s, [s EXCEPT !.counter = @ + 1,
                              !.policies = Put(@, MakeId(type, s.counter),
                                               [admin |-> admin, pending |-> "zero",
                                                members |-> accounts, children |-> children])])
    BY DEF SameNode, ChainFields
  <1> QED
    BY <1>1, AcceptFrames, Zenon DEF CreatePolicy

LEMMA RegistryCreateFrames ==
  ASSUME NEW s, DOMAIN s = ChainFields, NEW who, NEW c
  PROVE  Framed(s, RegistryCreate(s, who, c))
  BY CreatePolicyFrames, GuardedFrames, SMT DEF RegistryCreate

LEMMA RegistryUpdateFrames ==
  ASSUME NEW s, DOMAIN s = ChainFields, NEW who, NEW c, c[1] \in Updates
  PROVE  Framed(s, RegistryUpdate(s, who, c))
  BY FilesFrame, SMT DEF RegistryUpdate, Updates

LEMMA TransferFrames ==
  ASSUME NEW s, DOMAIN s = ChainFields, NEW who, NEW c
  PROVE  Framed(s, TransferCall(s, who, c))
  <1>1. CASE c[1] = "transferFrom"
    BY <1>1, StoresFrame, SMT DEF TransferCall
  <1>2. CASE c[1] # "transferFrom"
    BY <1>2, StoresFrame, SMT DEF TransferCall
  <1> QED
    BY <1>1, <1>2

LEMMA MintFrames ==
  ASSUME NEW s, DOMAIN s = ChainFields, NEW who, NEW c
  PROVE  Framed(s, MintCall(s, who, c))
  BY GuardedFrames, RejectFrames, WrittenFrames DEF MintCall

LEMMA BurnFrames ==
  ASSUME NEW s, DOMAIN s = ChainFields, NEW who, NEW c
  PROVE  Framed(s, BurnCall(s, who, c))
  BY StoresFrame, SMT DEF BurnCall

LEMMA SeizeFrames ==
  ASSUME NEW s, DOMAIN s = ChainFields, NEW who, NEW c
  PROVE  Framed(s, SeizeCall(s, who, c))
  BY StoresFrame, SMT DEF SeizeCall

LEMMA AdminFrames ==
  ASSUME NEW s, DOMAIN s = ChainFields, NEW who, NEW c
  PROVE  Framed(s, AdminCall(s, who, c))
  <1>1. CASE c[1] = "grantRole"
    BY <1>1, StoresFrame, SMT DEF AdminCall
  <1>2. CASE c[1] = "approve"
    BY <1>2, StoresFrame, SMT DEF AdminCall
  <1>3. CASE c[1] = "updateSupplyCap"
    BY <1>3, StoresFrame, SMT DEF AdminCall
  <1>4. CASE c[1] = "updatePolicy"
    BY <1>4, StoresFrame, SMT DEF AdminCall
  <1>5. CASE c[1] = "pause"
    BY <1>5, StoresFrame, SMT DEF AdminCall
  <1>6. CASE c[1] = "unpause"
    BY <1>6, StoresFrame, SMT DEF AdminCall
  <1>7. CASE c[1] = "updateName"
    BY <1>7, StoresFrame, SMT DEF AdminCall
  <1>8. CASE c[1] = "updateSymbol"
    BY <1>8, StoresFrame, SMT DEF AdminCall
  <1>9. CASE c[1] = "updateExtraMetadata"
    BY <1>9, StoresFrame, SMT DEF AdminCall
  <1>10. CASE c[1] \notin {"grantRole", "approve", "updateSupplyCap", "updatePolicy", "pause",
                         "unpause", "updateName", "updateSymbol", "updateExtraMetadata"}
    BY <1>10, RejectFrames, Zenon DEF AdminCall
  <1> QED
    BY <1>1, <1>2, <1>3, <1>4, <1>5, <1>6, <1>7, <1>8, <1>9, <1>10

LEMMA MultiplierFrames ==
  ASSUME NEW s, DOMAIN s = ChainFields, NEW who, NEW c,
         c[1] \in {"updateMultiplier", "updateUIMultiplier", "cancelUIMultiplierUpdate",
                   "toScaledBalance"}
  PROVE  Framed(s, MultiplierCall(s, who, c))
  <1>1. CASE c[1] = "updateMultiplier"
    BY <1>1, StoresFrame, RejectFrames, AcceptFrames, NodeItself, SMT DEF MultiplierCall
  <1>2. CASE c[1] = "updateUIMultiplier"
    BY <1>2, StoresFrame, RejectFrames, AcceptFrames, NodeItself, SMT DEF MultiplierCall
  <1>3. CASE c[1] = "cancelUIMultiplierUpdate"
    BY <1>3, StoresFrame, RejectFrames, AcceptFrames, NodeItself, SMT DEF MultiplierCall
  <1>4. CASE c[1] = "toScaledBalance"
    BY <1>4, StoresFrame, RejectFrames, AcceptFrames, NodeItself, SMT DEF MultiplierCall
  <1> QED
    BY <1>1, <1>2, <1>3, <1>4

LEMMA PlainFrames ==
  ASSUME NEW s, DOMAIN s = ChainFields, NEW who, NEW c
  PROVE  Framed(s, PlainCall(s, who, c))
  <1> DEFINE scaled == {"updateMultiplier", "updateUIMultiplier", "cancelUIMultiplierUpdate",
                        "toScaledBalance"}
  <1>1. /\ Framed(s, Reject(s, "unknown selector")) /\ Framed(s, TransferCall(s, who, c))
        /\ Framed(s, MintCall(s, who, c)) /\ Framed(s, BurnCall(s, who, c))
        /\ Framed(s, SeizeCall(s, who, c)) /\ Framed(s, AdminCall(s, who, c))
    BY RejectFrames, TransferFrames, MintFrames, BurnFrames, SeizeFrames, AdminFrames
  <1>2. c[1] \in scaled => Framed(s, MultiplierCall(s, who, c))
    BY MultiplierFrames
  <1>3. \/ PlainCall(s, who, c) \in {Reject(s, "unknown selector"), TransferCall(s, who, c),
                                    MintCall(s, who, c), BurnCall(s, who, c),
                                    SeizeCall(s, who, c), AdminCall(s, who, c)}
        \/ c[1] \in scaled /\ PlainCall(s, who, c) = MultiplierCall(s, who, c)
    BY Zenon DEF PlainCall
  <1> QED
    BY <1>1, <1>2, <1>3, Zenon

LEMMA AnnounceFrames ==
  ASSUME NEW s, DOMAIN s = ChainFields, NEW who, NEW c
  PROVE  Framed(s, Announce(s, who, c))
  <1>1. ASSUME NEW inner, Framed(s, inner)
        PROVE  Framed(s, Announced(s, who, c, inner))
    <2>1. Framed(s, [inner EXCEPT !.logs = << <<"Announcement", c[3]>> >> \o @
                                           \o << <<"EndAnnouncement", c[3]>> >>])
      BY <1>1 DEF Framed
    <2> QED
      BY <2>1, GuardedFrames, Zenon DEF Announced
  <1> QED
    BY <1>1, WrittenFrames DEF Announce

LEMMA CreateB20Frames ==
  ASSUME NEW s, DOMAIN s = ChainFields, NEW who, NEW c
  PROVE  Framed(s, CreateB20(s, who, c))
  <1>1. ASSUME NEW inits, Framed(s, inits)
        PROVE  Framed(s, Booted(s, who, c, inits))
    <2>1. SameNode(s, [inits.chain EXCEPT !.tokens[c[2]].initialized = TRUE,
                                          !.gas = Put(@, c[2], Cost(s, c[2]))])
      BY <1>1 DEF Framed, SameNode, ChainFields
    <2> QED
      BY <2>1, AcceptFrames, GuardedFrames, Zenon DEF Booted
  <1> QED
    BY <1>1, WrittenFrames, Zenon DEF CreateB20

LEMMA CallFrames ==
  ASSUME NEW s, DOMAIN s = ChainFields, NEW who, NEW c
  PROVE  Framed(s, Call(s, who, c))
  BY RejectFrames, RegistryCreateFrames, RegistryUpdateFrames, CreateB20Frames, AnnounceFrames,
     PlainFrames, Zenon
     DEF Call, TokenCall

LEMMA AtEdgeFrames ==
  ASSUME NEW s, DOMAIN s = ChainFields, NEW c, NEW r, Framed(s, r)
  PROVE  Framed(s, AtEdge(s, c, r))
  <1>1. Framed(s, [r EXCEPT !.error = "reverted"]) /\ Framed(s, [r EXCEPT !.error = "no data"])
    BY DEF Framed
  <1>2. Framed(s, IF c[3] = <<>> THEN Accept(s, <<>>) ELSE r)
    BY AcceptFrames, NodeItself
  <1> QED
    BY <1>1, <1>2, GuardedFrames, RejectFrames, Zenon DEF AtEdge

LEMMA PerformFrames ==
  ASSUME NEW s, DOMAIN s = ChainFields, NEW who, NEW c
  PROVE  Framed(s, Perform(s, who, c))
  BY CallFrames, AtEdgeFrames, Zenon DEF Perform

-----------------------------------------------------------------------------
(* The scripts: a skip is always preceded by the question it answers.      *)

StepFields == {"do", "who", "call", "want", "when", "check"}

\* A step that never ends the journey as skipped, and a sequence of such steps.
PlainStep(e) == DOMAIN e = StepFields /\ e.do # "skip"
WellFormed(s) == Len(s) \in Nat /\ s = [i \in 1 .. Len(s) |-> s[i]]
Tame(s) == WellFormed(s) /\ \A i \in 1 .. Len(s) : PlainStep(s[i])

LEMMA PlainSteps ==
  ASSUME NEW do, do # "skip", NEW who, NEW call, NEW want
  PROVE  PlainStep(Step(do, who, call, want))
  BY DEF PlainStep, StepFields, Step

LEMMA PlainTransactions ==
  /\ \A who, call : PlainStep(Send(who, call))
  /\ \A name, call : PlainStep(Create(name, call))
  /\ \A target : PlainStep(Deploy(target))
  /\ \A id, account : /\ PlainStep(Adds(id, account)) /\ PlainStep(Drops(id, account))
                      /\ PlainStep(Blocks(id, account))
  /\ \A name, accounts : PlainStep(AllowlistOf(name, accounts))
  /\ \A name, type, children : PlainStep(CompositeOf(name, type, children))
  /\ PlainStep(Fund)
  BY PlainSteps DEF Send, Create, Deploy, Adds, Drops, Blocks, AllowlistOf, CompositeOf, Fund

LEMMA PlainReverts ==
  /\ \A error, who, call : PlainStep(Reverts(error, who, call))
  /\ \A call : /\ PlainStep(DecodeFails(call)) /\ PlainStep(RawPanics(call))
               /\ PlainStep(SendReverts(call))
  /\ \A error, call : PlainStep(RawReverts(error, call)) /\ PlainStep(Fails(error, call))
  /\ \A flag, call, error : PlainStep(ProbeCall(flag, call, error))
  BY PlainSteps DEF Reverts, DecodeFails, RawPanics, SendReverts, RawReverts, Fails, ProbeCall

LEMMA PlainViews ==
  /\ \A view : PlainStep(Affirms(view)) /\ PlainStep(Refutes(view))
  /\ \A view, want : /\ PlainStep(Is(view, want)) /\ PlainStep(IsNamed(view, want))
                     /\ PlainStep(AreNamed(view, want)) /\ PlainStep(Same(view, want))
                     /\ PlainStep(Read(want, view)) /\ PlainStep(Probe(want, view))
                     /\ PlainStep(ProbeView(want, view))
  /\ \A name, later : PlainStep(Now(name, later)) /\ PlainStep(Poll(name, later))
  /\ \A id : PlainStep(Exists(id)) /\ PlainStep(Absent(id))
  /\ \A id, is : PlainStep(Admin(id, is)) /\ PlainStep(Pending(id, is))
  /\ \A id, account : PlainStep(Allows(id, account)) /\ PlainStep(Denies(id, account))
  /\ \A tok, account, n : PlainStep(Holds(tok, account, n))
  BY PlainSteps
     DEF Affirms, Refutes, Is, IsNamed, AreNamed, Same, Read, Probe, ProbeView, Now, Poll, Exists,
         Absent, Admin, Pending, Allows, Denies, Holds

LEMMA PlainReceipts ==
  /\ \A event : PlainStep(NotLogged(event)) /\ PlainStep(Logged(event)) /\ PlainStep(Emitted(event))
  /\ \A first, second : PlainStep(Order(first, second)) /\ PlainStep(Payload(first, second))
  /\ \A event, m, name : PlainStep(Times(event, m, name))
  /\ \A names : PlainStep(Children(names))
  BY PlainSteps DEF NotLogged, Logged, Emitted, Order, Payload, Times, Children

LEMMA TameElements ==
  ASSUME NEW s, Tame(s)
  PROVE  \E S : s \in Seq(S) /\ \A e \in S : PlainStep(e)
  <1> DEFINE S == {s[i] : i \in 1 .. Len(s)}
  <1>1. s \in Seq(S) /\ \A e \in S : PlainStep(e)
    BY DEF Tame, WellFormed
  <1> QED
    BY <1>1

LEMMA SequenceFormed ==
  ASSUME NEW S, NEW s \in Seq(S)
  PROVE  WellFormed(s)
  BY LenProperties DEF WellFormed

LEMMA TameConcat ==
  ASSUME NEW s, NEW t, Tame(s), Tame(t)
  PROVE  Tame(s \o t)
  <1> DEFINE S == {s[i] : i \in 1 .. Len(s)} \union {t[i] : i \in 1 .. Len(t)}
  <1>1. s \in Seq(S) /\ t \in Seq(S)
    BY DEF Tame, WellFormed
  <1>2. s \o t \in Seq(S) /\ Len(s \o t) = Len(s) + Len(t)
    BY <1>1
  <1>3. \A e \in S : PlainStep(e)
    BY DEF Tame
  <1>4. \A i \in 1 .. Len(s \o t) : (s \o t)[i] \in S
    BY <1>2, ElementOfSeq
  <1>5. WellFormed(s \o t)
    BY <1>2, SequenceFormed
  <1> QED
    BY <1>3, <1>4, <1>5 DEF Tame

LEMMA TameWhen ==
  ASSUME NEW s, Tame(s), NEW flag
  PROVE  Tame(When(flag, s))
  BY DEF Tame, WellFormed, When, PlainStep, StepFields

LEMMA TameChecked ==
  ASSUME NEW s, Tame(s), NEW k
  PROVE  Tame(Checked(k, s))
  BY DEF Tame, WellFormed, Checked, PlainStep, StepFields

LEMMA TameOfOne ==
  \A e1 : PlainStep(e1) => Tame(<<e1>>)
  BY DEF Tame, WellFormed

LEMMA TameOfTwo ==
  \A e1, e2 : PlainStep(e1) /\ PlainStep(e2) => Tame(<<e1, e2>>)
  BY DEF Tame, WellFormed

LEMMA TameOfThree ==
  \A e1, e2, e3 : PlainStep(e1) /\ PlainStep(e2) /\ PlainStep(e3) => Tame(<<e1, e2, e3>>)
  BY DEF Tame, WellFormed

LEMMA TameOfFour ==
  \A e1, e2, e3, e4 :
    PlainStep(e1) /\ PlainStep(e2) /\ PlainStep(e3) /\ PlainStep(e4)
    => Tame(<<e1, e2, e3, e4>>)
  BY DEF Tame, WellFormed

LEMMA TameOfFive ==
  \A e1, e2, e3, e4, e5 :
    PlainStep(e1) /\ PlainStep(e2) /\ PlainStep(e3) /\ PlainStep(e4) /\ PlainStep(e5)
    => Tame(<<e1, e2, e3, e4, e5>>)
  BY DEF Tame, WellFormed

LEMMA TameOfSix ==
  \A e1, e2, e3, e4, e5, e6 :
    PlainStep(e1) /\ PlainStep(e2) /\ PlainStep(e3) /\ PlainStep(e4) /\ PlainStep(e5) /\
    PlainStep(e6)
    => Tame(<<e1, e2, e3, e4, e5, e6>>)
  BY DEF Tame, WellFormed

LEMMA TameOfEight ==
  \A e1, e2, e3, e4, e5, e6, e7, e8 :
    PlainStep(e1) /\ PlainStep(e2) /\ PlainStep(e3) /\ PlainStep(e4) /\ PlainStep(e5) /\
    PlainStep(e6) /\ PlainStep(e7) /\ PlainStep(e8)
    => Tame(<<e1, e2, e3, e4, e5, e6, e7, e8>>)
  BY DEF Tame, WellFormed

LEMMA TameOfNine ==
  \A e1, e2, e3, e4, e5, e6, e7, e8, e9 :
    PlainStep(e1) /\ PlainStep(e2) /\ PlainStep(e3) /\ PlainStep(e4) /\ PlainStep(e5) /\
    PlainStep(e6) /\ PlainStep(e7) /\ PlainStep(e8) /\ PlainStep(e9)
    => Tame(<<e1, e2, e3, e4, e5, e6, e7, e8, e9>>)
  BY DEF Tame, WellFormed

LEMMA TameOfTwelve ==
  \A e1, e2, e3, e4, e5, e6, e7, e8, e9, e10, e11, e12 :
    PlainStep(e1) /\ PlainStep(e2) /\ PlainStep(e3) /\ PlainStep(e4) /\ PlainStep(e5) /\
    PlainStep(e6) /\ PlainStep(e7) /\ PlainStep(e8) /\ PlainStep(e9) /\ PlainStep(e10) /\
    PlainStep(e11) /\ PlainStep(e12)
    => Tame(<<e1, e2, e3, e4, e5, e6, e7, e8, e9, e10, e11, e12>>)
  BY DEF Tame, WellFormed

LEMMA TameOfThirteen ==
  \A e1, e2, e3, e4, e5, e6, e7, e8, e9, e10, e11, e12, e13 :
    PlainStep(e1) /\ PlainStep(e2) /\ PlainStep(e3) /\ PlainStep(e4) /\ PlainStep(e5) /\
    PlainStep(e6) /\ PlainStep(e7) /\ PlainStep(e8) /\ PlainStep(e9) /\ PlainStep(e10) /\
    PlainStep(e11) /\ PlainStep(e12) /\ PlainStep(e13)
    => Tame(<<e1, e2, e3, e4, e5, e6, e7, e8, e9, e10, e11, e12, e13>>)
  BY DEF Tame, WellFormed

LEMMA TameOfFifteen ==
  \A e1, e2, e3, e4, e5, e6, e7, e8, e9, e10, e11, e12, e13, e14, e15 :
    PlainStep(e1) /\ PlainStep(e2) /\ PlainStep(e3) /\ PlainStep(e4) /\ PlainStep(e5) /\
    PlainStep(e6) /\ PlainStep(e7) /\ PlainStep(e8) /\ PlainStep(e9) /\ PlainStep(e10) /\
    PlainStep(e11) /\ PlainStep(e12) /\ PlainStep(e13) /\ PlainStep(e14) /\ PlainStep(e15)
    => Tame(<<e1, e2, e3, e4, e5, e6, e7, e8, e9, e10, e11, e12, e13, e14, e15>>)
  BY DEF Tame, WellFormed

LEMMA CreateAssetTame == \A tok, inits : Tame(CreateAsset(tok, inits))
  BY PlainTransactions, TameOfOne DEF CreateAsset

LEMMA NewAssetTame == \A tok, inits : Tame(NewAsset(tok, inits))
  BY CreateAssetTame, PlainViews, TameOfOne, TameConcat DEF NewAsset

LEMMA GatedTame == \A tok, id : Tame(Gated(tok, id))
  BY CreateAssetTame, PlainViews, TameOfOne, TameConcat DEF Gated

LEMMA FactoryJourneyTame == Tame(FactoryJourney)
  BY TameConcat, NewAssetTame, TameOfTwo, TameOfFive, PlainTransactions, PlainViews, SMTT(60)
     DEF FactoryJourney

LEMMA FactoryEdgesTame == Tame(FactoryEdges)
  BY PlainReverts, SMTT(60)
     DEF Tame, WellFormed, FactoryEdges

LEMMA AssetSetupTame == Tame(AssetSetup)
  BY TameConcat, NewAssetTame, TameOfOne, PlainViews, SMTT(60)
     DEF AssetSetup

LEMMA AssetJourneyTame == Tame(AssetJourney)
  BY PlainTransactions, PlainViews, PlainReceipts, SMTT(60)
     DEF Tame, WellFormed, AssetJourney

LEMMA ExecutorPolicyTame == Tame(ExecutorPolicy)
  BY PlainTransactions, PlainReverts, PlainViews, PlainReceipts, SMTT(60)
     DEF Tame, WellFormed, ExecutorPolicy

LEMMA TokenRecipientTame == Tame(TokenRecipient)
  BY TameConcat, TameWhen, TameOfOne, TameOfFour, PlainReverts, SMTT(60)
     DEF TokenRecipient

LEMMA AssetEdgesTame == Tame(AssetEdges)
  BY TameConcat, TokenRecipientTame, TameOfFour, TameOfThirteen, PlainTransactions,
     PlainReverts, PlainViews, SMTT(60)
     DEF AssetEdges

LEMMA AssetEventsTame == Tame(AssetEvents)
  BY TameConcat, TameWhen, TameOfOne, PlainReceipts, SMTT(60)
     DEF AssetEvents

LEMMA MultiplierSetupTame == Tame(MultiplierSetup)
  BY NewAssetTame, SMTT(60)
     DEF MultiplierSetup

LEMMA MultiplierIdsTame == Tame(MultiplierIds)
  <1> DEFINE ids == [i \in 1..4 |-> Affirms(<<"supportsInterface", "multiplier",
                       <<"ERC165", "SCALED_UI_AMOUNT", "NEW_UI_MULTIPLIER", "BALANCES">>[i]>>)]
  <1>1. ids \in Seq({ids[i] : i \in 1..4}) /\ Len(ids) = 4 /\ \A i \in 1..4 : PlainStep(ids[i])
    BY PlainViews
  <1>2. Tame(ids)
    BY <1>1, SequenceFormed DEF Tame
  <1> QED
    BY <1>2, TameConcat, TameOfOne, PlainViews DEF MultiplierIds

LEMMA MultiplierAliasesTame == Tame(MultiplierAliases)
  BY PlainTransactions, PlainViews, PlainReceipts, SMTT(60)
     DEF Tame, WellFormed, MultiplierAliases

LEMMA ScheduleRevertsTame == Tame(ScheduleReverts)
  BY PlainReverts, PlainViews, SMTT(60)
     DEF Tame, WellFormed, ScheduleReverts

LEMMA ScheduleAndCancelTame == Tame(ScheduleAndCancel)
  BY PlainTransactions, PlainReverts, PlainViews, PlainReceipts, SMTT(60)
     DEF Tame, WellFormed, ScheduleAndCancel

LEMMA FailsafeClearsTame == Tame(FailsafeClears)
  BY PlainTransactions, PlainViews, PlainReceipts, SMTT(60)
     DEF Tame, WellFormed, FailsafeClears

LEMMA ObserveFlipTame == Tame(ObserveFlip)
  BY TameConcat, TameWhen, TameOfFour, TameOfTwo, PlainTransactions, PlainViews, SMTT(60)
     DEF ObserveFlip

LEMMA StablecoinSetupTame == Tame(StablecoinSetup)
  BY PlainTransactions, PlainViews, SMTT(60)
     DEF Tame, WellFormed, StablecoinSetup

LEMMA StablecoinJourneyTame == Tame(StablecoinJourney)
  BY PlainTransactions, PlainViews, PlainReceipts, SMTT(60)
     DEF Tame, WellFormed, StablecoinJourney

LEMMA StablecoinEdgesTame == Tame(StablecoinEdges)
  BY PlainReverts, SMTT(60)
     DEF Tame, WellFormed, StablecoinEdges

LEMMA SeizeSetupTame == Tame(SeizeSetup)
  BY NewAssetTame, SMTT(60)
     DEF SeizeSetup

LEMMA SeizeJourneyTame == Tame(SeizeJourney)
  BY PlainTransactions, PlainViews, PlainReceipts, SMTT(60)
     DEF Tame, WellFormed, SeizeJourney

LEMMA SeizeEdgesTame == Tame(SeizeEdges)
  BY TameConcat, TameWhen, TameOfOne, TameOfThree, TameOfFour, PlainReverts, PlainViews,
     SMTT(60)
     DEF SeizeEdges

LEMMA DecouplingTame == Tame(Decoupling)
  BY PlainTransactions, PlainReverts, PlainViews, SMTT(60)
     DEF Tame, WellFormed, Decoupling

LEMMA SeizePauseTame == Tame(SeizePause)
  BY PlainTransactions, PlainReverts, PlainViews, SMTT(60)
     DEF Tame, WellFormed, SeizePause

LEMMA ReceiverPolicyTame == Tame(ReceiverPolicy)
  BY PlainTransactions, PlainReverts, PlainViews, SMTT(60)
     DEF Tame, WellFormed, ReceiverPolicy

LEMMA PolicyJourneyTame == Tame(PolicyJourney)
  BY PlainTransactions, PlainViews, SMTT(60)
     DEF Tame, WellFormed, PolicyJourney

LEMMA EnforcementTame == Tame(Enforcement)
  BY TameConcat, GatedTame, TameOfOne, TameOfEight, PlainTransactions, PlainReverts,
     PlainViews, SMTT(60)
     DEF Enforcement

LEMMA PolicyEdgesTame == Tame(PolicyEdges)
  BY PlainReverts, SMTT(60)
     DEF Tame, WellFormed, PolicyEdges

LEMMA CompositeGatesTame == Tame(CompositeGates)
  BY PlainTransactions, PlainViews, PlainReceipts, SMTT(60)
     DEF Tame, WellFormed, CompositeGates

LEMMA CompositeEdgesTame == Tame(CompositeEdges)
  BY PlainReverts, PlainViews, SMTT(60)
     DEF Tame, WellFormed, CompositeEdges

LEMMA CompositeTokenTame == Tame(CompositeToken)
  BY TameConcat, GatedTame, TameOfSix, TameOfEight, PlainTransactions, PlainReverts,
     PlainViews, SMTT(60)
     DEF CompositeToken

LEMMA InvertedViewsTame == Tame(InvertedViews)
  BY PlainTransactions, PlainViews, SMTT(60)
     DEF Tame, WellFormed, InvertedViews

LEMMA InvertedSimpleTokenTame == Tame(InvertedSimpleToken)
  BY TameConcat, GatedTame, TameOfTwelve, PlainTransactions, PlainReverts, PlainViews,
     SMTT(60)
     DEF InvertedSimpleToken

LEMMA InvertedCompositeTokenTame == Tame(InvertedCompositeToken)
  BY TameConcat, GatedTame, TameOfFifteen, TameOfNine, PlainTransactions, PlainReverts,
     PlainViews, SMTT(60)
     DEF InvertedCompositeToken

LEMMA IsDenimTame == Tame(IsDenim)
  BY TameConcat, TameWhen, TameOfOne, PlainViews, SMTT(60)
     DEF IsDenim

LEMMA PayableRejectedTame == Tame(PayableRejected)
  <1> DEFINE writes == [i \in 1..2 |-> RawReverts("NonPayable", <<"value", R, CompositeWrites[i]>>)]
  <1>1. writes \in Seq({writes[i] : i \in 1..2}) /\ Len(writes) = 2
        /\ \A i \in 1..2 : PlainStep(writes[i])
    BY PlainReverts
  <1>2. Tame(writes)
    BY <1>1, SequenceFormed DEF Tame
  <1> QED
    BY <1>2, TameConcat, TameOfOne, PlainReverts DEF PayableRejected

LEMMA ValueForwardingTame == Tame(ValueForwarding)
  <1> DEFINE writes == [i \in 1..2 |-> Fails("any", <<"value", R, CompositeWrites[i]>>)]
  <1>1. writes \in Seq({writes[i] : i \in 1..2}) /\ Len(writes) = 2
        /\ \A i \in 1..2 : PlainStep(writes[i])
    BY PlainReverts
  <1>2. Tame(writes)
    BY <1>1, SequenceFormed DEF Tame
  <1> QED
    BY <1>2, TameConcat, TameOfOne, PlainReverts DEF ValueForwarding

LEMMA CompositeTypeRevertsTame == Tame(CompositeTypeReverts)
  BY PlainReverts, SMTT(60)
     DEF Tame, WellFormed, CompositeTypeReverts

LEMMA DirtyHighBitsTame == Tame(DirtyHighBits)
  BY PlainReverts, PlainViews, SMTT(60)
     DEF Tame, WellFormed, DirtyHighBits

LEMMA UnknownSelectorTame == Tame(UnknownSelector)
  BY PlainReverts, SMTT(60)
     DEF Tame, WellFormed, UnknownSelector

LEMMA EmptyCalldataTame == Tame(EmptyCalldata)
  BY PlainReverts, SMTT(60)
     DEF Tame, WellFormed, EmptyCalldata

LEMMA TruncatedArgsTame == Tame(TruncatedArgs)
  BY PlainReverts, SMTT(60)
     DEF Tame, WellFormed, TruncatedArgs

LEMMA EnumOutOfRangeTame == Tame(EnumOutOfRange)
  BY PlainReverts, SMTT(60)
     DEF Tame, WellFormed, EnumOutOfRange

LEMMA StaticcallReadOnlyTame == Tame(StaticcallReadOnly)
  BY PlainReverts, SMTT(60)
     DEF Tame, WellFormed, StaticcallReadOnly

LEMMA ReturndataFidelityTame == Tame(ReturndataFidelity)
  BY PlainReverts, SMTT(60)
     DEF Tame, WellFormed, ReturndataFidelity

LEMMA OOGContainedTame == Tame(OOGContained)
  BY PlainReverts, SMTT(60)
     DEF Tame, WellFormed, OOGContained

LEMMA InvariantsSetupTame == Tame(InvariantsSetup)
  BY PlainTransactions, SMTT(60)
     DEF Tame, WellFormed, InvariantsSetup

LEMMA AtomicityTame == Tame(Atomicity)
  BY TameConcat, CreateAssetTame, TameOfSix, PlainReverts, PlainViews, PlainReceipts, SMTT(60)
     DEF Atomicity

LEMMA CreationGasTame == Tame(CreationGas)
  BY TameConcat, CreateAssetTame, TameOfOne, TameOfTwo, PlainTransactions, PlainViews,
     SMTT(60)
     DEF CreationGas

\* A probe that is always made, and by no collected check.
Probes == {"supports_erc165", "probe_view"}
Asks(e) == e.do \in Probes /\ e.when = "always" /\ e.check = 0

\* Every skip of the script is `skip`, and `asked` comes before it.
Gates(s, asked, skip) ==
  /\ WellFormed(s)
  /\ \A p \in 1 .. Len(s) : s[p].do = "skip" =>
       s[p] = skip /\ \E q \in 1 .. p - 1 : s[q] = asked

LEMMA TameGates ==
  ASSUME NEW s, Tame(s), NEW asked, NEW skip
  PROVE  Gates(s, asked, skip)
  BY DEF Tame, Gates, PlainStep

LEMMA ConcatElements ==
  ASSUME NEW s, NEW t, WellFormed(s), WellFormed(t)
  PROVE  /\ WellFormed(s \o t) /\ Len(s \o t) = Len(s) + Len(t)
         /\ \A i \in 1 .. Len(s) : (s \o t)[i] = s[i]
         /\ \A i \in 1 .. Len(t) : (s \o t)[Len(s) + i] = t[i]
  <1> DEFINE S == {s[i] : i \in 1 .. Len(s)} \union {t[i] : i \in 1 .. Len(t)}
  <1>1. s \in Seq(S) /\ t \in Seq(S)
    BY DEF WellFormed
  <1>2. s \o t \in Seq(S) /\ Len(s \o t) = Len(s) + Len(t)
    BY <1>1
  <1>3. WellFormed(s \o t)
    BY <1>2, SequenceFormed
  <1>4. \A i \in 1 .. Len(s) : (s \o t)[i] = s[i]
    BY <1>1, ConcatProperties, LenProperties
  <1>5. ASSUME NEW i \in 1 .. Len(t)
        PROVE  (s \o t)[Len(s) + i] = t[i]
    BY <1>1, ConcatProperties, LenProperties
  <1> QED
    BY <1>2, <1>3, <1>4, <1>5

\* What is tame may be put after a gate, and before one.
LEMMA GateGrows ==
  ASSUME NEW s, NEW t, NEW asked, NEW skip, Gates(s, asked, skip), Tame(t)
  PROVE  Gates(s \o t, asked, skip)
  <1>1. WellFormed(s) /\ WellFormed(t) /\ Len(s) \in Nat /\ Len(t) \in Nat
    BY DEF Gates, Tame, WellFormed
  <1>2. WellFormed(s \o t) /\ Len(s \o t) = Len(s) + Len(t)
    BY <1>1, ConcatElements
  <1>3. \A i \in 1 .. Len(s) : (s \o t)[i] = s[i]
    BY <1>1, ConcatElements
  <1>4. \A i \in 1 .. Len(t) : (s \o t)[Len(s) + i] = t[i]
    BY <1>1, ConcatElements
  <1>5. ASSUME NEW p \in 1 .. Len(s \o t), (s \o t)[p].do = "skip"
        PROVE  (s \o t)[p] = skip /\ \E q \in 1 .. p - 1 : (s \o t)[q] = asked
    <2>1. CASE p <= Len(s)
      <3>1. p \in 1 .. Len(s) /\ s[p].do = "skip"
        BY <1>1, <1>2, <1>3, <1>5, <2>1
      <3>2. PICK q \in 1 .. p - 1 : s[q] = asked
        BY <3>1 DEF Gates
      <3> QED
        BY <1>1, <1>3, <3>1, <3>2 DEF Gates
    <2>2. CASE p > Len(s)
      <3>1. PICK i \in 1 .. Len(t) : p = Len(s) + i
        <4>1. p - Len(s) \in 1 .. Len(t) /\ p = Len(s) + (p - Len(s))
          BY <1>1, <1>2, <2>2
        <4> QED
          BY <4>1
      <3>2. t[i].do = "skip"
        BY <1>4, <1>5, <3>1
      <3> QED
        BY <3>2 DEF Tame, PlainStep
    <2> QED
      BY <1>1, <1>2, <2>1, <2>2
  <1> QED
    BY <1>2, <1>5 DEF Gates

LEMMA GateStandsOn ==
  ASSUME NEW s, Tame(s), NEW asked, PlainStep(asked), NEW skip,
         NEW t, WellFormed(t), Len(t) = 2, t[1] = asked, t[2] = skip
  PROVE  Gates(s \o t, asked, skip)
  <1>1. WellFormed(s) /\ Len(s) \in Nat
    BY DEF Tame, WellFormed
  <1>c. /\ WellFormed(s \o t) /\ Len(s \o t) = Len(s) + Len(t)
        /\ \A i \in 1 .. Len(s) : (s \o t)[i] = s[i]
        /\ \A i \in 1 .. Len(t) : (s \o t)[Len(s) + i] = t[i]
    <2>1. WellFormed(s \o t) /\ Len(s \o t) = Len(s) + Len(t)
      BY <1>1, ConcatElements
    <2>2. \A i \in 1 .. Len(s) : (s \o t)[i] = s[i]
      BY <1>1, ConcatElements
    <2>3. \A i \in 1 .. Len(t) : (s \o t)[Len(s) + i] = t[i]
      BY <1>1, ConcatElements
    <2> QED
      BY <2>1, <2>2, <2>3
  <1>2. WellFormed(s \o t) /\ Len(s \o t) = Len(s) + 2
    BY <1>1, <1>c
  <1>3. \A i \in 1 .. Len(s) : (s \o t)[i] = s[i]
    BY <1>c
  <1>4. (s \o t)[Len(s) + 1] = asked /\ (s \o t)[Len(s) + 2] = skip
    BY <1>1, <1>c
  <1>5. ASSUME NEW p \in 1 .. Len(s \o t), (s \o t)[p].do = "skip"
        PROVE  (s \o t)[p] = skip /\ \E q \in 1 .. p - 1 : (s \o t)[q] = asked
    <2>1. p # Len(s) + 1
      BY <1>4, <1>5 DEF PlainStep
    <2>2. p \notin 1 .. Len(s)
      BY <1>3, <1>5 DEF PlainStep, Tame
    <2>3. p = Len(s) + 2 /\ Len(s) + 1 \in 1 .. p - 1
      BY <1>1, <1>2, <2>1, <2>2
    <2> QED
      BY <1>4, <2>3
  <1> QED
    BY <1>2, <1>5 DEF Gates

LEMMA GateStands ==
  ASSUME NEW s, Tame(s), NEW asked, PlainStep(asked), NEW skip
  PROVE  Gates(s \o <<asked, skip>>, asked, skip)
  <1>1. /\ WellFormed(<<asked, skip>>) /\ Len(<<asked, skip>>) = 2
        /\ <<asked, skip>>[1] = asked /\ <<asked, skip>>[2] = skip
    BY DEF WellFormed
  <1> QED
    BY <1>1, GateStandsOn

LEMMA GateClosesOn ==
  ASSUME NEW s, Tame(s), Len(s) > 0, NEW skip,
         NEW t, WellFormed(t), Len(t) = 1, t[1] = skip
  PROVE  Gates(s \o t, s[1], skip)
  <1>1. WellFormed(s) /\ Len(s) \in Nat
    BY DEF Tame, WellFormed
  <1>c. /\ WellFormed(s \o t) /\ Len(s \o t) = Len(s) + Len(t)
        /\ \A i \in 1 .. Len(s) : (s \o t)[i] = s[i]
        /\ \A i \in 1 .. Len(t) : (s \o t)[Len(s) + i] = t[i]
    <2>1. WellFormed(s \o t) /\ Len(s \o t) = Len(s) + Len(t)
      BY <1>1, ConcatElements
    <2>2. \A i \in 1 .. Len(s) : (s \o t)[i] = s[i]
      BY <1>1, ConcatElements
    <2>3. \A i \in 1 .. Len(t) : (s \o t)[Len(s) + i] = t[i]
      BY <1>1, ConcatElements
    <2> QED
      BY <2>1, <2>2, <2>3
  <1>2. WellFormed(s \o t) /\ Len(s \o t) = Len(s) + 1
    BY <1>1, <1>c
  <1>3. \A i \in 1 .. Len(s) : (s \o t)[i] = s[i]
    BY <1>c
  <1>4. (s \o t)[Len(s) + 1] = skip
    BY <1>1, <1>c
  <1>5. ASSUME NEW p \in 1 .. Len(s \o t), (s \o t)[p].do = "skip"
        PROVE  (s \o t)[p] = skip /\ \E q \in 1 .. p - 1 : (s \o t)[q] = s[1]
    <2>1. p \notin 1 .. Len(s)
      BY <1>3, <1>5 DEF PlainStep, Tame
    <2>2. p = Len(s) + 1 /\ 1 \in 1 .. p - 1 /\ 1 \in 1 .. Len(s)
      BY <1>1, <1>2, <2>1
    <2> QED
      BY <1>3, <1>4, <2>2
  <1> QED
    BY <1>2, <1>5 DEF Gates

LEMMA GateCloses ==
  ASSUME NEW s, Tame(s), Len(s) > 0, NEW skip
  PROVE  Gates(s \o <<skip>>, s[1], skip)
  <1>1. WellFormed(<<skip>>) /\ Len(<<skip>>) = 1 /\ <<skip>>[1] = skip
    BY DEF WellFormed
  <1> QED
    BY <1>1, GateClosesOn

\* The five journeys that are never skipped.
LEMMA UngatedTame ==
  Tame(Factory) /\ Tame(Asset) /\ Tame(Stablecoin) /\ Tame(Policy) /\ Tame(Invariants)
  <1>1. Tame(Factory)
    BY FactoryJourneyTame, FactoryEdgesTame, PlainReceipts, TameOfOne, TameConcat DEF Factory
  <1>2. Tame(Asset)
    BY AssetSetupTame, AssetJourneyTame, ExecutorPolicyTame, AssetEdgesTame, AssetEventsTame,
       PlainViews, TameOfOne, TameConcat
       DEF Asset
  <1>3. Tame(Stablecoin)
    BY StablecoinSetupTame, StablecoinJourneyTame, StablecoinEdgesTame, PlainReceipts, TameOfOne,
       TameConcat
       DEF Stablecoin
  <1>4. Tame(Policy)
    BY PolicyJourneyTame, EnforcementTame, PolicyEdgesTame, CompositeGatesTame,
       CompositeEdgesTame, CompositeTokenTame, PlainReceipts, TameOfOne, TameConcat
       DEF Policy
  <1>5. Tame(Invariants)
    BY InvariantsSetupTame, PayableRejectedTame, UnknownSelectorTame, EmptyCalldataTame,
       TruncatedArgsTame, EnumOutOfRangeTame, CompositeTypeRevertsTame, DirtyHighBitsTame,
       StaticcallReadOnlyTame, ValueForwardingTame, ReturndataFidelityTame, OOGContainedTame,
       AtomicityTame, CreationGasTame, TameChecked, TameConcat
       DEF Invariants
  <1> QED
    BY <1>1, <1>2, <1>3, <1>4, <1>5

LEMMA MultiplierGates ==
  Gates(MultiplierScript,
        Probe("cobalt", <<"supportsInterface", "multiplier", "SCALED_UI_AMOUNT">>),
        SkipUnless("cobalt"))
  BY MultiplierSetupTame, MultiplierIdsTame, MultiplierAliasesTame, ScheduleRevertsTame,
     ScheduleAndCancelTame, FailsafeClearsTame, ObserveFlipTame, PlainViews, PlainReceipts,
     TameOfOne, GateStands, GateGrows
     DEF MultiplierScript

LEMMA SeizeGates == Gates(Seize, IsCobalt, SkipUnless("cobalt"))
  <1>1. PlainStep(IsCobalt)
    BY PlainViews DEF IsCobalt
  <1> QED
    BY <1>1, SeizeSetupTame, SeizeJourneyTame, SeizeEdgesTame, DecouplingTame, SeizePauseTame,
       ReceiverPolicyTame, PlainReceipts, TameOfOne, GateStands, GateGrows
       DEF Seize

LEMMA HeadOfConcat ==
  ASSUME NEW s, NEW t, WellFormed(s), WellFormed(t), Len(s) = 1
  PROVE  Len(s \o t) > 0 /\ (s \o t)[1] = s[1]
  <1>1. Len(s \o t) = Len(s) + Len(t) /\ \A i \in 1 .. Len(s) : (s \o t)[i] = s[i]
    BY ConcatElements
  <1> QED
    BY <1>1 DEF WellFormed

LEMMA PolicyInvertGates ==
  Gates(PolicyInvert, ProbeView("denim", <<"invertedPolicyId", R, "ALWAYS_ALLOW">>),
        SkipUnless("denim"))
  <1> DEFINE probe == ProbeView("denim", <<"invertedPolicyId", R, "ALWAYS_ALLOW">>)
  <1>1. \A s : Tame(s) => Len(<<probe>> \o s) > 0 /\ (<<probe>> \o s)[1] = probe
    <2>1. WellFormed(<<probe>>) /\ Len(<<probe>>) = 1 /\ <<probe>>[1] = probe
      BY DEF WellFormed
    <2> QED
      BY <2>1, HeadOfConcat DEF Tame
  <1>2. \A step : PlainStep(step) => Tame(When("denim", <<step>>))
    BY TameOfOne, TameWhen
  <1>3. Len(IsDenim) > 0 /\ IsDenim[1] = probe
    BY <1>1, <1>2, PlainViews DEF IsDenim
  <1>4. Gates(IsDenim \o <<SkipUnless("denim")>>, probe, SkipUnless("denim"))
    BY <1>3, IsDenimTame, GateCloses
  <1> QED
    BY <1>4, InvertedViewsTame, InvertedSimpleTokenTame, InvertedCompositeTokenTame,
       PlainReceipts, TameOfOne, GateGrows
       DEF PolicyInvert

Journeys8 == {"factory", "asset", "multiplier", "stablecoin", "seize", "policy", "policyinvert",
              "invariants"}

LEMMA ScriptNames == DOMAIN Scripts = Journeys8
  BY DEF Scripts, Journeys8

\* The question is one the older chain cannot answer.
Telling(name, fn) ==
  \/ name \in {"multiplier", "seize"} /\ fn \in SinceCobalt \ SinceDenim
  \/ name = "policyinvert" /\ fn \in SinceDenim \ SinceCobalt

LEMMA SkipsAreGated ==
  ASSUME NEW name \in DOMAIN Scripts
  PROVE  /\ WellFormed(Scripts[name])
         /\ \A p \in 1 .. Len(Scripts[name]) : Scripts[name][p].do = "skip" =>
              \E q \in 1 .. p - 1 :
                /\ Asks(Scripts[name][q]) /\ Scripts[name][q].want = Scripts[name][p].want
                /\ Telling(name, Scripts[name][q].call[1])
  <1> DEFINE s == Scripts[name]
  <1>1. ASSUME NEW asked, NEW skip, Gates(s, asked, skip),
               Asks(asked), asked.want = skip.want, Telling(name, asked.call[1])
        PROVE  /\ WellFormed(s)
               /\ \A p \in 1 .. Len(s) : s[p].do = "skip" =>
                    \E q \in 1 .. p - 1 : /\ Asks(s[q]) /\ s[q].want = s[p].want
                                          /\ Telling(name, s[q].call[1])
    BY <1>1 DEF Gates
  <1>2. CASE name = "multiplier"
    <2> DEFINE probe == Probe("cobalt", <<"supportsInterface", "multiplier", "SCALED_UI_AMOUNT">>)
    <2>1. Gates(s, probe, SkipUnless("cobalt"))
      BY <1>2, MultiplierGates DEF Scripts
    <2>2. Asks(probe) /\ probe.want = SkipUnless("cobalt").want /\ Telling(name, probe.call[1])
      BY <1>2 DEF Asks, Probes, Probe, Step, SkipUnless, Telling, SinceCobalt, SinceDenim
    <2> QED
      BY <1>1, <2>1, <2>2
  <1>3. CASE name = "seize"
    <2>1. Gates(s, IsCobalt, SkipUnless("cobalt"))
      BY <1>3, SeizeGates DEF Scripts
    <2>2. Asks(IsCobalt) /\ IsCobalt.want = SkipUnless("cobalt").want
          /\ Telling(name, IsCobalt.call[1])
      BY <1>3
         DEF Asks, Probes, IsCobalt, ProbeView, Step, SkipUnless, Telling, SinceCobalt,
             SinceDenim
    <2> QED
      BY <1>1, <2>1, <2>2
  <1>4. CASE name = "policyinvert"
    <2> DEFINE probe == ProbeView("denim", <<"invertedPolicyId", R, "ALWAYS_ALLOW">>)
    <2>1. Gates(s, probe, SkipUnless("denim"))
      BY <1>4, PolicyInvertGates DEF Scripts
    <2>2. Asks(probe) /\ probe.want = SkipUnless("denim").want /\ Telling(name, probe.call[1])
      BY <1>4 DEF Asks, Probes, ProbeView, Step, SkipUnless, Telling, SinceCobalt, SinceDenim
    <2> QED
      BY <1>1, <2>1, <2>2
  <1>5. CASE name \in {"factory", "asset", "stablecoin", "policy", "invariants"}
    <2>1. Tame(s)
      BY <1>5, UngatedTame DEF Scripts
    <2> QED
      BY <2>1 DEF Tame, PlainStep
  <1> QED
    BY <1>2, <1>3, <1>4, <1>5, ScriptNames DEF Journeys8

-----------------------------------------------------------------------------
(* The inductive invariant.                                                *)

Surface == {"ASSET", "STABLECOIN", "POLICY"}

Verdicts == [name : DOMAIN Scripts, status : {"pass", "fail", "skip"}, hit : BOOLEAN,
             fork : Nat, features : SUBSET Surface]

\* Why a skip is right: SkipsAreEarned of one verdict.
Earned(v) ==
  v.status = "skip" =>
    \/ v.hit
    \/ ~(Surface \subseteq v.features)
    \/ v.name \in {"multiplier", "seize"} /\ v.fork < Cobalt
    \/ v.name = "policyinvert" /\ v.fork < Denim

ChainTyped == DOMAIN chain = ChainFields /\ chain.fork \in Nat /\ chain.features \in SUBSET Surface
PlanTyped == todo \in Seq(DOMAIN Scripts) /\ (phase # "ended" => todo # <<>>)
JourneyTyped ==
  DOMAIN j = DOMAIN Fresh /\ j.pos \in Nat \ {0} /\ j.fork \in Nat /\ j.hit \in BOOLEAN

\* The chain only gets newer under a journey.
UnderWay ==
  phase \in {"fund", "faucet", "features", "running"} =>
    j.fork <= chain.fork /\ "always" \in j.flags
AtStart == phase \in {"fund", "faucet", "features"} => j.pos = 1

\* A question got its answer: the flag is raised, or the journey was hit, or
\* already the chain on which it began could not answer.
Settled(e, h) == Asks(e) => e.want \in h.flags \/ h.hit \/ ~Shipped(h, e.call[1])

\* So it is with all questions behind the journey.
Probed ==
  phase = "running" => \A q \in 1 .. Len(Script) : q < j.pos => Settled(Script[q], j)

JourneysInvariant ==
  /\ ChainTyped /\ PlanTyped /\ JourneyTyped /\ UnderWay /\ AtStart /\ Probed
  /\ results \in Seq(Verdicts) /\ \A i \in DOMAIN results : Earned(results[i])

\* A set of numbers that is not empty has a least one.
LEMMA Least ==
  ASSUME NEW T \in SUBSET Nat, T # {}
  PROVE  \E x \in T : \A y \in T : x <= y
  <1> DEFINE Below == {ss \in Nat \X Nat : ss[1] < ss[2]}
  <1>1. PICK x \in T : \A y \in T : <<y, x>> \notin Below
    <2>1. IsWellFoundedOn(Below, Nat)
      BY NatLessThanWellFounded DEF OpToRel
    <2> HIDE DEF Below
    <2> QED
      BY <2>1, WFMin
  <1>2. ASSUME NEW y \in T, ~(x <= y) PROVE FALSE
    <2>1. <<y, x>> \in Nat \X Nat /\ <<y, x>>[1] < <<y, x>>[2]
      BY <1>2
    <2>2. <<y, x>> \in Below
      BY <2>1, Zenon
    <2> QED
      BY <2>2, <1>1
  <1> QED
    BY <1>2

LEMMA ScriptFormed ==
  ASSUME JourneysInvariant, phase # "ended"
  PROVE  Head(todo) \in DOMAIN Scripts /\ WellFormed(Script) /\ Len(Script) \in Nat
  <1>1. Head(todo) \in DOMAIN Scripts
    BY HeadTailProperties DEF JourneysInvariant, PlanTyped
  <1> QED
    BY <1>1, SkipsAreGated DEF Script, WellFormed

\* What the journey in progress keeps when it goes on.
Carries(h) ==
  /\ DOMAIN h = DOMAIN Fresh /\ h.fork = j.fork /\ j.flags \subseteq h.flags
  /\ h.hit \in BOOLEAN /\ (j.hit => h.hit)

Newer(s, r) ==
  DOMAIN r = ChainFields /\ r.fork \in Nat /\ s.fork <= r.fork /\ r.features \in SUBSET Surface

LEMMA SameNodeNewer ==
  ASSUME ChainTyped, NEW r, SameNode(chain, r)
  PROVE  Newer(chain, r)
  BY DEF ChainTyped, SameNode, Newer

LEMMA SettledStays ==
  ASSUME NEW h, Carries(h), NEW e, Settled(e, j)
  PROVE  Settled(e, h)
  BY DEF Carries, Settled, Shipped

LEMMA OnwardKeeps ==
  ASSUME JourneysInvariant, phase = "running", phase' = "running", todo' = todo,
         results' = results, Newer(chain, chain'), Carries(j'), j'.pos \in Nat \ {0},
         \A q \in 1 .. Len(Script) : q < j'.pos => q < j.pos \/ Settled(Script[q], j')
  PROVE  JourneysInvariant'
  <1>1. ChainTyped'
    BY DEF ChainTyped, Newer
  <1>2. PlanTyped'
    BY DEF PlanTyped, JourneysInvariant
  <1>3. JourneyTyped'
    BY DEF JourneyTyped, JourneysInvariant, Carries
  <1>4. UnderWay' /\ AtStart'
    BY DEF UnderWay, AtStart, JourneysInvariant, Carries, Newer, ChainTyped, JourneyTyped
  <1>5. \A q \in 1 .. Len(Script) : q < j'.pos => Settled(Script[q], j')
    BY SettledStays DEF JourneysInvariant, Probed
  <1>6. Probed'
    BY <1>5 DEF Probed, Script
  <1>7. results' \in Seq(Verdicts) /\ \A i \in DOMAIN results' : Earned(results'[i])
    BY DEF JourneysInvariant
  <1> QED
    BY <1>1, <1>2, <1>3, <1>4, <1>6, <1>7 DEF JourneysInvariant

Verdict(status, hit) ==
  [name |-> Head(todo), status |-> status, hit |-> hit, fork |-> j.fork,
   features |-> chain.features]

LEMMA FinishKeeps ==
  ASSUME JourneysInvariant, phase \in {"features", "running"},
         NEW status \in {"pass", "fail", "skip"}, NEW hit \in BOOLEAN,
         Newer(chain, chain'), Finish(status, hit), Earned(Verdict(status, hit))
  PROVE  JourneysInvariant'
  <1>1. ChainTyped'
    BY DEF ChainTyped, Newer
  <1>2. todo \in Seq(DOMAIN Scripts) /\ todo # <<>>
    BY DEF JourneysInvariant, PlanTyped
  <1>3. todo' = Tail(todo) /\ (phase' # "ended" => todo' # <<>>)
    BY DEF Finish, End
  <1>4. PlanTyped'
    BY <1>2, <1>3, HeadTailProperties DEF PlanTyped
  <1>5. j' = Fresh /\ phase' \in {"connect", "ended"}
    BY DEF Finish, End, JourneysInvariant
  <1>6. JourneyTyped'
    BY <1>5 DEF JourneyTyped, Fresh
  <1>7. UnderWay' /\ AtStart' /\ Probed'
    BY <1>5 DEF UnderWay, AtStart, Probed
  <1>8. Verdict(status, hit) \in Verdicts
    BY <1>2, HeadTailProperties DEF Verdict, Verdicts, JourneysInvariant, ChainTyped, JourneyTyped
  <1>9. results' = Append(results, Verdict(status, hit))
    BY Zenon DEF Finish, Verdict
  <1>10. results' \in Seq(Verdicts) /\ \A i \in DOMAIN results' : Earned(results'[i])
    <2>1. results \in Seq(Verdicts) /\ \A i \in DOMAIN results : Earned(results[i])
      BY DEF JourneysInvariant
    <2> QED
      BY <1>8, <1>9, <2>1, AppendProperties
  <1> QED
    BY <1>1, <1>4, <1>6, <1>7, <1>10 DEF JourneysInvariant

LEMMA AdvanceKeeps ==
  ASSUME JourneysInvariant, phase = "running", Newer(chain, chain'),
         NEW next, Carries(next), next.pos = j.pos, Settled(Current, next), Advance(next)
  PROVE  JourneysInvariant'
  <1>1. /\ phase' = "running" /\ todo' = todo /\ results' = results
        /\ j' = [next EXCEPT !.pos = @ + 1]
    BY DEF Advance, Turn
  <1>2. DOMAIN next = DOMAIN Fresh /\ next.pos \in Nat \ {0}
    BY DEF Carries, JourneysInvariant, JourneyTyped
  <1>3. /\ DOMAIN j' = DOMAIN Fresh /\ j'.pos = j.pos + 1 /\ j'.fork = next.fork
        /\ j'.flags = next.flags /\ j'.hit = next.hit
    BY <1>1, <1>2 DEF Fresh
  <1>4. Carries(j') /\ j'.pos \in Nat \ {0}
    BY <1>2, <1>3 DEF Carries
  <1>5. Settled(Current, j')
    BY <1>3 DEF Settled, Shipped
  <1>6. \A q \in 1 .. Len(Script) : q < j'.pos => q < j.pos \/ Settled(Script[q], j')
    BY <1>2, <1>3, <1>5, ScriptFormed DEF Current
  <1> QED
    BY <1>1, <1>4, <1>6, OnwardKeeps

\* The check that failed is left, and every step that is jumped belongs to it.
LEMMA LeavesCheck ==
  ASSUME JourneysInvariant, phase = "running", j.pos <= Len(Script)
  PROVE  /\ NextCheck \in j.pos + 1 .. Len(Script) + 1
         /\ \A q \in j.pos + 1 .. NextCheck - 1 : Script[q].check = Current.check
  <1> DEFINE Leaves(p) == p > Len(Script) \/ Script[p].check # Current.check
             candidates == {p \in j.pos + 1 .. Len(Script) + 1 : Leaves(p)}
  <1>1. Len(Script) \in Nat /\ j.pos \in Nat \ {0}
    BY ScriptFormed DEF JourneysInvariant, JourneyTyped
  <1>2. candidates \in SUBSET Nat /\ candidates # {}
    <2>1. Len(Script) + 1 \in candidates
      BY <1>1
    <2> QED
      BY <1>1, <2>1
  <1>3. PICK p \in candidates : \A q \in candidates : p <= q
    BY <1>2, Least
  <1>4. /\ p \in j.pos + 1 .. Len(Script) + 1
        /\ p > Len(Script) \/ Script[p].check # Current.check
        /\ \A q \in j.pos + 1 .. p - 1 : Script[q].check = Current.check
    BY <1>1, <1>3
  <1> QED
    BY <1>4, Zenon DEF NextCheck

LEMMA FailKeeps ==
  ASSUME JourneysInvariant, phase = "running", j.pos <= Len(Script), Newer(chain, chain'),
         NEW at, Carries(at), Fail(at)
  PROVE  JourneysInvariant'
  <1>1. CASE Current.check = 0
    <2>1. Finish("fail", at.hit) /\ at.hit \in BOOLEAN
      BY <1>1 DEF Fail, Carries
    <2>2. Earned(Verdict("fail", at.hit))
      BY DEF Earned, Verdict
    <2> QED
      BY <2>1, <2>2, FinishKeeps
  <1>2. CASE Current.check # 0
    <2>1. /\ phase' = "running" /\ todo' = todo /\ results' = results
          /\ j' = [at EXCEPT !.findings = @ \union {Current.check}, !.pos = NextCheck]
      BY <1>2 DEF Fail, Turn
    <2>2. /\ DOMAIN j' = DOMAIN Fresh /\ j'.pos = NextCheck /\ j'.fork = at.fork
          /\ j'.flags = at.flags /\ j'.hit = at.hit
      BY <2>1 DEF Fresh, Carries
    <2>3. Len(Script) \in Nat /\ j.pos \in Nat \ {0}
      BY ScriptFormed DEF JourneysInvariant, JourneyTyped
    <2>4. Carries(j') /\ j'.pos \in Nat \ {0}
      BY <2>2, <2>3, LeavesCheck DEF Carries
    <2>5. ASSUME NEW q \in 1 .. Len(Script), q < j'.pos
          PROVE  q < j.pos \/ Settled(Script[q], j')
      <3>1. q < j.pos \/ Script[q].check = Current.check
        BY <2>2, <2>3, <2>5, LeavesCheck DEF Current
      <3> QED
        BY <1>2, <3>1 DEF Settled, Asks
    <2> QED
      BY <2>1, <2>4, <2>5, OnwardKeeps
  <1> QED
    BY <1>1, <1>2

-----------------------------------------------------------------------------
(* The actions, one lemma each.                                            *)

LEMMA AnswerNewer ==
  ASSUME JourneysInvariant
  PROVE  Newer(chain, Answer.chain)
  <1>1. Framed(chain, Answer)
    BY PerformFrames DEF Answer, JourneysInvariant, ChainTyped
  <1> QED
    BY <1>1, SameNodeNewer DEF Framed, JourneysInvariant

LEMMA ChainItselfNewer ==
  ASSUME JourneysInvariant
  PROVE  Newer(chain, chain)
  BY DEF Newer, JourneysInvariant, ChainTyped

LEMMA JourneyCarries ==
  ASSUME JourneysInvariant
  PROVE  Carries(j)
  BY DEF Carries, JourneysInvariant, JourneyTyped

\* A step that asks nothing of the fork may advance or fail.
LEMMA StepKeeps ==
  ASSUME JourneysInvariant, NEW kinds, Running(kinds), kinds \intersect Probes = {},
         Newer(chain, chain'), NEW next, Carries(next), next.pos = j.pos,
         Advance(next) \/ Fail(j)
  PROVE  JourneysInvariant'
  <1>1. phase = "running" /\ j.pos <= Len(Script) /\ Current.do \in kinds
    BY DEF Running
  <1>2. CASE Advance(next)
    <2>1. Settled(Current, next)
      BY <1>1 DEF Settled, Asks
    <2> QED
      BY <1>1, <1>2, <2>1, AdvanceKeeps
  <1>3. CASE Fail(j)
    BY <1>1, <1>3, FailKeeps, JourneyCarries
  <1> QED
    BY <1>2, <1>3

LEMMA StayKeeps ==
  ASSUME JourneysInvariant, phase = "running", phase' = phase, todo' = todo, results' = results,
         j' = j, Newer(chain, chain')
  PROVE  JourneysInvariant'
  BY OnwardKeeps, JourneyCarries DEF JourneysInvariant, JourneyTyped

LEMMA ConnectKeeps ==
  ASSUME JourneysInvariant, Connect
  PROVE  JourneysInvariant'
  <1>1. /\ phase = "connect" /\ phase' = "fund" /\ todo' = todo /\ results' = results
        /\ chain' = chain /\ j' = Begin(Head(todo))
    BY DEF Connect, Turn
  <1>2. /\ DOMAIN j' = DOMAIN Fresh /\ j'.pos = 1 /\ j'.fork = chain.fork /\ j'.hit = FALSE
        /\ "always" \in j'.flags
    BY <1>1 DEF Begin, Fresh
  <1>3. chain.fork \in Nat
    BY DEF JourneysInvariant, ChainTyped
  <1>4. JourneyTyped'
    <2>1. (DOMAIN j = DOMAIN Fresh)'
      BY <1>2 DEF Fresh
    <2>2. (j.pos \in Nat \ {0})'
      BY <1>2
    <2>3. (j.fork \in Nat)'
      BY <1>2, <1>3
    <2>4. (j.hit \in BOOLEAN)'
      BY <1>2
    <2> QED
      BY <2>1, <2>2, <2>3, <2>4 DEF JourneyTyped
  <1>5. j'.fork <= chain'.fork
    BY <1>1, <1>2, <1>3
  <1>6. UnderWay'
    BY <1>2, <1>5 DEF UnderWay
  <1>7. AtStart' /\ Probed'
    BY <1>1, <1>2 DEF AtStart, Probed
  <1>8. ChainTyped' /\ PlanTyped'
    BY <1>1 DEF JourneysInvariant, ChainTyped, PlanTyped
  <1> QED
    BY <1>1, <1>4, <1>6, <1>7, <1>8 DEF JourneysInvariant

\* The steps between two journeys change nothing but the phase.
LEMMA PhaseKeeps ==
  ASSUME JourneysInvariant, chain' = chain, j' = j, todo' = todo, results' = results,
         phase \in {"connect", "fund", "faucet", "features"},
         \/ phase' = "ended"
         \/ phase \in {"fund", "faucet", "features"}
            /\ phase' \in {"faucet", "features", "running"}
  PROVE  JourneysInvariant'
  <1>1. ChainTyped' /\ PlanTyped' /\ JourneyTyped'
    BY DEF JourneysInvariant, ChainTyped, PlanTyped, JourneyTyped
  <1>2. UnderWay' /\ AtStart'
    BY DEF JourneysInvariant, UnderWay, AtStart
  <1>3. Probed'
    <2>1. ASSUME phase' = "running" PROVE j.pos = 1
      BY <2>1 DEF JourneysInvariant, AtStart
    <2> QED
      BY <2>1 DEF Probed
  <1> QED
    BY <1>1, <1>2, <1>3 DEF JourneysInvariant

LEMMA EnsureDeployerFundedKeeps ==
  ASSUME JourneysInvariant, EnsureDeployerFunded
  PROVE  JourneysInvariant'
  BY PhaseKeeps DEF EnsureDeployerFunded, Turn, End

LEMMA AwaitFaucetKeeps ==
  ASSUME JourneysInvariant, AwaitFaucet
  PROVE  JourneysInvariant'
  BY PhaseKeeps DEF AwaitFaucet, Turn, End

LEMMA FeaturesActivatedKeeps ==
  ASSUME JourneysInvariant, FeaturesActivated
  PROVE  JourneysInvariant'
  <1>1. CASE Surface \subseteq chain.features
    BY <1>1, PhaseKeeps DEF FeaturesActivated, Turn, Surface
  <1>2. CASE ~(Surface \subseteq chain.features)
    <2>1. phase = "features" /\ chain' = chain /\ Finish("skip", FALSE)
      BY <1>2 DEF FeaturesActivated, Surface
    <2>2. Earned(Verdict("skip", FALSE))
      BY <1>2 DEF Earned, Verdict
    <2> QED
      BY <2>1, <2>2, FinishKeeps, ChainItselfNewer
  <1> QED
    BY <1>1, <1>2

LEMMA SendTxKeeps ==
  ASSUME JourneysInvariant, SendTx
  PROVE  JourneysInvariant'
  <1>1. \A logs : Carries(Recorded(logs)) /\ Recorded(logs).pos = j.pos
    BY DEF Recorded, Carries, JourneysInvariant, JourneyTyped, Fresh
  <1>2. /\ Running({"send"}) /\ chain' \in {chain, Answer.chain}
        /\ Advance(Recorded(Answer.logs)) \/ Fail(j)
    BY Zenon DEF SendTx
  <1>3. {"send"} \intersect Probes = {} /\ Newer(chain, chain')
    BY <1>2, AnswerNewer, ChainItselfNewer DEF Probes
  <1> QED
    BY <1>1, <1>2, <1>3, StepKeeps

LEMMA CreatePolicyTxKeeps ==
  ASSUME JourneysInvariant, CreatePolicyTx
  PROVE  JourneysInvariant'
  <1>1. \A logs, names : LET next == [Recorded(logs) EXCEPT !.locals = names @@ @]
                         IN  Carries(next) /\ next.pos = j.pos
    BY DEF Recorded, Carries, JourneysInvariant, JourneyTyped, Fresh
  <1>2. /\ Running({"create"}) /\ chain' \in {chain, Answer.chain}
        /\ \/ \E names : Advance([Recorded(Answer.logs) EXCEPT !.locals = names @@ @])
           \/ Fail(j)
    BY Zenon DEF CreatePolicyTx
  <1>3. {"create"} \intersect Probes = {} /\ Newer(chain, chain')
    BY <1>2, AnswerNewer, ChainItselfNewer DEF Probes
  <1> QED
    BY <1>1, <1>2, <1>3, StepKeeps

LEMMA FundUser2Keeps ==
  ASSUME JourneysInvariant, FundUser2
  PROVE  JourneysInvariant'
  <1> DEFINE next == [j EXCEPT !.funded = TRUE]
  <1>1. Carries(next) /\ next.pos = j.pos
    BY DEF Carries, JourneysInvariant, JourneyTyped, Fresh
  <1>2. Running({"fund_user2"}) /\ Newer(chain, chain') /\ Advance(next)
    BY ChainItselfNewer DEF FundUser2
  <1>3. {"fund_user2"} \intersect Probes = {}
    BY DEF Probes
  <1> QED
    BY <1>1, <1>2, <1>3, StepKeeps

LEMMA DeployTxKeeps ==
  ASSUME JourneysInvariant, DeployTx
  PROVE  JourneysInvariant'
  <1>1. Running({"deploy"}) /\ Advance(j) /\ chain' = [chain EXCEPT !.fed = @ \union {Current.call}]
    BY DEF DeployTx
  <1>2. Newer(chain, chain')
    BY <1>1 DEF Newer, JourneysInvariant, ChainTyped, ChainFields
  <1>3. {"deploy"} \intersect Probes = {}
    BY DEF Probes
  <1> QED
    BY <1>1, <1>2, <1>3, StepKeeps, JourneyCarries

LEMMA SendExpectingRevertKeeps ==
  ASSUME JourneysInvariant, SendExpectingRevert
  PROVE  JourneysInvariant'
  <1>1. \A logs : LET next == [j EXCEPT !.last = logs] IN Carries(next) /\ next.pos = j.pos
    BY DEF Carries, JourneysInvariant, JourneyTyped, Fresh
  <1>2. /\ Running({"send_expecting_revert"}) /\ chain' = Answer.chain
        /\ Advance([j EXCEPT !.last = Answer.logs]) \/ Fail(j)
    BY Zenon DEF SendExpectingRevert, Judge
  <1>3. {"send_expecting_revert"} \intersect Probes = {} /\ Newer(chain, chain')
    BY <1>2, AnswerNewer DEF Probes
  <1> QED
    BY <1>1, <1>2, <1>3, StepKeeps

LEMMA ExpectRevertKeeps ==
  ASSUME JourneysInvariant, ExpectRevert
  PROVE  JourneysInvariant'
  <1> DEFINE kinds == {"expect_revert", "expect_abi_decode_failed", "expect_raw_panic"}
  <1>1. Running(kinds) /\ chain' = chain /\ (Advance(j) \/ Fail(j))
    BY Zenon DEF ExpectRevert, Judge
  <1>2. kinds \intersect Probes = {} /\ Newer(chain, chain')
    BY <1>1, ChainItselfNewer DEF Probes
  <1> QED
    BY <1>1, <1>2, StepKeeps, JourneyCarries

LEMMA ExpectRawRevertKeeps ==
  ASSUME JourneysInvariant, ExpectRawRevert
  PROVE  JourneysInvariant'
  <1> DEFINE kinds == {"expect_raw_revert", "probe_fails"}
  <1>1. Running(kinds) /\ chain' = chain /\ (Advance(j) \/ Fail(j))
    BY Zenon DEF ExpectRawRevert, Judge
  <1>2. kinds \intersect Probes = {} /\ Newer(chain, chain')
    BY <1>1, ChainItselfNewer DEF Probes
  <1> QED
    BY <1>1, <1>2, StepKeeps, JourneyCarries

LEMMA AssertEqKeeps ==
  ASSUME JourneysInvariant, AssertEq
  PROVE  JourneysInvariant'
  <1> DEFINE kinds == {"assert_eq", "assert_named", "assert_all_named", "assert_same"}
  <1>1. Running(kinds) /\ chain' = chain /\ (Advance(j) \/ Fail(j))
    BY Zenon DEF AssertEq, Judge
  <1>2. kinds \intersect Probes = {} /\ Newer(chain, chain')
    BY <1>1, ChainItselfNewer DEF Probes
  <1> QED
    BY <1>1, <1>2, StepKeeps, JourneyCarries

LEMMA ReadViewKeeps ==
  ASSUME JourneysInvariant, ReadView
  PROVE  JourneysInvariant'
  <1>1. \A names : LET next == [j EXCEPT !.locals = names @@ @]
                   IN  Carries(next) /\ next.pos = j.pos
    BY DEF Carries, JourneysInvariant, JourneyTyped, Fresh
  <1>2. /\ Running({"read"}) /\ chain' = chain
        /\ (\E names : Advance([j EXCEPT !.locals = names @@ @])) \/ Fail(j)
    BY Zenon DEF ReadView
  <1>3. {"read"} \intersect Probes = {} /\ Newer(chain, chain')
    BY <1>2, ChainItselfNewer DEF Probes
  <1> QED
    BY <1>1, <1>2, <1>3, StepKeeps

LEMMA ProbeForkKeeps ==
  ASSUME JourneysInvariant, ProbeFork
  PROVE  JourneysInvariant'
  <1> DEFINE raised == [j EXCEPT !.flags = @ \union {Current.want}]
  <1>1. phase = "running" /\ Newer(chain, chain')
    BY ChainItselfNewer DEF ProbeFork, Running
  <1>2. CASE Known
    <2>1. Advance(raised)
      BY <1>2 DEF ProbeFork
    <2>2. Carries(raised) /\ raised.pos = j.pos /\ Settled(Current, raised)
      BY DEF Carries, Settled, JourneysInvariant, JourneyTyped, Fresh
    <2> QED
      BY <1>1, <2>1, <2>2, AdvanceKeeps
  <1>3. CASE ~Known
    <2>1. Advance(j)
      BY <1>3 DEF ProbeFork
    <2>2. Settled(Current, j)
      BY <1>1, <1>3
         DEF Known, Shipped, Settled, JourneysInvariant, UnderWay, ChainTyped, JourneyTyped,
             Cobalt, Denim
    <2> QED
      BY <1>1, <2>1, <2>2, AdvanceKeeps, JourneyCarries
  <1> QED
    BY <1>2, <1>3

LEMMA ProbeRevertKeeps ==
  ASSUME JourneysInvariant, ProbeRevert
  PROVE  JourneysInvariant'
  <1> DEFINE raised == [j EXCEPT !.flags = @ \union {Current.want[1]}]
  <1>1. Carries(raised) /\ raised.pos = j.pos
    BY DEF Carries, JourneysInvariant, JourneyTyped, Fresh
  <1>2. Running({"probe_call"}) /\ chain' = chain /\ (Advance(raised) \/ Advance(j))
    BY Zenon DEF ProbeRevert
  <1>3. {"probe_call"} \intersect Probes = {} /\ Newer(chain, chain')
    BY <1>2, ChainItselfNewer DEF Probes
  <1> QED
    BY <1>1, <1>2, <1>3, StepKeeps, JourneyCarries

LEMMA ReadClockKeeps ==
  ASSUME JourneysInvariant, ReadClock
  PROVE  JourneysInvariant'
  <1>1. \A names : LET next == [j EXCEPT !.locals = names @@ @]
                   IN  Carries(next) /\ next.pos = j.pos
    BY DEF Carries, JourneysInvariant, JourneyTyped, Fresh
  <1>2. /\ Running({"now"}) /\ chain' = chain
        /\ \E names : Advance([j EXCEPT !.locals = names @@ @])
    BY Zenon DEF ReadClock
  <1>3. {"now"} \intersect Probes = {} /\ Newer(chain, chain')
    BY <1>2, ChainItselfNewer DEF Probes
  <1> QED
    BY <1>1, <1>2, <1>3, StepKeeps

LEMMA PollFlipKeeps ==
  ASSUME JourneysInvariant, PollFlip
  PROVE  JourneysInvariant'
  <1> DEFINE flipped == [j EXCEPT !.flags = @ \union {"flipped"}]
  <1>1. Carries(flipped) /\ flipped.pos = j.pos
    BY DEF Carries, JourneysInvariant, JourneyTyped, Fresh
  <1>2. /\ Running({"poll"}) /\ chain' = chain
        /\ \/ Advance(flipped) \/ Advance(j)
           \/ j' = j /\ Turn("running")
    BY Zenon DEF PollFlip
  <1>3. {"poll"} \intersect Probes = {} /\ Newer(chain, chain')
    BY <1>2, ChainItselfNewer DEF Probes
  <1>4. CASE Advance(flipped) \/ Advance(j)
    BY <1>1, <1>2, <1>3, <1>4, StepKeeps, JourneyCarries
  <1>5. CASE j' = j /\ Turn("running")
    BY <1>2, <1>3, <1>5, StayKeeps DEF Running, Turn
  <1> QED
    BY <1>2, <1>4, <1>5

LEMMA AssertLogKeeps ==
  ASSUME JourneysInvariant, AssertLog
  PROVE  JourneysInvariant'
  <1> DEFINE kinds == {"assert_log", "assert_no_log"}
  <1>1. Running(kinds) /\ chain' = chain /\ (Advance(j) \/ Fail(j))
    BY Zenon DEF AssertLog, Judge
  <1>2. kinds \intersect Probes = {} /\ Newer(chain, chain')
    BY <1>1, ChainItselfNewer DEF Probes
  <1> QED
    BY <1>1, <1>2, StepKeeps, JourneyCarries

LEMMA AssertLogOrderKeeps ==
  ASSUME JourneysInvariant, AssertLogOrder
  PROVE  JourneysInvariant'
  <1> DEFINE kinds == {"assert_log_order"}
  <1>1. Running(kinds) /\ chain' = chain /\ (Advance(j) \/ Fail(j))
    BY Zenon DEF AssertLogOrder, Judge
  <1>2. kinds \intersect Probes = {} /\ Newer(chain, chain')
    BY <1>1, ChainItselfNewer DEF Probes
  <1> QED
    BY <1>1, <1>2, StepKeeps, JourneyCarries

LEMMA EventArgsKeeps ==
  ASSUME JourneysInvariant, EventArgs
  PROVE  JourneysInvariant'
  <1> DEFINE kinds == {"event_args", "event_times", "composite_children_from"}
  <1>1. Running(kinds) /\ chain' = chain /\ (Advance(j) \/ Fail(j))
    BY Zenon DEF EventArgs, Judge
  <1>2. kinds \intersect Probes = {} /\ Newer(chain, chain')
    BY <1>1, ChainItselfNewer DEF Probes
  <1> QED
    BY <1>1, <1>2, StepKeeps, JourneyCarries

LEMMA AssertEventsEmittedKeeps ==
  ASSUME JourneysInvariant, AssertEventsEmitted
  PROVE  JourneysInvariant'
  <1> DEFINE kinds == {"assert_events_emitted"}
  <1>1. Running(kinds) /\ chain' = chain /\ (Advance(j) \/ Fail(j))
    BY Zenon DEF AssertEventsEmitted, Judge
  <1>2. kinds \intersect Probes = {} /\ Newer(chain, chain')
    BY <1>1, ChainItselfNewer DEF Probes
  <1> QED
    BY <1>1, <1>2, StepKeeps, JourneyCarries

\* The flag asked for is not raised: so the fork is too old, or j was hit.
LEMMA SkipJourneyKeeps ==
  ASSUME JourneysInvariant, SkipJourney
  PROVE  JourneysInvariant'
  <1>1. /\ phase = "running" /\ j.pos <= Len(Script) /\ Current.do = "skip" /\ chain' = chain
        /\ IF Current.want \in j.flags THEN Advance(j) ELSE Finish("skip", j.hit)
    BY DEF SkipJourney, Running
  <1>2. Newer(chain, chain') /\ Carries(j)
    BY <1>1, ChainItselfNewer, JourneyCarries
  <1>3. CASE Current.want \in j.flags
    <2>1. Settled(Current, j)
      BY <1>1 DEF Settled, Asks, Probes
    <2> QED
      BY <1>1, <1>2, <1>3, <2>1, AdvanceKeeps
  <1>4. CASE Current.want \notin j.flags
    <2>1. Head(todo) \in DOMAIN Scripts /\ j.pos \in 1 .. Len(Script) /\ j.fork \in Nat
      BY <1>1, ScriptFormed DEF JourneysInvariant, JourneyTyped
    <2>2. PICK q \in 1 .. j.pos - 1 :
            /\ Asks(Script[q]) /\ Script[q].want = Current.want
            /\ Telling(Head(todo), Script[q].call[1])
      BY <1>1, <2>1, SkipsAreGated DEF Script, Current
    <2>3. q \in 1 .. Len(Script) /\ q < j.pos
      BY <2>1, <2>2, <1>1, ScriptFormed
    <2>4. j.hit \/ ~Shipped(j, Script[q].call[1])
      BY <1>1, <1>4, <2>2, <2>3 DEF JourneysInvariant, Probed, Settled
    <2>5. Earned(Verdict("skip", j.hit))
      BY <2>1, <2>2, <2>4 DEF Earned, Verdict, Telling, Shipped, Cobalt, Denim
    <2>6. j.hit \in BOOLEAN
      BY DEF JourneysInvariant, JourneyTyped
    <2> QED
      BY <1>1, <1>2, <1>4, <2>5, <2>6, FinishKeeps
  <1> QED
    BY <1>3, <1>4

LEMMA NotApplicableKeeps ==
  ASSUME JourneysInvariant, NotApplicable
  PROVE  JourneysInvariant'
  <1>1. phase = "running" /\ Current.when \notin j.flags /\ Advance(j) /\ Newer(chain, chain')
    BY ChainItselfNewer DEF NotApplicable
  <1>2. Settled(Current, j)
    BY <1>1 DEF Settled, Asks, JourneysInvariant, UnderWay
  <1> QED
    BY <1>1, <1>2, AdvanceKeeps, JourneyCarries

LEMMA JourneyEndsKeeps ==
  ASSUME JourneysInvariant, JourneyEnds
  PROVE  JourneysInvariant'
  <1>1. PICK status \in {"pass", "fail"} : Finish(status, j.hit)
    BY DEF JourneyEnds
  <1>2. phase = "running" /\ Newer(chain, chain') /\ j.hit \in BOOLEAN
    BY ChainItselfNewer DEF JourneyEnds, JourneysInvariant, JourneyTyped
  <1>3. Earned(Verdict(status, j.hit))
    BY <1>1 DEF Earned, Verdict
  <1> QED
    BY <1>1, <1>2, <1>3, FinishKeeps

LEMMA NodeFailsKeeps ==
  ASSUME JourneysInvariant, NodeFails
  PROVE  JourneysInvariant'
  <1> DEFINE struck == [j EXCEPT !.hit = TRUE]
  <1>1. Carries(struck) /\ struck.pos = j.pos /\ Settled(Current, struck)
    BY DEF Carries, Settled, JourneysInvariant, JourneyTyped, Fresh
  <1>2. /\ phase = "running" /\ j.pos <= Len(Script) /\ chain' \in {chain, Answer.chain}
        /\ Advance(struck) \/ Fail(struck)
    BY Zenon DEF NodeFails
  <1>3. Newer(chain, chain')
    BY <1>2, AnswerNewer, ChainItselfNewer
  <1>4. CASE Advance(struck)
    BY <1>1, <1>2, <1>3, <1>4, AdvanceKeeps
  <1>5. CASE Fail(struck)
    BY <1>1, <1>2, <1>3, <1>5, FailKeeps
  <1> QED
    BY <1>2, <1>4, <1>5

LEMMA NodeFailsBeforeKeeps ==
  ASSUME JourneysInvariant, NodeFailsBefore
  PROVE  JourneysInvariant'
  <1>1. CASE phase = "features"
    <2>1. Finish("skip", TRUE) /\ Newer(chain, chain')
      BY <1>1, ChainItselfNewer DEF NodeFailsBefore
    <2>2. Earned(Verdict("skip", TRUE))
      BY DEF Earned, Verdict
    <2> QED
      BY <1>1, <2>1, <2>2, FinishKeeps
  <1>2. CASE phase # "features"
    BY <1>2, PhaseKeeps DEF NodeFailsBefore, End
  <1> QED
    BY <1>1, <1>2

LEMMA StrangerCreatesKeeps ==
  ASSUME JourneysInvariant, StrangerCreates
  PROVE  JourneysInvariant'
  <1>1. \A c : Newer(chain, Call(chain, "stranger", c).chain)
    BY CallFrames, SameNodeNewer DEF Framed, JourneysInvariant, ChainTyped
  <1>2. Newer(chain, chain')
    BY <1>1 DEF StrangerCreates
  <1> QED
    BY <1>2, StayKeeps DEF StrangerCreates

LEMMA UpgradeKeeps ==
  ASSUME JourneysInvariant, Upgrade
  PROVE  JourneysInvariant'
  <1>1. Newer(chain, chain')
    BY DEF Upgrade, Newer, JourneysInvariant, ChainTyped, ChainFields
  <1> QED
    BY <1>1, StayKeeps DEF Upgrade

LEMMA TickKeeps ==
  ASSUME JourneysInvariant, Tick
  PROVE  JourneysInvariant'
  <1>1. Newer(chain, chain')
    BY DEF Tick, Newer, JourneysInvariant, ChainTyped, ChainFields
  <1>2. Carries(j') /\ j'.pos = j.pos
    BY DEF Tick, Carries, JourneysInvariant, JourneyTyped, Fresh
  <1>3. phase = "running" /\ phase' = phase /\ todo' = todo /\ results' = results
    BY DEF Tick
  <1> QED
    BY <1>1, <1>2, <1>3, OnwardKeeps DEF JourneysInvariant, JourneyTyped

LEMMA JourneysNext == JourneysInvariant /\ [Next]_vars => JourneysInvariant'
  <1> SUFFICES ASSUME JourneysInvariant, [Next]_vars PROVE JourneysInvariant'
    OBVIOUS
  <1>1. CASE Client
    BY <1>1, ConnectKeeps, EnsureDeployerFundedKeeps, AwaitFaucetKeeps,
       FeaturesActivatedKeeps, SendTxKeeps, CreatePolicyTxKeeps, FundUser2Keeps,
       DeployTxKeeps, SendExpectingRevertKeeps, ExpectRevertKeeps, ExpectRawRevertKeeps,
       AssertEqKeeps, ReadViewKeeps, ProbeForkKeeps, ProbeRevertKeeps, ReadClockKeeps,
       PollFlipKeeps, AssertLogKeeps, AssertLogOrderKeeps, EventArgsKeeps,
       AssertEventsEmittedKeeps, SkipJourneyKeeps, NotApplicableKeeps, JourneyEndsKeeps
       DEF Client
  <1>2. CASE World
    BY <1>2, NodeFailsKeeps, NodeFailsBeforeKeeps, StrangerCreatesKeeps, UpgradeKeeps,
       TickKeeps
       DEF World
  <1>3. CASE UNCHANGED vars
    BY <1>3
       DEF vars, runner, JourneysInvariant, ChainTyped, PlanTyped, JourneyTyped, UnderWay, AtStart,
           Probed, Script
  <1>4. CASE Stopped
    BY <1>3, <1>4 DEF Stopped
  <1> QED
    BY <1>1, <1>2, <1>3, <1>4 DEF Next

-----------------------------------------------------------------------------
(* The beginning.                                                          *)

LEMMA EitherPart ==
  ASSUME NEW S, NEW s \in Seq(S), NEW t \in Seq(S), s # <<>> \/ t # <<>>
  PROVE  s \o t \in Seq(S) /\ s \o t # <<>>
  OBVIOUS

\* A command line that is not refused and names something plans something.
LEMMA PlanPlans ==
  ASSUME NEW argv
  PROVE  /\ Plan(argv) \in Seq(DOMAIN Scripts)
         /\ ~BadUsage(argv) /\ Names(argv) # {} => Plan(argv) # <<>>
  <1> DEFINE If(i) == IF Names(argv) \intersect {"all", ORDER[i]} # {} THEN <<ORDER[i]>> ELSE <<>>
  <1>1. \A i \in 1 .. 8 : ORDER[i] \in DOMAIN Scripts
    BY ScriptNames DEF ORDER, Journeys8
  <1>2. \A name \in DOMAIN Scripts : \E i \in 1 .. 8 : ORDER[i] = name
    BY ScriptNames DEF ORDER, Journeys8
  <1>3. ASSUME NEW i \in 1 .. 8
        PROVE  /\ If(i) \in Seq(DOMAIN Scripts)
               /\ Names(argv) \intersect {"all", ORDER[i]} # {} => If(i) # <<>>
    <2>1. <<ORDER[i]>> \in Seq(DOMAIN Scripts) /\ <<ORDER[i]>> # <<>>
      BY <1>1, <1>3
    <2>2. CASE Names(argv) \intersect {"all", ORDER[i]} # {}
      <3>1. If(i) = <<ORDER[i]>>
        BY <2>2
      <3> QED
        BY <2>1, <3>1
    <2>3. CASE Names(argv) \intersect {"all", ORDER[i]} = {}
      <3>1. If(i) = <<>>
        BY <2>3
      <3>2. <<>> \in Seq(DOMAIN Scripts)
        OBVIOUS
      <3> QED
        BY <2>3, <3>1, <3>2
    <2> QED
      BY <2>2, <2>3
  <1>4. Plan(argv) = If(1) \o If(2) \o If(3) \o If(4) \o If(5) \o If(6) \o If(7) \o If(8)
    BY DEF Plan
  <1> HIDE DEF If
  <1>5. Plan(argv) \in Seq(DOMAIN Scripts)
    BY <1>3, <1>4, ConcatProperties
  <1>6. ASSUME ~BadUsage(argv), Names(argv) # {}
        PROVE  \E i \in 1 .. 8 : If(i) # <<>>
    <2>1. "all" \in Names(argv) \/ \E name \in DOMAIN Scripts : name \in Names(argv)
      BY <1>6 DEF BadUsage
    <2>2. \E i \in 1 .. 8 : Names(argv) \intersect {"all", ORDER[i]} # {}
      BY <1>2, <2>1
    <2> QED
      BY <1>3, <2>2
  <1>7. (\E i \in 1 .. 8 : If(i) # <<>>) => Plan(argv) # <<>>
    <2>1. /\ If(1) \in Seq(DOMAIN Scripts) /\ If(2) \in Seq(DOMAIN Scripts)
          /\ If(3) \in Seq(DOMAIN Scripts) /\ If(4) \in Seq(DOMAIN Scripts)
          /\ If(5) \in Seq(DOMAIN Scripts) /\ If(6) \in Seq(DOMAIN Scripts)
          /\ If(7) \in Seq(DOMAIN Scripts) /\ If(8) \in Seq(DOMAIN Scripts)
      BY <1>3
    <2>2. ASSUME NEW i \in 1 .. 8, If(i) # <<>>
          PROVE  \/ If(1) # <<>> \/ If(2) # <<>> \/ If(3) # <<>> \/ If(4) # <<>>
                 \/ If(5) # <<>> \/ If(6) # <<>> \/ If(7) # <<>> \/ If(8) # <<>>
      BY <2>2
    <2> QED
      BY <1>4, <2>1, <2>2, EitherPart
  <1> QED
    BY <1>5, <1>6, <1>7

LEMMA JourneysInit == Init => JourneysInvariant
  <1> SUFFICES ASSUME Init PROVE JourneysInvariant
    OBVIOUS
  <1>1. PICK argv \in Args :
          /\ todo = IF BadUsage(argv) THEN <<>> ELSE Plan(argv)
          /\ phase = IF BadUsage(argv) \/ Names(argv) = {} THEN "ended" ELSE "connect"
    BY Zenon DEF Init
  <1>2. ChainTyped
    <2>1. chain.fork \in {Beryl, Cobalt, Denim}
      BY SMTT(60) DEF Init
    <2>2. chain.features \in SUBSET Surface
      BY SMTT(60) DEF Init, Surface
    <2>3. DOMAIN chain = ChainFields
      BY SMTT(60) DEF Init, ChainFields
    <2> QED
      BY <2>1, <2>2, <2>3 DEF ChainTyped, Beryl, Cobalt, Denim
  <1>3. PlanTyped
    <2>1. /\ Plan(argv) \in Seq(DOMAIN Scripts)
          /\ ~BadUsage(argv) /\ Names(argv) # {} => Plan(argv) # <<>>
      BY PlanPlans
    <2>2. CASE BadUsage(argv)
      BY <1>1, <2>2 DEF PlanTyped
    <2>3. CASE ~BadUsage(argv)
      <3>1. todo = Plan(argv) /\ (Names(argv) = {} => phase = "ended")
        BY <1>1, <2>3
      <3> QED
        BY <2>1, <2>3, <3>1 DEF PlanTyped
    <2> QED
      BY <2>2, <2>3
  <1>4. j = Fresh /\ results = <<>>
    BY DEF Init
  <1>5. JourneyTyped /\ UnderWay /\ AtStart /\ Probed
    BY <1>1, <1>4 DEF JourneyTyped, Fresh, UnderWay, AtStart, Probed
  <1>6. results \in Seq(Verdicts) /\ \A i \in DOMAIN results : Earned(results[i])
    BY <1>4
  <1> QED
    BY <1>2, <1>3, <1>5, <1>6 DEF JourneysInvariant

LEMMA InvariantEarns == JourneysInvariant => SkipsAreEarned
  BY DEF JourneysInvariant, SkipsAreEarned, Earned, Surface

\* The inductive invariant of the runner holds (src/script/smoke/__main__.py
\* and chain.py): whatever a journey has asked of the fork is answered by a
\* flag, unless the journey was hit or the chain it began on was too old.
THEOREM JourneysInvariantHolds == Spec => []JourneysInvariant
  BY JourneysInit, JourneysNext, PTL DEF Spec

\* A journey is reported as skipped only where a feature is off or the fork is
\* too old, for any command line, any bug of the implementation, any number of
\* node failures, upgrades and strangers in any order: chain.py's skip and
\* features_activated never hide a check that could have been made.
THEOREM SkipsEarned == Spec => []SkipsAreEarned
  BY JourneysInvariantHolds, InvariantEarns, PTL

=============================================================================
